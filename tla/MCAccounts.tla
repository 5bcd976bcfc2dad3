----------------------------- MODULE MCAccounts -----------------------------
EXTENDS Accounts, TLC

AccountSymmetry ==
    Permutations(Registered) \cup Permutations(Sessions) \cup Permutations(Requests)
=============================================================================
