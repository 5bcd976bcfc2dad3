------------------------ MODULE MCLedgerConcurrency ------------------------
\* Symmetry and bounds for the runs of LedgerConcurrency.
EXTENDS LedgerConcurrency, TLC

\* Requests and payment rows are told apart by their contents alone.
Interchangeable == Permutations(Requests) \cup Permutations(Payments)

\* An edit of the total ends what MoneyIsConsistent is about, and entries by
\* hand are combined with one payment only.
Bounded ==
    /\ "edited" \notin marks
    /\ marks \cap {"byHand", "raced"} # {} =>
           Cardinality({p \in Payments : payments[p].status # "ABSENT"}) <= 1
=============================================================================
