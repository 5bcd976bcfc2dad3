\* Three requests compete for the counter while the prefix changes under them;
\* one transaction may be cut off.
SPECIFICATION FairSpec
CONSTANTS
    Requests = {r1, r2, r3}
    Prefixes = {"INV", "FAC"}
    FirstPrefix = "INV"
    NumberInputs = {}
    MaxNumber = 2
    MaxAborts = 1
    NoOne = NoOne
INVARIANTS TypeOK CountMatches AheadOfIssued Gapless
PROPERTIES ImplementsSeries CreationProgress
