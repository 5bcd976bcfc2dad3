SPECIFICATION Spec
CONSTANTS
    Payments = {p1, p2, p3}
    Amounts = {1, 2}
    Totals <- MCTotals
    MaxItems = 2
    MinQuantity = 10
    MaxQuantity = 1500
    MaxRate = 1005
    MaxDiscount = 200000
    Missing = Missing
    PaidInputs = {10, 20}
SYMMETRY PaymentSymmetry
INVARIANTS
    TypeOK BalanceMatches StatusMatchesMoney PaidIsBacked
    DeletedIsUnpaid IssuedHasTotal OnePending ViewsAgree
PROPERTIES NeverOverpays OnlyOwnerRevives DeletedIsFinal
\* Nothing happens to a deleted invoice whose payments have ended.
CHECK_DEADLOCK FALSE
