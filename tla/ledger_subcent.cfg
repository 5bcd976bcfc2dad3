SPECIFICATION Spec
CONSTANTS
    Payments = {p1}
    Amounts = {1}
    Totals = {3}
    PaidInputs = {4}
    MaxItems = 2
    MinQuantity = 10
    MaxQuantity = 1500
    MaxRate = 1005
    MaxDiscount = 200000
    Missing = Missing
SYMMETRY PaymentSymmetry
INVARIANT PartIsAPart
\* Nothing happens to a deleted invoice whose payments have ended.
CHECK_DEADLOCK FALSE
