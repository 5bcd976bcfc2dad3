SPECIFICATION Spec
CONSTANTS
    Payments = {p1}
    Amounts = {2}
    Totals = {2}
    PaidInputs = {10}
    MaxItems = 2
    MinQuantity = 10
    MaxQuantity = 1500
    MaxRate = 1005
    MaxDiscount = 200000
    Missing = Missing
SYMMETRY PaymentSymmetry
PROPERTY RefundIsFinal
\* Nothing happens to a deleted invoice whose payments have ended.
CHECK_DEADLOCK FALSE
