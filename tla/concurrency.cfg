SPECIFICATION Spec
CONSTANTS
    Requests = {r1, r2}
    Payments = {p1, p2}
    Amounts = {1}
    Totals = {2}
    PaidInputs = {10}
    Operations <- AllOperations
    None = None
SYMMETRY Interchangeable
CONSTRAINT Bounded
INVARIANTS TypeOK MoneyIsConsistent BackedUnlessDisturbed
\* Nothing happens to a deleted invoice whose payments have ended.
CHECK_DEADLOCK FALSE
