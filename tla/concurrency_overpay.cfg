SPECIFICATION Spec
CONSTANTS
    Requests = {r1, r2}
    Payments = {p1, p2}
    Amounts = {2}
    Totals = {2}
    PaidInputs = {10}
    Operations = {"send", "record"}
    None = None
SYMMETRY Interchangeable
INVARIANT WithinTotal
\* Nothing happens once all payments are created.
CHECK_DEADLOCK FALSE
