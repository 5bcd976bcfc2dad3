SPECIFICATION MCSpec
CONSTANTS
  Subs = {s1, s2}
  Customers = {c1, c2}
  FirstSub = s1
  FirstCustomer = c1
  Requests = {r1, r2}
  None = None
  LiveStatuses = {"active", "unpaid"}
  StaffStatuses = {"CANCELLED"}
  AuditLog = TRUE
  Take = 2
  Window = 2
  LastDay = 3
  ClientIds = {k1, k2, k3}
  Emails = {e1, e2, e3}
  Limit <- MCLimit
  Budgets <- MCBudgets
SYMMETRY MCSymmetry
CONSTRAINT PlanOnly
INVARIANTS TypeOK SettlesOnStripe OneCustomer  PendingIsOne RemindersSpaced OverrunBounded NoCollision EnabledHasLink
PROPERTIES PlanLostWithSubscription RevokedLinksStayDead
\* The user, the staff, the job and Stripe may all come to rest, or to a bound.
CHECK_DEADLOCK FALSE
