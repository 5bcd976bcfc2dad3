----------------------------- MODULE MCWorkspace -----------------------------
EXTENDS Clients, TLC

CONSTANTS FirstSub, FirstCustomer

MCLimit == [plan \in Plans |-> IF plan = "FREE" THEN 1 ELSE 2]

Budget(requests, staff, stripe_, deliveries, days, others, requestsForClients) ==
    [requests |-> requests, staff |-> staff, stripe |-> stripe_, deliveries |-> deliveries,
     days |-> days, others |-> others, clients |-> requestsForClients]

\* What overlaps with what: clients alone and with the staff's changes of plan;
\* Stripe's events among themselves, with a checkout and with the staff;
\* reminders with the staff; requests with the staff and among themselves, and
\* with those of other users.
MCBudgets ==
    {Budget(0, 0, 0, 0, 0, 0, 4), Budget(0, 1, 0, 0, 0, 0, 2),
     Budget(0, 0, 2, 3, 0, 0, 0), Budget(1, 0, 1, 2, 0, 0, 0), Budget(1, 0, 2, 2, 0, 0, 0),
     Budget(0, 1, 1, 1, 0, 0, 0), Budget(1, 1, 0, 0, 2, 0, 0), Budget(2, 0, 0, 0, 2, 0, 0),
     Budget(2, 1, 0, 0, 0, 0, 0), Budget(3, 0, 0, 0, 1, 0, 0), Budget(1, 1, 0, 0, 0, 2, 0)}

\* One of the subscriptions and one of the customers come first; there are no
\* clients where nobody asks for any, and a new user where somebody does; the
\* period ends on the first day where no day passes.  Where a checkout overlaps
\* with two changes at Stripe the user has a subscription, the first one.
MCInit ==
    /\ Init
    /\ row.sub \in {None, FirstSub} /\ row.cust \in {None, FirstCustomer}
    /\ left.days = 0 => row.until \in {0, 1}
    /\ left.requests = 1 /\ left.stripe = 2 => Cardinality(events) = 2
    /\ IF left.clients = 0 THEN issued = 0 ELSE row = NewRow
MCSpec == MCInit /\ [][Next]_vars

\* Beside clients only the staff's change of the plan is followed up.
PlanOnly == left.clients > 0 \/ (\E c \in ClientIds : Exists(c)) =>
              row.status = "ACTIVE" /\ ~row.ending /\ row.until = 0

MCSymmetry == Permutations(Requests) \cup Permutations(ClientIds) \cup Permutations(Emails)
=============================================================================
