---------------------------- MODULE Subscriptions ----------------------------
(***************************************************************************)
(* The Subscription row of one user, and what changes it: Stripe's events, *)
(* checkouts, the staff, requests for an offline upgrade; and the          *)
(* reminders of the end of a period.                                       *)
(*                                                                         *)
(* A request does one query at a time and the others run in between.       *)
(* Stripe is external: it keeps customers and subscriptions, and sends     *)
(* events that carry a snapshot of a subscription.  They arrive late, in   *)
(* any order and more than once; an event is sent again until its handler  *)
(* has written the row.                                                    *)
(***************************************************************************)
EXTENDS Integers, Sequences, FiniteSets

CONSTANTS Subs,           \* Stripe's subscriptions
          Customers,      \* Stripe's customers
          Requests,       \* requests in flight
          None,
          LiveStatuses,   \* the statuses of Stripe's that occur, apart from "canceled"
          StaffStatuses,  \* the statuses the staff set
          AuditLog,       \* FEATURE_AUDIT_LOG
          Take,           \* how many requests the staff's list looks at (100)
          Window,         \* a reminder is sent that many days before the end (daysBefore)
          LastDay,        \* bound on the clock
          Budgets         \* bounds on what happens, one of which is chosen

Plans == {"FREE", "PRO", "ENTERPRISE"}
Paid == Plans \ {"FREE"}
RowStatuses == {"ACTIVE", "TRIALING", "CANCELLED", "PAST_DUE", "PAUSED"}

ASSUME NoneAssumption == None \notin Subs \cup Customers
ASSUME StatusAssumption ==
    LiveStatuses \cap {"none", "open", "canceled"} = {} /\ StaffStatuses \subseteq RowStatuses
ASSUME DayAssumption == Window \in Nat /\ LastDay \in Nat \ {0} /\ AuditLog \in BOOLEAN
ASSUME TakeAssumption == Take \in Nat \ {0}

\* Requests of the user and the job; of the staff; changes at Stripe; deliveries;
\* days; other users' requests; and the requests of the module Clients.
Expenses == {"requests", "staff", "stripe", "deliveries", "days", "others", "clients"}
ASSUME BudgetAssumption == Budgets \subseteq [Expenses -> Nat]

VARIABLES
    row,         \* the user's Subscription row
    stripe,      \* Stripe's subscriptions; an open checkout already has one
    customers,   \* the customers at Stripe made for the user
    events,      \* what Stripe sends, again and again
    applied,     \* history: the events that were written to the row
    seen,        \* history: the newest version of each subscription handled
    owed,        \* history: how many ends of the subscription the user is to be told of
    log,         \* ActivityLog: the user's requests and own changes of plan, and the
                 \* requests of other users
    reminders,   \* how many Notification rows of type SUBSCRIPTION_EXPIRING there are,
                 \* by the end they announce and the day they were written
    today,
    task,        \* the requests in flight
    raced,       \* history: what was written after its check had ceased to hold, what
                 \* a cut-off left undone, what was announced again
    late,        \* history: an older snapshot was written over a newer one
    byStaff,     \* the staff wrote the row after Stripe did
    left         \* what may still happen

stripeVars == <<stripe, customers, events>>
historyVars == <<applied, seen, late, owed>>
billingVars == <<row, stripeVars, historyVars, log, reminders, today, task, raced, byStaff, left>>

\* Stripe's subscription, counting its versions; 0 is no period.
Days == 0 .. LastDay
Snapshots == [status : LiveStatuses \cup {"none", "open", "canceled"}, plan : Paid,
              ending : BOOLEAN, until : Days, customer : Customers \cup {None}, version : Nat]
Absent == [status |-> "none", plan |-> "PRO", ending |-> FALSE, until |-> 0,
           customer |-> None, version |-> 0]

Event(kind, s, snap) == [kind |-> kind, sub |-> s, snap |-> snap]
Events == [kind : {"none", "checkout", "updated", "deleted"}, sub : Subs \cup {None}, snap : Snapshots]

RowTypes == [plan : Plans, status : RowStatuses, sub : Subs \cup {None},
             cust : Customers \cup {None}, ending : BOOLEAN, until : Days]
NewRow == [plan |-> "FREE", status |-> "ACTIVE", sub |-> None, cust |-> None,
           ending |-> FALSE, until |-> 0]

\* What a request uses of the row it has read.
Columns(x) == [sub |-> x.sub, status |-> x.status, ending |-> x.ending, until |-> x.until]
Nothing == Columns(NewRow)

\* A request: its next step, the plan it asks for, the event it handles, what
\* it read, the customer it has, and the day it began.
Task(step, plan, event, read, customer, day) ==
    [step |-> step, plan |-> plan, event |-> event, read |-> read, customer |-> customer, day |-> day]
Idle == Task("idle", "FREE", Event("none", None, Absent), Nothing, None, 0)
Steps == {"idle", "asked", "creating", "storing", "session", "retrieving", "finding", "syncing",
          "deleting", "announcing", "planning", "offering", "auditing", "checking", "reminding"}
Readings == [sub : Subs \cup {None}, status : RowStatuses, ending : BOOLEAN, until : Days]
Tasks == [step : Steps, plan : Plans, event : Events, read : Readings,
          customer : Customers \cup {None}, day : Days]

Entries == {"request", "change", "other"}
Marks == {"customer", "deletion", "notice", "untold", "again", "request", "reminder"}

BillingTypes ==
    /\ row \in RowTypes
    /\ stripe \in [Subs -> Snapshots]
    /\ customers \subseteq Customers
    /\ events \subseteq Events /\ applied \subseteq Events
    /\ seen \in [Subs -> Nat]
    /\ owed \in Int
    /\ log \in Seq(Entries)
    /\ reminders \in [Days \X Days -> Nat]
    /\ today \in Days \ {0}
    /\ task \in [Requests -> Tasks]
    /\ raced \subseteq Marks
    /\ late \in BOOLEAN /\ byStaff \in BOOLEAN
    /\ left \in [Expenses -> Nat]

-----------------------------------------------------------------------------

Spend(x) == left[x] > 0 /\ left' = [left EXCEPT ![x] = @ - 1]
Start(r) == Spend("requests") /\ task[r] = Idle
StartOfStaff(r) == Spend("staff") /\ task[r] = Idle

Update(r, new) == task' = [task EXCEPT ![r] = new]
Finish(r) == Update(r, Idle)
At(r, step) == task[r].step = step
Event_(r) == task[r].event

\* `what` is noted when the check behind a write no longer holds.
Unless(what, holds) == {x \in {what} : ~holds}
Note(what, holds) == raced' = raced \cup Unless(what, holds)

\* Faulty: a status of Stripe's passes as it is.
StatusOfVerbatim(s) ==
    IF s = "active" THEN "ACTIVE" ELSE IF s = "canceled" THEN "CANCELLED"
    ELSE IF s = "trialing" THEN "TRIALING" ELSE s

\* mapStripeSubscriptionStatus: the others (incomplete, unpaid ...) count as active.
StatusOf(s) ==
    IF s = "trialing" THEN "TRIALING"
    ELSE IF s = "canceled" THEN "CANCELLED"
    ELSE IF s = "past_due" THEN "PAST_DUE"
    ELSE IF s = "paused" THEN "PAUSED" ELSE "ACTIVE"

\* data of syncSubscriptionFromStripe, for a price that is one of the configured
\* ones (for others the code takes the plan of the metadata, or leaves it).
Image(s, snap) == [plan |-> snap.plan, status |-> StatusOf(snap.status), sub |-> s,
                   cust |-> snap.customer, ending |-> snap.ending, until |-> snap.until]

Ended(x) == x.status = "CANCELLED" \/ x.ending

\* The row becomes `new`, and a request announces it or does not.  An end is
\* owed to the user; a row that had ended already is announced again.
Owe(new) == owed' = IF Ended(new) /\ ~Ended(row) THEN owed + 1 ELSE owed
Again(announced) == Unless("again", announced => ~Ended(row))

-----------------------------------------------------------------------------
(* Checkouts and the billing portal *)

\* createPlanCheckoutSession; the plan FREE stands for createBillingPortalSession,
\* which has no such refusal.
AskForSession(r) ==
    /\ Start(r)
    /\ \E plan \in Plans :
        /\ ~(plan \in Paid /\ row.plan = plan /\ row.status = "ACTIVE")
        /\ Update(r, Task("asked", plan, Idle.event, Nothing, None, 0))
    /\ UNCHANGED <<row, stripeVars, historyVars, log, reminders, today, raced, byStaff>>

\* ensureStripeCustomer, query by query.
FindCustomer(r) ==
    /\ At(r, "asked")
    /\ LET step == IF row.cust = None THEN "creating" ELSE "session"
       IN  Update(r, Task(step, task[r].plan, Idle.event, Nothing, row.cust, 0))
    /\ UNCHANGED <<row, stripeVars, historyVars, log, reminders, today, raced, byStaff, left>>

CreateCustomer(r) ==
    /\ At(r, "creating")
    /\ \E c \in Customers \ customers :
        /\ customers' = customers \cup {c}
        /\ Update(r, Task("storing", task[r].plan, Idle.event, Nothing, c, 0))
    /\ UNCHANGED <<row, stripe, events, historyVars, log, reminders, today, raced, byStaff, left>>

\* Faulty: the new customer is used, and not stored.
UseCustomer(r) ==
    /\ At(r, "storing")
    /\ Update(r, Task("session", task[r].plan, Idle.event, Nothing, task[r].customer, 0))
    /\ UNCHANGED <<row, stripeVars, historyVars, log, reminders, today, raced, byStaff, left>>

\* The write does not look whether another request has stored one.
StoreCustomer(r) ==
    /\ At(r, "storing")
    /\ row' = [row EXCEPT !.cust = task[r].customer]
    /\ Note("customer", row.cust = None)
    /\ Update(r, Task("session", task[r].plan, Idle.event, Nothing, task[r].customer, 0))
    /\ UNCHANGED <<stripeVars, historyVars, log, reminders, today, byStaff, left>>

\* stripe.checkout.sessions.create; the portal's session changes nothing by itself.
OpenSession(r) ==
    /\ At(r, "session")
    /\ \/ task[r].plan = "FREE" /\ UNCHANGED stripe
       \/ /\ task[r].plan \in Paid
          /\ \E s \in Subs :
              /\ stripe[s] = Absent
              /\ stripe' = [stripe EXCEPT ![s] = [Absent EXCEPT !.status = "open",
                                !.plan = task[r].plan, !.customer = task[r].customer]]
    /\ Finish(r)
    /\ UNCHANGED <<row, customers, events, historyVars, log, reminders, today, raced, byStaff, left>>

-----------------------------------------------------------------------------
(* Stripe *)

Live(s) == stripe[s].status \in LiveStatuses

\* A subscription changes to `new`, and Stripe sends events of these kinds.
AtStripe(s, new, kinds) ==
    LET next == [new EXCEPT !.version = stripe[s].version + 1]
    IN  /\ Spend("stripe")
        /\ stripe' = [stripe EXCEPT ![s] = next]
        /\ events' = events \cup {Event(kind, s, next) : kind \in kinds}
        /\ UNCHANGED <<row, customers, historyVars, log, reminders, today, task, raced, byStaff>>

PayCheckout == \E s \in Subs, status \in LiveStatuses, until \in today .. LastDay :
    /\ stripe[s].status = "open"
    /\ AtStripe(s, [stripe[s] EXCEPT !.status = status, !.until = until], {"checkout", "updated"})

\* Renewals, failed charges, and what the customer does in the billing portal.
Renew == \E s \in Subs : \E until \in stripe[s].until + 1 .. LastDay :
    Live(s) /\ AtStripe(s, [stripe[s] EXCEPT !.until = until], {"updated"})
ChangeStatus == \E s \in Subs, status \in LiveStatuses :
    /\ Live(s) /\ stripe[s].status # status
    /\ AtStripe(s, [stripe[s] EXCEPT !.status = status], {"updated"})
ChangePlan == \E s \in Subs, plan \in Paid :
    /\ Live(s) /\ stripe[s].plan # plan
    /\ AtStripe(s, [stripe[s] EXCEPT !.plan = plan], {"updated"})
CancelAtPeriodEnd == \E s \in Subs :
    Live(s) /\ AtStripe(s, [stripe[s] EXCEPT !.ending = ~@], {"updated"})
CancelNow == \E s \in Subs :
    Live(s) /\ AtStripe(s, [stripe[s] EXCEPT !.status = "canceled"], {"deleted"})

-----------------------------------------------------------------------------
(* Webhooks *)

Deliver(r, kind, e) == Spend("deliveries") /\ task[r] = Idle /\ e \in events /\ e.kind = kind
Handling(step, e, read) == Task(step, "FREE", e, read, None, 0)

\* Faulty: Stripe is not asked.
CheckoutCompletedAlone(r) ==
    /\ \E e \in events :
        /\ Deliver(r, "checkout", e)
        /\ row' = [row EXCEPT !.sub = e.sub, !.plan = e.snap.plan, !.status = "ACTIVE"]
        /\ applied' = applied \cup {e}
    /\ UNCHANGED <<stripeVars, seen, late, owed, log, reminders, today, task, raced, byStaff>>

\* handleSubscriptionCheckoutCompleted: the row first; a repeated delivery has to
\* write the rest again ...
CheckoutCompleted(r) ==
    /\ \E e \in events :
        /\ Deliver(r, "checkout", e)
        /\ row' = [row EXCEPT !.sub = e.sub, !.plan = e.snap.plan, !.status = "ACTIVE"]
        /\ applied' = {a \in applied : a.kind # "checkout" \/ a.sub # e.sub}
        /\ Update(r, Handling("retrieving", e, Nothing))
    /\ UNCHANGED <<stripeVars, seen, late, owed, log, reminders, today, raced, byStaff>>

\* ... then Stripe is asked for the subscription as it is now.
Retrieve(r) ==
    /\ At(r, "retrieving")
    /\ LET s == Event_(r).sub
       IN  Update(r, Handling("finding", Event("checkout", s, stripe[s]), Nothing))
    /\ UNCHANGED <<row, stripeVars, historyVars, log, reminders, today, raced, byStaff, left>>

\* syncSubscriptionFromStripe finds the row by metadata.userId ...
FindRow(r) ==
    /\ At(r, "finding")
    /\ Update(r, Handling("syncing", Event_(r), Columns(row)))
    /\ UNCHANGED <<row, stripeVars, historyVars, log, reminders, today, raced, byStaff, left>>

SubscriptionUpdated(r) ==
    /\ \E e \in events :
        /\ Deliver(r, "updated", e)
        /\ Update(r, Handling("syncing", e, Columns(row)))
    /\ UNCHANGED <<row, stripeVars, historyVars, log, reminders, today, raced, byStaff>>

\* Faulty: only an immediate cancellation is announced.
BecameCancelledNow(old, new) == new.status = "CANCELLED" /\ old.status # "CANCELLED"
BecameCancelled(old, new) ==
    \/ new.status = "CANCELLED" /\ old.status # "CANCELLED"
    \/ new.ending /\ ~old.ending

Handled(e) == /\ applied' = applied \cup {e}
              /\ seen' = [seen EXCEPT ![e.sub] = IF e.snap.version > @ THEN e.snap.version ELSE @]

\* ... and overwrites it with the snapshot, whatever it holds by now.
WriteSnapshot(r) ==
    /\ At(r, "syncing")
    /\ LET e == Event_(r)
           new == Image(e.sub, e.snap)
           announced == BecameCancelled(task[r].read, new)
       IN  /\ row' = new
           /\ late' = (late \/ e.snap.version < seen[e.sub])
           /\ Handled(e) /\ Owe(new)
           /\ IF announced THEN Update(r, Handling("announcing", Idle.event, Nothing)) ELSE Finish(r)
           /\ raced' = raced \cup Again(announced)
                        \cup Unless("notice", Ended(row) <=> Ended(task[r].read))
    /\ byStaff' = FALSE
    /\ UNCHANGED <<stripeVars, log, reminders, today, left>>

\* Faulty: the row of the customer, whatever subscription it names by now.
SubscriptionDeletedOfCustomer(r) ==
    /\ \E e \in events :
        /\ Deliver(r, "deleted", e)
        /\ Update(r, Handling("deleting", e, Columns(row)))
    /\ UNCHANGED <<row, stripeVars, historyVars, log, reminders, today, raced, byStaff>>

\* handleSubscriptionDeleted finds the row that names the subscription ...
SubscriptionDeleted(r) ==
    /\ \E e \in events :
        /\ Deliver(r, "deleted", e)
        /\ IF row.sub = e.sub
           THEN Update(r, Handling("deleting", e, Columns(row))) /\ UNCHANGED <<applied, seen>>
           ELSE Handled(e) /\ UNCHANGED task
    /\ UNCHANGED <<row, stripeVars, late, owed, log, reminders, today, raced, byStaff>>

\* ... and resets it by its id, whatever subscription it names by now.
WriteDeletion(r) ==
    /\ At(r, "deleting")
    /\ LET new == [NewRow EXCEPT !.status = "CANCELLED", !.cust = row.cust]
       IN  row' = new /\ Owe(new)
    /\ raced' = raced \cup Again(TRUE) \cup Unless("deletion", row.sub = task[r].read.sub)
    /\ Handled(Event_(r))
    /\ byStaff' = FALSE
    /\ Update(r, Handling("announcing", Idle.event, Nothing))
    /\ UNCHANGED <<stripeVars, late, log, reminders, today, left>>

\* notifySubscriptionCancelled, last in its handler.
Announce(r) ==
    /\ At(r, "announcing")
    /\ owed' = owed - 1
    /\ Finish(r)
    /\ UNCHANGED <<row, stripeVars, applied, seen, late, log, reminders, today, raced, byStaff, left>>

-----------------------------------------------------------------------------
(* Staff and offline upgrades *)

\* updateUserPlan reads the target ...
ReadTarget(r) ==
    /\ StartOfStaff(r)
    /\ Update(r, Handling("planning", Idle.event, Columns(row)))
    /\ UNCHANGED <<row, stripeVars, historyVars, log, reminders, today, raced, byStaff>>

\* ... and writes what was given of plan, status, end of the period and
\* cancellation.  The log entry is under the actor, here only if that is the user.
UpdateUserPlan(r) ==
    /\ At(r, "planning")
    /\ \E plan \in Plans, status \in {row.status} \cup StaffStatuses, ending \in BOOLEAN,
          until \in {row.until, LastDay}, own \in BOOLEAN :
        LET new == [row EXCEPT !.plan = plan, !.status = status, !.ending = ending, !.until = until]
        IN  /\ row' = new
            /\ Owe(new)
            /\ log' = IF own /\ AuditLog THEN Append(log, "change") ELSE log
            /\ IF Ended(new) /\ ~Ended(task[r].read)
               THEN Update(r, Handling("announcing", Idle.event, Nothing)) ELSE Finish(r)
    /\ Note("notice", Ended(row) <=> Ended(task[r].read))
    /\ byStaff' = TRUE
    /\ UNCHANGED <<stripeVars, applied, seen, late, reminders, today, left>>

Requested == {i \in DOMAIN log : log[i] = "request"}
Newer(i, kinds) == {j \in DOMAIN log : j > i /\ log[j] \in kinds}
Unanswered(i) == \A j \in DOMAIN log : j > i => log[j] # "change"

\* hasPendingOfflineUpgrade: the latest request and the changes of plan after it.
\* Faulty: the first request instead of the latest.
PendingSinceFirst ==
    row.plan = "FREE" /\ \E i \in Requested : (\A j \in Requested : j >= i) /\ Unanswered(i)
HasPending ==
    row.plan = "FREE" /\ \E i \in Requested : (\A j \in Requested : j <= i) /\ Unanswered(i)

\* listPendingOfflineUpgradeRequests takes the newest requests of all users,
\* whether or not they were answered, and keeps those that were not of FREE users.
ListPending ==
    {i \in Requested : /\ Cardinality(Newer(i, {"request", "other"})) < Take
                       /\ row.plan = "FREE" /\ Unanswered(i)}

\* submitOfflineUpgradeRequest: the checks ...
RequestUpgrade(r) ==
    /\ Start(r)
    /\ row.plan = "FREE" /\ ~HasPending
    /\ Update(r, Handling("offering", Idle.event, Nothing))
    /\ UNCHANGED <<row, stripeVars, historyVars, log, reminders, today, raced, byStaff>>

\* ... the request ...
StoreRequest(r) ==
    /\ At(r, "offering")
    /\ log' = Append(log, "request")
    /\ Note("request", row.plan = "FREE" /\ ~HasPending /\ \A q \in Requests : ~At(q, "auditing"))
    /\ IF AuditLog THEN Update(r, Handling("auditing", Idle.event, Nothing)) ELSE Finish(r)
    /\ UNCHANGED <<row, stripeVars, historyVars, reminders, today, byStaff, left>>

\* ... and once more, by writeAuditLog, under the same action.
AuditRequest(r) ==
    /\ At(r, "auditing")
    /\ log' = Append(log, "request")
    /\ Finish(r)
    /\ UNCHANGED <<row, stripeVars, historyVars, reminders, today, raced, byStaff, left>>

\* Another user's request; each is one or two entries.
OthersRequest ==
    /\ Spend("others")
    /\ log' = Append(log, "other")
    /\ UNCHANGED <<row, stripeVars, historyVars, reminders, today, task, raced, byStaff>>

-----------------------------------------------------------------------------
(* Reminders *)

\* processSubscriptionExpiryReminders: what it selects ...
SelectExpiring(r) ==
    /\ Start(r)
    /\ row.status \in {"ACTIVE", "TRIALING"} /\ ~row.ending
    /\ row.until >= today /\ row.until <= today + Window
    /\ Update(r, Task("checking", "FREE", Idle.event, Columns(row), None, today))
    /\ UNCHANGED <<row, stripeVars, historyVars, log, reminders, today, raced, byStaff>>

\* ... what was sent since the day before the run began ...
\* Faulty: since the day of the run.
SentToday(until, day) == \E d \in Days : reminders[<<until, d>>] > 0 /\ d >= day
SentRecently(until, day) == \E d \in Days : reminders[<<until, d>>] > 0 /\ d >= day - 1

LookForReminder(r) ==
    /\ At(r, "checking")
    /\ IF SentRecently(task[r].read.until, task[r].day) THEN Finish(r)
       ELSE Update(r, [task[r] EXCEPT !.step = "reminding"])
    /\ UNCHANGED <<row, stripeVars, historyVars, log, reminders, today, raced, byStaff, left>>

\* ... and the reminder, dated when it is written.
SendReminder(r) ==
    /\ At(r, "reminding")
    /\ reminders' = [reminders EXCEPT ![<<task[r].read.until, today>>] = @ + 1]
    /\ Note("reminder", ~SentRecently(task[r].read.until, task[r].day))
    /\ Finish(r)
    /\ UNCHANGED <<row, stripeVars, historyVars, log, today, byStaff, left>>

\* deleteNotification, and deleteReadNotifications of those the user has read.
DeleteReminders ==
    /\ Spend("requests")
    /\ LET sent == {x \in Days \X Days : reminders[x] > 0}
       IN  \/ \E x \in sent : reminders' = [reminders EXCEPT ![x] = @ - 1]
           \/ \E read \in SUBSET sent :
                  reminders' = [x \in Days \X Days |-> IF x \in read THEN 0 ELSE reminders[x]]
    /\ UNCHANGED <<row, stripeVars, historyVars, log, today, task, raced, byStaff>>

DayPasses ==
    /\ Spend("days")
    /\ today < LastDay /\ today' = today + 1
    /\ UNCHANGED <<row, stripeVars, historyVars, log, reminders, task, raced, byStaff>>

\* A request is cut off.  A customer not stored yet is lost, and so is an
\* announcement: delivered again, the event finds the row as it was written.
CutOff(r) ==
    /\ task[r] # Idle
    /\ raced' = raced \cup Unless("customer", ~At(r, "storing"))
                      \cup Unless("untold", ~At(r, "announcing"))
    /\ Finish(r)
    /\ UNCHANGED <<row, stripeVars, historyVars, log, reminders, today, byStaff, left>>

-----------------------------------------------------------------------------

\* A user who is new, or has subscribed some time ago, perhaps after other
\* subscriptions had ended.
Unsubscribed ==
    /\ row = NewRow
    /\ stripe = [s \in Subs |-> Absent]
    /\ customers = {} /\ events = {}
    /\ seen = [s \in Subs |-> 0]

Subscribed(s, c, plan, until, old) ==
    LET snap == [status |-> "active", plan |-> plan, ending |-> FALSE, until |-> until,
                 customer |-> c, version |-> 1]
        ended == [snap EXCEPT !.status = "canceled"]
    IN  /\ row = Image(s, snap)
        /\ stripe = [x \in Subs |-> IF x = s THEN snap ELSE IF x \in old THEN ended ELSE Absent]
        /\ customers = {c}
        /\ events = {Event("checkout", s, snap), Event("updated", s, snap)}
                      \cup {Event("deleted", x, ended) : x \in old}
        /\ seen = [x \in Subs |-> IF x \in {s} \cup old THEN 1 ELSE 0]

BillingInit ==
    /\ \/ Unsubscribed
       \/ /\ "active" \in LiveStatuses
          /\ \E s \in Subs, c \in Customers, until \in 1 .. LastDay :
             \E old \in SUBSET (Subs \ {s}) : Subscribed(s, c, "PRO", until, old)
    /\ applied = events
    /\ owed = 0 /\ log = <<>> /\ reminders = [x \in Days \X Days |-> 0]
    /\ today = 1
    /\ task = [r \in Requests |-> Idle]
    /\ raced = {} /\ late = FALSE /\ byStaff = FALSE
    /\ left \in Budgets

OwnerStep(r) ==
    \/ AskForSession(r) \/ FindCustomer(r) \/ CreateCustomer(r) \/ StoreCustomer(r) \/ OpenSession(r)
    \/ RequestUpgrade(r) \/ StoreRequest(r) \/ AuditRequest(r)
WebhookStep(r) ==
    \/ CheckoutCompleted(r) \/ Retrieve(r) \/ FindRow(r) \/ SubscriptionUpdated(r) \/ WriteSnapshot(r)
    \/ SubscriptionDeleted(r) \/ WriteDeletion(r) \/ Announce(r)
StaffStep(r) == ReadTarget(r) \/ UpdateUserPlan(r)
JobStep(r) == SelectExpiring(r) \/ LookForReminder(r) \/ SendReminder(r)
StripeStep == PayCheckout \/ Renew \/ ChangeStatus \/ ChangePlan \/ CancelAtPeriodEnd \/ CancelNow

BillingNext ==
    \/ \E r \in Requests : OwnerStep(r) \/ WebhookStep(r) \/ StaffStep(r) \/ JobStep(r) \/ CutOff(r)
    \/ StripeStep \/ OthersRequest \/ DeleteReminders \/ DayPasses

BillingSpec == BillingInit /\ [][BillingNext]_billingVars

-----------------------------------------------------------------------------
(* Properties *)

\* Every event, or a later one of its kind, was written to the row.
Settled ==
    /\ \A r \in Requests : task[r] = Idle
    /\ \A e \in events : \E a \in applied :
          a.kind = e.kind /\ a.sub = e.sub /\ a.snap.version >= e.snap.version

Shows(s) ==
    \/ row = Image(s, stripe[s])
    \/ stripe[s].status = "canceled" /\ row = [NewRow EXCEPT !.status = "CANCELLED", !.cust = row.cust]

\* Once Stripe's events have been handled, repeated, interrupted and
\* overlapping as they may be, the row shows a subscription as it is at
\* Stripe, unless a snapshot came late (syncSubscriptionFromStripe does not
\* compare), a customer or a deletion was overtaken, or the staff changed it.
SettlesOnStripe ==
    Settled /\ ~late /\ ~byStaff /\ raced \cap {"customer", "deletion"} = {}
        => events = {} \/ \E s \in Subs : Shows(s)

\* A user's one customer at Stripe is the row's, but for those that requests in
\* flight are about to store; unless two requests made one each, or a request
\* was cut off before it stored the one it made.
OneCustomer ==
    \/ "customer" \in raced
    \/ \A c \in customers : c = row.cust \/ \E r \in Requests : At(r, "storing") /\ task[r].customer = c

\* Each time the subscription comes to its end, now or with its period, by an
\* event, its repetitions or the staff, the user is told of it once: what is
\* owed are the announcements under way.  Not so if the row was overtaken since
\* the handler read it, or if the handler was cut off between its write and the
\* announcement, which no later delivery makes up for.  A row that has ended
\* is announced again when Stripe cancels it (handleSubscriptionDeleted does
\* not look); from then on none is missed, but some may be told twice.
CancellationAnnounced ==
    LET underWay == Cardinality({r \in Requests : At(r, "announcing")})
    IN  raced \cap {"notice", "untold"} = {} =>
            owed <= underWay /\ ("again" \in raced \/ owed = underWay)

\* A user loses a paid plan only to the staff, or because a subscription that
\* the row named when the handler looked it up is cancelled at Stripe: neither
\* an event of a subscription the row does not name nor one handled again takes
\* it away.  (It may be the plan of another subscription, which a checkout has
\* put in the row since the look-up: the reset is by the row's id.)
PlanLostWithSubscription ==
    [][row.plan # "FREE" /\ row'.plan = "FREE" =>
         \E r \in Requests :
            /\ task'[r] # task[r]
            /\ \/ At(r, "planning")
               \/ /\ At(r, "deleting") /\ task[r].read.sub # None
                  /\ stripe[task[r].read.sub].status = "canceled"]_billingVars

\* The user's latest request is so far down that the staff's list ends before it.
CrowdedOut == \E i \in Requested :
    (\A j \in Requested : j <= i) /\ Cardinality(Newer(i, {"other"})) >= Take

\* The staff see a request of a user who is told that one is pending, and of
\* no other, unless as many newer requests of other users, answered or not, as
\* the list takes have crowded it out: then the user is refused another one and
\* the staff see none.  They see it once (twice when the audit log is on),
\* unless two submissions overlapped.
PendingIsOne ==
    /\ ListPending # {} <=> HasPending /\ ~CrowdedOut
    /\ "request" \in raced \/ Cardinality(ListPending) <= IF AuditLog THEN 2 ELSE 1

\* The reminders of the same end that a user has are two days apart, however
\* often the job runs or is tried again, and over midnight, unless two runs
\* overlapped.  (Of one that the user has deleted the job knows nothing.)
RemindersSpaced ==
    "reminder" \in raced \/
    \A until, d, e \in Days :
        /\ reminders[<<until, d>>] <= 1
        /\ reminders[<<until, d>>] > 0 /\ reminders[<<until, e>>] > 0 => d >= e \/ e >= d + 2
=============================================================================
