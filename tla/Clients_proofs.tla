---------------------------- MODULE Clients_proofs ----------------------------
(***************************************************************************)
(* Theorems about Clients and the Subscriptions it is composed with, for   *)
(* any clients, emails, requests in flight, limits and budgets.            *)
(***************************************************************************)
EXTENDS Clients, FiniteSetTheorems, TLAPS

-----------------------------------------------------------------------------
(* What a step does to the billing requests in flight *)

\* A request made of proper parts is a proper request.
LEMMA TaskParts ==
    ASSUME NEW step \in Steps, NEW plan \in Plans, NEW e \in Events, NEW read \in Readings,
           NEW c \in Customers \cup {None}, NEW day \in Days
    PROVE  Task(step, plan, e, read, c, day) \in Tasks
  BY DEF Task, Tasks

LEMMA NoEvent ==
    /\ "FREE" \in Plans /\ 0 \in Days
    /\ Absent \in Snapshots
    /\ Idle.event \in Events /\ Idle.event.snap = Absent
    /\ Nothing \in Readings
    /\ NewRow \in RowTypes
<1>1. "FREE" \in Plans /\ "PRO" \in Paid
  BY DEF Plans, Paid
<1>2. 0 \in Days
  BY DayAssumption DEF Days
<1>3. Absent \in Snapshots
  BY <1>1, <1>2 DEF Absent, Snapshots
<1>4. Idle.event \in Events /\ Idle.event.snap = Absent
  BY <1>3 DEF Idle, Task, Event, Events
<1>5. NewRow \in RowTypes
  BY <1>1, <1>2 DEF NewRow, RowTypes, RowStatuses
<1>6. Nothing \in Readings
  BY <1>2 DEF Nothing, Columns, NewRow, Readings, RowStatuses
<1> QED
  BY <1>1, <1>2, <1>3, <1>4, <1>5, <1>6

LEMMA IdleIsTask == Idle \in Tasks
<1>1. "idle" \in Steps
  BY DEF Steps
<1>2. Idle = Task("idle", "FREE", Idle.event, Nothing, None, 0)
  BY DEF Idle, Task
<1> QED
  BY <1>1, <1>2, NoEvent, TaskParts

LEMMA HandlingIsTask ==
    ASSUME NEW step \in Steps, NEW e \in Events, NEW read \in Readings
    PROVE  Handling(step, e, read) \in Tasks
  BY NoEvent, TaskParts DEF Handling

LEMMA ColumnsAreRead == ASSUME NEW x \in RowTypes PROVE Columns(x) \in Readings
  BY DEF Columns, Readings, RowTypes

\* Events are about a subscription, and so are the requests that handle one.
Handlers == {"retrieving", "finding", "syncing", "deleting"}
EventsNamed ==
    /\ \A e \in events : e.sub \in Subs
    /\ \A r \in Requests : task[r].step \in Handlers => task[r].event.sub \in Subs
BInv == BillingTypes /\ EventsNamed

LEMMA Proceeds ==
    ASSUME NEW r \in Requests, NEW step \in Steps \ Handlers, NEW plan \in Plans,
           NEW read \in Readings, NEW c \in Customers \cup {None}, NEW day \in Days,
           Update(r, Task(step, plan, Idle.event, read, c, day))
    PROVE  \E t \in Tasks : Update(r, t) /\ t.step \notin Handlers
<1>1. Task(step, plan, Idle.event, read, c, day) \in Tasks
  BY NoEvent, TaskParts
<1>2. Task(step, plan, Idle.event, read, c, day).step = step
  BY DEF Task
<1> QED
  BY <1>1, <1>2

LEMMA Ends ==
    ASSUME NEW r \in Requests, Finish(r)
    PROVE  \E t \in Tasks : Update(r, t) /\ t.step \notin Handlers
<1>1. Idle.step = "idle"
  BY DEF Idle, Task
<1> QED
  BY <1>1, IdleIsTask DEF Finish, Handlers

LEMMA StepsApart ==
    {"idle", "asked", "creating", "storing", "session", "announcing", "planning", "offering",
     "auditing", "checking", "reminding"} \subseteq Steps \ Handlers
  BY DEF Steps, Handlers

\* An owner's request writes one proper request, which handles no event.
LEMMA OwnerTask ==
    ASSUME BillingTypes, NEW r \in Requests, OwnerStep(r)
    PROVE  \E t \in Tasks : Update(r, t) /\ t.step \notin Handlers
<1>1. task[r] \in Tasks /\ row.cust \in Customers \cup {None}
  BY DEF BillingTypes, RowTypes
<1>2. task[r].plan \in Plans /\ task[r].customer \in Customers \cup {None}
  BY <1>1 DEF Tasks
<1>3. CASE AskForSession(r)
  <2>1. PICK plan \in Plans : Update(r, Task("asked", plan, Idle.event, Nothing, None, 0))
    BY <1>3 DEF AskForSession
  <2> QED
    BY <2>1, NoEvent, Proceeds, StepsApart
<1>4. CASE FindCustomer(r)
  <2>1. PICK step \in {"creating", "session"} :
          Update(r, Task(step, task[r].plan, Idle.event, Nothing, row.cust, 0))
    BY <1>4 DEF FindCustomer
  <2>2. step \in Steps \ Handlers
    BY StepsApart
  <2> QED
    BY <1>1, <1>2, <2>1, <2>2, NoEvent, Proceeds
<1>5. CASE CreateCustomer(r)
  <2>1. PICK c \in Customers : Update(r, Task("storing", task[r].plan, Idle.event, Nothing, c, 0))
    BY <1>5 DEF CreateCustomer
  <2> QED
    BY <1>2, <2>1, NoEvent, Proceeds, StepsApart
<1>6. CASE StoreCustomer(r)
  <2>1. Update(r, Task("session", task[r].plan, Idle.event, Nothing, task[r].customer, 0))
    BY <1>6 DEF StoreCustomer
  <2> QED
    BY <1>2, <2>1, NoEvent, Proceeds, StepsApart
<1>7. CASE OpenSession(r) \/ AuditRequest(r)
  BY <1>7, Ends DEF OpenSession, AuditRequest
<1>8. CASE RequestUpgrade(r)
  BY <1>8, NoEvent, Proceeds, StepsApart DEF RequestUpgrade, Handling
<1>9. CASE StoreRequest(r)
  BY <1>9, NoEvent, Proceeds, StepsApart, Ends DEF StoreRequest, Handling
<1> QED
  BY <1>3, <1>4, <1>5, <1>6, <1>7, <1>8, <1>9 DEF OwnerStep

\* So does a webhook, which may also end at once; the event it goes on with is
\* about a subscription.
LEMMA WebhookTask ==
    ASSUME BInv, NEW r \in Requests, WebhookStep(r)
    PROVE  \/ \E t \in Tasks : Update(r, t) /\ (t.step \in Handlers => t.event.sub \in Subs)
           \/ UNCHANGED task
<1> DEFINE Sound(t) == t \in Tasks /\ (t.step \in Handlers => t.event.sub \in Subs)
<1>1. /\ {"retrieving", "finding", "syncing", "deleting", "announcing"} \subseteq Steps
      /\ task[r] \in Tasks
      /\ Columns(row) \in Readings
      /\ \A e \in events : e \in Events /\ e.sub \in Subs
  BY ColumnsAreRead DEF Steps, BInv, BillingTypes, EventsNamed
<1>2. Event_(r) \in Events /\ (task[r].step \in Handlers => Event_(r).sub \in Subs)
  BY <1>1 DEF Event_, Tasks, BInv, EventsNamed
<1>3. ASSUME NEW step \in Steps, NEW e \in Events, NEW read \in Readings, e.sub \in Subs
      PROVE  Sound(Handling(step, e, read))
  <2>1. Handling(step, e, read).event = e
    BY DEF Handling, Task
  <2> QED
    BY <1>3, <2>1, HandlingIsTask
<1>4. Sound(Idle) /\ Sound(Handling("announcing", Idle.event, Nothing))
  <2>1. Idle.step = "idle" /\ Handling("announcing", Idle.event, Nothing).step = "announcing"
    BY DEF Idle, Handling, Task
  <2> QED
    BY <1>1, <2>1, IdleIsTask, HandlingIsTask, NoEvent DEF Handlers
<1>5. ASSUME NEW t, Sound(t), Update(r, t)
      PROVE  \E u \in Tasks : Update(r, u) /\ (u.step \in Handlers => u.event.sub \in Subs)
  BY <1>5
<1> HIDE DEF Sound
<1>6. CASE CheckoutCompleted(r)
  <2>1. PICK e \in events : Update(r, Handling("retrieving", e, Nothing))
    BY <1>6 DEF CheckoutCompleted, Deliver
  <2> QED
    BY <1>1, <1>3, <1>5, <2>1, NoEvent
<1>7. CASE Retrieve(r)
  <2> DEFINE s == Event_(r).sub
             e == Event("checkout", s, stripe[s])
  <2>1. task[r].step \in Handlers /\ Update(r, Handling("finding", e, Nothing))
    BY <1>7 DEF Retrieve, At, Handlers
  <2>2. s \in Subs /\ stripe[s] \in Snapshots
    BY <1>2, <2>1 DEF BInv, BillingTypes
  <2>3. e \in Events /\ e.sub \in Subs
    BY <2>2 DEF Event, Events
  <2> QED
    BY <1>1, <1>3, <1>5, <2>1, <2>3, NoEvent
<1>8. CASE FindRow(r)
  <2>1. task[r].step \in Handlers /\ Update(r, Handling("syncing", Event_(r), Columns(row)))
    BY <1>8 DEF FindRow, At, Handlers
  <2> QED
    BY <1>1, <1>2, <1>3, <1>5, <2>1
<1>9. CASE SubscriptionUpdated(r)
  <2>1. PICK e \in events : Update(r, Handling("syncing", e, Columns(row)))
    BY <1>9 DEF SubscriptionUpdated, Deliver
  <2> QED
    BY <1>1, <1>3, <1>5, <2>1
<1>10. CASE WriteSnapshot(r)
  <2>1. Update(r, Handling("announcing", Idle.event, Nothing)) \/ Update(r, Idle)
    BY <1>10 DEF WriteSnapshot, Finish
  <2> QED
    BY <1>4, <1>5, <2>1
<1>11. CASE SubscriptionDeleted(r)
  <2>1. PICK e \in events : Update(r, Handling("deleting", e, Columns(row))) \/ UNCHANGED task
    BY <1>11 DEF SubscriptionDeleted, Deliver
  <2> QED
    BY <1>1, <1>3, <1>5, <2>1
<1>12. CASE WriteDeletion(r)
  BY <1>4, <1>5, <1>12 DEF WriteDeletion
<1>13. CASE Announce(r)
  BY <1>4, <1>5, <1>13 DEF Announce, Finish
<1> QED
  BY <1>6, <1>7, <1>8, <1>9, <1>10, <1>11, <1>12, <1>13 DEF WebhookStep

\* Requests of the staff and of the job handle no event either.
LEMMA OtherTask ==
    ASSUME BillingTypes, NEW r \in Requests, StaffStep(r) \/ JobStep(r) \/ CutOff(r)
    PROVE  \E t \in Tasks : Update(r, t) /\ t.step \notin Handlers
<1>1. task[r] \in Tasks /\ Columns(row) \in Readings /\ today \in Days
  BY ColumnsAreRead DEF BillingTypes
<1>2. CASE ReadTarget(r)
  <2>1. Update(r, Task("planning", "FREE", Idle.event, Columns(row), None, 0))
    BY <1>2 DEF ReadTarget, Handling
  <2> QED
    BY <1>1, <2>1, NoEvent, Proceeds, StepsApart
<1>3. CASE UpdateUserPlan(r)
  <2>1. \/ Update(r, Task("announcing", "FREE", Idle.event, Nothing, None, 0))
        \/ Finish(r)
    BY <1>3 DEF UpdateUserPlan, Handling
  <2> QED
    BY <2>1, NoEvent, Proceeds, Ends, StepsApart
<1>4. CASE SelectExpiring(r)
  <2>1. Update(r, Task("checking", "FREE", Idle.event, Columns(row), None, today))
    BY <1>4 DEF SelectExpiring
  <2> QED
    BY <1>1, <2>1, NoEvent, Proceeds, StepsApart
<1>5. CASE LookForReminder(r)
  <2>1. Finish(r) \/ Update(r, [task[r] EXCEPT !.step = "reminding"])
    BY <1>5 DEF LookForReminder
  <2>2. [task[r] EXCEPT !.step = "reminding"] \in Tasks
    BY <1>1, StepsApart DEF Tasks
  <2>3. [task[r] EXCEPT !.step = "reminding"].step \notin Handlers
    BY <1>1 DEF Tasks, Handlers
  <2> QED
    BY <2>1, <2>2, <2>3, Ends
<1>6. CASE SendReminder(r) \/ CutOff(r)
  BY <1>6, Ends DEF SendReminder, CutOff
<1> QED
  BY <1>2, <1>3, <1>4, <1>5, <1>6 DEF StaffStep, JobStep

\* A step of the system concerns one request, or none.
LEMMA OneTask ==
    ASSUME BInv, BillingNext
    PROVE  \/ \E r \in Requests, t \in Tasks :
                 Update(r, t) /\ (t.step \in Handlers => t.event.sub \in Subs)
           \/ UNCHANGED task
<1>1. CASE StripeStep \/ OthersRequest \/ DeleteReminders \/ DayPasses
  BY <1>1 DEF StripeStep, PayCheckout, Renew, ChangeStatus, ChangePlan, CancelAtPeriodEnd,
     CancelNow, AtStripe, OthersRequest, DeleteReminders, DayPasses
<1>2. CASE \E r \in Requests : OwnerStep(r) \/ WebhookStep(r) \/ StaffStep(r) \/ JobStep(r) \/ CutOff(r)
  BY <1>2, OwnerTask, WebhookTask, OtherTask DEF BInv
<1> QED
  BY <1>1, <1>2 DEF BillingNext

LEMMA Updated ==
    ASSUME BillingTypes, NEW r \in Requests, NEW t \in Tasks, Update(r, t)
    PROVE  /\ task' \in [Requests -> Tasks]
           /\ task'[r] = t
           /\ \A q \in Requests \ {r} : task'[q] = task[q]
  BY DEF Update, BillingTypes

-----------------------------------------------------------------------------
(* Types of the rest *)

\* What happens at Stripe: a subscription gets a proper snapshot, and events
\* carry it.
LEMMA StripeChanged ==
    ASSUME BInv, NEW s \in Subs, NEW new \in Snapshots,
           NEW kinds \in SUBSET {"checkout", "updated", "deleted"}, AtStripe(s, new, kinds)
    PROVE  /\ stripe' \in [Subs -> Snapshots]
           /\ events' \subseteq Events
           /\ \A e \in events' : e.sub \in Subs
           /\ UNCHANGED <<row, customers, historyVars, log, reminders, today, task, raced, byStaff>>
           /\ left' \in [Expenses -> Nat]
<1> DEFINE next == [new EXCEPT !.version = stripe[s].version + 1]
<1>1. stripe[s] \in Snapshots /\ stripe[s].version + 1 \in Nat
  BY DEF BInv, BillingTypes, Snapshots
<1>2. next \in Snapshots
  BY <1>1 DEF Snapshots
<1> HIDE DEF next
<1>3. \A kind \in kinds : Event(kind, s, next) \in Events /\ Event(kind, s, next).sub \in Subs
  BY <1>2 DEF Event, Events
<1>4. /\ events' = events \cup {Event(kind, s, next) : kind \in kinds}
      /\ stripe' = [stripe EXCEPT ![s] = next]
      /\ Spend("stripe")
      /\ UNCHANGED <<row, customers, historyVars, log, reminders, today, task, raced, byStaff>>
  BY DEF AtStripe, next
<1>5. left' \in [Expenses -> Nat]
  BY <1>4 DEF Spend, BInv, BillingTypes, Expenses
<1>6. stripe' \in [Subs -> Snapshots]
  BY <1>2, <1>4 DEF BInv, BillingTypes
<1>7. events' \subseteq Events /\ \A e \in events' : e.sub \in Subs
  BY <1>3, <1>4 DEF BInv, BillingTypes, EventsNamed
<1> QED
  BY <1>4, <1>5, <1>6, <1>7

\* What each change at Stripe has in common.
LEMMA StripeMoves ==
    ASSUME BInv, StripeStep
    PROVE  \E s \in Subs, new \in Snapshots, kinds \in SUBSET {"checkout", "updated", "deleted"} :
             /\ AtStripe(s, new, kinds)
             /\ stripe[s].status \in LiveStatuses \cup {"open"}
             /\ new.status \in LiveStatuses \cup {"canceled"}
             /\ kinds # {}
             /\ stripe[s].status = "open" => "checkout" \in kinds
             /\ "deleted" \in kinds => new.status = "canceled"
             /\ new.customer = stripe[s].customer
<1> DEFINE Sound(s, new, kinds) ==
             /\ stripe[s].status \in LiveStatuses \cup {"open"}
             /\ new.status \in LiveStatuses \cup {"canceled"}
             /\ kinds # {}
             /\ stripe[s].status = "open" => "checkout" \in kinds
             /\ "deleted" \in kinds => new.status = "canceled"
             /\ new.customer = stripe[s].customer
           Kinds == {"checkout", "updated", "deleted"}
<1> SUFFICES \E s \in Subs, new \in Snapshots, kinds \in SUBSET Kinds :
               AtStripe(s, new, kinds) /\ Sound(s, new, kinds)
  OBVIOUS
<1>1. /\ \A s \in Subs : stripe[s] \in Snapshots
      /\ \A d \in Days : d .. LastDay \subseteq Days
      /\ \A d \in Days : d + 1 .. LastDay \subseteq Days
      /\ today \in Days
      /\ "open" \notin LiveStatuses
  BY DayAssumption, StatusAssumption DEF BInv, BillingTypes, Days
<1>2. /\ {"checkout", "updated"} \in SUBSET Kinds
      /\ {"updated"} \in SUBSET Kinds
      /\ {"deleted"} \in SUBSET Kinds
  OBVIOUS
<1>3. CASE PayCheckout
  <2>1. PICK s \in Subs, status \in LiveStatuses, until \in today .. LastDay :
          /\ stripe[s].status = "open"
          /\ AtStripe(s, [stripe[s] EXCEPT !.status = status, !.until = until], {"checkout", "updated"})
    BY <1>3 DEF PayCheckout
  <2> DEFINE new == [stripe[s] EXCEPT !.status = status, !.until = until]
  <2>2. new \in Snapshots /\ Sound(s, new, {"checkout", "updated"})
    BY <1>1, <2>1 DEF Snapshots
  <2> HIDE DEF Sound, Kinds
  <2> QED
    BY <1>2, <2>1, <2>2
<1>4. CASE Renew
  <2>1. PICK s \in Subs : \E until \in stripe[s].until + 1 .. LastDay :
          Live(s) /\ AtStripe(s, [stripe[s] EXCEPT !.until = until], {"updated"})
    BY <1>4 DEF Renew
  <2>2. PICK until \in stripe[s].until + 1 .. LastDay :
          Live(s) /\ AtStripe(s, [stripe[s] EXCEPT !.until = until], {"updated"})
    BY <2>1
  <2> DEFINE new == [stripe[s] EXCEPT !.until = until]
  <2>3. until \in Days
    BY <1>1 DEF Snapshots
  <2>4. new \in Snapshots /\ Sound(s, new, {"updated"})
    BY <1>1, <2>2, <2>3 DEF Snapshots, Live
  <2> HIDE DEF Sound, Kinds
  <2> QED
    BY <1>2, <2>2, <2>4
<1>5. CASE ChangeStatus
  <2>1. PICK s \in Subs, status \in LiveStatuses :
          Live(s) /\ AtStripe(s, [stripe[s] EXCEPT !.status = status], {"updated"})
    BY <1>5 DEF ChangeStatus
  <2> DEFINE new == [stripe[s] EXCEPT !.status = status]
  <2>2. new \in Snapshots /\ Sound(s, new, {"updated"})
    BY <1>1, <2>1 DEF Snapshots, Live
  <2> HIDE DEF Sound, Kinds
  <2> QED
    BY <1>2, <2>1, <2>2
<1>6. CASE ChangePlan
  <2>1. PICK s \in Subs, plan \in Paid :
          Live(s) /\ AtStripe(s, [stripe[s] EXCEPT !.plan = plan], {"updated"})
    BY <1>6 DEF ChangePlan
  <2> DEFINE new == [stripe[s] EXCEPT !.plan = plan]
  <2>2. new \in Snapshots /\ Sound(s, new, {"updated"})
    BY <1>1, <2>1 DEF Snapshots, Live
  <2> HIDE DEF Sound, Kinds
  <2> QED
    BY <1>2, <2>1, <2>2
<1>7. CASE CancelAtPeriodEnd
  <2>1. PICK s \in Subs : Live(s) /\ AtStripe(s, [stripe[s] EXCEPT !.ending = ~@], {"updated"})
    BY <1>7 DEF CancelAtPeriodEnd
  <2> DEFINE new == [stripe[s] EXCEPT !.ending = ~@]
  <2>2. new \in Snapshots /\ Sound(s, new, {"updated"})
    BY <1>1, <2>1 DEF Snapshots, Live
  <2> HIDE DEF Sound, Kinds
  <2> QED
    BY <1>2, <2>1, <2>2
<1>8. CASE CancelNow
  <2>1. PICK s \in Subs :
          Live(s) /\ AtStripe(s, [stripe[s] EXCEPT !.status = "canceled"], {"deleted"})
    BY <1>8 DEF CancelNow
  <2> DEFINE new == [stripe[s] EXCEPT !.status = "canceled"]
  <2>2. new \in Snapshots /\ Sound(s, new, {"deleted"})
    BY <1>1, <2>1 DEF Snapshots, Live
  <2> HIDE DEF Sound, Kinds
  <2> QED
    BY <1>2, <2>1, <2>2
<1> QED
  BY <1>3, <1>4, <1>5, <1>6, <1>7, <1>8 DEF StripeStep

LEMMA StripeTyped ==
    ASSUME BInv, StripeStep
    PROVE  /\ stripe' \in [Subs -> Snapshots]
           /\ events' \subseteq Events
           /\ \A e \in events' : e.sub \in Subs
           /\ UNCHANGED <<row, customers, historyVars, log, reminders, today, task, raced, byStaff>>
           /\ left' \in [Expenses -> Nat]
  BY StripeMoves, StripeChanged

LEMMA Spent ==
    ASSUME BillingTypes, NEW x \in Expenses, Spend(x)
    PROVE  left' \in [Expenses -> Nat]
  BY DEF Spend, BillingTypes, Expenses

LEMMA Noted ==
    ASSUME BillingTypes, NEW holds,
           NEW what \in Marks, Note(what, holds)
    PROVE  raced' \subseteq Marks
  BY DEF Note, Unless, BillingTypes

\* What is noted at one step are marks, and what is owed is counted.
LEMMA Marked ==
    ASSUME NEW holds, NEW what \in Marks
    PROVE  Unless(what, holds) \subseteq Marks /\ Again(holds) \subseteq Marks
  BY DEF Unless, Again, Marks

LEMMA Owing == ASSUME BillingTypes, NEW new, Owe(new) PROVE owed' \in Int
  BY DEF Owe, BillingTypes

LEMMA ImageTyped ==
    ASSUME NEW s \in Subs, NEW snap \in Snapshots
    PROVE  Image(s, snap) \in RowTypes
<1>1. StatusOf(snap.status) \in RowStatuses
  BY DEF StatusOf, RowStatuses
<1>2. Paid \subseteq Plans
  BY DEF Paid
<1> QED
  BY <1>1, <1>2 DEF Image, Snapshots, RowTypes

\* The event of a handler.
LEMMA HandledEvent ==
    ASSUME BInv, NEW r \in Requests, task[r].step \in Handlers
    PROVE  /\ Event_(r) \in Events /\ Event_(r).sub \in Subs
           /\ Event_(r).snap \in Snapshots /\ Event_(r).snap.version \in Nat
<1>1. task[r] \in Tasks
  BY DEF BInv, BillingTypes
<1>2. Event_(r) \in Events /\ Event_(r).sub \in Subs
  BY <1>1 DEF Event_, Tasks, BInv, EventsNamed
<1> QED
  BY <1>2 DEF Events, Snapshots

LEMMA Handled_ ==
    ASSUME BillingTypes, NEW e \in Events, e.sub \in Subs, Handled(e)
    PROVE  applied' \subseteq Events /\ seen' \in [Subs -> Nat]
<1>1. e.snap.version \in Nat /\ seen[e.sub] \in Nat
  BY DEF Events, Snapshots, BillingTypes
<1> QED
  BY <1>1 DEF Handled, BillingTypes

\* The types, apart from the requests'.
StateTypes ==
    /\ row \in RowTypes
    /\ stripe \in [Subs -> Snapshots]
    /\ customers \subseteq Customers
    /\ events \subseteq Events /\ applied \subseteq Events
    /\ seen \in [Subs -> Nat]
    /\ owed \in Int
    /\ log \in Seq(Entries)
    /\ reminders \in [Days \X Days -> Nat]
    /\ today \in Days \ {0}
    /\ raced \subseteq Marks
    /\ late \in BOOLEAN /\ byStaff \in BOOLEAN
    /\ left \in [Expenses -> Nat]
    /\ \A e \in events : e.sub \in Subs

LEMMA OwnerTyped ==
    ASSUME BInv, NEW r \in Requests, OwnerStep(r)
    PROVE  StateTypes'
<1>1. StateTypes /\ task[r] \in Tasks /\ "requests" \in Expenses
  BY DEF BInv, BillingTypes, EventsNamed, StateTypes, Expenses
<1>2. task[r].plan \in Plans /\ task[r].customer \in Customers \cup {None}
  BY <1>1 DEF Tasks
<1>3. CASE AskForSession(r) \/ FindCustomer(r)
  <2>1. left' \in [Expenses -> Nat]
    BY <1>1, <1>3, Spent DEF AskForSession, FindCustomer, Start, StateTypes, BInv
  <2> QED
    BY <1>1, <1>3, <2>1 DEF AskForSession, FindCustomer, StateTypes, stripeVars, historyVars
<1>4. CASE CreateCustomer(r)
  BY <1>1, <1>4 DEF CreateCustomer, StateTypes, historyVars
<1>5. CASE StoreCustomer(r)
  <2>1. row' \in RowTypes
    BY <1>1, <1>2, <1>5 DEF StoreCustomer, StateTypes, RowTypes
  <2>2. raced' \subseteq Marks
    BY <1>5, Noted DEF StoreCustomer, BInv, Marks
  <2> QED
    BY <1>1, <1>5, <2>1, <2>2 DEF StoreCustomer, StateTypes, stripeVars, historyVars
<1>6. CASE OpenSession(r)
  <2>1. stripe' \in [Subs -> Snapshots]
    <3>1. CASE UNCHANGED stripe
      BY <1>1, <3>1 DEF StateTypes
    <3>2. CASE task[r].plan \in Paid /\ ~UNCHANGED stripe
      <4> DEFINE new == [Absent EXCEPT !.status = "open", !.plan = task[r].plan,
                                       !.customer = task[r].customer]
      <4>1. PICK s \in Subs : stripe' = [stripe EXCEPT ![s] = new]
        BY <1>6, <3>2 DEF OpenSession
      <4>2. new \in Snapshots
        BY <1>2, <3>2, NoEvent DEF Snapshots
      <4> QED
        BY <1>1, <4>1, <4>2 DEF StateTypes
    <3> QED
      BY <1>6, <3>1, <3>2 DEF OpenSession
  <2> QED
    BY <1>1, <1>6, <2>1 DEF OpenSession, StateTypes, historyVars
<1>7. CASE RequestUpgrade(r)
  <2>1. left' \in [Expenses -> Nat]
    BY <1>1, <1>7, Spent DEF RequestUpgrade, Start, BInv
  <2> QED
    BY <1>1, <1>7, <2>1 DEF RequestUpgrade, StateTypes, stripeVars, historyVars
<1>8. CASE StoreRequest(r) \/ AuditRequest(r)
  <2>1. log' \in Seq(Entries)
    <3>1. log' = Append(log, "request")
      BY <1>8 DEF StoreRequest, AuditRequest
    <3> QED
      BY <1>1, <3>1 DEF StateTypes, Entries
  <2>2. raced' \subseteq Marks
    BY <1>1, <1>8, Noted DEF StoreRequest, AuditRequest, BInv, StateTypes, Marks
  <2> QED
    BY <1>1, <1>8, <2>1, <2>2 DEF StoreRequest, AuditRequest, StateTypes, stripeVars, historyVars
<1> QED
  BY <1>3, <1>4, <1>5, <1>6, <1>7, <1>8 DEF OwnerStep

LEMMA WebhookTyped ==
    ASSUME BInv, NEW r \in Requests, WebhookStep(r)
    PROVE  StateTypes'
<1>1. StateTypes /\ task[r] \in Tasks /\ "deliveries" \in Expenses
  BY DEF BInv, BillingTypes, EventsNamed, StateTypes, Expenses
<1>2. \A k, e : Deliver(r, k, e) => left' \in [Expenses -> Nat] /\ e \in Events /\ e.sub \in Subs
  BY <1>1, Spent DEF Deliver, BInv, StateTypes
<1>3. CASE CheckoutCompleted(r)
  <2>1. PICK e \in Events : /\ Deliver(r, "checkout", e)
                            /\ row' = [row EXCEPT !.sub = e.sub, !.plan = e.snap.plan, !.status = "ACTIVE"]
    BY <1>1, <1>3 DEF CheckoutCompleted, StateTypes
  <2>2. e.snap.plan \in Plans
    BY DEF Events, Snapshots, Paid
  <2>3. row' \in RowTypes
    BY <1>1, <1>2, <2>1, <2>2 DEF RowTypes, RowStatuses, StateTypes
  <2>4. applied' \subseteq applied
    BY <1>3 DEF CheckoutCompleted
  <2> QED
    BY <1>1, <1>2, <1>3, <2>1, <2>3, <2>4 DEF CheckoutCompleted, StateTypes, stripeVars
<1>4. CASE Retrieve(r) \/ FindRow(r)
  BY <1>1, <1>4 DEF Retrieve, FindRow, StateTypes, stripeVars, historyVars
<1>5. CASE SubscriptionUpdated(r)
  <2>1. left' \in [Expenses -> Nat]
    BY <1>2, <1>5 DEF SubscriptionUpdated
  <2> QED
    BY <1>1, <1>5, <2>1 DEF SubscriptionUpdated, StateTypes, stripeVars, historyVars
<1>6. CASE WriteSnapshot(r)
  <2> DEFINE e == Event_(r)
  <2>1. e \in Events /\ e.sub \in Subs /\ e.snap \in Snapshots
    BY <1>6, HandledEvent DEF WriteSnapshot, At, Handlers
  <2>2. row' = Image(e.sub, e.snap) /\ Handled(e)
    BY <1>6 DEF WriteSnapshot
  <2>3. row' \in RowTypes
    BY <2>1, <2>2, ImageTyped
  <2>4. applied' \subseteq Events /\ seen' \in [Subs -> Nat]
    BY <2>1, <2>2, Handled_ DEF BInv
  <2>5. raced' \subseteq Marks
    <3>1. /\ "notice" \in Marks
          /\ raced' = raced \cup Again(BecameCancelled(task[r].read, Image(e.sub, e.snap)))
                         \cup Unless("notice", Ended(row) <=> Ended(task[r].read))
      BY <1>6 DEF WriteSnapshot, Marks
    <3>2. raced \subseteq Marks
      BY <1>1 DEF StateTypes
    <3> QED
      BY <3>1, <3>2, Marked
  <2>6. late' \in BOOLEAN /\ byStaff' \in BOOLEAN
    BY <1>6 DEF WriteSnapshot
  <2>7. owed' \in Int
    BY <1>6, Owing DEF WriteSnapshot, BInv
  <2> QED
    BY <1>1, <1>6, <2>3, <2>4, <2>5, <2>6, <2>7 DEF WriteSnapshot, StateTypes, stripeVars
<1>7. CASE SubscriptionDeleted(r)
  <2>1. PICK e \in Events : Deliver(r, "deleted", e) /\ (Handled(e) \/ UNCHANGED <<applied, seen>>)
    BY <1>1, <1>7 DEF SubscriptionDeleted, StateTypes
  <2>2. applied' \subseteq Events /\ seen' \in [Subs -> Nat]
    BY <1>1, <1>2, <2>1, Handled_ DEF BInv, StateTypes
  <2> QED
    BY <1>1, <1>2, <1>7, <2>1, <2>2 DEF SubscriptionDeleted, StateTypes, stripeVars
<1>8. CASE WriteDeletion(r)
  <2>1. Event_(r) \in Events /\ Event_(r).sub \in Subs
    BY <1>8, HandledEvent DEF WriteDeletion, At, Handlers
  <2>2. applied' \subseteq Events /\ seen' \in [Subs -> Nat]
    BY <1>8, <2>1, Handled_ DEF WriteDeletion, BInv
  <2>3. row' \in RowTypes
    BY <1>1, <1>8, NoEvent DEF WriteDeletion, RowTypes, RowStatuses, StateTypes
  <2>4. raced' \subseteq Marks
    <3>1. /\ "deletion" \in Marks
          /\ raced' = raced \cup Again(TRUE) \cup Unless("deletion", row.sub = task[r].read.sub)
      BY <1>8 DEF WriteDeletion, Marks
    <3>2. raced \subseteq Marks
      BY <1>1 DEF StateTypes
    <3> QED
      BY <3>1, <3>2, Marked
  <2>5. owed' \in Int
    BY <1>8, Owing DEF WriteDeletion, BInv
  <2> QED
    BY <1>1, <1>8, <2>2, <2>3, <2>4, <2>5 DEF WriteDeletion, StateTypes, stripeVars
<1>9. CASE Announce(r)
  BY <1>1, <1>9 DEF Announce, StateTypes, stripeVars
<1> QED
  BY <1>3, <1>4, <1>5, <1>6, <1>7, <1>8, <1>9 DEF WebhookStep

LEMMA OthersTyped ==
    ASSUME BInv, NEW r \in Requests, StaffStep(r) \/ JobStep(r) \/ CutOff(r)
    PROVE  StateTypes'
<1>1. StateTypes /\ task[r] \in Tasks /\ {"requests", "staff"} \subseteq Expenses
  BY DEF BInv, BillingTypes, EventsNamed, StateTypes, Expenses
<1>2. CASE ReadTarget(r) \/ SelectExpiring(r)
  <2>1. left' \in [Expenses -> Nat]
    BY <1>1, <1>2, Spent DEF ReadTarget, SelectExpiring, Start, StartOfStaff, BInv
  <2> QED
    BY <1>1, <1>2, <2>1 DEF ReadTarget, SelectExpiring, StateTypes, stripeVars, historyVars
<1>3. CASE UpdateUserPlan(r)
  <2>1. PICK plan \in Plans, status \in {row.status} \cup StaffStatuses, ending \in BOOLEAN,
             until \in {row.until, LastDay}, own \in BOOLEAN :
          /\ row' = [row EXCEPT !.plan = plan, !.status = status, !.ending = ending, !.until = until]
          /\ log' = IF own /\ AuditLog THEN Append(log, "change") ELSE log
    BY <1>3 DEF UpdateUserPlan
  <2>2. status \in RowStatuses /\ until \in Days
    BY <1>1, DayAssumption, StatusAssumption DEF StateTypes, RowTypes, Days
  <2>3. row' \in RowTypes
    BY <1>1, <2>1, <2>2 DEF RowTypes, StateTypes
  <2>4. log' \in Seq(Entries)
    BY <1>1, <2>1 DEF StateTypes, Entries
  <2>5. raced' \subseteq Marks
    BY <1>3, Noted DEF UpdateUserPlan, BInv, Marks
  <2>6. owed' \in Int
    BY <1>3, Owing DEF UpdateUserPlan, BInv
  <2> QED
    BY <1>1, <1>3, <2>3, <2>4, <2>5, <2>6 DEF UpdateUserPlan, StateTypes, stripeVars
<1>4. CASE LookForReminder(r)
  BY <1>1, <1>4 DEF LookForReminder, StateTypes, stripeVars, historyVars
<1>5. CASE SendReminder(r)
  <2>1. raced' \subseteq Marks
    BY <1>5, Noted DEF SendReminder, BInv, Marks
  <2>2. reminders' \in [Days \X Days -> Nat]
    <3>1. task[r].read.until \in Days /\ today \in Days
      BY <1>1 DEF StateTypes, Tasks, Readings
    <3> DEFINE x == <<task[r].read.until, today>>
    <3>2. x \in Days \X Days
      BY <3>1
    <3>3. reminders' = [reminders EXCEPT ![x] = @ + 1]
      BY <1>5 DEF SendReminder
    <3> HIDE DEF x
    <3> QED
      BY <1>1, <3>2, <3>3 DEF StateTypes
  <2> QED
    BY <1>1, <1>5, <2>1, <2>2 DEF SendReminder, StateTypes, stripeVars, historyVars
<1>6. CASE CutOff(r)
  <2>1. raced' \subseteq Marks
    <3>1. /\ {"customer", "untold"} \subseteq Marks
          /\ raced' = raced \cup Unless("customer", ~At(r, "storing"))
                         \cup Unless("untold", ~At(r, "announcing"))
      BY <1>6 DEF CutOff, Marks
    <3>2. raced \subseteq Marks
      BY <1>1 DEF StateTypes
    <3> QED
      BY <3>1, <3>2, Marked
  <2> QED
    BY <1>1, <1>6, <2>1 DEF CutOff, StateTypes, stripeVars, historyVars
<1> QED
  BY <1>2, <1>3, <1>4, <1>5, <1>6 DEF StaffStep, JobStep

\* Every step keeps the types of billing, and what events are about.
LEMMA BillingKept == ASSUME BInv, BillingNext PROVE BInv'
<1>1. StateTypes /\ {"requests", "days", "others"} \subseteq Expenses
  BY DEF BInv, BillingTypes, EventsNamed, StateTypes, Expenses
<1>2. ASSUME \E r \in Requests : OwnerStep(r) \/ WebhookStep(r) \/ StaffStep(r) \/ JobStep(r) \/ CutOff(r)
      PROVE  StateTypes'
  BY <1>2, OwnerTyped, WebhookTyped, OthersTyped
<1>3. ASSUME StripeStep PROVE StateTypes'
  BY <1>1, <1>3, StripeTyped DEF StateTypes, historyVars
<1>4. ASSUME DeleteReminders PROVE StateTypes'
  <2>1. left' \in [Expenses -> Nat]
    BY <1>1, <1>4, Spent DEF DeleteReminders, BInv
  <2>2. reminders' \in [Days \X Days -> Nat]
    <3> DEFINE sent == {x \in Days \X Days : reminders[x] > 0}
    <3>1. CASE \E x \in sent : reminders' = [reminders EXCEPT ![x] = @ - 1]
      BY <1>1, <3>1 DEF StateTypes
    <3>2. CASE \E read \in SUBSET sent :
                  reminders' = [x \in Days \X Days |-> IF x \in read THEN 0 ELSE reminders[x]]
      BY <1>1, <3>2 DEF StateTypes
    <3> QED
      BY <1>4, <3>1, <3>2 DEF DeleteReminders
  <2> QED
    BY <1>1, <1>4, <2>1, <2>2 DEF DeleteReminders, StateTypes, stripeVars, historyVars
<1>5. ASSUME DayPasses PROVE StateTypes'
  <2>1. left' \in [Expenses -> Nat]
    BY <1>1, <1>5, Spent DEF DayPasses, BInv
  <2>2. today' \in Days \ {0}
    BY <1>1, <1>5, DayAssumption DEF DayPasses, StateTypes, Days
  <2> QED
    BY <1>1, <1>5, <2>1, <2>2 DEF DayPasses, StateTypes, stripeVars, historyVars
<1>6. ASSUME OthersRequest PROVE StateTypes'
  <2>1. left' \in [Expenses -> Nat]
    BY <1>1, <1>6, Spent DEF OthersRequest, BInv
  <2>2. log' \in Seq(Entries)
    BY <1>1, <1>6 DEF OthersRequest, StateTypes, Entries
  <2> QED
    BY <1>1, <1>6, <2>1, <2>2 DEF OthersRequest, StateTypes, stripeVars, historyVars
<1>7. StateTypes'
  BY <1>2, <1>3, <1>4, <1>5, <1>6 DEF BillingNext
<1>8. /\ task' \in [Requests -> Tasks]
      /\ \A r \in Requests : task'[r].step \in Handlers => task'[r].event.sub \in Subs
  BY OneTask, Updated DEF BInv, BillingTypes, EventsNamed
<1> QED
  BY <1>7, <1>8 DEF StateTypes, BInv, BillingTypes, EventsNamed

LEMMA BillingFirst == ASSUME BillingInit PROVE BInv
<1>1. /\ {} \subseteq Events /\ 0 \in Nat /\ <<>> \in Seq(Entries)
      /\ 1 \in Days \ {0}
  BY DayAssumption DEF Days
<1> DEFINE Start_ ==
      /\ row \in RowTypes /\ stripe \in [Subs -> Snapshots] /\ customers \subseteq Customers
      /\ events \subseteq Events /\ seen \in [Subs -> Nat] /\ \A e \in events : e.sub \in Subs
<1>2. Start_
  <2>1. CASE Unsubscribed
    BY <2>1, NoEvent DEF Unsubscribed
  <2>2. ASSUME NEW s \in Subs, NEW c \in Customers, NEW until \in 1 .. LastDay,
               NEW old \in SUBSET (Subs \ {s}), Subscribed(s, c, "PRO", until, old),
               "active" \in LiveStatuses
        PROVE  Start_
    <3> DEFINE snap == [status |-> "active", plan |-> "PRO", ending |-> FALSE, until |-> until,
                        customer |-> c, version |-> 1]
               ended == [snap EXCEPT !.status = "canceled"]
    <3>1. until \in Days /\ "PRO" \in Paid
      BY DayAssumption DEF Days, Paid, Plans
    <3>2. snap \in Snapshots
      BY <2>2, <3>1 DEF Snapshots
    <3>3. ended \in Snapshots
      BY <3>2 DEF Snapshots
    <3> HIDE DEF ended, snap
    <3>4. /\ row = Image(s, snap)
          /\ stripe = [x \in Subs |-> IF x = s THEN snap ELSE IF x \in old THEN ended ELSE Absent]
          /\ customers = {c}
          /\ events = {Event("checkout", s, snap), Event("updated", s, snap)}
                        \cup {Event("deleted", x, ended) : x \in old}
          /\ seen = [x \in Subs |-> IF x \in {s} \cup old THEN 1 ELSE 0]
      BY <2>2 DEF Subscribed, snap, ended
    <3>5. events \subseteq Events /\ \A e \in events : e.sub \in Subs
      BY <3>2, <3>3, <3>4 DEF Event, Events
    <3> QED
      BY <3>2, <3>3, <3>4, <3>5, ImageTyped, NoEvent
  <2> QED
    BY <2>1, <2>2 DEF BillingInit
<1>3. left \in [Expenses -> Nat]
  BY BudgetAssumption DEF BillingInit
<1>4. /\ task \in [Requests -> Tasks]
      /\ \A r \in Requests : task[r].step \notin Handlers
  <2>1. Idle.step = "idle"
    BY DEF Idle, Task
  <2> QED
    BY <2>1, IdleIsTask DEF BillingInit, Handlers
<1>5. /\ reminders \in [Days \X Days -> Nat]
      /\ owed \in Int /\ raced \subseteq Marks
      /\ late \in BOOLEAN /\ byStaff \in BOOLEAN
  <2>1. reminders = [x \in Days \X Days |-> 0] /\ owed = 0 /\ raced = {} /\ ~late /\ ~byStaff
        /\ late \in BOOLEAN /\ byStaff \in BOOLEAN
    BY DEF BillingInit
  <2>2. reminders \in [Days \X Days -> Nat]
    BY <2>1
  <2> QED
    BY <2>1, <2>2
<1>6. /\ log \in Seq(Entries) /\ today \in Days \ {0}
      /\ applied \subseteq Events
  BY <1>1, <1>2 DEF BillingInit
<1> QED
  BY <1>2, <1>3, <1>4, <1>5, <1>6 DEF BInv, BillingTypes, EventsNamed

-----------------------------------------------------------------------------
(* What a step does to the clients *)

Addressed == {"restoring", "renaming", "updating", "switching", "counting", "matching",
              "reviving", "renewing", "deleting"}
Creating == {"searching", "restoring", "comparing", "inserting"}
Admitted == Creating \cup {"matching", "reviving"}   \* has passed the limit

\* What a request may rely on between its steps: it has a client or an email
\* where it needs one, and unless the client or the email was written since,
\* what it has read still holds.
GoodWork(w) ==
    /\ w \in Works
    /\ w.step \in Addressed => w.client \in ClientIds /\ Exists(w.client)
    /\ w.step \in Creating => w.email \in Emails
    /\ ~w.stale /\ w.step \in {"restoring", "renaming", "updating"} =>
          (w.had <=> clients[w.client].token # 0)
    /\ ~w.stale /\ w.step = "comparing" =>
          \A c \in ClientIds : clients[c].deleted => clients[c].email # w.email
    /\ ~w.stale /\ w.step = "inserting" =>
          \A c \in ClientIds : clients[c].email # w.email

\* Tokens count up and are told apart; a client that is enabled has one.
TokensApart ==
    /\ \A c \in ClientIds : clients[c].token <= issued
    /\ \A c, d \in ClientIds : clients[c].token = clients[d].token => c = d \/ clients[c].token = 0
    /\ \A c \in ClientIds \ mixed : clients[c].enabled => clients[c].token # 0

RowsTyped ==
    /\ clients \in [ClientIds -> Rows]
    /\ issued \in Nat
    /\ mixed \subseteq ClientIds

CInv == /\ RowsTyped /\ TokensApart
        /\ work \in [Requests -> Works]
        /\ \A q \in Requests : GoodWork(work[q])

\* A request goes on or ends, and writes nothing.
Goes(q) ==
    /\ \E w : /\ Continue(q, w) /\ GoodWork(w)
              /\ w.step \in Admitted => work[q].step \in Admitted \/ WithinLimit
    /\ UNCHANGED <<clients, issued, mixed>>

\* What may be written: the token stays, goes, or is a new one; a portal that
\* is on has a token unless something was overtaken; only requests that have
\* passed the limit bring a client to life.
Writes(q, c, new) ==
    /\ new \in Rows
    /\ Write(q, c, new)
    /\ new.token \in {clients[c].token, 0, issued + 1}
    /\ new.enabled /\ new.token = 0 => c \in mixed \/ (work[q].stale /\ work[q].client = c)
    /\ new.email # None
    /\ ~new.deleted =>
          Alive(c) \/ work[q].step \in Admitted

LEMMA NoWorkIsGood == GoodWork(NoWork) /\ NoWork.step = "idle"
<1>1. "idle" \in WorkSteps /\ "keep" \in Portal
  BY DEF WorkSteps, Portal
<1> QED
  BY <1>1 DEF NoWork, Work, Works, GoodWork, Addressed, Creating

LEMMA Leaves ==
    ASSUME NEW q \in Requests, Leave(q), UNCHANGED <<clients, issued, mixed>>
    PROVE  Goes(q)
  BY NoWorkIsGood DEF Leave, Goes, Admitted, Creating

\* The next step of a request that keeps what it has.
LEMMA StepsOn ==
    ASSUME CInv, NEW q \in Requests, NEW step \in WorkSteps
    PROVE  /\ [work[q] EXCEPT !.step = step] \in Works
           /\ [work[q] EXCEPT !.step = step].step = step
           /\ [work[q] EXCEPT !.step = step].client = work[q].client
           /\ [work[q] EXCEPT !.step = step].had = work[q].had
           /\ [work[q] EXCEPT !.step = step].email = work[q].email
           /\ [work[q] EXCEPT !.step = step].stale = work[q].stale
  BY DEF CInv, GoodWork, Works

LEMMA PortalWritten ==
    ASSUME NEW old \in Rows, NEW portal \in Portal, NEW had \in BOOLEAN, issued \in Nat
    PROVE  LET new == WithPortal(old, portal, had)
           IN  /\ new \in Rows
               /\ new.token \in {old.token, 0, issued + 1}
               /\ new.email = old.email /\ (new.deleted <=> old.deleted)
               /\ (had <=> old.token # 0) /\ new.enabled /\ new.token = 0 =>
                    old.enabled /\ old.token = 0
<1> DEFINE enabled == IF portal = "keep" THEN old.enabled ELSE portal = "on"
           token == IF portal = "on" /\ ~had THEN issued + 1 ELSE IF portal = "off" THEN 0 ELSE old.token
           new == [old EXCEPT !.enabled = enabled, !.token = token]
<1>1. enabled \in BOOLEAN /\ token \in Nat /\ token \in {old.token, 0, issued + 1}
  <2>1. enabled \in BOOLEAN
    <3>1. CASE portal = "keep"
      BY <3>1 DEF Rows
    <3>2. CASE portal # "keep"
      BY <3>2
    <3> QED
      BY <3>1, <3>2
  <2>2. token \in Nat /\ token \in {old.token, 0, issued + 1}
    BY DEF Rows
  <2> QED
    BY <2>1, <2>2
<1>2. (had <=> old.token # 0) /\ enabled /\ token = 0 => old.enabled /\ old.token = 0
  BY DEF Portal
<1>3. WithPortal(old, portal, had) = new
  BY DEF WithPortal
<1> HIDE DEF enabled, token
<1>4. /\ new \in Rows /\ new.email = old.email /\ new.token = token
      /\ (new.deleted <=> old.deleted) /\ (new.enabled <=> enabled)
  BY <1>1 DEF Rows
<1> QED
  BY <1>1, <1>2, <1>3, <1>4

\* The client that a request writes.
LEMMA Addresses ==
    ASSUME CInv, NEW q \in Requests, work[q].step \in Addressed
    PROVE  /\ work[q].client \in ClientIds
           /\ clients[work[q].client] \in Rows /\ Exists(work[q].client)
           /\ clients[work[q].client].token \in Nat
           /\ clients[work[q].client].enabled /\ clients[work[q].client].token = 0 =>
                work[q].client \in mixed
           /\ work[q].portal \in Portal /\ work[q].had \in BOOLEAN
           /\ work[q].email \in Emails \cup {None}
           /\ work[q].stale \in BOOLEAN
<1>1. work[q].client \in ClientIds /\ work[q] \in Works /\ Exists(work[q].client)
  BY DEF CInv, GoodWork
<1>2. clients[work[q].client] \in Rows
  BY <1>1 DEF CInv, RowsTyped
<1> QED
  BY <1>1, <1>2 DEF CInv, TokensApart, Works, Rows

LEMMA CreationSteps ==
    ASSUME CInv, NEW q \in Requests, Creation(q)
    PROVE  Goes(q) \/ \E c \in ClientIds : \E new : Writes(q, c, new)
<1>1. /\ work[q] \in Works /\ GoodWork(work[q])
      /\ clients \in [ClientIds -> Rows] /\ issued \in Nat
  BY DEF CInv, RowsTyped, GoodWork
<1>2. CASE CreateClient(q)
  <2>1. PICK email \in Emails, portal \in Portal :
          Continue(q, Work("searching", None, FALSE, email, portal))
    BY <1>2 DEF CreateClient
  <2> DEFINE w == Work("searching", None, FALSE, email, portal)
  <2>2. "searching" \in WorkSteps
    BY DEF WorkSteps
  <2>3. w \in Works /\ w.step = "searching" /\ w.email = email
    BY <2>2 DEF Work, Works
  <2> HIDE DEF w
  <2>4. GoodWork(w)
    BY <2>3 DEF GoodWork, Addressed
  <2>5. WithinLimit /\ UNCHANGED <<clients, issued, mixed>>
    BY <1>2 DEF CreateClient
  <2> QED
    BY <2>1, <2>4, <2>5 DEF Goes, w
<1>3. CASE FindSoftDeleted(q)
  <2> DEFINE email == work[q].email
             found == {c \in ClientIds : clients[c].deleted /\ clients[c].email = email}
  <2>1. /\ work[q].step \in Admitted /\ email \in Emails /\ work[q].portal \in Portal
        /\ {"restoring", "comparing"} \subseteq WorkSteps
    BY <1>1, <1>3 DEF FindSoftDeleted, Doing, GoodWork, Creating, Admitted, Works, WorkSteps
  <2>2. CASE \E c \in found : Continue(q, Work("restoring", c, clients[c].token # 0, email, work[q].portal))
    <3>1. PICK c \in found : Continue(q, Work("restoring", c, clients[c].token # 0, email, work[q].portal))
      BY <2>2
    <3> DEFINE w == Work("restoring", c, clients[c].token # 0, email, work[q].portal)
    <3>2. /\ w \in Works /\ w.step = "restoring" /\ w.client = c /\ w.email = email
          /\ w.had <=> clients[c].token # 0
      BY <2>1, <3>1 DEF Work, Works
    <3>3. c \in ClientIds /\ Exists(c)
      BY <2>1, <3>1, ClientAssumption DEF Exists
    <3> HIDE DEF w
    <3>4. GoodWork(w)
      BY <2>1, <3>2, <3>3 DEF GoodWork
    <3> QED
      BY <1>3, <2>1, <3>1, <3>4 DEF Goes, w, FindSoftDeleted
  <2>3. CASE found = {} /\ Continue(q, Work("comparing", None, FALSE, email, work[q].portal))
    <3> DEFINE w == Work("comparing", None, FALSE, email, work[q].portal)
    <3>1. /\ w \in Works /\ w.step = "comparing" /\ w.email = email
      BY <2>1 DEF Work, Works
    <3> HIDE DEF w
    <3>2. \A c \in ClientIds : clients[c].deleted => clients[c].email # email
      BY <2>3
    <3>3. GoodWork(w)
      BY <2>1, <3>1, <3>2 DEF GoodWork, Addressed
    <3> QED
      BY <1>3, <2>1, <2>3, <3>3 DEF Goes, w, FindSoftDeleted
  <2> QED
    BY <1>3, <2>2, <2>3 DEF FindSoftDeleted
<1>4. CASE RestoreOnCreate(q)
  <2> DEFINE c == work[q].client
             portalled == WithPortal(clients[c], work[q].portal, work[q].had)
             new == [portalled EXCEPT !.email = work[q].email, !.deleted = FALSE, !.active = TRUE]
  <2>1. work[q].step = "restoring" /\ Write(q, c, new)
    BY <1>4 DEF RestoreOnCreate, Doing
  <2>7. work[q].email \in Emails /\ work[q].email # None
    BY <1>1, <2>1, ClientAssumption DEF GoodWork, Creating
  <2>2. /\ c \in ClientIds /\ clients[c] \in Rows
        /\ clients[c].enabled /\ clients[c].token = 0 => c \in mixed
        /\ work[q].portal \in Portal /\ work[q].had \in BOOLEAN
        /\ work[q].email \in Emails \cup {None}
    BY <2>1, Addresses DEF Addressed
  <2>3. ~work[q].stale => (work[q].had <=> clients[c].token # 0)
    BY <1>1, <2>1 DEF GoodWork
  <2>4. /\ portalled \in Rows /\ portalled.token \in {clients[c].token, 0, issued + 1}
        /\ ~work[q].stale /\ portalled.enabled /\ portalled.token = 0 => c \in mixed
    BY <1>1, <2>2, <2>3, PortalWritten
  <2> HIDE DEF portalled
  <2>5. /\ new \in Rows /\ new.token = portalled.token /\ new.email # None
        /\ (new.enabled <=> portalled.enabled)
    BY <2>2, <2>4, <2>7 DEF Rows
  <2> HIDE DEF new
  <2>6. Writes(q, c, new)
    BY <2>1, <2>4, <2>5 DEF Writes, Admitted, Creating
  <2> QED
    BY <2>2, <2>6
<1>5. CASE CompareEmail(q)
  <2>1. CASE Leave(q)
    BY <1>5, <2>1, Leaves DEF CompareEmail
  <2>2. CASE ~Taken(work[q].email, None) /\ Continue(q, [work[q] EXCEPT !.step = "inserting"])
    <3> DEFINE w == [work[q] EXCEPT !.step = "inserting"]
    <3>1. work[q].step = "comparing" /\ "inserting" \in WorkSteps
      BY <1>5 DEF CompareEmail, Doing, WorkSteps
    <3>2. w \in Works /\ w.step = "inserting" /\ w.email = work[q].email /\ w.stale = work[q].stale
      BY <3>1, StepsOn
    <3> HIDE DEF w
    <3>3. w.email \in Emails
      BY <1>1, <3>1, <3>2 DEF GoodWork, Creating
    <3>4. ~w.stale => \A c \in ClientIds : clients[c].email # w.email
      BY <1>1, <2>2, <3>1, <3>2, <3>3, ClientAssumption DEF GoodWork, Taken, Alive, Exists
    <3>5. GoodWork(w)
      BY <3>2, <3>3, <3>4 DEF GoodWork, Addressed
    <3> QED
      BY <1>5, <2>2, <3>1, <3>5 DEF Goes, w, CompareEmail, Admitted, Creating
  <2> QED
    BY <1>5, <2>1, <2>2 DEF CompareEmail
<1>6. CASE InsertClient(q)
  <2> DEFINE old == [NoRow EXCEPT !.email = work[q].email, !.active = TRUE]
             new == WithPortal(old, work[q].portal, FALSE)
  <2>1. PICK c \in ClientIds : Write(q, c, new)
    BY <1>6 DEF InsertClient
  <2>2. work[q].step = "inserting"
    BY <1>6 DEF InsertClient, Doing
  <2>3. work[q].email \in Emails /\ work[q].email # None /\ work[q].portal \in Portal
    BY <1>1, <2>2, ClientAssumption DEF Works, GoodWork, Creating
  <2>4. old \in Rows /\ old.token = 0 /\ ~old.enabled /\ old.email # None
    BY <2>3 DEF NoRow, Rows
  <2> HIDE DEF old
  <2>5. new \in Rows /\ new.email # None /\ new.token \in {0, issued + 1} /\ ~(new.enabled /\ new.token = 0)
    BY <1>1, <2>3, <2>4, PortalWritten
  <2> HIDE DEF new
  <2>6. Writes(q, c, new)
    BY <2>1, <2>2, <2>5 DEF Writes, Admitted, Creating
  <2> QED
    BY <2>6
<1> QED
  BY <1>2, <1>3, <1>4, <1>5, <1>6 DEF Creation

LEMMA ChangeReads ==
    ASSUME CInv, NEW q \in Requests,
           \/ ReadForUpdate(q) \/ ReadForStatus(q) \/ ReadForRestore(q)
           \/ ReadForToken(q) \/ ReadForDelete(q)
    PROVE  Goes(q)
<1>1. clients \in [ClientIds -> Rows]
  BY DEF CInv, RowsTyped
<1>2. ASSUME NEW c \in ClientIds, NEW email \in Emails \cup {None}, NEW portal \in Portal,
             NEW step \in {"renaming", "updating"},
             ReadClient(q, c, Work(step, c, clients[c].token # 0, email, portal)), Exists(c)
      PROVE  Goes(q)
  <2> DEFINE w == Work(step, c, clients[c].token # 0, email, portal)
  <2>1. step \in WorkSteps /\ step \in Addressed \ Admitted
    BY DEF WorkSteps, Addressed, Admitted, Creating
  <2>2. /\ w \in Works /\ w.step = step /\ w.client = c
        /\ w.had <=> clients[c].token # 0
    BY <2>1 DEF Work, Works
  <2> HIDE DEF w
  <2>3. GoodWork(w)
    BY <1>2, <2>1, <2>2 DEF GoodWork, Admitted
  <2> QED
    BY <1>2, <2>1, <2>2, <2>3 DEF Goes, w, ReadClient
<1>3. ASSUME NEW c \in ClientIds, NEW email \in Emails \cup {None}, NEW had \in BOOLEAN,
             NEW step \in {"switching", "counting", "renewing", "deleting"},
             ReadClient(q, c, Work(step, c, had, email, "keep")), Exists(c)
      PROVE  Goes(q)
  <2> DEFINE w == Work(step, c, had, email, "keep")
  <2>1. step \in WorkSteps /\ step \in Addressed \ Admitted /\ "keep" \in Portal
    BY DEF WorkSteps, Addressed, Admitted, Creating, Portal
  <2>2. w \in Works /\ w.step = step /\ w.client = c
    BY <2>1 DEF Work, Works
  <2> HIDE DEF w
  <2>3. GoodWork(w)
    BY <1>3, <2>1, <2>2 DEF GoodWork, Admitted
  <2> QED
    BY <1>3, <2>1, <2>2, <2>3 DEF Goes, w, ReadClient
<1>4. CASE ReadForUpdate(q)
  <2>1. PICK c \in ClientIds, email \in Emails \cup {None}, portal \in Portal, step \in {"renaming", "updating"} :
          ReadClient(q, c, Work(step, c, clients[c].token # 0, email, portal)) /\ Exists(c)
    BY <1>4 DEF ReadForUpdate, Alive
  <2> QED
    BY <1>2, <2>1
<1>5. CASE ReadForStatus(q)
  <2>1. PICK c \in ClientIds : Exists(c) /\ ReadClient(q, c, Work("switching", c, clients[c].active, None, "keep"))
    BY <1>5 DEF ReadForStatus, Alive
  <2>2. clients[c].active \in BOOLEAN
    BY <1>1 DEF Rows
  <2> QED
    BY <1>3, <2>1, <2>2
<1>6. CASE ReadForRestore(q)
  <2>1. PICK c \in ClientIds : Exists(c) /\ ReadClient(q, c, Work("counting", c, FALSE, clients[c].email, "keep"))
    BY <1>6 DEF ReadForRestore
  <2>2. clients[c].email \in Emails \cup {None}
    BY <1>1 DEF Rows
  <2> QED
    BY <1>3, <2>1, <2>2
<1>7. CASE ReadForToken(q) \/ ReadForDelete(q)
  <2>1. PICK c \in ClientIds, step \in {"renewing", "deleting"} :
          ReadClient(q, c, Work(step, c, FALSE, None, "keep")) /\ Exists(c)
    BY <1>7 DEF ReadForToken, ReadForDelete, Alive
  <2> QED
    BY <1>3, <2>1
<1> QED
  BY <1>4, <1>5, <1>6, <1>7

\* The checks between reading and writing.
LEMMA ChangeChecks ==
    ASSUME CInv, NEW q \in Requests, CompareNewEmail(q) \/ CheckLimit(q) \/ MatchEmail(q)
    PROVE  Goes(q)
<1>1. CASE Leave(q)
  BY <1>1, Leaves DEF CompareNewEmail, CheckLimit, MatchEmail
<1>2. ASSUME NEW step \in {"updating", "matching", "reviving"},
             Continue(q, [work[q] EXCEPT !.step = step]),
             work[q].step \in {"renaming", "counting", "matching"},
             step = "updating" => work[q].step = "renaming",
             \/ WithinLimit \/ step = "updating"
             \/ work[q].step = "matching"
      PROVE  Goes(q)
  <2> DEFINE w == [work[q] EXCEPT !.step = step]
  <2>1. step \in WorkSteps /\ work[q].step \in Addressed /\ step \in Addressed \ Creating
    BY <1>2 DEF WorkSteps, Addressed, Creating
  <2>2. /\ w \in Works /\ w.step = step /\ w.client = work[q].client
        /\ (w.had <=> work[q].had) /\ (w.stale <=> work[q].stale)
    BY <2>1, StepsOn
  <2> HIDE DEF w
  <2>3. GoodWork(work[q])
    BY DEF CInv
  <2>4. GoodWork(w)
    BY <1>2, <2>1, <2>2, <2>3 DEF GoodWork, Creating
  <2>5. step = "updating" => step \notin Admitted
    BY DEF Admitted, Creating
  <2>6. "matching" \in Admitted
    BY DEF Admitted
  <2>7. UNCHANGED <<clients, issued, mixed>>
    BY DEF CompareNewEmail, CheckLimit, MatchEmail
  <2> QED
    BY <1>2, <2>2, <2>4, <2>5, <2>6, <2>7 DEF Goes, w
<1> QED
  BY <1>1, <1>2 DEF CompareNewEmail, CheckLimit, MatchEmail, Doing

LEMMA ChangeWrites ==
    ASSUME CInv, NEW q \in Requests,
           \/ UpdateClient(q) \/ UpdateClientStatus(q) \/ RestoreClient(q)
           \/ RegeneratePortalToken(q) \/ DeleteClient(q)
    PROVE  \E c \in ClientIds : \E new : Writes(q, c, new)
<1> DEFINE c == work[q].client
           old == clients[c]
<1>1. work[q].step \in {"updating", "switching", "reviving", "renewing", "deleting"}
  BY DEF UpdateClient, UpdateClientStatus, RestoreClient, RegeneratePortalToken, DeleteClient, Doing
<1>2. /\ c \in ClientIds /\ old \in Rows /\ Exists(c) /\ old.email # None
      /\ old.enabled /\ old.token = 0 => c \in mixed
      /\ work[q].portal \in Portal /\ work[q].had \in BOOLEAN
      /\ work[q].email \in Emails \cup {None}
      /\ issued \in Nat /\ GoodWork(work[q])
  BY <1>1, Addresses DEF Addressed, CInv, RowsTyped, Exists
<1> SUFFICES \E new : Writes(q, c, new)
  BY <1>2
<1> HIDE DEF c
<1>3. CASE UpdateClient(q)
  <2> DEFINE portalled == WithPortal(old, work[q].portal, work[q].had)
             email == IF work[q].email = None THEN portalled.email ELSE work[q].email
             new == [portalled EXCEPT !.email = email]
  <2>1. work[q].step = "updating" /\ Write(q, c, new)
    BY <1>3 DEF UpdateClient, Doing, c
  <2>2. ~work[q].stale => (work[q].had <=> old.token # 0)
    BY <1>2, <2>1 DEF GoodWork, c
  <2>3. /\ portalled \in Rows /\ portalled.token \in {old.token, 0, issued + 1}
        /\ portalled.email = old.email /\ (portalled.deleted <=> old.deleted)
        /\ ~work[q].stale /\ portalled.enabled /\ portalled.token = 0 => c \in mixed
    BY <1>2, <2>2, PortalWritten
  <2> HIDE DEF portalled
  <2>4. email \in Emails \cup {None} /\ email # None
    BY <1>2, <2>3 DEF Exists, Rows
  <2> HIDE DEF email
  <2>5. /\ new \in Rows /\ new.token = portalled.token /\ new.email = email
        /\ (new.enabled <=> portalled.enabled) /\ (new.deleted <=> old.deleted)
    BY <2>3, <2>4 DEF Rows
  <2> HIDE DEF new
  <2>6. Writes(q, c, new)
    BY <1>2, <2>1, <2>3, <2>4, <2>5 DEF Writes, Alive, c
  <2> QED
    BY <2>6
<1>4. CASE UpdateClientStatus(q)
  <2> DEFINE new == [old EXCEPT !.active = ~work[q].had]
  <2>1. Write(q, c, new)
    BY <1>4 DEF UpdateClientStatus, c
  <2>2. new \in Rows /\ new.token = old.token /\ (new.enabled <=> old.enabled)
        /\ new.email = old.email /\ (new.deleted <=> old.deleted)
    BY <1>2 DEF Rows
  <2> HIDE DEF new
  <2>3. Writes(q, c, new)
    BY <1>2, <2>1, <2>2 DEF Writes, Alive
  <2> QED
    BY <2>3
<1>5. CASE RestoreClient(q)
  <2> DEFINE new == [old EXCEPT !.deleted = FALSE, !.active = TRUE]
  <2>1. Write(q, c, new) /\ work[q].step \in Admitted
    BY <1>5 DEF RestoreClient, c, Doing, Admitted
  <2>2. /\ new \in Rows /\ new.token = old.token /\ new.email = old.email
        /\ (new.enabled <=> old.enabled)
    BY <1>2 DEF Rows
  <2> HIDE DEF new
  <2>3. Writes(q, c, new)
    BY <1>2, <2>1, <2>2 DEF Writes
  <2> QED
    BY <2>3
<1>6. CASE RegeneratePortalToken(q)
  <2> DEFINE new == [old EXCEPT !.token = issued + 1]
  <2>1. Write(q, c, new)
    BY <1>6 DEF RegeneratePortalToken, c
  <2>2. new \in Rows /\ new.token = issued + 1 /\ new.email = old.email /\ (new.deleted <=> old.deleted)
    BY <1>2 DEF Rows
  <2> HIDE DEF new
  <2>3. Writes(q, c, new)
    BY <1>2, <2>1, <2>2 DEF Writes, Alive
  <2> QED
    BY <2>3
<1>7. CASE DeleteClient(q)
  <2> DEFINE new == [old EXCEPT !.deleted = TRUE, !.active = FALSE, !.enabled = FALSE, !.token = 0]
  <2>1. Write(q, c, new)
    BY <1>7 DEF DeleteClient, c
  <2>2. new \in Rows /\ new.token = 0 /\ ~new.enabled /\ new.deleted /\ new.email = old.email
    BY <1>2 DEF Rows
  <2> HIDE DEF new
  <2>3. Writes(q, c, new)
    BY <1>2, <2>1, <2>2 DEF Writes
  <2> QED
    BY <2>3
<1> QED
  BY <1>3, <1>4, <1>5, <1>6, <1>7

-----------------------------------------------------------------------------
(* Types, tokens and requests *)

\* A write that the database lets through.
Stores(q, c, new) ==
    /\ Writes(q, c, new)
    /\ \A d \in ClientIds \ {c} : clients[d].email # new.email
    /\ clients' = [clients EXCEPT ![c] = new]
    /\ issued' = IF new.token > issued THEN new.token ELSE issued
    /\ mixed' = IF work[q].stale /\ work[q].client = c THEN mixed \cup {c} ELSE mixed
    /\ work' = [p \in Requests |->
         IF p = q THEN NoWork
         ELSE IF work[p].client = c \/ work[p].email \in {clients[c].email, new.email} \ {None}
         THEN [work[p] EXCEPT !.stale = TRUE] ELSE work[p]]

\* The two kinds of step that requests for clients make.
LEMMA ClientSteps ==
    ASSUME CInv, ClientStep
    PROVE  \E q \in Requests : Goes(q) \/ \E c \in ClientIds : \E new : Stores(q, c, new)
<1>1. PICK q \in Requests : Creation(q) \/ Change(q) \/ BreakOff(q)
  BY DEF ClientStep
<1>2. CASE BreakOff(q)
  BY <1>2, Leaves DEF BreakOff
<1>3. ASSUME NEW c \in ClientIds, NEW new, Writes(q, c, new)
      PROVE  Goes(q) \/ Stores(q, c, new)
  <2>1. CASE \E d \in ClientIds \ {c} : clients[d].email = new.email
    BY <1>3, <2>1, Leaves DEF Writes, Write
  <2>2. CASE ~\E d \in ClientIds \ {c} : clients[d].email = new.email
    BY <1>3, <2>2 DEF Writes, Write, Stores
  <2> QED
    BY <2>1, <2>2
<1>4. CASE Creation(q)
  BY <1>3, <1>4, CreationSteps
<1>5. CASE Change(q)
  BY <1>3, <1>5, ChangeReads, ChangeChecks, ChangeWrites DEF Change
<1> QED
  BY <1>1, <1>2, <1>4, <1>5

\* A request that another one's write makes stale.
LEMMA StaleIsWork ==
    ASSUME NEW w \in Works
    PROVE  LET v == [w EXCEPT !.stale = TRUE]
           IN  /\ v \in Works /\ v.stale /\ v.step = w.step
               /\ v.client = w.client /\ v.email = w.email
  BY DEF Works

LEMMA RowsAfterStore ==
    ASSUME CInv, NEW q \in Requests, NEW c \in ClientIds, NEW new, Stores(q, c, new)
    PROVE  RowsTyped' /\ TokensApart'
<1>1. /\ clients \in [ClientIds -> Rows] /\ issued \in Nat /\ mixed \subseteq ClientIds
      /\ new \in Rows /\ new.token \in Nat
      /\ clients' = [clients EXCEPT ![c] = new]
      /\ new.token \in {clients[c].token, 0, issued + 1}
      /\ \A d \in ClientIds : clients[d].token \in Nat
  BY DEF CInv, RowsTyped, Stores, Writes, Rows
<1>2. clients'[c] = new /\ \A d \in ClientIds \ {c} : clients'[d] = clients[d]
  BY <1>1
<1>3. issued' = IF new.token > issued THEN new.token ELSE issued
  BY DEF Stores
<1>4. mixed' = IF work[q].stale /\ work[q].client = c THEN mixed \cup {c} ELSE mixed
  BY DEF Stores
<1>5. RowsTyped'
  BY <1>1, <1>3, <1>4 DEF RowsTyped
<1>6. \A d \in ClientIds : clients[d].token <= issued
  BY DEF CInv, TokensApart
<1>7. \A d, e \in ClientIds : clients[d].token = clients[e].token => d = e \/ clients[d].token = 0
  BY DEF CInv, TokensApart
<1>8. \A d \in ClientIds : clients'[d].token <= issued'
  BY <1>1, <1>2, <1>3, <1>6
<1>9. \A d, e \in ClientIds : clients'[d].token = clients'[e].token => d = e \/ clients'[d].token = 0
  <2>1. \A d \in ClientIds \ {c} : clients[d].token = new.token => new.token = 0
    BY <1>1, <1>6, <1>7
  <2> QED
    BY <1>2, <1>7, <2>1
<1>10. \A d \in ClientIds \ mixed' : clients'[d].enabled => clients'[d].token # 0
  <2>1. \A d \in ClientIds \ mixed : clients[d].enabled => clients[d].token # 0
    BY DEF CInv, TokensApart
  <2>2. new.enabled /\ new.token = 0 => c \in mixed \/ (work[q].stale /\ work[q].client = c)
    BY DEF Stores, Writes
  <2> QED
    BY <1>2, <1>4, <2>1, <2>2
<1> QED
  BY <1>5, <1>8, <1>9, <1>10 DEF TokensApart

LEMMA WorkAfterStore ==
    ASSUME CInv, NEW q \in Requests, NEW c \in ClientIds, NEW new, Stores(q, c, new),
           NEW p \in Requests
    PROVE  GoodWork(work[p])'
<1>1. /\ clients \in [ClientIds -> Rows] /\ new \in Rows /\ new.email # None
      /\ clients' = [clients EXCEPT ![c] = new]
      /\ GoodWork(work[p]) /\ work[p] \in Works
  BY DEF CInv, RowsTyped, Stores, Writes, GoodWork
<1>2. clients'[c] = new /\ \A d \in ClientIds \ {c} : clients'[d] = clients[d]
  BY <1>1
<1>3. \A d \in ClientIds : Exists(d) => Exists(d)'
  BY <1>1, <1>2 DEF Exists
<1>4. CASE p = q
  <2>1. work'[p] = NoWork
    BY <1>4 DEF Stores
  <2>2. NoWork \in Works /\ NoWork.step = "idle"
    BY NoWorkIsGood DEF GoodWork
  <2> QED
    BY <2>1, <2>2 DEF GoodWork, Addressed, Creating
<1>5. CASE p # q /\ (work[p].client = c \/ work[p].email \in {clients[c].email, new.email} \ {None})
  <2>1. work'[p] = [work[p] EXCEPT !.stale = TRUE]
    BY <1>5 DEF Stores
  <2>2. /\ work'[p] \in Works /\ work'[p].stale /\ work'[p].step = work[p].step
        /\ work'[p].client = work[p].client /\ work'[p].email = work[p].email
    BY <1>1, <2>1, StaleIsWork
  <2> QED
    BY <1>1, <1>3, <2>2 DEF GoodWork
<1>6. CASE /\ p # q /\ work[p].client # c
           /\ work[p].email \notin {clients[c].email, new.email} \ {None}
  <2>1. work'[p] = work[p]
    BY <1>6 DEF Stores
  <2>2. work[p].step \in Creating => work[p].email \in Emails /\ work[p].email # None
    BY <1>1, ClientAssumption DEF GoodWork
  <2>3. work[p].step \in Creating => new.email # work[p].email
    BY <1>6, <2>2
  <2>4. work[p].step \in Addressed =>
          /\ work[p].client \in ClientIds /\ clients'[work[p].client].email # None
          /\ clients'[work[p].client] = clients[work[p].client]
    <3>1. ASSUME work[p].step \in Addressed PROVE work[p].client \in ClientIds /\ Exists(work[p].client)
      BY <1>1, <3>1 DEF GoodWork
    <3> QED
      BY <1>2, <1>6, <3>1 DEF Exists
  <2>5. "comparing" \in Creating /\ "inserting" \in Creating
        /\ {"restoring", "renaming", "updating"} \subseteq Addressed
    BY DEF Creating, Addressed
  <2>6. ~work[p].stale /\ work[p].step \in {"restoring", "renaming", "updating"} =>
          (work[p].had <=> clients'[work[p].client].token # 0)
    BY <1>1, <2>4, <2>5 DEF GoodWork
  <2>7. ~work[p].stale /\ work[p].step = "comparing" =>
          \A d \in ClientIds : clients'[d].deleted => clients'[d].email # work[p].email
    BY <1>1, <1>2, <2>3, <2>5 DEF GoodWork
  <2>8. ~work[p].stale /\ work[p].step = "inserting" =>
          \A d \in ClientIds : clients'[d].email # work[p].email
    BY <1>1, <1>2, <2>3, <2>5 DEF GoodWork
  <2> QED
    BY <1>1, <2>1, <2>2, <2>4, <2>6, <2>7, <2>8 DEF GoodWork, Exists
<1> QED
  BY <1>4, <1>5, <1>6

LEMMA ClientsKept == ASSUME CInv, [ClientStep]_clientVars PROVE CInv'
<1>1. ASSUME NEW q \in Requests, Goes(q) PROVE CInv'
  <2>1. PICK w : Continue(q, w) /\ GoodWork(w)
    BY <1>1 DEF Goes
  <2>2. UNCHANGED <<clients, issued, mixed>>
    BY <1>1 DEF Goes
  <2>3. GoodWork(w)' /\ \A p \in Requests : GoodWork(work[p]) => work[p] \in Works
    BY <2>1, <2>2 DEF GoodWork, Exists
  <2>4. \A p \in Requests : work'[p] = IF p = q THEN w ELSE work[p]
    BY <2>1, <2>2 DEF Continue, CInv
  <2>5. ASSUME NEW p \in Requests PROVE GoodWork(work[p])'
    <3>1. CASE p = q
      BY <2>3, <2>4, <3>1 DEF GoodWork, Exists
    <3>2. CASE p # q
      BY <2>2, <2>4, <3>2 DEF CInv, GoodWork, Exists
    <3> QED
      BY <3>1, <3>2
  <2> QED
    BY <2>1, <2>2, <2>3, <2>5 DEF CInv, RowsTyped, TokensApart, Continue, GoodWork
<1>2. ASSUME NEW q \in Requests, NEW c \in ClientIds, NEW new, Stores(q, c, new) PROVE CInv'
  <2>1. RowsTyped' /\ TokensApart' /\ \A p \in Requests : GoodWork(work[p])'
    BY <1>2, RowsAfterStore, WorkAfterStore
  <2>2. \A p \in Requests : work'[p] \in Works
    BY <2>1 DEF GoodWork
  <2>3. work' \in [Requests -> Works]
    BY <1>2, <2>2 DEF Stores
  <2> QED
    BY <2>1, <2>3 DEF CInv
<1>3. CASE UNCHANGED clientVars
  BY <1>3 DEF clientVars, CInv, RowsTyped, TokensApart, GoodWork, Exists
<1> QED
  BY <1>1, <1>2, <1>3, ClientSteps

LEMMA ClientsFirst == ASSUME ClientsInit PROVE CInv
<1>1. NoRow \in Rows /\ NoRow.token = 0 /\ ~NoRow.enabled
  BY DEF NoRow, Rows
<1>2. mixed = {}
  BY DEF ClientsInit
<1>3. ASSUME clients = [c \in ClientIds |-> NoRow] /\ issued = 0
      PROVE  RowsTyped /\ TokensApart
  BY <1>1, <1>2, <1>3 DEF RowsTyped, TokensApart
<1>4. ASSUME NEW c \in ClientIds, NEW old \in Rows, old.token \in {0, 1}, old.enabled => old.token # 0,
             issued = 1, clients = [d \in ClientIds |-> IF d = c THEN old ELSE NoRow]
      PROVE  RowsTyped /\ TokensApart
  <2>1. clients[c] = old /\ \A d \in ClientIds \ {c} : clients[d] = NoRow
    BY <1>4
  <2>2. RowsTyped
    BY <1>1, <1>2, <1>4 DEF RowsTyped
  <2> QED
    BY <1>1, <1>2, <1>4, <2>1, <2>2 DEF TokensApart
<1>5. ASSUME NEW c \in ClientIds, NEW email \in Emails, issued = 1,
             \E old \in {[email |-> email, active |-> TRUE, deleted |-> FALSE,
                           enabled |-> TRUE, token |-> 1],
                          [NoRow EXCEPT !.email = email, !.deleted = TRUE]} :
                clients = [d \in ClientIds |-> IF d = c THEN old ELSE NoRow]
      PROVE  RowsTyped /\ TokensApart
  <2> DEFINE linked == [email |-> email, active |-> TRUE, deleted |-> FALSE,
                        enabled |-> TRUE, token |-> 1]
             deleted == [NoRow EXCEPT !.email = email, !.deleted = TRUE]
  <2>1. linked \in Rows /\ linked.token = 1
    BY DEF Rows
  <2>2. deleted \in Rows /\ deleted.token = 0 /\ ~deleted.enabled
    BY <1>1 DEF Rows
  <2>3. PICK old \in {linked, deleted} : clients = [d \in ClientIds |-> IF d = c THEN old ELSE NoRow]
    BY <1>5
  <2> HIDE DEF linked, deleted
  <2>4. old \in Rows /\ old.token \in {0, 1} /\ (old.enabled => old.token # 0)
    BY <2>1, <2>2, <2>3
  <2> QED
    BY <1>4, <1>5, <2>3, <2>4
<1>6. RowsTyped /\ TokensApart
  BY <1>3, <1>5 DEF ClientsInit
<1>7. \A q \in Requests : work[q] = NoWork
  BY DEF ClientsInit
<1>8. work \in [Requests -> Works]
  BY NoWorkIsGood DEF ClientsInit, GoodWork
<1> QED
  BY <1>6, <1>7, <1>8, NoWorkIsGood DEF CInv

\* Requests for clients change nothing of billing but what may still happen.
LEMMA BillingLeft ==
    ASSUME BInv, ClientStep
    PROVE  BInv'
<1>1. /\ BillingTypes /\ EventsNamed /\ "clients" \in Expenses
  BY DEF BInv, Expenses
<1>2. PICK q \in Requests : Begin(q) \/ UNCHANGED left
  BY DEF ClientStep, Creation, Change, CreateClient, FindSoftDeleted, RestoreOnCreate,
     CompareEmail, InsertClient, ReadForUpdate, CompareNewEmail, UpdateClient, ReadForStatus,
     UpdateClientStatus, ReadForRestore, CheckLimit, MatchEmail, RestoreClient, ReadForToken,
     RegeneratePortalToken, ReadForDelete, DeleteClient, BreakOff, ReadClient
<1>3. left' \in [Expenses -> Nat]
  BY <1>1, <1>2, Spent DEF Begin, BillingTypes
<1>4. UNCHANGED <<row, stripeVars, historyVars, log, reminders, today, task, raced, byStaff, peak>>
  BY DEF ClientStep
<1> QED
  BY <1>1, <1>3, <1>4 DEF BInv, BillingTypes, EventsNamed, stripeVars, historyVars

\* The limit that counts is at most the highest there was.
PeakHolds == peak \in Nat /\ Limit[row.plan] <= peak

Inv == BInv /\ CInv /\ PeakHolds

LEMMA PlanLimit == ASSUME BInv PROVE Limit[row.plan] \in Nat \ {0}
<1>1. row.plan \in Plans
  BY DEF BInv, BillingTypes, RowTypes
<1> QED
  BY <1>1, LimitAssumption

LEMMA InvFirst == ASSUME Init PROVE Inv
<1>1. BInv /\ CInv
  BY BillingFirst, ClientsFirst DEF Init
<1>2. PeakHolds
  BY <1>1, PlanLimit DEF Init, PeakHolds
<1> QED
  BY <1>1, <1>2 DEF Inv

LEMMA InvKept == ASSUME Inv, [Next]_vars PROVE Inv'
<1>1. CASE BillingStep
  <2>1. BInv'
    BY <1>1, BillingKept DEF BillingStep, Inv
  <2>2. CInv'
    BY <1>1, ClientsKept DEF BillingStep, Inv
  <2>3. Limit[row'.plan] \in Nat
    BY <2>1, LimitAssumption DEF BInv, BillingTypes, RowTypes
  <2>4. PeakHolds'
    BY <1>1, <2>3 DEF BillingStep, Inv, PeakHolds
  <2> QED
    BY <2>1, <2>2, <2>4 DEF Inv
<1>2. CASE ClientStep
  BY <1>2, BillingLeft, ClientsKept DEF Inv, PeakHolds, ClientStep
<1>3. CASE UNCHANGED vars
  BY <1>3, ClientsKept DEF vars, billingVars, clientVars, stripeVars, historyVars, Inv, BInv,
     BillingTypes, EventsNamed, PeakHolds
<1> QED
  BY <1>1, <1>2, <1>3 DEF Next

LEMMA InvHolds == Spec => []Inv
  BY InvFirst, InvKept, PTL DEF Spec

\* Whatever requests overlap and are cut off, and whatever Stripe sends, the
\* rows keep their types.
THEOREM TypeCorrect == Spec => []TypeOK
<1>1. Inv => TypeOK
  BY DEF Inv, BInv, CInv, RowsTyped, PeakHolds, TypeOK
<1> QED
  BY <1>1, InvHolds, PTL

-----------------------------------------------------------------------------
(* Portal links and emails *)

\* regeneratePortalToken, updateClient, deleteClient and restorations: a token
\* that a client has lost is never in force again.
THEOREM RevokedStayDead == Spec => RevokedLinksStayDead
<1> DEFINE Step == \A c \in ClientIds : clients'[c].token \notin {clients[c].token, 0} =>
                      /\ clients'[c].token > issued
                      /\ \A d \in ClientIds \ {c} : clients'[d].token # clients'[c].token
<1>1. ASSUME Inv, [Next]_vars PROVE [Step]_vars
  <2>1. CASE UNCHANGED clients
    BY <2>1
  <2>2. ASSUME NEW q \in Requests, NEW c \in ClientIds, NEW new, Stores(q, c, new)
        PROVE  Step
    <3>1. /\ clients'[c] = new /\ \A d \in ClientIds \ {c} : clients'[d] = clients[d]
          /\ new.token \in {clients[c].token, 0, issued + 1}
          /\ issued \in Nat
          /\ \A d \in ClientIds : clients[d].token \in Nat /\ clients[d].token <= issued
      BY <1>1, <2>2 DEF Stores, Writes, Inv, CInv, RowsTyped, TokensApart, Rows
    <3> QED
      BY <3>1
  <2>3. CASE ClientStep
    BY <1>1, <2>1, <2>2, <2>3, ClientSteps DEF Inv, Goes
  <2> QED
    BY <1>1, <2>1, <2>3 DEF Next, BillingStep, clientVars, vars
<1>2. Spec => [][Step]_vars
  BY <1>1, InvHolds, PTL DEF Spec
<1> QED
  BY <1>2 DEF RevokedLinksStayDead

\* createClient restores a deleted client and refuses a taken email, so that
\* it meets the UNIQUE key only when the email was written meanwhile.
THEOREM CreationsMeetNoKey == Spec => []NoCollision
<1>1. Inv => NoCollision
  BY DEF Inv, CInv, GoodWork, NoCollision, Doing, Works
<1> QED
  BY <1>1, InvHolds, PTL

\* getClientPortalLink and resolvePortalClient: the link of a client opens the
\* portal of that client alone.
THEOREM LinksOpenPortals == Spec => []EnabledHasLink
<1>1. ASSUME Inv PROVE EnabledHasLink
  <2> SUFFICES ASSUME NEW c \in Listed("active") \ mixed, clients[c].enabled
               PROVE  Resolve(LinkOf(c)) = {c}
    BY DEF EnabledHasLink
  <2>1. c \in ClientIds /\ Alive(c) /\ clients[c].active /\ clients[c].token # 0
    BY <1>1 DEF Listed, Alive, Inv, CInv, TokensApart
  <2>2. LinkOf(c) = clients[c].token
    BY <2>1 DEF LinkOf
  <2>3. \A d \in ClientIds : clients[d].token = clients[c].token => d = c
    BY <1>1, <2>1 DEF Inv, CInv, TokensApart
  <2> QED
    BY <2>1, <2>2, <2>3 DEF Resolve, Alive
<1> QED
  BY <1>1, InvHolds, PTL

-----------------------------------------------------------------------------
(* The limit on clients *)

\* The requests that have passed the limit, each of which may still add a client.
Passed == {q \in Requests : work[q].step \in Admitted}
Room == Cardinality(InUse) + Cardinality(Passed) <= peak + Cardinality(Requests) - 1

LEMMA Finite ==
    /\ IsFiniteSet(InUse) /\ Cardinality(InUse) \in Nat
    /\ IsFiniteSet(Passed) /\ Cardinality(Passed) \in Nat
    /\ Cardinality(Passed) <= Cardinality(Requests)
    /\ Cardinality(Requests) \in Nat \ {0}
<1>1. InUse \subseteq ClientIds /\ Passed \subseteq Requests
  BY DEF InUse, Passed
<1>2. /\ IsFiniteSet(InUse) /\ IsFiniteSet(Passed)
      /\ Cardinality(Passed) <= Cardinality(Requests)
  BY <1>1, FiniteAssumption, FS_Subset
<1>3. Cardinality(Requests) \in Nat /\ Cardinality(Requests) # 0
  BY FiniteAssumption, FS_CardinalityType, FS_EmptySet
<1> QED
  BY <1>2, <1>3, FS_CardinalityType

\* Both lists of clients that are not deleted make up the clients in use.
LEMMA ActiveAndInactive ==
    ASSUME CInv
    PROVE  Stats.active + Stats.inactive = Cardinality(InUse)
<1> DEFINE A == Listed("active")
           I == Listed("inactive")
<1>1. \A c \in ClientIds : clients[c].deleted \in BOOLEAN /\ clients[c].active \in BOOLEAN
  BY DEF CInv, RowsTyped, Rows
<1>2. A \cup I = InUse /\ A \cap I = {}
  BY <1>1 DEF Listed, InUse, Alive
<1>3. Stats.active = Cardinality(A) /\ Stats.inactive = Cardinality(I)
  BY DEF Stats
<1> HIDE DEF A, I
<1>4. A \subseteq InUse /\ I \subseteq InUse
  BY <1>2
<1>5. IsFiniteSet(A) /\ IsFiniteSet(I)
  BY <1>4, Finite, FS_Subset
<1>6. Cardinality(A \cup I) = Cardinality(A) + Cardinality(I)
  <2>1. Cardinality(A \cup I) = Cardinality(A) + Cardinality(I) - Cardinality(A \cap I)
    BY <1>5, FS_Union
  <2>2. Cardinality(A \cap I) = 0
    BY <1>2, FS_EmptySet
  <2>3. Cardinality(A) \in Nat /\ Cardinality(I) \in Nat
    BY <1>5, FS_CardinalityType
  <2> QED
    BY <2>1, <2>2, <2>3
<1> QED
  BY <1>2, <1>3, <1>6

LEMMA RoomFirst == ASSUME Init PROVE Room
<1>1. Inv
  BY InvFirst
<1>2. \E c : InUse \subseteq {c}
  <2>1. CASE clients = [c \in ClientIds |-> NoRow]
    BY <2>1 DEF InUse, Alive, Exists, NoRow
  <2>2. CASE \E c \in ClientIds : \E old : clients = [d \in ClientIds |-> IF d = c THEN old ELSE NoRow]
    BY <2>2 DEF InUse, Alive, Exists, NoRow
  <2> QED
    BY <2>1, <2>2 DEF Init, ClientsInit
<1>3. Cardinality(InUse) <= 1
  <2>1. PICK c : InUse \subseteq {c}
    BY <1>2
  <2>2. IsFiniteSet({c}) /\ Cardinality({c}) = 1
    BY FS_Singleton
  <2>3. InUse \in SUBSET {c}
    BY <2>1
  <2>4. Cardinality(InUse) <= Cardinality({c})
    BY <2>2, <2>3, FS_Subset
  <2> QED
    BY <2>2, <2>4
<1>4. Passed = {}
  BY NoWorkIsGood DEF Init, ClientsInit, Passed, Admitted, Creating
<1>5. peak \in Nat \ {0}
  BY <1>1, PlanLimit DEF Init, Inv
<1> QED
  BY <1>3, <1>4, <1>5, Finite, FS_EmptySet DEF Room

LEMMA RoomKept == ASSUME Inv, Room, [Next]_vars PROVE Room'
<1>1. /\ peak \in Nat /\ peak' \in Nat /\ CInv /\ CInv'
  BY InvKept DEF Inv, PeakHolds
<1>2. CASE BillingStep \/ UNCHANGED vars
  <2>1. UNCHANGED <<clients, work>> /\ peak' >= peak
    BY <1>1, <1>2 DEF BillingStep, clientVars, vars
  <2>2. InUse' = InUse /\ Passed' = Passed
    BY <2>1 DEF InUse, Alive, Exists, Passed
  <2> QED
    BY <1>1, <2>1, <2>2, Finite DEF Room
<1>3. ASSUME NEW q \in Requests, Goes(q), peak' = peak PROVE Room'
  <2>1. PICK w : /\ Continue(q, w)
                 /\ w.step \in Admitted => work[q].step \in Admitted \/ WithinLimit
    BY <1>3 DEF Goes
  <2>2. InUse' = InUse
    BY <1>3 DEF Goes, InUse, Alive, Exists
  <2>3. \A p \in Requests : work'[p] = IF p = q THEN w ELSE work[p]
    BY <1>1, <2>1 DEF Continue, CInv
  <2>4. CASE WithinLimit
    <3>1. Cardinality(InUse) < peak
      BY <1>1, <2>4, Finite, PlanLimit DEF WithinLimit, Inv, PeakHolds
    <3>2. /\ Cardinality(Passed') <= Cardinality(Requests) /\ Cardinality(Passed') \in Nat
      <4>1. Passed' \subseteq Requests
        BY DEF Passed
      <4> QED
        BY <4>1, FiniteAssumption, FS_Subset, FS_CardinalityType
    <3> QED
      BY <1>1, <1>3, <2>2, <3>1, <3>2, Finite DEF Room
  <2>5. CASE w.step \in Admitted => work[q].step \in Admitted
    <3>1. Passed' \subseteq Passed
      BY <2>3, <2>5 DEF Passed
    <3>2. Cardinality(Passed') <= Cardinality(Passed) /\ Cardinality(Passed') \in Nat
      BY <3>1, Finite, FS_Subset, FS_CardinalityType
    <3> QED
      BY <1>1, <1>3, <2>2, <3>2, Finite DEF Room
  <2> QED
    BY <2>1, <2>4, <2>5
<1>4. ASSUME NEW q \in Requests, NEW c \in ClientIds, NEW new, Stores(q, c, new), peak' = peak
      PROVE  Room'
  <2>1. /\ clients'[c] = new /\ \A d \in ClientIds \ {c} : clients'[d] = clients[d]
        /\ ~new.deleted => Alive(c) \/ work[q].step \in Admitted
    BY <1>1, <1>4 DEF Stores, Writes, CInv, RowsTyped
  <2>2. \A p \in Requests : work'[p].step \in Admitted => work[p].step \in Admitted /\ p # q
    <3>1. ASSUME NEW p \in Requests, p # q PROVE work'[p].step = work[p].step
      <4>1. work[p] \in Works
        BY <1>1 DEF CInv
      <4>2. work'[p] = work[p] \/ work'[p] = [work[p] EXCEPT !.stale = TRUE]
        BY <1>4, <3>1 DEF Stores
      <4> QED
        BY <4>1, <4>2, StaleIsWork
    <3>2. work'[q].step = "idle"
      BY <1>4, NoWorkIsGood DEF Stores
    <3> QED
      BY <3>1, <3>2 DEF Admitted, Creating
  <2>3. Passed' \subseteq Passed \ {q} /\ InUse' \subseteq InUse \cup {c}
    BY <2>1, <2>2 DEF Passed, InUse, Alive, Exists
  <2>4. IsFiniteSet(Passed \ {q}) /\ IsFiniteSet(InUse \cup {c})
    BY Finite, FS_RemoveElement, FS_AddElement
  <2>5. /\ Cardinality(Passed') <= Cardinality(Passed \ {q}) /\ Cardinality(Passed') \in Nat
        /\ Cardinality(InUse') <= Cardinality(InUse \cup {c}) /\ Cardinality(InUse') \in Nat
    BY <2>3, <2>4, FS_Subset, FS_CardinalityType
  <2>6. CASE q \in Passed
    <3>1. Cardinality(Passed \ {q}) = Cardinality(Passed) - 1
      BY <2>6, Finite, FS_RemoveElement
    <3>2. Cardinality(InUse \cup {c}) <= Cardinality(InUse) + 1
      <4>1. Cardinality(InUse \cup {c}) =
              IF c \in InUse THEN Cardinality(InUse) ELSE Cardinality(InUse) + 1
        BY Finite, FS_AddElement
      <4> QED
        BY <4>1, Finite
    <3>3. Cardinality(InUse \cup {c}) \in Nat
      BY <2>4, FS_CardinalityType
    <3> QED
      BY <1>1, <1>4, <2>5, <3>1, <3>2, <3>3, Finite DEF Room
  <2>7. CASE q \notin Passed
    <3>1. InUse' \subseteq InUse
      BY <2>1, <2>3, <2>7 DEF InUse, Alive, Exists, Passed
    <3>2. Cardinality(InUse') <= Cardinality(InUse)
      BY <3>1, Finite, FS_Subset
    <3>3. Cardinality(Passed \ {q}) = Cardinality(Passed)
      BY <2>7, Finite, FS_RemoveElement
    <3> QED
      BY <1>1, <1>4, <2>5, <3>2, <3>3, Finite DEF Room
  <2> QED
    BY <2>6, <2>7
<1>5. CASE ClientStep
  <2>1. peak' = peak
    BY <1>5 DEF ClientStep
  <2> QED
    BY <1>1, <1>3, <1>4, <1>5, <2>1, ClientSteps
<1> QED
  BY <1>2, <1>5 DEF Next

\* assertWithinPlanLimits is not repeated when the row is written, so that
\* requests that overlap exceed the limit, but by no more than there are
\* beside one.
THEOREM OverrunStaysBounded == Spec => []OverrunBounded
<1>1. ASSUME Inv, Room PROVE OverrunBounded
  <2>1. Cardinality(InUse) <= peak + Cardinality(Requests) - 1
    BY <1>1, Finite DEF Room, Inv, PeakHolds
  <2> QED
    BY <1>1, <2>1, ActiveAndInactive DEF Inv, OverrunBounded
<1>2. Spec => []Room
  BY RoomFirst, RoomKept, InvHolds, PTL DEF Spec
<1> QED
  BY <1>1, <1>2, InvHolds, PTL

-----------------------------------------------------------------------------
(* What a step of a request changes *)

\* A request changes only by a step of its own.
LEMMA OwnSteps ==
    ASSUME BInv, BillingNext, NEW q \in Requests, task'[q] # task[q]
    PROVE  OwnerStep(q) \/ WebhookStep(q) \/ StaffStep(q) \/ JobStep(q) \/ CutOff(q)
<1>1. ~(StripeStep \/ OthersRequest \/ DeleteReminders \/ DayPasses)
  BY DEF StripeStep, PayCheckout, Renew, ChangeStatus, ChangePlan, CancelAtPeriodEnd,
     CancelNow, AtStripe, OthersRequest, DeleteReminders, DayPasses
<1>2. PICK r \in Requests : OwnerStep(r) \/ WebhookStep(r) \/ StaffStep(r) \/ JobStep(r) \/ CutOff(r)
  BY <1>1 DEF BillingNext
<1>3. (\E t \in Tasks : Update(r, t)) \/ UNCHANGED task
  BY <1>2, OwnerTask, WebhookTask, OtherTask DEF BInv
<1>4. q = r
  BY <1>3, Updated DEF BInv
<1> QED
  BY <1>2, <1>4

\* The steps that requests are at after their own steps.
LEMMA OwnerGoes ==
    ASSUME BInv, NEW r \in Requests, OwnerStep(r)
    PROVE  task'[r].step \in {"asked", "creating", "storing", "session", "offering", "auditing", "idle"}
<1>1. /\ task \in [Requests -> Tasks]
      /\ \A step, plan, e, read, c, day : Task(step, plan, e, read, c, day).step = step
  BY DEF Task, BInv, BillingTypes
<1>2. Idle.step = "idle" /\ \A step, e, read : Handling(step, e, read).step = step
  BY <1>1 DEF Idle, Handling
<1>3. \A t : Update(r, t) => task'[r] = t
  BY <1>1 DEF Update
<1> QED
  BY <1>1, <1>2, <1>3 DEF OwnerStep, AskForSession, FindCustomer, CreateCustomer, StoreCustomer,
     OpenSession, RequestUpgrade, StoreRequest, AuditRequest, Finish

LEMMA OthersGo ==
    ASSUME BInv, NEW r \in Requests, WebhookStep(r) \/ StaffStep(r) \/ CutOff(r), task'[r] # task[r]
    PROVE  task'[r].step \in Handlers \cup {"announcing", "planning", "idle"}
<1>1. /\ task \in [Requests -> Tasks]
      /\ \A step, plan, e, read, c, day : Task(step, plan, e, read, c, day).step = step
  BY DEF Task, BInv, BillingTypes
<1>2. Idle.step = "idle" /\ \A step, e, read : Handling(step, e, read).step = step
  BY <1>1 DEF Idle, Handling
<1>3. \A t : Update(r, t) => task'[r] = t
  BY <1>1 DEF Update
<1> DEFINE There(t) == t.step \in Handlers \cup {"announcing", "planning", "idle"}
<1>4. /\ There(Idle)
      /\ \A e, read : \A step \in Handlers \cup {"announcing", "planning"} :
            There(Handling(step, e, read))
      /\ {"retrieving", "finding", "syncing", "deleting"} \subseteq Handlers
  BY <1>2 DEF Handlers
<1> HIDE DEF There
<1>5. CASE WebhookStep(r) /\ ~SubscriptionDeleted(r)
  <2>1. \E t : Update(r, t) /\ There(t)
    BY <1>4, <1>5 DEF WebhookStep, CheckoutCompleted, Retrieve, FindRow, SubscriptionUpdated,
       WriteSnapshot, WriteDeletion, Announce, Finish
  <2> QED
    BY <1>3, <2>1 DEF There
<1>6. CASE SubscriptionDeleted(r)
  <2>1. \E e : Update(r, Handling("deleting", e, Columns(row)))
    BY <1>6 DEF SubscriptionDeleted
  <2> QED
    BY <1>3, <1>4, <2>1 DEF There
<1>7. CASE StaffStep(r) \/ CutOff(r)
  <2>1. \E t : Update(r, t) /\ There(t)
    BY <1>4, <1>7 DEF StaffStep, ReadTarget, UpdateUserPlan, CutOff, Finish
  <2> QED
    BY <1>3, <2>1 DEF There
<1> QED
  BY <1>5, <1>6, <1>7

LEMMA JobGoes ==
    ASSUME BInv, NEW r \in Requests, JobStep(r)
    PROVE  \/ task'[r].step = "idle"
           \/ task'[r].step = "checking" /\ task'[r].day = today
           \/ At(r, "checking") /\ task'[r].step = "reminding" /\ task'[r].day = task[r].day
<1>1. /\ task \in [Requests -> Tasks] /\ task[r] \in Tasks
      /\ \A t : Update(r, t) => task'[r] = t
      /\ Idle.step = "idle"
  BY DEF Task, BInv, BillingTypes, Update, Idle
<1>2. CASE SelectExpiring(r)
  BY <1>1, <1>2 DEF SelectExpiring, Task
<1>3. CASE LookForReminder(r)
  <2>1. CASE Finish(r)
    BY <1>1, <2>1 DEF Finish
  <2>2. CASE Update(r, [task[r] EXCEPT !.step = "reminding"])
    <3>1. task'[r] = [task[r] EXCEPT !.step = "reminding"]
      BY <1>1, <2>2
    <3> QED
      BY <1>1, <1>3, <3>1 DEF Tasks, LookForReminder
  <2> QED
    BY <1>3, <2>1, <2>2 DEF LookForReminder
<1>4. CASE SendReminder(r)
  BY <1>1, <1>4 DEF SendReminder, Finish
<1> QED
  BY <1>2, <1>3, <1>4 DEF JobStep

\* Nothing of the history is taken back, and reminders and the date are
\* changed by their own actions.
LEMMA RemindersMoved ==
    ASSUME BInv, BillingNext
    PROVE  /\ raced \subseteq raced'
           /\ \/ UNCHANGED <<reminders, today>>
              \/ DayPasses \/ DeleteReminders \/ \E r \in Requests : SendReminder(r)
<1>1. CASE StripeStep \/ OthersRequest \/ DeleteReminders \/ DayPasses
  BY <1>1 DEF StripeStep, PayCheckout, Renew, ChangeStatus, ChangePlan, CancelAtPeriodEnd,
     CancelNow, AtStripe, OthersRequest, DeleteReminders, DayPasses
<1>2. ASSUME NEW r \in Requests, OwnerStep(r) PROVE raced \subseteq raced' /\ UNCHANGED <<reminders, today>>
  BY <1>2 DEF OwnerStep, AskForSession, FindCustomer, CreateCustomer, StoreCustomer,
     OpenSession, RequestUpgrade, StoreRequest, AuditRequest, Note, Unless
<1>3. ASSUME NEW r \in Requests, WebhookStep(r) PROVE raced \subseteq raced' /\ UNCHANGED <<reminders, today>>
  BY <1>3 DEF WebhookStep, CheckoutCompleted, Retrieve, FindRow, SubscriptionUpdated,
     WriteSnapshot, SubscriptionDeleted, WriteDeletion, Announce, Note, Unless
<1>4. ASSUME NEW r \in Requests, StaffStep(r) \/ JobStep(r) \/ CutOff(r)
      PROVE  raced \subseteq raced' /\ (UNCHANGED <<reminders, today>> \/ SendReminder(r))
  BY <1>4 DEF StaffStep, ReadTarget, UpdateUserPlan, JobStep, SelectExpiring, LookForReminder,
     SendReminder, CutOff, Note, Unless
<1> QED
  BY <1>1, <1>2, <1>3, <1>4 DEF BillingNext

-----------------------------------------------------------------------------
(* The end of a subscription *)

\* The actions that write the Subscription row.
LEMMA RowWriters ==
    ASSUME BillingNext, row' # row
    PROVE  \E r \in Requests : \/ StoreCustomer(r) \/ CheckoutCompleted(r) \/ WriteSnapshot(r)
                              \/ WriteDeletion(r) \/ UpdateUserPlan(r)
<1>1. ASSUME StripeStep \/ OthersRequest \/ DeleteReminders \/ DayPasses PROVE FALSE
  BY <1>1 DEF StripeStep, PayCheckout, Renew, ChangeStatus, ChangePlan, CancelAtPeriodEnd,
     CancelNow, AtStripe, OthersRequest, DeleteReminders, DayPasses
<1>2. PICK r \in Requests : OwnerStep(r) \/ WebhookStep(r) \/ StaffStep(r) \/ JobStep(r) \/ CutOff(r)
  BY <1>1 DEF BillingNext
<1>3. \/ StoreCustomer(r) \/ CheckoutCompleted(r) \/ WriteSnapshot(r)
      \/ WriteDeletion(r) \/ UpdateUserPlan(r)
  BY <1>2 DEF OwnerStep, AskForSession, FindCustomer, CreateCustomer, OpenSession, RequestUpgrade,
     StoreRequest, AuditRequest, WebhookStep, Retrieve, FindRow, SubscriptionUpdated,
     SubscriptionDeleted, Announce, StaffStep, ReadTarget, JobStep, SelectExpiring,
     LookForReminder, SendReminder, CutOff
<1> QED
  BY <1>3

\* The announcements under way, of which there are finitely many.
Telling == {r \in Requests : At(r, "announcing")}

LEMMA Counted ==
    ASSUME NEW S \in SUBSET Requests
    PROVE  /\ Cardinality(S) \in Nat
           /\ \A r \in Requests \ S : Cardinality(S \cup {r}) = Cardinality(S) + 1
           /\ \A r \in S : Cardinality(S \ {r}) = Cardinality(S) - 1
<1>1. IsFiniteSet(S)
  BY FiniteAssumption, FS_Subset
<1> QED
  BY <1>1, FS_CardinalityType, FS_AddElement, FS_RemoveElement

LEMMA Tells ==
    ASSUME BInv, NEW r \in Requests, NEW t, Update(r, t)
    PROVE  Telling' = IF t.step = "announcing" THEN Telling \cup {r} ELSE Telling \ {r}
<1>1. \A q \in Requests : task'[q] = IF q = r THEN t ELSE task[q]
  BY DEF Update, BInv, BillingTypes
<1> QED
  BY <1>1 DEF Telling, At

\* The other steps neither begin nor finish an announcement, and owe none.
LEMMA TellingStays ==
    ASSUME BInv, BillingNext,
           \A r \in Requests : /\ ~WriteSnapshot(r) /\ ~WriteDeletion(r) /\ ~UpdateUserPlan(r)
                              /\ ~Announce(r) /\ ~(CutOff(r) /\ At(r, "announcing"))
    PROVE  Telling' = Telling /\ owed' = owed
<1>1. owed' = owed
  <2>1. CASE StripeStep \/ OthersRequest \/ DeleteReminders \/ DayPasses
    BY <2>1 DEF StripeStep, PayCheckout, Renew, ChangeStatus, ChangePlan, CancelAtPeriodEnd,
       CancelNow, AtStripe, OthersRequest, DeleteReminders, DayPasses, historyVars
  <2>2. ASSUME NEW r \in Requests, OwnerStep(r) PROVE owed' = owed
    BY <2>2 DEF OwnerStep, AskForSession, FindCustomer, CreateCustomer, StoreCustomer,
       OpenSession, RequestUpgrade, StoreRequest, AuditRequest, historyVars
  <2>3. ASSUME NEW r \in Requests, WebhookStep(r) PROVE owed' = owed
    BY <2>3 DEF WebhookStep, CheckoutCompleted, Retrieve, FindRow, SubscriptionUpdated,
       SubscriptionDeleted, historyVars
  <2>4. ASSUME NEW r \in Requests, StaffStep(r) \/ JobStep(r) \/ CutOff(r) PROVE owed' = owed
    BY <2>4 DEF StaffStep, ReadTarget, JobStep, SelectExpiring, LookForReminder, SendReminder,
       CutOff, historyVars
  <2> QED
    BY <2>1, <2>2, <2>3, <2>4 DEF BillingNext
<1>2. ASSUME NEW q \in Requests
      PROVE  task'[q].step = "announcing" <=> task[q].step = "announcing"
  <2>1. CASE task'[q] = task[q]
    BY <2>1
  <2>2. CASE task'[q] # task[q] /\ OwnerStep(q)
    <3>1. task[q].step # "announcing"
      BY <2>2 DEF OwnerStep, AskForSession, FindCustomer, CreateCustomer, StoreCustomer,
         OpenSession, RequestUpgrade, StoreRequest, AuditRequest, At, Start, Idle, Task
    <3> QED
      BY <2>2, <3>1, OwnerGoes
  <2>3. CASE task'[q] # task[q] /\ JobStep(q)
    <3>1. task[q].step # "announcing"
      BY <2>3 DEF JobStep, SelectExpiring, LookForReminder, SendReminder, At, Start, Idle, Task
    <3> QED
      BY <2>3, <3>1, JobGoes
  <2>4. CASE task'[q] # task[q] /\ (WebhookStep(q) \/ ReadTarget(q))
    <3>1. task[q].step # "announcing"
      <4>1. Idle.step # "announcing"
        BY DEF Idle, Task
      <4>2. task[q] = Idle \/ At(q, "retrieving") \/ At(q, "finding")
        BY <2>4 DEF WebhookStep, CheckoutCompleted, Retrieve, FindRow, SubscriptionUpdated,
           SubscriptionDeleted, ReadTarget, Deliver, StartOfStaff
      <4> QED
        BY <4>1, <4>2 DEF At
    <3>2. \E e, read : \E step \in {"retrieving", "finding", "syncing", "deleting", "planning"} :
            Update(q, Handling(step, e, read))
      BY <2>4 DEF WebhookStep, CheckoutCompleted, Retrieve, FindRow, SubscriptionUpdated,
         SubscriptionDeleted, ReadTarget
    <3>3. task'[q].step \in {"retrieving", "finding", "syncing", "deleting", "planning"}
      BY <3>2 DEF Update, Handling, Task, BInv, BillingTypes
    <3> QED
      BY <3>1, <3>3
  <2>5. CASE CutOff(q)
    <3>1. task'[q].step = "idle"
      BY <2>5 DEF CutOff, Finish, Update, Idle, Task, BInv, BillingTypes
    <3> QED
      BY <2>5, <3>1 DEF At
  <2> QED
    BY <2>1, <2>2, <2>3, <2>4, <2>5, OwnSteps DEF StaffStep
<1>3. Telling' = Telling
  BY <1>2 DEF Telling, At
<1> QED
  BY <1>1, <1>3

\* A request that writes the row announces its end or not: it owes it just
\* when it does, or announces it again.
LEMMA TellingGrows ==
    ASSUME BInv, CancellationAnnounced, raced' \cap {"notice", "untold"} = {},
           NEW r \in Requests \ Telling, NEW announced \in BOOLEAN, NEW new, raced \subseteq raced',
           Telling' = IF announced THEN Telling \cup {r} ELSE Telling,
           Owe(new), Again(announced) \subseteq raced',
           ~Ended(row) => (announced <=> Ended(new))
    PROVE  CancellationAnnounced'
<1>1. /\ Telling \in SUBSET Requests /\ owed \in Int
      /\ raced \cap {"notice", "untold"} = {}
  BY DEF Telling, BInv, BillingTypes
<1>2. /\ owed <= Cardinality(Telling)
      /\ "again" \in raced \/ owed = Cardinality(Telling)
  BY <1>1 DEF CancellationAnnounced, Telling
<1>3. /\ Cardinality(Telling') = IF announced THEN Cardinality(Telling) + 1 ELSE Cardinality(Telling)
      /\ Cardinality(Telling) \in Nat
  BY <1>1, Counted
<1>4. announced /\ Ended(row) => "again" \in raced'
  BY DEF Again, Unless
<1>5. owed' = IF Ended(new) /\ ~Ended(row) THEN owed + 1 ELSE owed
  BY DEF Owe
<1>6. owed' <= Cardinality(Telling') /\ ("again" \in raced' \/ owed' = Cardinality(Telling'))
  <2>1. CASE Ended(row)
    BY <1>1, <1>2, <1>3, <1>4, <1>5, <2>1
  <2>2. CASE ~Ended(row)
    BY <1>1, <1>2, <1>3, <1>5, <2>2
  <2> QED
    BY <2>1, <2>2
<1> QED
  BY <1>6 DEF CancellationAnnounced, Telling

LEMMA AnnouncedKept == ASSUME Inv, CancellationAnnounced, [Next]_vars PROVE CancellationAnnounced'
<1>1. BInv
  BY DEF Inv
<1>2. CASE UNCHANGED <<task, raced, owed>>
  BY <1>2 DEF CancellationAnnounced, At
<1>3. CASE BillingNext
  <2> SUFFICES ASSUME raced' \cap {"notice", "untold"} = {}
               PROVE  CancellationAnnounced'
    BY DEF CancellationAnnounced
  <2>1. raced \subseteq raced' /\ Telling \in SUBSET Requests /\ owed \in Int
    BY <1>1, <1>3, RemindersMoved DEF Telling, BInv, BillingTypes
  <2>2. /\ Handling("announcing", Idle.event, Nothing).step = "announcing"
        /\ Idle.step # "announcing"
    BY DEF Handling, Idle, Task
  <2>3. ASSUME NEW r \in Requests, WriteSnapshot(r) PROVE CancellationAnnounced'
    <3> DEFINE new == Image(Event_(r).sub, Event_(r).snap)
               announced == BecameCancelled(task[r].read, new)
    <3>1. /\ At(r, "syncing") /\ Owe(new)
          /\ IF announced THEN Update(r, Handling("announcing", Idle.event, Nothing))
                          ELSE Update(r, Idle)
          /\ raced' = raced \cup Again(announced)
                            \cup Unless("notice", Ended(row) <=> Ended(task[r].read))
      BY <2>3 DEF WriteSnapshot, Finish
    <3>2. r \in Requests \ Telling
      BY <3>1 DEF At, Telling
    <3>3. Ended(row) <=> Ended(task[r].read)
      BY <3>1 DEF Unless
    <3>4. ~Ended(row) => (announced <=> Ended(new))
      BY <3>3 DEF BecameCancelled, Ended
    <3>5. announced \in BOOLEAN
      BY DEF BecameCancelled
    <3> HIDE DEF new, announced
    <3>6. Telling' = IF announced THEN Telling \cup {r} ELSE Telling
      BY <1>1, <2>2, <3>1, <3>2, Tells
    <3> QED
      BY <1>1, <2>1, <3>1, <3>2, <3>4, <3>5, <3>6, TellingGrows
  <2>4. ASSUME NEW r \in Requests, WriteDeletion(r) PROVE CancellationAnnounced'
    <3> DEFINE new == [NewRow EXCEPT !.status = "CANCELLED", !.cust = row.cust]
    <3>1. /\ At(r, "deleting") /\ Owe(new)
          /\ Update(r, Handling("announcing", Idle.event, Nothing))
          /\ Again(TRUE) \subseteq raced'
      BY <2>4 DEF WriteDeletion
    <3>2. r \in Requests \ Telling
      BY <3>1 DEF At, Telling
    <3>3. Ended(new)
      BY DEF Ended, NewRow
    <3> HIDE DEF new
    <3>4. Telling' = Telling \cup {r}
      BY <1>1, <2>2, <3>1, Tells
    <3>5. Telling' = IF TRUE THEN Telling \cup {r} ELSE Telling
      BY <3>4
    <3> QED
      BY <1>1, <2>1, <3>1, <3>2, <3>3, <3>5, TellingGrows
  <2>5. ASSUME NEW r \in Requests, UpdateUserPlan(r) PROVE CancellationAnnounced'
    <3>1. PICK plan \in Plans, status \in {row.status} \cup StaffStatuses, ending \in BOOLEAN,
               until \in {row.until, LastDay}, own \in BOOLEAN :
            LET new == [row EXCEPT !.plan = plan, !.status = status, !.ending = ending, !.until = until]
            IN  /\ Owe(new)
                /\ IF Ended(new) /\ ~Ended(task[r].read)
                   THEN Update(r, Handling("announcing", Idle.event, Nothing)) ELSE Update(r, Idle)
      BY <2>5 DEF UpdateUserPlan, Finish
    <3> DEFINE new == [row EXCEPT !.plan = plan, !.status = status, !.ending = ending, !.until = until]
               announced == Ended(new) /\ ~Ended(task[r].read)
    <3>2. At(r, "planning") /\ (Ended(row) <=> Ended(task[r].read))
      BY <2>5 DEF UpdateUserPlan, Note, Unless
    <3>3. /\ r \in Requests \ Telling
          /\ ~Ended(row) => (announced <=> Ended(new))
          /\ announced \in BOOLEAN
          /\ Again(announced) = {}
      BY <3>2 DEF At, Telling, Again, Unless
    <3>4. /\ Owe(new)
          /\ IF announced THEN Update(r, Handling("announcing", Idle.event, Nothing))
                          ELSE Update(r, Idle)
      BY <3>1
    <3> HIDE DEF new, announced
    <3>5. Telling' = IF announced THEN Telling \cup {r} ELSE Telling
      BY <1>1, <2>2, <3>3, <3>4, Tells
    <3> QED
      BY <1>1, <2>1, <3>3, <3>4, <3>5, TellingGrows
  <2>6. ASSUME NEW r \in Requests, Announce(r) PROVE CancellationAnnounced'
    <3>1. r \in Telling /\ owed' = owed - 1 /\ raced' = raced /\ Update(r, Idle)
      BY <2>6 DEF Announce, Finish, Telling
    <3>2. Telling' = Telling \ {r}
      BY <1>1, <2>2, <3>1, Tells
    <3>3. /\ owed <= Cardinality(Telling) /\ ("again" \in raced \/ owed = Cardinality(Telling))
          /\ Cardinality(Telling') = Cardinality(Telling) - 1 /\ Cardinality(Telling) \in Nat
      BY <2>1, <3>1, <3>2, Counted DEF CancellationAnnounced, Telling
    <3>4. owed' <= Cardinality(Telling') /\ ("again" \in raced' \/ owed' = Cardinality(Telling'))
      BY <2>1, <3>1, <3>3
    <3> QED
      BY <3>4 DEF CancellationAnnounced, Telling
  <2>7. ASSUME NEW r \in Requests, CutOff(r), At(r, "announcing") PROVE FALSE
    BY <2>7 DEF CutOff, Unless
  <2>8. CASE \A r \in Requests : /\ ~WriteSnapshot(r) /\ ~WriteDeletion(r) /\ ~UpdateUserPlan(r)
                                /\ ~Announce(r) /\ ~(CutOff(r) /\ At(r, "announcing"))
    <3>1. Telling' = Telling /\ owed' = owed
      BY <1>1, <1>3, <2>8, TellingStays
    <3> QED
      BY <2>1, <3>1 DEF CancellationAnnounced, Telling
  <2> QED
    BY <2>3, <2>4, <2>5, <2>6, <2>7, <2>8
<1> QED
  BY <1>2, <1>3 DEF Next, BillingStep, ClientStep, vars, billingVars, historyVars

\* syncSubscriptionFromStripe, handleSubscriptionDeleted, updateUserPlan: as
\* long as no handler's reading was overtaken and none was cut off before its
\* announcement, the ends not yet told of are the announcements under way, one
\* each, however the events are repeated and interleaved; once an ended row was
\* ended again there may be more of these, never fewer.
THEOREM EndsAreAnnounced == Spec => []CancellationAnnounced
<1>1. Init => CancellationAnnounced
  <2> SUFFICES ASSUME Init PROVE CancellationAnnounced
    OBVIOUS
  <2>1. owed = 0 /\ \A r \in Requests : ~At(r, "announcing")
    BY DEF Init, BillingInit, At, Idle, Task
  <2>2. {r \in Requests : At(r, "announcing")} = {}
    BY <2>1
  <2> QED
    BY <2>1, <2>2, FS_EmptySet DEF CancellationAnnounced
<1> QED
  BY <1>1, AnnouncedKept, InvHolds, PTL DEF Spec

\* Stripe's deletions are of subscriptions that are cancelled for good, and so
\* are those that a handler is about to write.
DeletionsTrue ==
    /\ \A e \in events : e.kind = "deleted" => stripe[e.sub].status = "canceled"
    /\ \A r \in Requests : At(r, "deleting") =>
          /\ task[r].read.sub = Event_(r).sub
          /\ stripe[Event_(r).sub].status = "canceled"

LEMMA DeletionsFirst == ASSUME Init PROVE DeletionsTrue
<1>1. \A r \in Requests : ~At(r, "deleting")
  BY DEF Init, BillingInit, At, Idle, Task
<1>2. \A e \in events : e.kind = "deleted" => stripe[e.sub].status = "canceled"
  <2>1. CASE Unsubscribed
    BY <2>1 DEF Unsubscribed
  <2>2. ASSUME NEW s \in Subs, NEW c, NEW until, NEW old \in SUBSET (Subs \ {s}),
               Subscribed(s, c, "PRO", until, old)
        PROVE  \A e \in events : e.kind = "deleted" => stripe[e.sub].status = "canceled"
    <3> DEFINE snap == [status |-> "active", plan |-> "PRO", ending |-> FALSE, until |-> until,
                        customer |-> c, version |-> 1]
               ended == [snap EXCEPT !.status = "canceled"]
    <3>1. /\ stripe = [x \in Subs |-> IF x = s THEN snap ELSE IF x \in old THEN ended ELSE Absent]
          /\ events = {Event("checkout", s, snap), Event("updated", s, snap)}
                        \cup {Event("deleted", x, ended) : x \in old}
      BY <2>2 DEF Subscribed
    <3>2. ended.status = "canceled"
      OBVIOUS
    <3> HIDE DEF snap, ended
    <3>3. \A e \in events : e.kind = "deleted" => e.sub \in old
      BY <3>1 DEF Event
    <3> QED
      BY <3>1, <3>2, <3>3
  <2> QED
    BY <2>1, <2>2 DEF Init, BillingInit
<1> QED
  BY <1>1, <1>2 DEF DeletionsTrue

\* At Stripe only a subscription that is not cancelled changes, and a deletion
\* is sent of one that is cancelled with it.
LEMMA OneSubscription ==
    ASSUME BInv, NEW s \in Subs, NEW new \in Snapshots, NEW kinds, AtStripe(s, new, kinds),
           stripe[s].status # "canceled", "deleted" \in kinds => new.status = "canceled"
    PROVE  /\ \A x \in Subs : stripe[x].status = "canceled" => stripe'[x].status = "canceled"
           /\ \A e \in events' : e.kind = "deleted" =>
                 e \in events \/ stripe'[e.sub].status = "canceled"
<1> DEFINE next == [new EXCEPT !.version = stripe[s].version + 1]
<1>1. next.status = new.status
  BY DEF Snapshots
<1>2. /\ stripe' = [stripe EXCEPT ![s] = next]
      /\ events' = events \cup {Event(kind, s, next) : kind \in kinds}
  BY DEF AtStripe
<1> HIDE DEF next
<1>3. stripe'[s] = next /\ \A x \in Subs \ {s} : stripe'[x] = stripe[x]
  BY <1>2 DEF BInv, BillingTypes
<1>4. \A kind \in kinds : Event(kind, s, next).kind = kind /\ Event(kind, s, next).sub = s
  BY DEF Event
<1> QED
  BY <1>1, <1>2, <1>3, <1>4

LEMMA CancelledForGood ==
    ASSUME BInv, StripeStep
    PROVE  /\ \A x \in Subs : stripe[x].status = "canceled" => stripe'[x].status = "canceled"
           /\ \A e \in events' : e.kind = "deleted" =>
                 e \in events \/ stripe'[e.sub].status = "canceled"
<1>1. PICK s \in Subs, new \in Snapshots, kinds \in SUBSET {"checkout", "updated", "deleted"} :
        /\ AtStripe(s, new, kinds)
        /\ stripe[s].status \in LiveStatuses \cup {"open"}
        /\ "deleted" \in kinds => new.status = "canceled"
  BY StripeMoves
<1> QED
  BY <1>1, StatusAssumption, OneSubscription

\* Who comes to the step "deleting" has read the row that names the subscription.
LEMMA ComesToDelete ==
    ASSUME BInv, BillingNext, NEW q \in Requests, task'[q].step = "deleting"
    PROVE  \/ task'[q] = task[q]
           \/ \E e \in events : /\ e.kind = "deleted"
                                /\ task'[q].read.sub = e.sub /\ task'[q].event = e
<1> DEFINE Elsewhere(t) == t.step # "deleting"
<1>1. /\ task \in [Requests -> Tasks]
      /\ \A step, plan, e, read, c, day : Task(step, plan, e, read, c, day).step = step
  BY DEF Task, BInv, BillingTypes
<1>2. Elsewhere(Idle) /\ \A step, e, read : Handling(step, e, read).step = step
  BY <1>1 DEF Idle, Handling
<1>3. ASSUME NEW r \in Requests, NEW t, Update(r, t), Elsewhere(t) PROVE task'[q] = task[q]
  BY <1>1, <1>3 DEF Update
<1>4. CASE UNCHANGED task
  BY <1>4
<1>5. ASSUME NEW r \in Requests, OwnerStep(r) PROVE \E t : Update(r, t) /\ Elsewhere(t)
  BY <1>1, <1>2, <1>5 DEF OwnerStep, AskForSession, FindCustomer, CreateCustomer, StoreCustomer,
     OpenSession, RequestUpgrade, StoreRequest, AuditRequest, Finish
<1>6. ASSUME NEW r \in Requests, StaffStep(r) \/ CutOff(r) PROVE \E t : Update(r, t) /\ Elsewhere(t)
  BY <1>1, <1>2, <1>6 DEF StaffStep, ReadTarget, UpdateUserPlan, CutOff, Finish
<1>7. ASSUME NEW r \in Requests, JobStep(r) PROVE \E t : Update(r, t) /\ Elsewhere(t)
  <2>1. Elsewhere([task[r] EXCEPT !.step = "reminding"])
    BY <1>1 DEF Tasks
  <2>2. CASE SelectExpiring(r)
    BY <1>1, <2>2 DEF SelectExpiring
  <2>3. CASE LookForReminder(r) \/ SendReminder(r)
    <3> HIDE DEF Elsewhere
    <3> QED
      BY <1>2, <2>1, <2>3 DEF LookForReminder, SendReminder, Finish
  <2> QED
    BY <1>7, <2>2, <2>3 DEF JobStep
<1>8. ASSUME NEW r \in Requests, WebhookStep(r), ~SubscriptionDeleted(r)
      PROVE  \E t : Update(r, t) /\ Elsewhere(t)
  <2>1. /\ Elsewhere(Idle) /\ Elsewhere(Handling("announcing", Idle.event, Nothing))
        /\ \A step \in {"retrieving", "finding", "syncing"} :
              \A e, read : Elsewhere(Handling(step, e, read))
    BY <1>2
  <2> HIDE DEF Elsewhere
  <2>2. CASE WriteSnapshot(r) \/ WriteDeletion(r) \/ Announce(r)
    BY <2>1, <2>2 DEF WriteSnapshot, WriteDeletion, Announce, Finish
  <2>3. CASE CheckoutCompleted(r) \/ Retrieve(r) \/ FindRow(r) \/ SubscriptionUpdated(r)
    BY <2>1, <2>3 DEF CheckoutCompleted, Retrieve, FindRow, SubscriptionUpdated
  <2> QED
    BY <1>8, <2>2, <2>3 DEF WebhookStep
<1>9. ASSUME NEW r \in Requests, SubscriptionDeleted(r), task'[q] # task[q]
      PROVE  \E e \in events : /\ e.kind = "deleted"
                               /\ task'[q].read.sub = e.sub /\ task'[q].event = e
  <2>1. PICK e \in events : /\ e.kind = "deleted" /\ row.sub = e.sub
                            /\ Update(r, Handling("deleting", e, Columns(row)))
    BY <1>9 DEF SubscriptionDeleted, Deliver
  <2>2. task'[q] = Handling("deleting", e, Columns(row))
    BY <1>1, <1>9, <2>1 DEF Update
  <2> QED
    BY <2>1, <2>2 DEF Handling, Task, Columns
<1> HIDE DEF Elsewhere
<1>10. CASE StripeStep \/ OthersRequest \/ DeleteReminders \/ DayPasses
  BY <1>4, <1>10 DEF StripeStep, PayCheckout, Renew, ChangeStatus, ChangePlan, CancelAtPeriodEnd,
     CancelNow, AtStripe, OthersRequest, DeleteReminders, DayPasses
<1> QED
  BY <1>3, <1>5, <1>6, <1>7, <1>8, <1>9, <1>10 DEF BillingNext

\* Stripe's side changes by itself and by opening a checkout.
LEMMA StripeChangers ==
    ASSUME BillingNext
    PROVE  UNCHANGED <<stripe, events>> \/ StripeStep \/ \E r \in Requests : OpenSession(r)
<1>1. CASE OthersRequest \/ DeleteReminders \/ DayPasses
  BY <1>1 DEF OthersRequest, DeleteReminders, DayPasses, stripeVars
<1>2. ASSUME NEW r \in Requests, OwnerStep(r), ~OpenSession(r)
      PROVE  UNCHANGED <<stripe, events>>
  BY <1>2 DEF OwnerStep, AskForSession, FindCustomer, CreateCustomer, StoreCustomer,
     RequestUpgrade, StoreRequest, AuditRequest, stripeVars
<1>3. ASSUME NEW r \in Requests, WebhookStep(r) PROVE UNCHANGED <<stripe, events>>
  BY <1>3 DEF WebhookStep, CheckoutCompleted, Retrieve, FindRow, SubscriptionUpdated,
     WriteSnapshot, SubscriptionDeleted, WriteDeletion, Announce, stripeVars
<1>4. ASSUME NEW r \in Requests, StaffStep(r) \/ JobStep(r) \/ CutOff(r)
      PROVE  UNCHANGED <<stripe, events>>
  BY <1>4 DEF StaffStep, ReadTarget, UpdateUserPlan, JobStep, SelectExpiring,
     LookForReminder, SendReminder, CutOff, stripeVars
<1> QED
  BY <1>1, <1>2, <1>3, <1>4 DEF BillingNext

LEMMA CancelledStays ==
    ASSUME BInv, BillingNext
    PROVE  /\ \A x \in Subs : stripe[x].status = "canceled" => stripe'[x].status = "canceled"
           /\ \A e \in events' : e.kind = "deleted" =>
                 e \in events \/ stripe'[e.sub].status = "canceled"
<1>1. CASE UNCHANGED <<stripe, events>>
  BY <1>1
<1>2. CASE \E r \in Requests : OpenSession(r)
  <2>1. events' = events
    BY <1>2 DEF OpenSession
  <2>2. CASE UNCHANGED stripe
    BY <2>1, <2>2
  <2>3. CASE \E s \in Subs : \E new : stripe[s] = Absent /\ stripe' = [stripe EXCEPT ![s] = new]
    BY <2>1, <2>3 DEF Absent, BInv, BillingTypes
  <2> QED
    BY <1>2, <2>2, <2>3 DEF OpenSession
<1> QED
  BY <1>1, <1>2, CancelledForGood, StripeChangers

LEMMA DeletionsKept == ASSUME Inv, DeletionsTrue, [Next]_vars PROVE DeletionsTrue'
<1>1. BInv /\ BInv' /\ stripe \in [Subs -> Snapshots]
  BY InvKept DEF Inv, BInv, BillingTypes
<1>2. CASE UNCHANGED <<stripe, events, task>>
  BY <1>2 DEF DeletionsTrue, At, Event_
<1>3. CASE BillingNext
  <2>1. /\ \A x \in Subs : stripe[x].status = "canceled" => stripe'[x].status = "canceled"
        /\ \A e \in events' : e.kind = "deleted" =>
              e \in events \/ stripe'[e.sub].status = "canceled"
    BY <1>1, <1>3, CancelledStays
  <2>2. \A e \in events : e.sub \in Subs
    BY <1>1 DEF BInv, EventsNamed
  <2>3. \A e \in events' : e.kind = "deleted" => stripe'[e.sub].status = "canceled"
    BY <2>1, <2>2 DEF DeletionsTrue
  <2>4. ASSUME NEW q \in Requests, task'[q].step = "deleting"
        PROVE  /\ task'[q].read.sub = task'[q].event.sub
               /\ stripe'[task'[q].event.sub].status = "canceled"
    <3>1. CASE task'[q] = task[q]
      <4>1. task[q].event.sub \in Subs
        BY <1>1, <2>4, <3>1 DEF BInv, EventsNamed, Handlers
      <4> QED
        BY <2>1, <2>4, <3>1, <4>1 DEF DeletionsTrue, At, Event_
    <3>2. CASE \E e \in events : /\ e.kind = "deleted"
                                /\ task'[q].read.sub = e.sub /\ task'[q].event = e
      BY <2>1, <2>2, <3>2 DEF DeletionsTrue
    <3> QED
      BY <1>1, <1>3, <2>4, <3>1, <3>2, ComesToDelete
  <2> QED
    BY <2>3, <2>4 DEF DeletionsTrue, At, Event_
<1> QED
  BY <1>2, <1>3 DEF Next, BillingStep, ClientStep, vars, billingVars, stripeVars

\* A paid plan is taken away by the staff, or by a handler of the deletion of a
\* subscription that the row named when it was looked up and that is cancelled
\* at Stripe; no other event does, in whatever order and however often they
\* come.  By then the row may name another subscription, whose plan is lost.
THEOREM PlansEndWithSubscriptions == Spec => PlanLostWithSubscription
<1> DEFINE Loser(r) == /\ task'[r] # task[r]
                       /\ \/ At(r, "planning")
                          \/ /\ At(r, "deleting") /\ task[r].read.sub # None
                             /\ stripe[task[r].read.sub].status = "canceled"
           Step == row.plan # "FREE" /\ row'.plan = "FREE" => \E r \in Requests : Loser(r)
<1>1. ASSUME Inv, DeletionsTrue, [Next]_vars PROVE Step
  <2> SUFFICES ASSUME row.plan # "FREE", row'.plan = "FREE"
               PROVE  \E r \in Requests : Loser(r)
    OBVIOUS
  <2>1. row' # row /\ row \in RowTypes /\ BInv /\ task \in [Requests -> Tasks]
    BY <1>1 DEF Inv, BInv, BillingTypes
  <2>2. BillingNext
    BY <1>1, <2>1 DEF Next, BillingStep, ClientStep, vars, billingVars
  <2>3. PICK r \in Requests : \/ StoreCustomer(r) \/ CheckoutCompleted(r) \/ WriteSnapshot(r)
                              \/ WriteDeletion(r) \/ UpdateUserPlan(r)
    BY <2>1, <2>2, RowWriters
  <2>4. task[r] \in Tasks /\ task[r].event.snap.plan # "FREE"
        /\ \A e \in events : e.snap.plan # "FREE"
    BY <2>1 DEF BInv, BillingTypes, Tasks, Events, Snapshots, Paid
  <2>5. ~StoreCustomer(r)
    BY <2>1 DEF StoreCustomer, RowTypes
  <2>6. ~CheckoutCompleted(r)
    <3>1. ASSUME CheckoutCompleted(r)
          PROVE  \E e \in events : row' = [row EXCEPT !.sub = e.sub, !.plan = e.snap.plan,
                                                       !.status = "ACTIVE"]
      BY <3>1 DEF CheckoutCompleted, Deliver
    <3> QED
      BY <2>1, <2>4, <3>1 DEF RowTypes
  <2>7. ~WriteSnapshot(r)
    BY <2>4 DEF WriteSnapshot, Image, Event_
  <2>8. ASSUME NEW step \in {"planning", "deleting"}, At(r, step),
               Update(r, Handling("announcing", Idle.event, Nothing)) \/ Update(r, Idle)
        PROVE  task'[r] # task[r]
    <3>1. Handling("announcing", Idle.event, Nothing).step = "announcing" /\ Idle.step = "idle"
      BY DEF Handling, Idle, Task
    <3> QED
      BY <2>1, <2>8, <3>1 DEF Update, At
  <2>9. CASE UpdateUserPlan(r)
    <3>1. At(r, "planning")
      BY <2>9 DEF UpdateUserPlan
    <3>2. Update(r, Handling("announcing", Idle.event, Nothing)) \/ Update(r, Idle)
      BY <2>9 DEF UpdateUserPlan, Finish
    <3> QED
      BY <2>8, <3>1, <3>2
  <2>10. CASE WriteDeletion(r)
    <3>1. At(r, "deleting") /\ Update(r, Handling("announcing", Idle.event, Nothing))
      BY <2>10 DEF WriteDeletion
    <3>2. task[r].event.sub \in Subs
      BY <2>1, <3>1 DEF BInv, EventsNamed, Handlers, At
    <3>3. /\ task[r].read.sub # None
          /\ stripe[task[r].read.sub].status = "canceled"
      BY <1>1, <3>1, <3>2, NoneAssumption DEF DeletionsTrue, Event_
    <3> QED
      BY <2>8, <3>1, <3>3
  <2> QED
    BY <2>3, <2>5, <2>6, <2>7, <2>9, <2>10
<1>2. Spec => []DeletionsTrue
  BY DeletionsFirst, DeletionsKept, InvHolds, PTL DEF Spec
<1>3. Spec => [][Step]_billingVars
  <2>1. Inv /\ DeletionsTrue /\ [Next]_vars => [Step]_billingVars
    BY <1>1
  <2> QED
    BY <2>1, <1>2, InvHolds, PTL DEF Spec
<1> QED
  BY <1>3 DEF PlanLostWithSubscription

-----------------------------------------------------------------------------
(* Reminders *)

\* A run does not know of a later day than today, nor does a reminder.
Dated ==
    /\ \A r \in Requests : At(r, "checking") \/ At(r, "reminding") => task[r].day <= today
    /\ \A until, d \in Days : reminders[<<until, d>>] > 0 => d <= today

LEMMA DatedKept ==
    ASSUME Inv, Dated, RemindersSpaced, [Next]_vars PROVE Dated' /\ RemindersSpaced'
<1>1. /\ BInv /\ task \in [Requests -> Tasks]
      /\ today \in Days \ {0} /\ Days \subseteq Nat
      /\ reminders \in [Days \X Days -> Nat]
      /\ \A r \in Requests : task[r].day \in Nat /\ task[r].read.until \in Days
  BY DayAssumption DEF Inv, BInv, BillingTypes, Days, Tasks, Readings
<1>2. CASE UNCHANGED <<reminders, today, task, raced>>
  BY <1>2 DEF Dated, RemindersSpaced, At
<1>3. CASE BillingNext
  <2>1. /\ raced \subseteq raced' /\ today <= today'
    <3>1. CASE DayPasses
      <4>1. today' = today + 1 /\ today \in Nat
        BY <1>1, <3>1 DEF DayPasses
      <4>2. raced \subseteq raced'
        BY <1>1, <1>3, RemindersMoved
      <4> QED
        BY <4>1, <4>2
    <3>2. CASE UNCHANGED today
      BY <1>1, <1>3, <3>2, RemindersMoved
    <3> QED
      BY <1>1, <1>3, <3>1, <3>2, RemindersMoved DEF DeleteReminders, SendReminder
  <2>2. today' \in Nat
    BY InvKept, DayAssumption DEF Inv, BInv, BillingTypes, Days
  <2>3. ASSUME NEW q \in Requests, task'[q].step \in {"checking", "reminding"}
        PROVE  task'[q].day <= today'
    <3>1. CASE task'[q] = task[q]
      <4>1. task[q].day <= today /\ task[q].day \in Nat /\ today \in Nat
        BY <1>1, <2>3, <3>1 DEF Dated, At
      <4> QED
        BY <2>1, <2>2, <3>1, <4>1
    <3>2. CASE task'[q] # task[q]
      <4>1. JobStep(q)
        BY <1>1, <1>3, <2>3, <3>2, OwnSteps, OwnerGoes, OthersGo DEF Handlers
      <4>2. task'[q].day = today \/ (task'[q].day = task[q].day /\ At(q, "checking"))
        BY <1>1, <2>3, <4>1, JobGoes
      <4>3. task[q].day \in Nat /\ today \in Nat /\ (At(q, "checking") => task[q].day <= today)
        BY <1>1 DEF Dated
      <4> QED
        BY <2>1, <2>2, <4>2, <4>3
    <3> QED
      BY <3>1, <3>2
  <2>4. CASE UNCHANGED reminders
    <3>1. RemindersSpaced'
      BY <2>1, <2>4 DEF RemindersSpaced
    <3>2. \A until, d \in Days : reminders'[<<until, d>>] > 0 => d <= today'
      <4> SUFFICES ASSUME NEW until \in Days, NEW d \in Days, reminders[<<until, d>>] > 0
                   PROVE  d <= today'
        BY <2>4
      <4>1. d <= today /\ d \in Nat /\ today \in Nat
        BY <1>1 DEF Dated
      <4> QED
        BY <2>1, <2>2, <4>1
    <3> QED
      BY <2>3, <3>1, <3>2 DEF Dated, At
  <2>5. CASE DeleteReminders
    <3>1. \A until, d \in Days : reminders'[<<until, d>>] <= reminders[<<until, d>>]
      BY <1>1, <2>5 DEF DeleteReminders
    <3>2. reminders' \in [Days \X Days -> Nat]
      BY InvKept DEF Inv, BInv, BillingTypes
    <3> QED
      BY <1>1, <2>1, <2>2, <2>3, <3>1, <3>2 DEF Dated, RemindersSpaced, At
  <2>6. ASSUME NEW r \in Requests, SendReminder(r)
        PROVE  /\ \A until, d \in Days : reminders'[<<until, d>>] > 0 => d <= today'
               /\ RemindersSpaced'
    <3> DEFINE end == task[r].read.until
    <3>1. /\ reminders' = [reminders EXCEPT ![<<end, today>>] = @ + 1]
          /\ today' = today /\ end \in Days /\ today \in Days
          /\ task[r].day <= today /\ task[r].day \in Nat
          /\ Note("reminder", ~SentRecently(end, task[r].day))
      BY <1>1, <2>6 DEF SendReminder, Dated
    <3>2. \A until, d \in Days :
            reminders'[<<until, d>>] =
              IF until = end /\ d = today THEN reminders[<<until, d>>] + 1 ELSE reminders[<<until, d>>]
      BY <1>1, <3>1
    <3>3. \A until, d \in Days : reminders'[<<until, d>>] > 0 => d <= today'
      BY <1>1, <3>1, <3>2 DEF Dated
    <3>4. ASSUME "reminder" \notin raced'
          PROVE  \A d \in Days : reminders[<<end, d>>] > 0 => d + 2 <= today
      <4>1. ~SentRecently(end, task[r].day)
        BY <3>1, <3>4 DEF Note, Unless
      <4> HIDE DEF end
      <4>2. TAKE d \in Days
      <4>3. HAVE reminders[<<end, d>>] > 0
      <4>4. ~(d >= task[r].day - 1)
        BY <4>1, <4>3 DEF SentRecently
      <4>5. d \in Nat /\ today \in Nat /\ task[r].day \in Nat /\ task[r].day <= today
        BY <1>1, <3>1
      <4> QED
        BY <4>4, <4>5
    <3> HIDE DEF end
    <3>5. ASSUME "reminder" \notin raced', NEW until \in Days, NEW d \in Days, NEW e \in Days
          PROVE  /\ reminders'[<<until, d>>] <= 1
                 /\ reminders'[<<until, d>>] > 0 /\ reminders'[<<until, e>>] > 0 => d >= e \/ e >= d + 2
      <4>1. "reminder" \notin raced
        BY <2>1, <3>5
      <4>2. /\ reminders[<<until, d>>] <= 1 /\ reminders[<<until, d>>] \in Nat
            /\ reminders[<<until, e>>] \in Nat
            /\ reminders[<<until, d>>] > 0 /\ reminders[<<until, e>>] > 0 => d >= e \/ e >= d + 2
        BY <1>1, <4>1 DEF RemindersSpaced
      <4> QED
        BY <1>1, <3>1, <3>2, <3>3, <3>4, <3>5, <4>2
    <3> QED
      BY <3>3, <3>5 DEF RemindersSpaced
  <2>7. CASE \E r \in Requests : SendReminder(r)
    BY <2>3, <2>6, <2>7 DEF Dated, At
  <2>8. CASE DayPasses
    BY <2>4, <2>8 DEF DayPasses
  <2> QED
    BY <1>1, <1>3, <2>4, <2>5, <2>7, <2>8, RemindersMoved
<1> QED
  BY <1>2, <1>3 DEF Next, BillingStep, ClientStep, vars, billingVars

\* processSubscriptionExpiryReminders: that a reminder is dated when it is
\* written, and looked for from the day before the run, keeps them apart.
THEOREM RemindersStayApart == Spec => []RemindersSpaced
<1>1. Init => Dated /\ RemindersSpaced
  <2> SUFFICES ASSUME Init PROVE Dated /\ RemindersSpaced
    OBVIOUS
  <2>1. reminders = [x \in Days \X Days |-> 0] /\ \A r \in Requests : task[r].step = "idle"
    BY DEF Init, BillingInit, Idle, Task
  <2> QED
    BY <2>1 DEF Dated, RemindersSpaced, At
<1> QED
  BY <1>1, DatedKept, InvHolds, PTL DEF Spec

-----------------------------------------------------------------------------
(* The customer at Stripe *)

\* Who is about to store a customer has one.
HasCustomer == \A r \in Requests : At(r, "storing") => task[r].customer \in Customers

\* Whatever of the user's is at Stripe, and whatever a request has of it, is the
\* customer's that the row names.
OfCustomer ==
    /\ \A s \in Subs : stripe[s].status # "none" =>
          row.cust # None /\ stripe[s].customer = row.cust
    /\ \A e \in events : stripe[e.sub].status # "none" /\ e.snap.customer = row.cust
    /\ \A r \in Requests : task[r].step \in Handlers =>
          stripe[Event_(r).sub].status # "none" /\ Event_(r).snap.customer = row.cust
    /\ \A r \in Requests : At(r, "session") => row.cust # None /\ task[r].customer = row.cust

Owned == HasCustomer /\ OneCustomer /\ ("customer" \in raced \/ OfCustomer)

LEMMA OwnedFirst == ASSUME Init PROVE Owned
<1>1. \A r \in Requests : task[r].step = "idle"
  BY DEF Init, BillingInit, Idle, Task
<1>2. CASE Unsubscribed
  BY <1>1, <1>2 DEF Unsubscribed, Owned, HasCustomer, OneCustomer, OfCustomer, At, Handlers, Absent
<1>3. ASSUME NEW s \in Subs, NEW c \in Customers, NEW until, NEW old \in SUBSET (Subs \ {s}),
             Subscribed(s, c, "PRO", until, old)
      PROVE  Owned
  <2> DEFINE snap == [status |-> "active", plan |-> "PRO", ending |-> FALSE, until |-> until,
                      customer |-> c, version |-> 1]
             ended == [snap EXCEPT !.status = "canceled"]
  <2>1. /\ row = Image(s, snap)
        /\ stripe = [x \in Subs |-> IF x = s THEN snap ELSE IF x \in old THEN ended ELSE Absent]
        /\ customers = {c}
        /\ events = {Event("checkout", s, snap), Event("updated", s, snap)}
                      \cup {Event("deleted", x, ended) : x \in old}
    BY <1>3 DEF Subscribed
  <2>2. /\ snap.customer = c /\ ended.customer = c
        /\ snap.status # "none" /\ ended.status # "none"
    OBVIOUS
  <2>3. row.cust = c /\ c # None
    BY <2>1, NoneAssumption DEF Image
  <2> HIDE DEF snap, ended
  <2>4. \A x \in Subs : stripe[x].status # "none" => stripe[x].customer = c
    BY <2>1, <2>2 DEF Absent
  <2>5. ASSUME NEW e \in events PROVE stripe[e.sub].status # "none" /\ e.snap.customer = c
    <3>1. CASE e = Event("checkout", s, snap) \/ e = Event("updated", s, snap)
      <4>1. e.sub = s /\ e.snap = snap
        BY <3>1 DEF Event
      <4> QED
        BY <2>1, <2>2, <4>1
    <3>2. CASE \E x \in old : e = Event("deleted", x, ended)
      <4>1. e.sub \in old /\ e.snap = ended
        BY <3>2 DEF Event
      <4> QED
        BY <2>1, <2>2, <4>1
    <3> QED
      BY <2>1, <3>1, <3>2
  <2> QED
    BY <1>1, <2>1, <2>3, <2>4, <2>5 DEF Owned, HasCustomer, OneCustomer, OfCustomer, At, Handlers
<1> QED
  BY <1>2, <1>3 DEF Init, BillingInit

\* A request about to store its customer ends by storing it or by being cut
\* off; one comes there by creating it.
LEMMA Storing ==
    ASSUME BInv, BillingNext, NEW q \in Requests, task'[q] # task[q]
    PROVE  /\ At(q, "storing") => StoreCustomer(q) \/ CutOff(q)
           /\ task'[q].step = "storing" => CreateCustomer(q)
<1>1. /\ task \in [Requests -> Tasks]
      /\ \A step, plan, e, read, c, day : Task(step, plan, e, read, c, day).step = step
  BY DEF Task, BInv, BillingTypes
<1>2. Idle.step = "idle" /\ \A step, e, read : Handling(step, e, read).step = step
  BY <1>1 DEF Idle, Handling
<1>3. \A t : Update(q, t) => task'[q] = t
  BY <1>1 DEF Update
<1>4. CASE OwnerStep(q)
  <2>1. At(q, "storing") => StoreCustomer(q)
    BY <1>2, <1>4 DEF OwnerStep, AskForSession, FindCustomer, CreateCustomer, OpenSession,
       RequestUpgrade, StoreRequest, AuditRequest, Start, At
  <2>2. task'[q].step = "storing" => CreateCustomer(q)
    BY <1>1, <1>2, <1>3, <1>4 DEF OwnerStep, AskForSession, FindCustomer, StoreCustomer, OpenSession,
       RequestUpgrade, StoreRequest, AuditRequest, Finish
  <2> QED
    BY <2>1, <2>2
<1>5. CASE WebhookStep(q) \/ StaffStep(q) \/ CutOff(q)
  <2>1. task'[q].step # "storing"
    BY <1>5, OthersGo DEF Handlers
  <2>2. CASE WebhookStep(q)
    BY <1>2, <2>1, <2>2 DEF WebhookStep, CheckoutCompleted, Retrieve, FindRow, SubscriptionUpdated,
       WriteSnapshot, SubscriptionDeleted, WriteDeletion, Announce, Deliver, At
  <2>3. CASE StaffStep(q)
    BY <1>2, <2>1, <2>3 DEF StaffStep, ReadTarget, UpdateUserPlan, StartOfStaff, At
  <2> QED
    BY <1>5, <2>1, <2>2, <2>3
<1>6. CASE JobStep(q)
  <2>1. task'[q].step # "storing"
    BY <1>6, JobGoes
  <2> QED
    BY <1>2, <1>6, <2>1 DEF JobStep, SelectExpiring, LookForReminder, SendReminder, Start, At
<1> QED
  BY <1>4, <1>5, <1>6, OwnSteps

LEMMA CustomerStays ==
    ASSUME BInv, BillingNext, OfCustomer, \A r \in Requests : ~StoreCustomer(r)
    PROVE  row'.cust = row.cust
<1>1. row \in RowTypes
  BY DEF BInv, BillingTypes
<1>2. ASSUME NEW r \in Requests, CheckoutCompleted(r) PROVE row'.cust = row.cust
  <2>1. \E e : row' = [row EXCEPT !.sub = e.sub, !.plan = e.snap.plan, !.status = "ACTIVE"]
    BY <1>2 DEF CheckoutCompleted
  <2> QED
    BY <1>1, <2>1 DEF RowTypes
<1>3. ASSUME NEW r \in Requests, WriteSnapshot(r) PROVE row'.cust = row.cust
  <2>1. row' = Image(Event_(r).sub, Event_(r).snap) /\ task[r].step \in Handlers
    BY <1>3 DEF WriteSnapshot, At, Handlers
  <2> QED
    BY <2>1 DEF OfCustomer, Image
<1>4. ASSUME NEW r \in Requests, WriteDeletion(r) PROVE row'.cust = row.cust
  BY <1>4 DEF WriteDeletion, NewRow
<1>5. ASSUME NEW r \in Requests, UpdateUserPlan(r) PROVE row'.cust = row.cust
  <2>1. \E plan, status, ending, until :
          row' = [row EXCEPT !.plan = plan, !.status = status, !.ending = ending, !.until = until]
    BY <1>5 DEF UpdateUserPlan
  <2> QED
    BY <1>1, <2>1 DEF RowTypes
<1> QED
  BY <1>2, <1>3, <1>4, <1>5, RowWriters

LEMMA StripeStaysOfCustomer ==
    ASSUME BInv, BillingNext, OfCustomer
    PROVE  /\ \A s \in Subs : stripe[s].status # "none" => stripe'[s].status # "none"
           /\ \A s \in Subs : stripe'[s].status # "none" =>
                 row.cust # None /\ stripe'[s].customer = row.cust
           /\ \A e \in events' : stripe'[e.sub].status # "none" /\ e.snap.customer = row.cust
<1>1. stripe \in [Subs -> Snapshots] /\ \A e \in events : e.sub \in Subs
  BY DEF BInv, BillingTypes, EventsNamed
<1>2. CASE UNCHANGED <<stripe, events>>
  BY <1>2 DEF OfCustomer
<1>3. CASE StripeStep
  <2>1. PICK s \in Subs, new \in Snapshots, kinds \in SUBSET {"checkout", "updated", "deleted"} :
          /\ AtStripe(s, new, kinds)
          /\ stripe[s].status \in LiveStatuses \cup {"open"}
          /\ new.status \in LiveStatuses \cup {"canceled"}
          /\ new.customer = stripe[s].customer
    BY <1>3, StripeMoves
  <2> DEFINE next == [new EXCEPT !.version = stripe[s].version + 1]
  <2>2. /\ stripe' = [stripe EXCEPT ![s] = next]
        /\ events' = events \cup {Event(kind, s, next) : kind \in kinds}
    BY <2>1 DEF AtStripe
  <2>3. next.status # "none" /\ next.customer = stripe[s].customer
    BY <2>1, StatusAssumption DEF Snapshots
  <2>4. stripe[s].status # "none"
    BY <2>1, StatusAssumption
  <2> HIDE DEF next
  <2>5. row.cust # None /\ next.customer = row.cust
    BY <2>3, <2>4 DEF OfCustomer
  <2>6. stripe'[s] = next /\ \A x \in Subs \ {s} : stripe'[x] = stripe[x]
    BY <1>1, <2>2
  <2>7. \A e \in events' : e \in events \/ (e.sub = s /\ e.snap = next)
    BY <2>2 DEF Event
  <2> QED
    BY <1>1, <2>3, <2>5, <2>6, <2>7 DEF OfCustomer
<1>4. ASSUME NEW r \in Requests, OpenSession(r), ~UNCHANGED <<stripe, events>>
      PROVE  \E s \in Subs : \E new :
               /\ stripe' = [stripe EXCEPT ![s] = new] /\ events' = events
               /\ new.status = "open" /\ new.customer = row.cust /\ row.cust # None
  <2> DEFINE new == [Absent EXCEPT !.status = "open", !.plan = task[r].plan,
                                   !.customer = task[r].customer]
  <2>1. PICK s \in Subs : stripe' = [stripe EXCEPT ![s] = new] /\ events' = events
    BY <1>4 DEF OpenSession
  <2>2. new.status = "open" /\ new.customer = task[r].customer
    BY DEF Absent
  <2>3. row.cust # None /\ task[r].customer = row.cust
    BY <1>4 DEF OpenSession, OfCustomer
  <2> QED
    BY <2>1, <2>2, <2>3
<1>5. CASE \E s \in Subs : \E new :
             /\ stripe' = [stripe EXCEPT ![s] = new] /\ events' = events
             /\ new.status = "open" /\ new.customer = row.cust /\ row.cust # None
  BY <1>1, <1>5 DEF OfCustomer
<1> QED
  BY <1>2, <1>3, <1>4, <1>5, StripeChangers

\* The event a request handles is one of Stripe's, or has the subscription as
\* Stripe keeps it.
LEMMA HandlerEvents ==
    ASSUME BInv, BillingNext, NEW q \in Requests, task'[q] # task[q], task'[q].step \in Handlers
    PROVE  \/ task'[q].event \in events
           \/ /\ task[q].step \in Handlers
              /\ LET e == Event_(q)
                 IN  task'[q].event \in {e, Event("checkout", e.sub, stripe[e.sub])}
<1>1. /\ task \in [Requests -> Tasks]
      /\ \A step, plan, e, read, c, day : Task(step, plan, e, read, c, day).step = step
  BY DEF Task, BInv, BillingTypes
<1>2. \A step, e, read : Handling(step, e, read).step = step /\ Handling(step, e, read).event = e
  BY <1>1 DEF Handling, Task
<1>3. Idle.step \notin Handlers
  BY DEF Idle, Task, Handlers
<1>4. \A t : Update(q, t) => task'[q] = t
  BY <1>1 DEF Update
<1>5. CASE OwnerStep(q) \/ JobStep(q)
  BY <1>5, OwnerGoes, JobGoes DEF Handlers
<1>6. CASE StaffStep(q) \/ CutOff(q)
  <2> DEFINE There(t) == t.step \in {"announcing", "planning", "idle"}
  <2>1. There(Idle) /\ \A e, read : There(Handling("announcing", e, read)) /\ There(Handling("planning", e, read))
    BY <1>2 DEF Idle, Task
  <2> HIDE DEF There
  <2>2. \E t : Update(q, t) /\ There(t)
    BY <1>6, <2>1 DEF StaffStep, ReadTarget, UpdateUserPlan, CutOff, Finish
  <2> QED
    BY <1>4, <2>2 DEF Handlers, There
<1>7. CASE CheckoutCompleted(q) \/ SubscriptionUpdated(q) \/ SubscriptionDeleted(q)
  <2>1. \E step, e, read : e \in events /\ Update(q, Handling(step, e, read))
    BY <1>7 DEF CheckoutCompleted, SubscriptionUpdated, SubscriptionDeleted, Deliver
  <2> QED
    BY <1>2, <1>4, <2>1
<1>8. CASE Retrieve(q)
  BY <1>2, <1>4, <1>8 DEF Retrieve, At, Handlers
<1>9. CASE FindRow(q)
  BY <1>2, <1>4, <1>9 DEF FindRow, At, Handlers
<1>10. CASE WriteSnapshot(q) \/ WriteDeletion(q) \/ Announce(q)
  <2>1. Update(q, Idle) \/ Update(q, Handling("announcing", Idle.event, Nothing))
    BY <1>10 DEF WriteSnapshot, WriteDeletion, Announce, Finish
  <2> QED
    BY <1>2, <1>3, <1>4, <2>1 DEF Handlers
<1> QED
  BY <1>5, <1>6, <1>7, <1>8, <1>9, <1>10, OwnSteps DEF WebhookStep

\* The event a request handles, or the customer it has, is the user's.
LEMMA TasksStayOfCustomer ==
    ASSUME BInv, BillingNext, OfCustomer, NEW q \in Requests, task'[q] # task[q], ~StoreCustomer(q)
    PROVE  /\ task'[q].step \in Handlers =>
                 stripe[task'[q].event.sub].status # "none" /\ task'[q].event.snap.customer = row.cust
           /\ task'[q].step = "session" => row.cust # None /\ task'[q].customer = row.cust
<1>1. /\ task \in [Requests -> Tasks]
      /\ \A step, plan, e, read, c, day : Task(step, plan, e, read, c, day).step = step
  BY DEF Task, BInv, BillingTypes
<1>2. /\ Idle.step = "idle"
      /\ \A step, e, read : Handling(step, e, read).step = step
  BY <1>1 DEF Idle, Handling
<1>3. \A t : Update(q, t) => task'[q] = t
  BY <1>1 DEF Update
<1>4. ASSUME task'[q].step \in Handlers
      PROVE  stripe[task'[q].event.sub].status # "none" /\ task'[q].event.snap.customer = row.cust
  <2>1. CASE task'[q].event \in events
    BY <2>1 DEF OfCustomer
  <2>2. CASE task[q].step \in Handlers /\ task'[q].event = Event_(q)
    BY <2>2 DEF OfCustomer
  <2>3. CASE task[q].step \in Handlers
             /\ task'[q].event = Event("checkout", Event_(q).sub, stripe[Event_(q).sub])
    <3>1. Event_(q).sub \in Subs /\ stripe[Event_(q).sub].status # "none"
      BY <2>3 DEF OfCustomer, BInv, EventsNamed, Event_
    <3>2. task'[q].event.sub = Event_(q).sub /\ task'[q].event.snap = stripe[Event_(q).sub]
      BY <2>3 DEF Event
    <3> QED
      BY <3>1, <3>2 DEF OfCustomer
  <2> QED
    BY <1>4, <2>1, <2>2, <2>3, HandlerEvents
<1>5. ASSUME task'[q].step = "session" PROVE row.cust # None /\ task'[q].customer = row.cust
  <2>1. OwnerStep(q)
    BY <1>5, OwnSteps, OthersGo, JobGoes DEF Handlers
  <2>2. FindCustomer(q)
    BY <1>1, <1>2, <1>3, <1>5, <2>1 DEF OwnerStep, AskForSession, CreateCustomer, OpenSession,
       RequestUpgrade, StoreRequest, AuditRequest, Finish
  <2>3. PICK step : /\ Update(q, Task(step, task[q].plan, Idle.event, Nothing, row.cust, 0))
                    /\ step = "session" => row.cust # None
    BY <2>2 DEF FindCustomer
  <2> QED
    BY <1>3, <1>5, <2>3 DEF Task
<1> QED
  BY <1>4, <1>5

LEMMA OfCustomerKept ==
    ASSUME BInv, BillingNext, HasCustomer, OfCustomer, "customer" \notin raced'
    PROVE  OfCustomer'
<1>1. /\ task \in [Requests -> Tasks]
      /\ \A e \in events : e.sub \in Subs
      /\ \A r \in Requests : task[r].step \in Handlers => task[r].event.sub \in Subs
  BY DEF BInv, BillingTypes, EventsNamed
<1>2. CASE \A r \in Requests : ~StoreCustomer(r)
  <2>1. row'.cust = row.cust
    BY <1>2, CustomerStays
  <2>2. ASSUME NEW q \in Requests
        PROVE  /\ task'[q].step \in Handlers =>
                     stripe'[task'[q].event.sub].status # "none" /\ task'[q].event.snap.customer = row.cust
               /\ task'[q].step = "session" => row.cust # None /\ task'[q].customer = row.cust
    <3>1. task'[q].step \in Handlers => task'[q].event.sub \in Subs
      <4>1. CASE task'[q] = task[q]
        BY <1>1, <4>1
      <4>2. CASE task'[q] # task[q]
        BY <1>1, <4>2, OneTask, Updated DEF BInv
      <4> QED
        BY <4>1, <4>2
    <3>2. /\ task'[q].step \in Handlers =>
                stripe[task'[q].event.sub].status # "none" /\ task'[q].event.snap.customer = row.cust
          /\ task'[q].step = "session" => row.cust # None /\ task'[q].customer = row.cust
      <4>1. CASE task'[q] = task[q]
        BY <4>1 DEF OfCustomer, At, Event_
      <4>2. CASE task'[q] # task[q]
        BY <1>2, <4>2, TasksStayOfCustomer
      <4> QED
        BY <4>1, <4>2
    <3> QED
      BY <3>1, <3>2, StripeStaysOfCustomer
  <2> QED
    BY <2>1, <2>2, StripeStaysOfCustomer DEF OfCustomer, At, Event_
<1>3. ASSUME NEW r \in Requests, StoreCustomer(r) PROVE OfCustomer'
  <2>1. /\ At(r, "storing") /\ row.cust = None /\ UNCHANGED <<stripe, events>>
        /\ row' = [row EXCEPT !.cust = task[r].customer]
        /\ Update(r, Task("session", task[r].plan, Idle.event, Nothing, task[r].customer, 0))
    BY <1>3 DEF StoreCustomer, Note, Unless, stripeVars
  <2>2. /\ \A s \in Subs : stripe'[s].status = "none"
        /\ events' = {}
        /\ \A q \in Requests : task[q].step \notin Handlers /\ ~At(q, "session")
    BY <1>1, <2>1 DEF OfCustomer, Event_
  <2>3. row'.cust = task[r].customer /\ row'.cust # None
    BY <2>1, NoneAssumption DEF HasCustomer, BInv, BillingTypes, RowTypes
  <2>4. /\ task'[r].step = "session" /\ task'[r].customer = row'.cust
        /\ \A q \in Requests \ {r} : task'[q] = task[q]
    BY <1>1, <2>1, <2>3 DEF Update, Task
  <2> QED
    BY <2>2, <2>3, <2>4 DEF OfCustomer, At, Handlers
<1> QED
  BY <1>2, <1>3

LEMMA OwnedKept == ASSUME Inv, Owned, [Next]_vars PROVE Owned'
<1>1. BInv /\ task \in [Requests -> Tasks] /\ customers \subseteq Customers
  BY DEF Inv, BInv, BillingTypes
<1>2. CASE UNCHANGED <<row, stripe, customers, events, task, raced>>
  BY <1>2 DEF Owned, HasCustomer, OneCustomer, OfCustomer, At, Event_
<1>3. CASE BillingNext
  <2>1. raced \subseteq raced'
    BY <1>1, <1>3, RemindersMoved
  <2>2. HasCustomer'
    <3> SUFFICES ASSUME NEW q \in Requests, task'[q].step = "storing"
                 PROVE  task'[q].customer \in Customers
      BY DEF HasCustomer, At
    <3>1. CASE task'[q] = task[q]
      BY <3>1 DEF Owned, HasCustomer, At
    <3>2. CASE task'[q] # task[q]
      <4>1. PICK c \in Customers : Update(q, Task("storing", task[q].plan, Idle.event, Nothing, c, 0))
        BY <1>1, <1>3, <3>2, Storing DEF CreateCustomer
      <4> QED
        BY <1>1, <4>1 DEF Update, Task
    <3> QED
      BY <3>1, <3>2
  <2>3. ASSUME "customer" \notin raced' PROVE OfCustomer' /\ OneCustomer'
    <3>1. OfCustomer /\ OneCustomer /\ HasCustomer /\ "customer" \notin raced
      BY <2>1, <2>3 DEF Owned
    <3>2. OfCustomer'
      BY <1>1, <1>3, <2>3, <3>1, OfCustomerKept
    <3>3. ASSUME NEW c \in customers'
          PROVE  c = row'.cust \/ \E r \in Requests : task'[r].step = "storing" /\ task'[r].customer = c
      <4>1. CASE c \notin customers
        <5>1. PICK r \in Requests : CreateCustomer(r)
          <6>1. CASE StripeStep \/ OthersRequest \/ DeleteReminders \/ DayPasses
            BY <4>1, <6>1 DEF StripeStep, PayCheckout, Renew, ChangeStatus, ChangePlan,
               CancelAtPeriodEnd, CancelNow, AtStripe, OthersRequest, DeleteReminders, DayPasses, stripeVars
          <6>2. ASSUME NEW r \in Requests, OwnerStep(r), ~CreateCustomer(r) PROVE FALSE
            BY <4>1, <6>2 DEF OwnerStep, AskForSession, FindCustomer, StoreCustomer, OpenSession,
               RequestUpgrade, StoreRequest, AuditRequest, stripeVars
          <6>3. ASSUME NEW r \in Requests, WebhookStep(r) PROVE FALSE
            BY <4>1, <6>3 DEF WebhookStep, CheckoutCompleted, Retrieve, FindRow, SubscriptionUpdated,
               WriteSnapshot, SubscriptionDeleted, WriteDeletion, Announce, stripeVars
          <6>4. ASSUME NEW r \in Requests, StaffStep(r) \/ JobStep(r) \/ CutOff(r) PROVE FALSE
            BY <4>1, <6>4 DEF StaffStep, ReadTarget, UpdateUserPlan, JobStep, SelectExpiring,
               LookForReminder, SendReminder, CutOff, stripeVars
          <6> QED
            BY <1>3, <6>1, <6>2, <6>3, <6>4 DEF BillingNext
        <5>2. Update(r, Task("storing", task[r].plan, Idle.event, Nothing, c, 0))
          BY <4>1, <5>1 DEF CreateCustomer
        <5>3. task'[r].step = "storing" /\ task'[r].customer = c
          BY <1>1, <5>2 DEF Update, Task
        <5> QED
          BY <5>3
      <4>2. ASSUME NEW r \in Requests, At(r, "storing"), task[r].customer = c
            PROVE  \/ c = row'.cust
                   \/ task'[r].step = "storing" /\ task'[r].customer = c
        <5>1. CASE task'[r] = task[r]
          BY <4>2, <5>1 DEF At
        <5>2. CASE StoreCustomer(r)
          BY <1>1, <4>2, <5>2 DEF StoreCustomer, BInv, BillingTypes, RowTypes
        <5>3. ~CutOff(r)
          BY <2>3, <4>2 DEF CutOff, Note, Unless
        <5> QED
          BY <1>1, <1>3, <4>2, <5>1, <5>2, <5>3, Storing
      <4>3. CASE c \in customers /\ c = row.cust
        <5>1. c # None
          BY <1>1, <4>3, NoneAssumption
        <5>2. \A r \in Requests : ~StoreCustomer(r)
          BY <2>3, <4>3, <5>1 DEF StoreCustomer, Note, Unless
        <5> QED
          BY <1>1, <1>3, <3>1, <4>3, <5>2, CustomerStays
      <4> QED
        BY <3>1, <4>1, <4>2, <4>3 DEF OneCustomer
    <3> QED
      BY <3>2, <3>3 DEF OneCustomer, At
  <2> QED
    BY <2>2, <2>3 DEF Owned, OneCustomer
<1> QED
  BY <1>2, <1>3 DEF Next, BillingStep, ClientStep, vars, billingVars, stripeVars

\* ensureStripeCustomer: a user's one customer is the one the row names, or is
\* about to be stored, unless two requests made one each or one was cut off.
THEOREM CustomerIsOne == Spec => []OneCustomer
<1>1. Spec => []Owned
  BY OwnedFirst, OwnedKept, InvHolds, PTL DEF Spec
<1>2. Owned => OneCustomer
  BY DEF Owned
<1> QED
  BY <1>1, <1>2, PTL

-----------------------------------------------------------------------------
(* Requests for an offline upgrade *)

\* The requests that no change of plan has answered, the latest request, and
\* those about to be stored once more.
Open == {i \in Requested : Unanswered(i)}
Latest == Requested = {} \/ \E i \in Requested : \A j \in Requested : j <= i
Auditing == {r \in Requests : At(r, "auditing")}
Most == IF AuditLog THEN 2 ELSE 1

FewPending ==
    /\ Latest
    /\ ~AuditLog => Auditing = {}
    /\ "request" \in raced \/ Cardinality(Open) + Cardinality(Auditing) <= Most

LEMMA FiniteLog ==
    ASSUME BInv
    PROVE  /\ IsFiniteSet(Open) /\ Cardinality(Open) \in Nat
           /\ IsFiniteSet(Auditing) /\ Cardinality(Auditing) \in Nat
           /\ DOMAIN log = 1 .. Len(log) /\ Len(log) \in Nat
<1>1. DOMAIN log = 1 .. Len(log) /\ Len(log) \in Nat
  BY DEF BInv, BillingTypes
<1>2. Open \subseteq 1 .. Len(log) /\ IsFiniteSet(1 .. Len(log))
  BY <1>1, FS_Interval DEF Open, Requested
<1>3. Auditing \subseteq Requests
  BY DEF Auditing
<1> QED
  BY <1>1, <1>2, <1>3, FiniteAssumption, FS_Subset, FS_CardinalityType

\* A request of an earlier place is unanswered only if the latest one is.
LEMMA LatestOpen ==
    ASSUME BInv, Latest
    PROVE  /\ \A i \in Open : \E l \in Open : \A j \in Requested : j <= l
           /\ row.plan = "FREE" /\ ~HasPending => Open = {}
<1>1. ASSUME NEW i \in Open PROVE \E l \in Open : \A j \in Requested : j <= l
  <2>1. i \in Requested /\ Unanswered(i)
    BY DEF Open
  <2>2. PICK l \in Requested : \A j \in Requested : j <= l
    BY <2>1 DEF Latest
  <2>3. i <= l /\ i \in Nat /\ l \in Nat /\ DOMAIN log \subseteq Nat
    BY <2>1, <2>2, FiniteLog DEF Requested
  <2>4. Unanswered(l)
    BY <2>1, <2>3 DEF Unanswered
  <2> QED
    BY <2>2, <2>4 DEF Open
<1>2. row.plan = "FREE" /\ ~HasPending => Open = {}
  <2>1. ASSUME NEW l \in Open, \A j \in Requested : j <= l, row.plan = "FREE" PROVE HasPending
    BY <2>1 DEF HasPending, Open
  <2> QED
    BY <1>1, <2>1
<1> QED
  BY <1>1, <1>2

\* What comes after a request is finite, and less the later the request.
LEMMA Newest ==
    ASSUME BInv, NEW kinds, NEW more, kinds \subseteq more,
           NEW i \in Requested, NEW l \in Requested, i <= l
    PROVE  /\ Cardinality(Newer(l, kinds)) \in Nat /\ Cardinality(Newer(i, more)) \in Nat
           /\ Cardinality(Newer(l, kinds)) <= Cardinality(Newer(i, more))
<1>1. DOMAIN log = 1 .. Len(log) /\ Len(log) \in Nat /\ i \in Nat /\ l \in Nat
  BY FiniteLog DEF Requested
<1>2. Newer(i, more) \subseteq 1 .. Len(log) /\ IsFiniteSet(1 .. Len(log))
  BY <1>1, FS_Interval DEF Newer
<1>3. IsFiniteSet(Newer(i, more))
  BY <1>2, FS_Subset
<1>4. \A j \in DOMAIN log : j > l => j > i
  BY <1>1
<1>5. Newer(l, kinds) \subseteq Newer(i, more)
  BY <1>4 DEF Newer
<1> QED
  BY <1>3, <1>5, FS_Subset, FS_CardinalityType

\* Both ways of looking for a pending request agree, since there is a latest
\* one: after it come only the requests of others, and the list ends before it
\* just when there are as many of them as it takes.
LEMMA BothLook ==
    ASSUME BInv, Latest
    PROVE  ListPending # {} <=> HasPending /\ ~CrowdedOut
<1>1. Take \in Nat /\ {"other"} \subseteq {"request", "other"}
  BY TakeAssumption
<1>2. ASSUME NEW i \in ListPending PROVE HasPending /\ ~CrowdedOut
  <2>1. i \in Open /\ i \in Requested /\ row.plan = "FREE"
        /\ Cardinality(Newer(i, {"request", "other"})) < Take
    BY DEF ListPending, Open
  <2>2. HasPending
    BY <2>1, LatestOpen
  <2>3. ASSUME NEW l \in Requested, i <= l PROVE ~(Cardinality(Newer(l, {"other"})) >= Take)
    BY <1>1, <2>1, <2>3, Newest
  <2> QED
    BY <2>1, <2>2, <2>3 DEF CrowdedOut
<1>3. ASSUME HasPending, ~CrowdedOut PROVE ListPending # {}
  <2>1. PICK l \in Requested : (\A j \in Requested : j <= l) /\ Unanswered(l)
    BY <1>3 DEF HasPending
  <2>2. l \in Nat /\ DOMAIN log \subseteq Nat
    BY FiniteLog DEF Requested
  <2>3. Newer(l, {"request", "other"}) = Newer(l, {"other"})
    <3>1. \A j \in DOMAIN log : j > l => log[j] # "request"
      BY <2>1, <2>2 DEF Requested
    <3> QED
      BY <3>1 DEF Newer
  <2>4. Cardinality(Newer(l, {"other"})) \in Nat
    <3>1. l <= l
      BY <2>2
    <3> QED
      BY <1>1, <3>1, Newest
  <2>5. ~(Cardinality(Newer(l, {"other"})) >= Take)
    BY <1>3, <2>1 DEF CrowdedOut
  <2>6. Cardinality(Newer(l, {"request", "other"})) < Take
    BY <1>1, <2>3, <2>4, <2>5
  <2>7. row.plan = "FREE"
    BY <1>3 DEF HasPending
  <2> QED
    BY <2>1, <2>6, <2>7 DEF ListPending
<1> QED
  BY <1>2, <1>3

LEMMA Logged ==
    ASSUME BInv, NEW x \in Entries, log' = Append(log, x)
    PROVE  /\ x = "request" => Requested' = Requested \cup {Len(log) + 1}
                              /\ Open' = Open \cup {Len(log) + 1}
           /\ x = "change" => Requested' = Requested /\ Open' = {}
           /\ x = "other" => Requested' = Requested /\ Open' = Open
           /\ Latest => Latest'
<1>0. PICK n \in Nat : n = Len(log)
  BY DEF BInv, BillingTypes
<1>1. n \in Nat /\ DOMAIN log = 1 .. n /\ log \in Seq(Entries)
  BY <1>0 DEF BInv, BillingTypes
<1>2. /\ DOMAIN log' = 1 .. n + 1
      /\ log'[n + 1] = x
      /\ \A i \in 1 .. n : log'[i] = log[i]
  BY <1>0, <1>1
<1>3. /\ x = "request" => Requested' = Requested \cup {n + 1}
      /\ x # "request" => Requested' = Requested
  BY <1>1, <1>2 DEF Requested
<1>4. ASSUME NEW i \in 1 .. n + 1
      PROVE  Unanswered(i)' <=> \A j \in 1 .. n + 1 : j > i => log'[j] # "change"
  BY <1>2 DEF Unanswered
<1>5. ASSUME x # "change", NEW i \in 1 .. n PROVE Unanswered(i)' <=> Unanswered(i)
  <2>1. Unanswered(i) <=> \A j \in 1 .. n : j > i => log[j] # "change"
    BY <1>1 DEF Unanswered
  <2>2. i \in 1 .. n + 1 /\ \A j \in 1 .. n + 1 : j \in 1 .. n \/ j = n + 1
    BY <1>1
  <2>3. Unanswered(i)' <=> \A j \in 1 .. n : j > i => log'[j] # "change"
    <3>1. log'[n + 1] # "change" /\ \A j \in 1 .. n : j \in 1 .. n + 1
      BY <1>1, <1>2, <1>5
    <3> QED
      BY <1>4, <2>2, <3>1
  <2> QED
    BY <1>2, <2>1, <2>3
<1>6. x = "request" => Unanswered(n + 1)'
  <2>1. n + 1 \in 1 .. n + 1 /\ \A j \in 1 .. n + 1 : ~(j > n + 1)
    BY <1>1
  <2> QED
    BY <1>2, <2>1 DEF Unanswered
<1>7. ASSUME x = "change", NEW i \in 1 .. n PROVE ~Unanswered(i)'
  <2>1. i \in 1 .. n + 1 /\ n + 1 \in 1 .. n + 1 /\ n + 1 > i
    BY <1>1
  <2> QED
    BY <1>2, <1>4, <1>7, <2>1
<1>8. Requested \subseteq 1 .. n
  BY <1>1 DEF Requested
<1>9. x = "request" => Open' = Open \cup {n + 1}
  <2> SUFFICES ASSUME x = "request" PROVE Open' = Open \cup {n + 1}
    OBVIOUS
  <2>1. Open' = {i \in Requested' : Unanswered(i)'} /\ Open = {i \in Requested : Unanswered(i)}
    BY DEF Open
  <2>2. \A i \in Requested : Unanswered(i)' <=> Unanswered(i)
    BY <1>5, <1>8
  <2>3. {i \in Requested \cup {n + 1} : Unanswered(i)'}
          = {i \in Requested : Unanswered(i)'} \cup {n + 1}
    BY <1>6
  <2> QED
    BY <1>3, <2>1, <2>2, <2>3
<1>10. x = "change" => Open' = {}
  <2>1. Open' = {i \in Requested' : Unanswered(i)'}
    BY DEF Open
  <2> QED
    BY <1>3, <1>7, <1>8, <2>1
<1>11. x = "other" => Open' = Open
  <2>1. Open' = {i \in Requested' : Unanswered(i)'} /\ Open = {i \in Requested : Unanswered(i)}
    BY DEF Open
  <2> QED
    BY <1>3, <1>5, <1>8, <2>1
<1>12. Latest => Latest'
  <2>1. CASE x = "request"
    <3>1. n + 1 \in Requested' /\ \A j \in Requested' : j \in 1 .. n \/ j = n + 1
      BY <1>3, <1>8, <2>1
    <3>2. \A j \in Requested' : j <= n + 1
      BY <1>1, <3>1
    <3> QED
      BY <3>1, <3>2 DEF Latest
  <2>2. CASE x # "request"
    BY <1>3, <2>2 DEF Latest
  <2> QED
    BY <2>1, <2>2
<1> QED
  BY <1>0, <1>3, <1>9, <1>10, <1>11, <1>12

\* Who writes the log, and who is about to write it.
LEMMA LogMoves ==
    ASSUME BInv, BillingNext
    PROVE  \/ \E r \in Requests : StoreRequest(r) \/ AuditRequest(r)
           \/ /\ log' = log \/ \E x \in {"change", "other"} : log' = Append(log, x)
              /\ Auditing' \subseteq Auditing
<1>1. ASSUME \A r \in Requests : ~StoreRequest(r) /\ ~AuditRequest(r)
      PROVE  log' = log \/ \E x \in {"change", "other"} : log' = Append(log, x)
  <2>1. CASE StripeStep \/ OthersRequest \/ DeleteReminders \/ DayPasses
    BY <2>1 DEF StripeStep, PayCheckout, Renew, ChangeStatus, ChangePlan,
       CancelAtPeriodEnd, CancelNow, AtStripe, OthersRequest, DeleteReminders, DayPasses
  <2>2. ASSUME NEW r \in Requests, OwnerStep(r) PROVE log' = log
    BY <1>1, <2>2 DEF OwnerStep, AskForSession, FindCustomer, CreateCustomer, StoreCustomer,
       OpenSession, RequestUpgrade
  <2>3. ASSUME NEW r \in Requests, WebhookStep(r) PROVE log' = log
    BY <2>3 DEF WebhookStep, CheckoutCompleted, Retrieve, FindRow, SubscriptionUpdated,
       WriteSnapshot, SubscriptionDeleted, WriteDeletion, Announce
  <2>4. ASSUME NEW r \in Requests, StaffStep(r) \/ JobStep(r) \/ CutOff(r)
        PROVE  log' = log \/ log' = Append(log, "change")
    BY <2>4 DEF StaffStep, ReadTarget, UpdateUserPlan, JobStep, SelectExpiring,
       LookForReminder, SendReminder, CutOff
  <2> QED
    BY <2>1, <2>2, <2>3, <2>4 DEF BillingNext
<1>2. ASSUME \A r \in Requests : ~StoreRequest(r), NEW q \in Requests, task'[q].step = "auditing"
      PROVE  task[q].step = "auditing"
  <2>1. CASE task'[q] = task[q]
    BY <1>2, <2>1
  <2>2. CASE task'[q] # task[q]
    <3>1. OwnerStep(q)
      BY <1>2, <2>2, OwnSteps, OthersGo, JobGoes DEF Handlers
    <3> DEFINE Elsewhere(t) == t.step # "auditing"
    <3>2. /\ Elsewhere(Idle)
          /\ \A step, plan, e, read, c, day :
                step # "auditing" => Elsewhere(Task(step, plan, e, read, c, day))
      BY DEF Idle, Task
    <3>3. \A t : Update(q, t) => ~Elsewhere(t)
      BY <1>2 DEF Update, BInv, BillingTypes
    <3> HIDE DEF Elsewhere
    <3> QED
      BY <1>2, <3>1, <3>2, <3>3 DEF OwnerStep, AskForSession, FindCustomer, CreateCustomer,
         StoreCustomer, OpenSession, RequestUpgrade, AuditRequest, Handling, Finish
  <2> QED
    BY <2>1, <2>2
<1> QED
  BY <1>1, <1>2 DEF Auditing, At

LEMMA FewPendingKept == ASSUME Inv, FewPending, [Next]_vars PROVE FewPending'
<1>1. BInv /\ BInv' /\ task \in [Requests -> Tasks] /\ AuditLog \in BOOLEAN
  BY InvKept, DayAssumption DEF Inv, BInv, BillingTypes
<1>2. /\ Cardinality(Open) \in Nat /\ Cardinality(Auditing) \in Nat
      /\ Cardinality(Open') \in Nat /\ Cardinality(Auditing') \in Nat
  <2>1. /\ Cardinality(Open') \in Nat
    <3>1. DOMAIN log' = 1 .. Len(log') /\ Len(log') \in Nat
      BY <1>1 DEF BInv, BillingTypes
    <3>2. Open' \subseteq 1 .. Len(log') /\ IsFiniteSet(1 .. Len(log'))
      BY <3>1, FS_Interval DEF Open, Requested
    <3> QED
      BY <3>2, FS_Subset, FS_CardinalityType
  <2>2. Cardinality(Auditing') \in Nat
    <3>1. Auditing' \subseteq Requests
      BY DEF Auditing
    <3> QED
      BY <3>1, FiniteAssumption, FS_Subset, FS_CardinalityType
  <2> QED
    BY <1>1, <2>1, <2>2, FiniteLog
<1>3. CASE UNCHANGED <<log, task, raced>>
  <2>1. UNCHANGED <<Requested, Open, Auditing>>
    BY <1>3 DEF Requested, Open, Unanswered, Auditing, At
  <2> QED
    BY <1>3, <2>1 DEF FewPending, Latest
<1>4. CASE BillingNext
  <2>1. raced \subseteq raced'
    BY <1>1, <1>4, RemindersMoved
  <2>2. ASSUME NEW r \in Requests, StoreRequest(r) PROVE FewPending'
    <3>1. log' = Append(log, "request") /\ Latest'
      BY <1>1, <2>2, Logged DEF StoreRequest, FewPending, Entries
    <3>2. /\ \A q \in Requests \ {r} : task'[q] = task[q]
          /\ ~AuditLog => task'[r].step # "auditing"
      <4>1. Idle.step = "idle"
        BY DEF Idle, Task
      <4> QED
        BY <1>1, <2>2, <4>1 DEF StoreRequest, Finish, Update
    <3>3. Auditing' \subseteq Auditing \cup {r} /\ (~AuditLog => Auditing' = {})
      BY <3>2 DEF Auditing, At, FewPending
    <3>4. ASSUME "request" \notin raced'
          PROVE  Cardinality(Open') + Cardinality(Auditing') <= Most
      <4>1. row.plan = "FREE" /\ ~HasPending /\ Auditing = {}
        BY <2>2, <3>4 DEF StoreRequest, Note, Unless, Auditing
      <4>2. Open' = {Len(log) + 1}
        BY <1>1, <3>1, <4>1, LatestOpen, Logged DEF FewPending, Entries
      <4>3. Cardinality(Open') = 1
        BY <4>2, FS_Singleton
      <4>4. Cardinality(Auditing') <= IF AuditLog THEN 1 ELSE 0
        <5>1. CASE AuditLog
          <6>1. Auditing' \in SUBSET {r} /\ IsFiniteSet({r}) /\ Cardinality({r}) = 1
            BY <3>3, <4>1, FS_Singleton
          <6> QED
            BY <5>1, <6>1, FS_Subset
        <5>2. CASE ~AuditLog
          BY <3>3, <5>2, FS_EmptySet
        <5> QED
          BY <1>1, <5>1, <5>2
      <4> QED
        BY <1>1, <1>2, <4>3, <4>4 DEF Most
    <3> QED
      BY <3>1, <3>3, <3>4 DEF FewPending, Most
  <2>3. ASSUME NEW r \in Requests, AuditRequest(r) PROVE FewPending'
    <3>1. log' = Append(log, "request") /\ raced' = raced /\ r \in Auditing
      BY <2>3 DEF AuditRequest, Auditing
    <3>2. Latest' /\ Open' = Open \cup {Len(log) + 1}
      BY <1>1, <3>1, Logged DEF FewPending, Entries
    <3>3. AuditLog
      BY <3>1 DEF FewPending
    <3>4. Auditing' \subseteq Auditing \ {r}
      <4>1. Idle.step = "idle"
        BY DEF Idle, Task
      <4>2. task'[r].step = "idle" /\ \A q \in Requests \ {r} : task'[q] = task[q]
        BY <1>1, <2>3, <4>1 DEF AuditRequest, Finish, Update
      <4> QED
        BY <4>2 DEF Auditing, At
    <3>5. Cardinality(Auditing') <= Cardinality(Auditing) - 1
      <4>1. IsFiniteSet(Auditing \ {r}) /\ Cardinality(Auditing \ {r}) = Cardinality(Auditing) - 1
        BY <1>1, <3>1, FiniteLog, FS_RemoveElement
      <4>2. Cardinality(Auditing') <= Cardinality(Auditing \ {r})
        BY <3>4, <4>1, FS_Subset
      <4> QED
        BY <1>2, <4>1, <4>2
    <3>6. Cardinality(Open') <= Cardinality(Open) + 1
      <4>1. Cardinality(Open \cup {Len(log) + 1}) =
              IF Len(log) + 1 \in Open THEN Cardinality(Open) ELSE Cardinality(Open) + 1
        BY <1>1, FiniteLog, FS_AddElement
      <4> QED
        BY <1>2, <3>2, <4>1
    <3> QED
      BY <1>2, <3>1, <3>2, <3>3, <3>5, <3>6 DEF FewPending, Most
  <2>4. CASE /\ log' = log \/ \E x \in {"change", "other"} : log' = Append(log, x)
             /\ Auditing' \subseteq Auditing
    <3>1. Cardinality(Auditing') <= Cardinality(Auditing)
      BY <1>1, <2>4, FiniteLog, FS_Subset
    <3>2. Latest' /\ Cardinality(Open') <= Cardinality(Open)
      <4>1. CASE log' = log
        <5>1. UNCHANGED <<Requested, Open>>
          BY <4>1 DEF Requested, Open, Unanswered
        <5> QED
          BY <1>2, <5>1 DEF FewPending, Latest
      <4>2. CASE log' = Append(log, "change")
        <5>1. Latest' /\ Open' = {}
          BY <1>1, <4>2, Logged DEF FewPending, Entries
        <5> QED
          BY <1>2, <5>1, FS_EmptySet
      <4>3. CASE log' = Append(log, "other")
        <5>1. Latest' /\ Open' = Open
          BY <1>1, <4>3, Logged DEF FewPending, Entries
        <5> QED
          BY <1>2, <5>1
      <4> QED
        BY <2>4, <4>1, <4>2, <4>3
    <3> QED
      BY <1>1, <1>2, <2>1, <2>4, <3>1, <3>2 DEF FewPending, Most
  <2> QED
    BY <1>1, <1>4, <2>2, <2>3, <2>4, LogMoves
<1> QED
  BY <1>3, <1>4 DEF Next, BillingStep, ClientStep, vars, billingVars

\* hasPendingOfflineUpgrade and listPendingOfflineUpgradeRequests agree unless
\* the newest requests of other users fill the list; and the staff see one
\* request, twice if the audit log stores it again.
THEOREM OneRequestPends == Spec => []PendingIsOne
<1>1. Init => FewPending
  <2> SUFFICES ASSUME Init PROVE FewPending
    OBVIOUS
  <2>1. log = <<>> /\ \A r \in Requests : task[r].step = "idle"
    BY DEF Init, BillingInit, Idle, Task
  <2>2. Requested = {} /\ Open = {} /\ Auditing = {}
    BY <2>1 DEF Requested, Open, Auditing, At
  <2> QED
    BY <2>2, FS_EmptySet, DayAssumption DEF FewPending, Latest, Most
<1>2. ASSUME Inv, FewPending PROVE PendingIsOne
  <2>1. BInv /\ Latest
    BY <1>2 DEF Inv, FewPending
  <2>2. ListPending \subseteq Open
    BY DEF ListPending, Open
  <2>3. Cardinality(ListPending) <= Cardinality(Open) /\ Cardinality(ListPending) \in Nat
    BY <2>1, <2>2, FiniteLog, FS_Subset, FS_CardinalityType
  <2>4. "request" \in raced \/ Cardinality(ListPending) <= Most
    BY <1>2, <2>1, <2>3, FiniteLog, DayAssumption DEF FewPending, Most
  <2> QED
    BY <2>1, <2>4, BothLook DEF PendingIsOne, Most
<1> QED
  BY <1>1, <1>2, FewPendingKept, InvHolds, PTL DEF Spec

-----------------------------------------------------------------------------
(* The row and Stripe *)

\* A subscription that was paid for; and an event that Stripe has sent: it is not
\* ahead of the subscription, and the latest one carries it as it is.
Begun(s) == stripe[s].status \notin {"none", "open"}
Sent(e) ==
    /\ Begun(e.sub)
    /\ e.snap.version <= stripe[e.sub].version
    /\ e.snap.version = stripe[e.sub].version => e.snap = stripe[e.sub]

Versions ==
    /\ \A e \in events : Sent(e)
    /\ \A r \in Requests : task[r].step \in Handlers => Sent(task[r].event)
    /\ \A s \in Subs : seen[s] <= stripe[s].version
    /\ \A a \in applied : a.sub \in Subs /\ Begun(a.sub) /\ a.snap.version <= seen[a.sub]
    /\ \A s \in Subs : Begun(s) => \E e \in events : e.sub = s /\ e.snap.version = stripe[s].version

LEMMA VersionTypes ==
    ASSUME BInv
    PROVE  /\ stripe \in [Subs -> Snapshots] /\ seen \in [Subs -> Nat]
           /\ \A s \in Subs : stripe[s].version \in Nat
           /\ \A e \in events \cup applied : e \in Events /\ e.snap.version \in Nat
           /\ \A e \in events : e.sub \in Subs
           /\ \A r \in Requests : /\ task[r].event \in Events /\ task[r].event.snap.version \in Nat
                                  /\ task[r].step \in Handlers => task[r].event.sub \in Subs
<1>1. \A e \in Events : e.snap.version \in Nat
  BY DEF Events, Snapshots
<1>2. /\ stripe \in [Subs -> Snapshots] /\ seen \in [Subs -> Nat]
      /\ events \subseteq Events /\ applied \subseteq Events
      /\ \A r \in Requests : task[r].event \in Events
  BY DEF BInv, BillingTypes, Tasks
<1>3. \A s \in Subs : stripe[s].version \in Nat
  BY <1>2 DEF Snapshots
<1> QED
  BY <1>1, <1>2, <1>3 DEF BInv, EventsNamed

\* What happens at Stripe leaves what was sent as it was, and is sent.
LEMMA StripeGrows ==
    ASSUME BInv, BillingNext, Versions
    PROVE  /\ events \subseteq events'
           /\ \A s \in Subs : stripe[s].version <= stripe'[s].version
           /\ \A s \in Subs : Begun(s) => Begun(s)'
           /\ \A e \in Events : e.sub \in Subs /\ Sent(e) => Sent(e)'
           /\ \A e \in events' : Sent(e)'
           /\ \A s \in Subs : Begun(s)' =>
                 \E e \in events' : e.sub = s /\ e.snap.version = stripe'[s].version
<1>1. CASE UNCHANGED <<stripe, events>>
  BY <1>1, VersionTypes DEF Versions, Begun, Sent
<1>2. ASSUME NEW x \in Subs, NEW new, stripe[x] = Absent, stripe' = [stripe EXCEPT ![x] = new],
             new.status = "open", new.version = 0, events' = events
      PROVE  /\ events \subseteq events'
             /\ \A s \in Subs : stripe[s].version <= stripe'[s].version
             /\ \A s \in Subs : Begun(s) <=> Begun(s)'
             /\ \A s \in Subs : Begun(s) => stripe'[s] = stripe[s]
  <2>1. stripe'[x] = new /\ \A s \in Subs \ {x} : stripe'[s] = stripe[s]
    BY <1>2, VersionTypes
  <2>2. stripe[x].version = 0 /\ ~Begun(x) /\ ~Begun(x)'
    BY <1>2, <2>1 DEF Absent, Begun
  <2> QED
    BY <1>2, <2>1, <2>2, VersionTypes DEF Begun
<1>3. CASE \E r \in Requests : OpenSession(r) /\ ~UNCHANGED <<stripe, events>>
  <2>1. PICK r \in Requests : OpenSession(r) /\ ~UNCHANGED <<stripe, events>>
    BY <1>3
  <2> DEFINE new == [Absent EXCEPT !.status = "open", !.plan = task[r].plan,
                                   !.customer = task[r].customer]
  <2>2. PICK x \in Subs : stripe[x] = Absent /\ stripe' = [stripe EXCEPT ![x] = new] /\ events' = events
    BY <2>1 DEF OpenSession
  <2>3. new.status = "open" /\ new.version = 0
    BY DEF Absent
  <2> HIDE DEF new
  <2>4. /\ events \subseteq events'
        /\ \A s \in Subs : stripe[s].version <= stripe'[s].version
        /\ \A s \in Subs : Begun(s) <=> Begun(s)'
        /\ \A s \in Subs : Begun(s) => stripe'[s] = stripe[s]
    BY <1>2, <2>2, <2>3
  <2>5. \A e \in Events : e.sub \in Subs /\ Sent(e) => Sent(e)'
    BY <2>4 DEF Sent
  <2> QED
    BY <2>2, <2>4, <2>5, VersionTypes DEF Versions
<1>4. CASE StripeStep
  <2>1. PICK x \in Subs, new \in Snapshots, kinds \in SUBSET {"checkout", "updated", "deleted"} :
          /\ AtStripe(x, new, kinds)
          /\ new.status \in LiveStatuses \cup {"canceled"}
          /\ kinds # {}
    BY <1>4, StripeMoves
  <2> DEFINE next == [new EXCEPT !.version = stripe[x].version + 1]
  <2>2. /\ stripe' = [stripe EXCEPT ![x] = next]
        /\ events' = events \cup {Event(kind, x, next) : kind \in kinds}
    BY <2>1 DEF AtStripe
  <2>3. next.status \notin {"none", "open"} /\ next.version = stripe[x].version + 1
    BY <2>1, StatusAssumption DEF Snapshots
  <2> HIDE DEF next
  <2>4. stripe'[x] = next /\ \A s \in Subs \ {x} : stripe'[s] = stripe[s]
    BY <2>2, VersionTypes
  <2>5. \A kind : Event(kind, x, next).sub = x /\ Event(kind, x, next).snap = next
    BY DEF Event
  <2>6. /\ \A s \in Subs : stripe[s].version <= stripe'[s].version
        /\ \A s \in Subs : Begun(s) => Begun(s)'
    BY <2>3, <2>4, VersionTypes DEF Begun
  <2>7. ASSUME NEW e \in Events, e.sub \in Subs, Sent(e) PROVE Sent(e)'
    <3>1. CASE e.sub = x
      <4>1. e.snap.version \in Nat /\ stripe[x].version \in Nat
        BY VersionTypes DEF Events, Snapshots
      <4>2. e.snap.version <= stripe[x].version
        BY <2>7, <3>1 DEF Sent
      <4>3. e.snap.version <= next.version /\ e.snap.version # next.version
        BY <2>3, <4>1, <4>2
      <4> QED
        BY <2>4, <2>6, <2>7, <3>1, <4>3 DEF Sent
    <3>2. CASE e.sub # x
      BY <2>4, <2>6, <2>7, <3>2 DEF Sent
    <3> QED
      BY <3>1, <3>2
  <2>8. ASSUME NEW e, e.sub = x, e.snap = next PROVE Sent(e)'
    <3>1. Begun(x)' /\ next.version \in Nat
      BY <2>3, <2>4, VersionTypes DEF Begun
    <3> QED
      BY <2>4, <2>8, <3>1 DEF Sent
  <2>9. ASSUME NEW s \in Subs, Begun(s)'
        PROVE  \E e \in events' : e.sub = s /\ e.snap.version = stripe'[s].version
    <3>1. CASE s = x
      <4>1. PICK kind \in kinds : TRUE
        BY <2>1
      <4>2. Event(kind, x, next) \in events'
        BY <2>2, <4>1
      <4> QED
        BY <2>4, <2>5, <3>1, <4>2
    <3>2. CASE s # x
      BY <2>2, <2>4, <2>9, <3>2 DEF Versions, Begun
    <3> QED
      BY <3>1, <3>2
  <2> QED
    BY <2>2, <2>5, <2>6, <2>7, <2>8, <2>9, VersionTypes DEF Versions
<1> QED
  BY <1>1, <1>3, <1>4, StripeChangers

\* What is noted as written, or its newest version, changes with an event.
LEMMA AppliedMoves ==
    ASSUME BInv, BillingNext, Versions
    PROVE  \/ applied' \subseteq applied /\ seen' = seen
           \/ \E e \in Events : e.sub \in Subs /\ Sent(e) /\ Handled(e)
<1>1. CASE StripeStep \/ OthersRequest \/ DeleteReminders \/ DayPasses
  BY <1>1 DEF StripeStep, PayCheckout, Renew, ChangeStatus, ChangePlan, CancelAtPeriodEnd,
     CancelNow, AtStripe, OthersRequest, DeleteReminders, DayPasses, historyVars
<1>2. ASSUME NEW r \in Requests, OwnerStep(r) PROVE applied' = applied /\ seen' = seen
  BY <1>2 DEF OwnerStep, AskForSession, FindCustomer, CreateCustomer, StoreCustomer,
     OpenSession, RequestUpgrade, StoreRequest, AuditRequest, historyVars
<1>3. ASSUME NEW r \in Requests, StaffStep(r) \/ JobStep(r) \/ CutOff(r)
      PROVE  applied' = applied /\ seen' = seen
  BY <1>3 DEF StaffStep, ReadTarget, UpdateUserPlan, JobStep, SelectExpiring,
     LookForReminder, SendReminder, CutOff, historyVars
<1>4. ASSUME NEW r \in Requests, WebhookStep(r)
      PROVE  \/ applied' \subseteq applied /\ seen' = seen
             \/ \E e \in Events : e.sub \in Subs /\ Sent(e) /\ Handled(e)
  <2>1. CASE CheckoutCompleted(r)
    BY <2>1 DEF CheckoutCompleted
  <2>2. CASE Retrieve(r) \/ FindRow(r) \/ SubscriptionUpdated(r) \/ Announce(r)
    BY <2>2 DEF Retrieve, FindRow, SubscriptionUpdated, Announce, historyVars
  <2>3. CASE WriteSnapshot(r) \/ WriteDeletion(r)
    <3>1. task[r].step \in Handlers /\ Handled(task[r].event)
      BY <2>3 DEF WriteSnapshot, WriteDeletion, At, Handlers, Event_
    <3> QED
      BY <3>1, VersionTypes DEF Versions
  <2>4. CASE SubscriptionDeleted(r)
    <3>1. \E e \in events : (applied' = applied /\ seen' = seen) \/ Handled(e)
      BY <2>4 DEF SubscriptionDeleted, Deliver
    <3> QED
      BY <3>1, VersionTypes DEF Versions
  <2> QED
    BY <1>4, <2>1, <2>2, <2>3, <2>4 DEF WebhookStep
<1> QED
  BY <1>1, <1>2, <1>3, <1>4 DEF BillingNext

LEMMA VersionsKept == ASSUME Inv, Versions, [Next]_vars PROVE Versions'
<1>1. BInv /\ BInv' /\ task \in [Requests -> Tasks]
  BY InvKept DEF Inv, BInv, BillingTypes
<1>2. CASE UNCHANGED <<stripe, events, task, applied, seen>>
  BY <1>2 DEF Versions, Begun, Sent
<1>3. CASE BillingNext
  <2>1. ASSUME NEW q \in Requests, task'[q].step \in Handlers PROVE Sent(task[q].event)'
    <3>1. ASSUME NEW e \in Events, e.sub \in Subs, Sent(e), task'[q].event = e PROVE Sent(task[q].event)'
      <4>1. Sent(e)'
        BY <1>1, <1>3, <3>1, StripeGrows
      <4> QED
        BY <3>1, <4>1 DEF Sent, Begun
    <3>2. CASE task'[q] = task[q]
      BY <1>1, <2>1, <3>1, <3>2, VersionTypes DEF Versions
    <3>3. CASE task'[q] # task[q]
      <4>1. CASE task'[q].event \in events
        BY <1>1, <3>1, <4>1, VersionTypes DEF Versions
      <4>2. CASE task[q].step \in Handlers /\ task'[q].event = task[q].event
        BY <1>1, <3>1, <4>2, VersionTypes DEF Versions
      <4>3. CASE task[q].step \in Handlers
                 /\ task'[q].event = Event("checkout", task[q].event.sub, stripe[task[q].event.sub])
        <5> DEFINE s == task[q].event.sub
                   e == Event("checkout", s, stripe[s])
        <5>1. s \in Subs /\ Begun(s) /\ stripe[s] \in Snapshots
          BY <1>1, <4>3, VersionTypes DEF Versions, Sent
        <5>2. e \in Events /\ e.sub = s /\ e.snap = stripe[s]
          BY <5>1 DEF Event, Events
        <5>3. Sent(e)
          BY <1>1, <5>1, <5>2, VersionTypes DEF Sent
        <5> QED
          BY <3>1, <4>3, <5>1, <5>2, <5>3
      <4> QED
        BY <1>1, <1>3, <2>1, <3>3, <4>1, <4>2, <4>3, HandlerEvents DEF Event_
    <3> QED
      BY <3>2, <3>3
  <2>2. /\ \A s \in Subs : seen'[s] <= stripe'[s].version
        /\ \A a \in applied' : a.sub \in Subs /\ Begun(a.sub)' /\ a.snap.version <= seen'[a.sub]
    <3>1. CASE applied' \subseteq applied /\ seen' = seen
      <4>1. \A s \in Subs : seen'[s] <= stripe'[s].version
        <5> TAKE s \in Subs
        <5>1. seen[s] <= stripe[s].version /\ stripe[s].version <= stripe'[s].version
          BY <1>1, <1>3, StripeGrows DEF Versions
        <5>2. seen[s] \in Nat /\ stripe[s].version \in Nat /\ stripe'[s].version \in Nat
          BY <1>1, VersionTypes DEF BInv, BillingTypes, Snapshots
        <5> QED
          BY <3>1, <5>1, <5>2
      <4>2. \A a \in applied' : a.sub \in Subs /\ Begun(a.sub)' /\ a.snap.version <= seen'[a.sub]
        BY <1>1, <1>3, <3>1, StripeGrows DEF Versions
      <4> QED
        BY <4>1, <4>2
    <3>2. ASSUME NEW e \in Events, e.sub \in Subs, Sent(e), Handled(e)
          PROVE  /\ \A s \in Subs : seen'[s] <= stripe'[s].version
                 /\ \A a \in applied' : a.sub \in Subs /\ Begun(a.sub)' /\ a.snap.version <= seen'[a.sub]
      <4>1. /\ \A s \in Subs \ {e.sub} : seen'[s] = seen[s]
            /\ seen'[e.sub] = IF e.snap.version > seen[e.sub] THEN e.snap.version ELSE seen[e.sub]
            /\ applied' = applied \cup {e}
        BY <1>1, <3>2, VersionTypes DEF Handled
      <4>2. /\ e.snap.version \in Nat /\ e.snap.version <= stripe[e.sub].version
            /\ \A s \in Subs : seen[s] \in Nat /\ stripe[s].version \in Nat /\ stripe'[s].version \in Nat
        BY <1>1, <3>2, VersionTypes DEF Sent, BInv, BillingTypes, Events, Snapshots
      <4>3. /\ seen'[e.sub] >= e.snap.version /\ seen'[e.sub] <= stripe[e.sub].version
            /\ \A s \in Subs : seen[s] <= seen'[s] /\ seen'[s] \in Nat /\ seen'[s] <= stripe[s].version
        BY <3>2, <4>1, <4>2 DEF Versions
      <4>4. \A s \in Subs : seen'[s] <= stripe'[s].version
        <5> TAKE s \in Subs
        <5>1. seen'[s] <= stripe[s].version /\ stripe[s].version <= stripe'[s].version
          BY <1>1, <1>3, <4>3, StripeGrows
        <5> QED
          BY <4>2, <4>3, <5>1
      <4>5. ASSUME NEW a \in applied'
            PROVE  a.sub \in Subs /\ Begun(a.sub)' /\ a.snap.version <= seen'[a.sub]
        <5>1. CASE a = e
          <6>1. Begun(e.sub)'
            BY <1>1, <1>3, <3>2, StripeGrows DEF Sent
          <6> QED
            BY <3>2, <4>2, <4>3, <5>1, <6>1 DEF Begun
        <5>2. CASE a \in applied
          <6>1. a.sub \in Subs /\ a.snap.version <= seen[a.sub] /\ a.snap.version \in Nat /\ Begun(a.sub)
            BY <1>1, <5>2, VersionTypes DEF Versions
          <6>2. Begun(a.sub)'
            BY <1>1, <1>3, <6>1, StripeGrows
          <6> QED
            BY <4>2, <4>3, <6>1, <6>2
        <5> QED
          BY <4>1, <5>1, <5>2
      <4> QED
        BY <4>4, <4>5
    <3> QED
      BY <1>1, <1>3, <3>1, <3>2, AppliedMoves
  <2> QED
    BY <1>1, <1>3, <2>1, <2>2, StripeGrows DEF Versions
<1> QED
  BY <1>2, <1>3 DEF Next, BillingStep, ClientStep, vars, billingVars, stripeVars, historyVars

LEMMA VersionsFirst == ASSUME Init PROVE Versions
<1>1. \A r \in Requests : task[r].step \notin Handlers
  BY DEF Init, BillingInit, Idle, Task, Handlers
<1>2. CASE Unsubscribed /\ applied = events
  <2>1. \A s \in Subs : seen[s] = 0 /\ stripe[s].version = 0 /\ ~Begun(s)
    BY <1>2 DEF Unsubscribed, Absent, Begun
  <2> QED
    BY <1>1, <1>2, <2>1 DEF Versions, Unsubscribed
<1>3. ASSUME NEW s \in Subs, NEW c, NEW until, NEW old \in SUBSET (Subs \ {s}),
             Subscribed(s, c, "PRO", until, old), applied = events
      PROVE  Versions
  <2> DEFINE snap == [status |-> "active", plan |-> "PRO", ending |-> FALSE, until |-> until,
                      customer |-> c, version |-> 1]
             ended == [snap EXCEPT !.status = "canceled"]
  <2>1. /\ stripe = [x \in Subs |-> IF x = s THEN snap ELSE IF x \in old THEN ended ELSE Absent]
        /\ seen = [x \in Subs |-> IF x \in {s} \cup old THEN 1 ELSE 0]
        /\ events = {Event("checkout", s, snap), Event("updated", s, snap)}
                      \cup {Event("deleted", x, ended) : x \in old}
    BY <1>3 DEF Subscribed
  <2>2. /\ snap.version = 1 /\ ended.version = 1
        /\ snap.status \notin {"none", "open"} /\ ended.status \notin {"none", "open"}
    OBVIOUS
  <2> HIDE DEF snap, ended
  <2>3. \A kind, x, sn : Event(kind, x, sn).sub = x /\ Event(kind, x, sn).snap = sn
    BY DEF Event
  <2>4. /\ \A x \in Subs : seen[x] = stripe[x].version
        /\ \A x \in Subs : Begun(x) <=> x \in {s} \cup old
    BY <2>1, <2>2 DEF Absent, Begun
  <2>5. \A e \in events : /\ e.sub \in {s} \cup old /\ e.snap = stripe[e.sub]
                         /\ e.snap.version = 1
    BY <2>1, <2>2, <2>3
  <2>6. \A x \in {s} \cup old : stripe[x].version = 1 /\ \E e \in events : e.sub = x
    <3>1. Event("updated", s, snap) \in events /\ \A x \in old : Event("deleted", x, ended) \in events
      BY <2>1
    <3> QED
      BY <2>1, <2>2, <2>3, <3>1
  <2>7. \A e \in events : Sent(e) /\ Begun(e.sub) /\ e.sub \in Subs /\ e.snap.version <= seen[e.sub]
    <3> TAKE e \in events
    <3>1. e.sub \in Subs /\ Begun(e.sub) /\ e.snap = stripe[e.sub] /\ e.snap.version = 1
      BY <2>4, <2>5
    <3>2. stripe[e.sub].version = 1 /\ seen[e.sub] = 1
      BY <2>4, <3>1
    <3> QED
      BY <3>1, <3>2 DEF Sent
  <2>8. \A x \in Subs : seen[x] <= stripe[x].version
    <3> TAKE x \in Subs
    <3>1. seen[x] \in {0, 1} /\ seen[x] = stripe[x].version
      BY <2>1, <2>4
    <3> QED
      BY <3>1
  <2>9. \A x \in Subs : Begun(x) => \E e \in events : e.sub = x /\ e.snap.version = stripe[x].version
    BY <2>4, <2>5, <2>6
  <2> QED
    BY <1>1, <1>3, <2>7, <2>8, <2>9 DEF Versions
<1> QED
  BY <1>2, <1>3 DEF Init, BillingInit

\* What the row can be: nothing has happened; a checkout is still to be
\* handled; it was reset at the end of a subscription; or it is the image of
\* the newest version handled of a subscription.
Unhandled == \E e \in events : e.kind = "checkout" /\
                \A a \in applied : ~(a.kind = "checkout" /\ a.sub = e.sub)
WasReset == /\ row = [NewRow EXCEPT !.status = "CANCELLED", !.cust = row.cust]
            /\ \E s \in Subs : stripe[s].status = "canceled"
Current == \E e \in Events :
    e.sub \in Subs /\ row = Image(e.sub, e.snap) /\ Sent(e) /\ e.snap.version = seen[e.sub]
Exempt == late \/ byStaff \/ raced \cap {"customer", "deletion"} # {}
RowIsTrue == Exempt \/ events = {} \/ Unhandled \/ WasReset \/ Current

LEMMA RowFirst == ASSUME Init PROVE RowIsTrue
<1>1. CASE Unsubscribed
  BY <1>1 DEF Unsubscribed, RowIsTrue
<1>2. ASSUME NEW s \in Subs, NEW c \in Customers, NEW until \in 1 .. LastDay,
             NEW old \in SUBSET (Subs \ {s}), Subscribed(s, c, "PRO", until, old)
      PROVE  RowIsTrue
  <2> DEFINE snap == [status |-> "active", plan |-> "PRO", ending |-> FALSE, until |-> until,
                      customer |-> c, version |-> 1]
             e == Event("updated", s, snap)
  <2>1. /\ row = Image(s, snap) /\ e \in events
        /\ stripe[s] = snap /\ seen[s] = 1
    BY <1>2 DEF Subscribed
  <2>2. snap.version = 1
    OBVIOUS
  <2> HIDE DEF snap
  <2>3. e.sub = s /\ e.snap = snap
    BY DEF Event
  <2> HIDE DEF e
  <2>4. Sent(e) /\ e \in Events
    BY <2>1, VersionsFirst, InvFirst DEF Versions, Inv, BInv, BillingTypes
  <2> QED
    BY <2>1, <2>2, <2>3, <2>4 DEF RowIsTrue, Current
<1> QED
  BY <1>1, <1>2 DEF Init, BillingInit

\* Every other step leaves the row and its marks alone, but for deletions of
\* other subscriptions than the row names.
LEMMA OtherSteps ==
    ASSUME BillingNext,
           \A r \in Requests : /\ ~StoreCustomer(r) /\ ~CheckoutCompleted(r) /\ ~WriteSnapshot(r)
                              /\ ~WriteDeletion(r) /\ ~UpdateUserPlan(r)
    PROVE  /\ UNCHANGED <<row, late, byStaff>>
           /\ \/ UNCHANGED <<applied, seen>>
              \/ \E e \in events : e.kind = "deleted" /\ row.sub # e.sub /\ Handled(e)
<1>1. CASE StripeStep \/ OthersRequest \/ DeleteReminders \/ DayPasses
  BY <1>1 DEF StripeStep, PayCheckout, Renew, ChangeStatus, ChangePlan, CancelAtPeriodEnd,
     CancelNow, AtStripe, OthersRequest, DeleteReminders, DayPasses, historyVars
<1>2. ASSUME NEW r \in Requests, OwnerStep(r) PROVE UNCHANGED <<row, late, byStaff, applied, seen>>
  BY <1>2 DEF OwnerStep, AskForSession, FindCustomer, CreateCustomer,
     OpenSession, RequestUpgrade, StoreRequest, AuditRequest, historyVars
<1>3. ASSUME NEW r \in Requests, StaffStep(r) \/ JobStep(r) \/ CutOff(r)
      PROVE  UNCHANGED <<row, late, byStaff, applied, seen>>
  BY <1>3 DEF StaffStep, ReadTarget, JobStep, SelectExpiring,
     LookForReminder, SendReminder, CutOff, historyVars
<1>4. ASSUME NEW r \in Requests, SubscriptionDeleted(r)
      PROVE  /\ UNCHANGED <<row, late, byStaff>>
             /\ \/ UNCHANGED <<applied, seen>>
                \/ \E e \in events : e.kind = "deleted" /\ row.sub # e.sub /\ Handled(e)
  <2>1. PICK e \in events : /\ e.kind = "deleted"
                            /\ \/ row.sub = e.sub /\ UNCHANGED <<applied, seen>>
                               \/ row.sub # e.sub /\ Handled(e)
    BY <1>4 DEF SubscriptionDeleted, Deliver
  <2> QED
    BY <1>4, <2>1 DEF SubscriptionDeleted
<1>5. ASSUME NEW r \in Requests, WebhookStep(r), ~SubscriptionDeleted(r)
      PROVE  UNCHANGED <<row, late, byStaff, applied, seen>>
  BY <1>5 DEF WebhookStep, Retrieve, FindRow, SubscriptionUpdated, Announce, historyVars
<1> QED
  BY <1>1, <1>2, <1>3, <1>4, <1>5 DEF BillingNext

\* The first event of all is of a checkout that was just paid.
LEMMA FirstEvent ==
    ASSUME BInv, BillingNext, Versions, events = {}, UNCHANGED applied, events' # {}
    PROVE  Unhandled'
<1>1. StripeStep
  BY StripeChangers DEF OpenSession
<1>2. PICK x \in Subs, new \in Snapshots, kinds \in SUBSET {"checkout", "updated", "deleted"} :
        /\ AtStripe(x, new, kinds)
        /\ stripe[x].status \in LiveStatuses \cup {"open"}
        /\ stripe[x].status = "open" => "checkout" \in kinds
  BY <1>1, StripeMoves
<1>3. ~Begun(x)
  BY DEF Versions
<1>4. stripe[x].status = "open"
  BY <1>2, <1>3, StatusAssumption DEF Begun
<1>5. \A a \in applied : a.sub # x
  BY <1>3 DEF Versions
<1>6. \E e \in events' : e.kind = "checkout" /\ e.sub = x
  <2> DEFINE next == [new EXCEPT !.version = stripe[x].version + 1]
  <2>1. Event("checkout", x, next) \in events'
    BY <1>2, <1>4 DEF AtStripe
  <2>2. Event("checkout", x, next).kind = "checkout" /\ Event("checkout", x, next).sub = x
    BY DEF Event
  <2> QED
    BY <2>1, <2>2
<1> QED
  BY <1>5, <1>6 DEF Unhandled

LEMMA RowKept ==
    ASSUME Inv, Versions, DeletionsTrue, Owned, RowIsTrue, [Next]_vars
    PROVE  RowIsTrue'
<1>1. BInv /\ BInv' /\ row \in RowTypes
  BY InvKept DEF Inv, BInv, BillingTypes
<1>2. CASE UNCHANGED <<row, stripe, events, applied, seen, late, byStaff, raced>>
  BY <1>2 DEF RowIsTrue, Exempt, Unhandled, WasReset, Current, Sent, Begun
<1>3. CASE BillingNext
  <2>1. /\ raced \subseteq raced' /\ events \subseteq events'
        /\ \A s \in Subs : stripe[s].status = "canceled" => stripe'[s].status = "canceled"
        /\ \A e \in Events : e.sub \in Subs /\ Sent(e) => Sent(e)'
    BY <1>1, <1>3, RemindersMoved, StripeGrows, CancelledStays
  <2>2. ASSUME NEW r \in Requests, StoreCustomer(r) PROVE RowIsTrue'
    <3>1. /\ row' = [row EXCEPT !.cust = task[r].customer] /\ Note("customer", row.cust = None)
          /\ UNCHANGED <<stripe, events, applied, seen, late, byStaff>>
      BY <2>2 DEF StoreCustomer, stripeVars, historyVars
    <3>2. CASE "customer" \in raced'
      BY <3>2 DEF RowIsTrue, Exempt
    <3>3. CASE "customer" \notin raced'
      <4>1. row.cust = None /\ "customer" \notin raced
        BY <2>1, <3>1, <3>3 DEF Note, Unless
      <4>2. ~Current
        <5>1. ASSUME NEW e \in Events, e.sub \in Subs, Sent(e) PROVE FALSE
          BY <4>1, <5>1 DEF Owned, OfCustomer, Sent, Begun
        <5> QED
          BY <5>1 DEF Current
      <4>3. CASE Exempt
        BY <2>1, <3>1, <4>3 DEF RowIsTrue, Exempt
      <4>4. CASE events = {} \/ Unhandled
        BY <3>1, <4>4 DEF RowIsTrue, Unhandled
      <4>5. CASE WasReset
        <5>1. row' = [NewRow EXCEPT !.status = "CANCELLED", !.cust = task[r].customer]
          BY <3>1, <4>5 DEF WasReset, NewRow
        <5>2. row' = [NewRow EXCEPT !.status = "CANCELLED", !.cust = row'.cust]
          BY <5>1 DEF NewRow
        <5> QED
          BY <3>1, <4>5, <5>2 DEF RowIsTrue, WasReset
      <4> QED
        BY <4>2, <4>3, <4>4, <4>5 DEF RowIsTrue
    <3> QED
      BY <3>2, <3>3
  <2>3. ASSUME NEW r \in Requests, CheckoutCompleted(r) PROVE RowIsTrue'
    <3>1. PICK e \in events : /\ e.kind = "checkout"
                              /\ applied' = {a \in applied : a.kind # "checkout" \/ a.sub # e.sub}
      BY <2>3 DEF CheckoutCompleted, Deliver
    <3> QED
      BY <2>1, <3>1 DEF RowIsTrue, Unhandled
  <2>4. ASSUME NEW r \in Requests, WriteSnapshot(r) PROVE RowIsTrue'
    <3> DEFINE e == task[r].event
    <3>1. /\ row' = Image(e.sub, e.snap) /\ late' = (late \/ e.snap.version < seen[e.sub])
          /\ Handled(e) /\ task[r].step \in Handlers
      BY <2>4 DEF WriteSnapshot, Event_, At, Handlers
    <3>2. e \in Events /\ e.sub \in Subs /\ Sent(e) /\ e.snap.version \in Nat
      BY <1>1, <3>1, VersionTypes DEF Versions
    <3> HIDE DEF e
    <3>3. PICK x \in Events : x = e
      BY <3>2
    <3>4. CASE late'
      BY <3>4 DEF RowIsTrue, Exempt
    <3>5. CASE ~late'
      <4>1. ~(x.snap.version < seen[x.sub]) /\ seen[x.sub] \in Nat /\ x.snap.version \in Nat
        BY <1>1, <3>1, <3>2, <3>3, <3>5 DEF BInv, BillingTypes
      <4>2. seen'[x.sub] = IF x.snap.version > seen[x.sub] THEN x.snap.version ELSE seen[x.sub]
        BY <1>1, <3>1, <3>2, <3>3, VersionTypes DEF Handled
      <4>3. seen'[x.sub] = x.snap.version
        BY <4>1, <4>2
      <4>4. Sent(x)' /\ row' = Image(x.sub, x.snap) /\ x.sub \in Subs
        BY <2>1, <3>1, <3>2, <3>3
      <4> QED
        BY <4>3, <4>4 DEF RowIsTrue, Current
    <3> QED
      BY <3>4, <3>5
  <2>5. ASSUME NEW r \in Requests, WriteDeletion(r) PROVE RowIsTrue'
    <3>1. /\ row' = [NewRow EXCEPT !.status = "CANCELLED", !.cust = row.cust]
          /\ At(r, "deleting") /\ task[r].event.sub \in Subs
      BY <1>1, <2>5 DEF WriteDeletion, BInv, EventsNamed, At, Handlers
    <3>2. stripe'[task[r].event.sub].status = "canceled"
      BY <2>1, <3>1 DEF DeletionsTrue, Event_
    <3>3. row' = [NewRow EXCEPT !.status = "CANCELLED", !.cust = row'.cust]
      BY <3>1 DEF NewRow
    <3> QED
      BY <3>1, <3>2, <3>3 DEF RowIsTrue, WasReset
  <2>6. ASSUME NEW r \in Requests, UpdateUserPlan(r) PROVE RowIsTrue'
    BY <2>6 DEF UpdateUserPlan, RowIsTrue, Exempt
  <2>7. CASE \A r \in Requests : /\ ~StoreCustomer(r) /\ ~CheckoutCompleted(r) /\ ~WriteSnapshot(r)
                                /\ ~WriteDeletion(r) /\ ~UpdateUserPlan(r)
    <3>1. /\ UNCHANGED <<row, late, byStaff>>
          /\ \/ UNCHANGED <<applied, seen>>
             \/ \E e \in events : e.kind = "deleted" /\ row.sub # e.sub /\ Handled(e)
      BY <1>3, <2>7, OtherSteps
    <3>2. CASE Exempt
      BY <2>1, <3>1, <3>2 DEF RowIsTrue, Exempt
    <3>3. CASE events = {}
      BY <1>1, <1>3, <3>1, <3>3, FirstEvent DEF RowIsTrue
    <3>4. CASE Unhandled
      <4>1. \A a \in applied' : a \in applied \/ a.kind = "deleted"
        BY <3>1 DEF Handled
      <4> QED
        BY <2>1, <3>4, <4>1 DEF RowIsTrue, Unhandled
    <3>5. CASE WasReset
      BY <2>1, <3>1, <3>5 DEF RowIsTrue, WasReset
    <3>6. CASE Current
      <4>1. PICK e \in Events : /\ e.sub \in Subs /\ row = Image(e.sub, e.snap)
                                /\ Sent(e) /\ e.snap.version = seen[e.sub]
        BY <3>6 DEF Current
      <4>2. row.sub = e.sub
        BY <4>1 DEF Image
      <4>3. seen'[e.sub] = seen[e.sub]
        BY <1>1, <3>1, <4>1, <4>2, VersionTypes DEF Handled
      <4> QED
        BY <2>1, <3>1, <4>1, <4>3 DEF RowIsTrue, Current
    <3> QED
      BY <3>2, <3>3, <3>4, <3>5, <3>6 DEF RowIsTrue
  <2> QED
    BY <2>2, <2>3, <2>4, <2>5, <2>6, <2>7
<1> QED
  BY <1>2, <1>3 DEF Next, BillingStep, ClientStep, vars, billingVars, stripeVars, historyVars

\* syncSubscriptionFromStripe and the handlers of checkouts and deletions: when
\* the events have been handled, however they were repeated, cut off and
\* interleaved, the row shows a subscription as Stripe has it.
THEOREM EventsSettle == Spec => []SettlesOnStripe
<1>1. ASSUME Inv, Versions, RowIsTrue PROVE SettlesOnStripe
  <2> SUFFICES ASSUME Settled, ~Exempt, events # {}
               PROVE  \E s \in Subs : Shows(s)
    BY DEF SettlesOnStripe, Exempt
  <2>1. BInv
    BY <1>1 DEF Inv
  <2>2. ~Unhandled
    BY DEF Settled, Unhandled
  <2>3. CASE WasReset
    BY <2>3 DEF WasReset, Shows
  <2>4. CASE Current
    <3>1. PICK e \in Events : /\ e.sub \in Subs /\ row = Image(e.sub, e.snap)
                              /\ Sent(e) /\ e.snap.version = seen[e.sub]
      BY <2>4 DEF Current
    <3>2. PICK f \in events : f.sub = e.sub /\ f.snap.version = stripe[e.sub].version
      BY <1>1, <3>1 DEF Versions, Sent
    <3>3. PICK a \in applied : a.sub = e.sub /\ a.snap.version >= stripe[e.sub].version
      BY <3>2 DEF Settled
    <3>4. /\ a.snap.version <= seen[e.sub] /\ seen[e.sub] <= stripe[e.sub].version
          /\ a.snap.version \in Nat /\ seen[e.sub] \in Nat /\ stripe[e.sub].version \in Nat
      BY <1>1, <2>1, <3>1, <3>3, VersionTypes DEF Versions
    <3>5. e.snap = stripe[e.sub]
      BY <3>1, <3>3, <3>4 DEF Sent
    <3> QED
      BY <3>1, <3>5 DEF Shows
  <2> QED
    BY <1>1, <2>2, <2>3, <2>4 DEF RowIsTrue
<1>2. Spec => []DeletionsTrue
  BY DeletionsFirst, DeletionsKept, InvHolds, PTL DEF Spec
<1>3. Spec => []Owned
  BY OwnedFirst, OwnedKept, InvHolds, PTL DEF Spec
<1>4. Spec => []Versions
  BY VersionsFirst, VersionsKept, InvHolds, PTL DEF Spec
<1>5. Spec => []RowIsTrue
  BY RowFirst, RowKept, InvHolds, <1>2, <1>3, <1>4, PTL DEF Spec
<1> QED
  BY <1>1, <1>4, <1>5, InvHolds, PTL
=============================================================================
