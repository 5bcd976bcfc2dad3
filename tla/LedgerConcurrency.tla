------------------------- MODULE LedgerConcurrency -------------------------
(***************************************************************************)
(* The handlers of InvoiceLedger again, statement by statement, so that    *)
(* the statements of several requests interleave.                          *)
(*                                                                         *)
(* Every handler first reads, outside any transaction, and decides on what *)
(* it has read.  It then writes either one row with one statement, or a    *)
(* payment and the invoice in one transaction.  Transactions run at READ   *)
(* COMMITTED: a SELECT sees what is committed at that moment plus the      *)
(* transaction's own writes, and takes no lock; an UPDATE or DELETE waits  *)
(* for the row's lock, which its transaction keeps to the end.             *)
(*                                                                         *)
(* The last write of each transaction, to the invoice row, is one step     *)
(* with the commit: nobody can see or touch the row in between, so the     *)
(* lock on the invoice row is never held across steps.                     *)
(***************************************************************************)
EXTENDS LedgerRules

CONSTANTS Requests,      \* requests, webhook deliveries and job runs in flight
          Payments,      \* payment rows that may ever be created (a bound)
          Amounts,       \* payment amounts, in cents
          Totals,        \* totals of the invoice, in cents
          PaidInputs,    \* paid amounts sent with PARTIALLY_PAID, in mills
          Operations,    \* the handlers that run
          None           \* no payment, no holder of a lock

ASSUME NoneAssumption == None \notin Payments \cup Requests
ASSUME AmountAssumption == Amounts \subseteq Nat \ {0}
ASSUME TotalAssumption == Totals \subseteq Nat
ASSUME PaidInputAssumption == PaidInputs \subseteq Nat
ASSUME PaymentsAssumption == IsFiniteSet(Payments)

VARIABLES invoice, payments,  \* the committed rows
          sessions,           \* Stripe's sessions, by payment
          locks,              \* the transaction that holds each payment row
          pc,                 \* the next statement of each request
          local,              \* what each request is about to write
          stale,              \* history: transactions whose sum was overtaken
          marks               \* history: what may have put the invoice out of step

vars == <<invoice, payments, sessions, locks, pc, local, stale, marks>>

AllOperations == {"send", "edit", "status", "delete", "view", "overdue", "record",
                  "settle", "cancel", "checkout", "paid", "expired"}

InvoiceRow == [status : InvoiceStatuses, total : Nat, paidAmount : Nat,
               balanceDue : Nat, deleted : BOOLEAN]

PaymentRow == [status : PaymentStatuses, method : Methods, amount : Nat]

NoPayment == [status |-> "ABSENT", method |-> "MANUAL", amount |-> 0]

NewInvoice(total) == [status |-> "DRAFT", total |-> total, paidAmount |-> 0,
                      balanceDue |-> total, deleted |-> FALSE]

\* A request keeps what it read only to write something that follows from it:
\* a row of a payment, and columns of the invoice with their new values.
NoColumns == [c \in {} |-> 0]
For(p, row) == [p |-> p, row |-> row, data |-> NoColumns]
Writing(data) == [p |-> None, row |-> NoPayment, data |-> data]
Blank == Writing(NoColumns)

Labels == {"idle", "count", "write", "writeRow", "failPending", "check", "update",
           "readInvoice", "readPayments", "commit", "insert", "session"}

\* The columns that each of the statements before the last may have prepared: a
\* status that says nothing of money, an edit, or all that money touches.
StatusColumns == [status : InvoiceStatuses \ {"DRAFT", "PARTIALLY_PAID", "PAID", "REFUNDED"}]
EditColumns == [total : Nat, balanceDue : Nat]
MoneyColumns == [status : InvoiceStatuses, paidAmount : Nat, balanceDue : Nat]
ReadColumns == [total : Nat, status : InvoiceStatuses]
AllColumns == {NoColumns, [deleted |-> TRUE]} \cup StatusColumns \cup EditColumns \cup MoneyColumns

DataAt(label) ==
    CASE label = "count"        -> {[deleted |-> TRUE]}
      [] label = "write"        -> AllColumns
      [] label = "readPayments" -> ReadColumns
      [] label = "commit"       -> {NoColumns} \cup MoneyColumns
      [] OTHER                  -> {NoColumns}

\* Handlers of the invoice alone have no row of a payment.
WorkAt(label) ==
    IF label \in {"idle", "count", "write"}
    THEN [p : {None}, row : {NoPayment}, data : DataAt(label)]
    ELSE [p : Payments, row : PaymentRow, data : DataAt(label)]
Work == [p : Payments \cup {None}, row : PaymentRow, data : AllColumns \cup ReadColumns]

TypeOK == /\ invoice \in InvoiceRow
          /\ payments \in [Payments -> PaymentRow]
          /\ sessions \in [Payments -> {"none", "open", "paid", "expired"}]
          /\ locks \in [Payments -> Requests \cup {None}]
          /\ \A p \in Payments : locks[p] # None => local[locks[p]].p = p
          /\ pc \in [Requests -> Labels]
          /\ local \in [Requests -> Work]
          /\ \A r \in Requests : local[r] \in WorkAt(pc[r])
          /\ stale \subseteq Requests
          /\ marks \subseteq {"edited", "byHand", "raced", "overlapped"}

Init == /\ \E total \in Totals : invoice = NewInvoice(total)
        /\ payments = [p \in Payments |-> NoPayment]
        /\ sessions = [p \in Payments |-> "none"]
        /\ locks = [p \in Payments |-> None]
        /\ pc = [r \in Requests |-> "idle"]
        /\ local = [r \in Requests |-> Blank]
        /\ stale = {}
        /\ marks = {}

----------------------------------------------------------------------------
(* Bookkeeping. *)

\* Request r starts handler op and goes on at `label` with what it will write.
Start(r, op, label, work) ==
    /\ pc[r] = "idle"
    /\ op \in Operations
    /\ pc' = [pc EXCEPT ![r] = label]
    /\ local' = [local EXCEPT ![r] = work]
    /\ UNCHANGED <<invoice, payments, locks, stale, marks>>

Goto(r, label) == pc' = [pc EXCEPT ![r] = label]

\* The request ends, by its answer or by an error; a transaction of its own that
\* has not committed leaves nothing but the release of its lock.
Finish(r) == /\ Goto(r, "idle")
             /\ local' = [local EXCEPT ![r] = Blank]
             /\ locks' = [p \in Payments |-> IF locks[p] = r THEN None ELSE locks[p]]

\* The invoice row after an UPDATE of some columns; the others are left as they
\* are by now.
Updated(columns) == [c \in DOMAIN invoice |->
                        IF c \in DOMAIN columns THEN columns[c] ELSE invoice[c]]

\* A row that nobody has started to create.
Fresh(p) == /\ payments[p].status = "ABSENT"
            /\ \A r \in Requests : local[r].p # p

Exists(p) == payments[p].status \notin {"ABSENT", "REMOVED"}

\* The payments as r's transaction sees them once it has written its row.
Visible(r) == [payments EXCEPT ![local[r].p] = local[r].row]

\* Transactions that have summed up the payments and not committed yet.  What
\* changes a completed payment now escapes them.
Summed == {r \in Requests : pc[r] = "commit"}

----------------------------------------------------------------------------
(* Handlers that end in one write to the invoice.  First the read, with    *)
(* the checks on what it returned and the columns that follow from it.     *)

StartSend(r) ==
    /\ ~invoice.deleted /\ invoice.status \in Sendable /\ invoice.total > 0
    /\ Start(r, "send", "write",
             Writing(IF invoice.status = "DRAFT" THEN [status |-> "SENT"] ELSE NoColumns))
    /\ UNCHANGED sessions

StartEdit(r) ==
    /\ ~invoice.deleted /\ invoice.status \in Editable
    /\ \E total \in Totals :
          Start(r, "edit", "write",
                Writing([total |-> total,
                         balanceDue |-> Outstanding(total, invoice.paidAmount)]))
    /\ UNCHANGED sessions

StartStatus(r) ==
    /\ ~invoice.deleted
    /\ \E to \in ManualTransitions(invoice.status), mills \in PaidInputs :
          /\ to = "SENT" => invoice.total > 0
          /\ ValidPart(to, invoice.total, mills)
          /\ Start(r, "status", "write",
                   Writing(IF to \in MoneyTargets
                           THEN [status |-> to,
                                 paidAmount |-> PaidAfter(to, invoice, mills),
                                 balanceDue |-> BalanceAfter(to, invoice, mills)]
                           ELSE [status |-> to]))
    /\ UNCHANGED sessions

StartView(r) ==
    /\ ~invoice.deleted /\ invoice.status = "SENT"
    /\ Start(r, "view", "write", Writing([status |-> "VIEWED"]))
    /\ UNCHANGED sessions

StartOverdue(r) ==
    /\ ~invoice.deleted /\ invoice.balanceDue > 0 /\ invoice.status \in CanFallDue
    /\ Start(r, "overdue", "write", Writing([status |-> "OVERDUE"]))
    /\ UNCHANGED sessions

StartDelete(r) ==
    /\ ~invoice.deleted /\ invoice.status \in Deletable
    /\ Start(r, "delete", "count", Writing([deleted |-> TRUE]))
    /\ UNCHANGED sessions

\* deleteInvoice counts the completed payments in a statement of its own.
CountPayments(r) ==
    /\ pc[r] = "count"
    /\ IF Completed(payments) = {}
       THEN Goto(r, "write") /\ UNCHANGED <<local, locks>>
       ELSE Finish(r)
    /\ UNCHANGED <<invoice, payments, sessions, stale, marks>>

\* The UPDATE names the row by its id alone: whatever it has become meanwhile.
WriteInvoice(r) ==
    LET columns == DOMAIN local[r].data
    IN  /\ pc[r] = "write"
        /\ invoice' = Updated(local[r].data)
        /\ marks' = marks \cup (IF "total" \in columns THEN {"edited"} ELSE {})
                          \cup (IF "paidAmount" \in columns THEN {"byHand"} ELSE {})
        /\ Finish(r)
        /\ UNCHANGED <<payments, sessions, stale>>

----------------------------------------------------------------------------
(* Handlers that change a payment and recompute the invoice in one         *)
(* transaction: check, write of the payment row, read of the invoice, read *)
(* of its payments, write of the invoice with the commit.                  *)

\* recordPayment
StartRecord(r) ==
    /\ \E p \in Payments, amount \in Amounts :
          /\ Fresh(p)
          /\ AcceptsPayment(invoice, amount)
          /\ Start(r, "record", "check",
                   For(p, [status |-> "COMPLETED", method |-> "MANUAL", amount |-> amount]))
    /\ UNCHANGED sessions

\* updatePaymentStatus: only a completion is checked.
StartSettle(r) ==
    /\ ~invoice.deleted
    /\ \E p \in Payments : \E to \in PaymentTransitions(payments[p].status) :
          Start(r, "settle", IF to = "COMPLETED" THEN "check" ELSE "update",
                For(p, [payments[p] EXCEPT !.status = to]))
    /\ UNCHANGED sessions

\* A session that ends one way does not end the other way.
Ended(p, how) == /\ sessions[p] \in {"open", how}
                 /\ sessions' = [sessions EXCEPT ![p] = how]

\* completeStripePayment, for each delivery of "checkout.session.completed".
StartPaid(r) ==
    \E p \in Payments :
        /\ Ended(p, "paid")
        /\ Exists(p) /\ payments[p].status # "COMPLETED"
        /\ Start(r, "paid", "check",
                 For(p, [payments[p] EXCEPT !.status = "COMPLETED"]))

\* assertCanCompletePayment, after which a checkout stores its PENDING row.
CheckFits(r) ==
    /\ pc[r] = "check"
    /\ IF CanComplete(invoice, payments, local[r].p, local[r].row.amount)
       THEN /\ Goto(r, IF local[r].row.status = "PENDING" THEN "insert" ELSE "update")
            /\ UNCHANGED <<local, locks>>
       ELSE Finish(r)
    /\ UNCHANGED <<invoice, payments, sessions, stale, marks>>

\* tx.payment.create or update.  The update of a row that is gone is an error.
UpdatePayment(r) ==
    /\ pc[r] = "update"
    /\ locks[local[r].p] = None
    /\ IF payments[local[r].p].status # "REMOVED"
       THEN /\ locks' = [locks EXCEPT ![local[r].p] = r]
            /\ Goto(r, "readInvoice")
            /\ UNCHANGED local
       ELSE Finish(r)
    /\ UNCHANGED <<invoice, payments, sessions, stale, marks>>

\* syncInvoiceFromPayments reads the invoice, and gives up on a deleted one ...
ReadInvoice(r) ==
    /\ pc[r] = "readInvoice"
    /\ IF invoice.deleted
       THEN Goto(r, "commit") /\ UNCHANGED local
       ELSE /\ Goto(r, "readPayments")
            /\ local' = [local EXCEPT ![r].data = [total |-> invoice.total,
                                                   status |-> invoice.status]]
    /\ UNCHANGED <<invoice, payments, sessions, locks, stale, marks>>

\* Faulty: the status is left out of the UPDATE when it does not seem to change.
ReadPaymentsSkipsStatus(r) ==
    LET seen == local[r].data
        data == SyncData(seen.total, seen.status, Visible(r))
    IN  /\ pc[r] = "readPayments"
        /\ local' = [local EXCEPT ![r].data =
              [c \in {c \in DOMAIN data : c = "status" => data[c] # seen.status} |-> data[c]]]
        /\ Goto(r, "commit")
        /\ UNCHANGED <<invoice, payments, sessions, locks, stale, marks>>

\* Faulty: the payments are read outside the transaction.
ReadPaymentsOutside(r) ==
    /\ pc[r] = "readPayments"
    /\ local' = [local EXCEPT ![r].data = SyncData(@.total, @.status, payments)]
    /\ Goto(r, "commit")
    /\ UNCHANGED <<invoice, payments, sessions, locks, stale, marks>>

\* ... sums the payments and works out the columns ...
ReadPayments(r) ==
    /\ pc[r] = "readPayments"
    /\ local' = [local EXCEPT ![r].data = SyncData(@.total, @.status, Visible(r))]
    /\ Goto(r, "commit")
    /\ UNCHANGED <<invoice, payments, sessions, locks, stale, marks>>

\* ... and writes paidAmount, balanceDue and status, whatever they are by now.
CommitPayment(r) ==
    /\ pc[r] = "commit"
    /\ payments' = Visible(r)
    /\ invoice' = Updated(local[r].data)
    /\ stale' = (stale \cup Summed) \ {r}
    /\ marks' = IF local[r].data = NoColumns THEN marks
                ELSE (marks \cap {"edited"}) \cup (IF r \in stale THEN {"overlapped"} ELSE {})
    /\ Finish(r)
    /\ UNCHANGED sessions

----------------------------------------------------------------------------
(* Handlers that end in one write to a payment row. *)

\* cancelPayment deletes a row it has read as PENDING.
StartCancel(r) ==
    /\ ~invoice.deleted
    /\ \E p \in Payments :
          /\ payments[p].status = "PENDING"
          /\ Start(r, "cancel", "writeRow",
                   For(p, [payments[p] EXCEPT !.status = "REMOVED"]))
    /\ UNCHANGED sessions

\* failStripePayment, for each delivery of "checkout.session.expired".
StartExpired(r) ==
    \E p \in Payments :
        /\ Ended(p, "expired")
        /\ payments[p].status = "PENDING"
        /\ Start(r, "expired", "writeRow",
                 For(p, [payments[p] EXCEPT !.status = "FAILED"]))

\* The statement names the row by its id alone, so it takes effect whatever the
\* row's status is by now.
WriteRow(r) ==
    LET p == local[r].p
    IN  /\ pc[r] = "writeRow"
        /\ locks[p] = None
        /\ payments' = IF Exists(p) THEN [payments EXCEPT ![p].status = local[r].row.status]
                       ELSE payments
        /\ IF payments[p].status = "COMPLETED"
           THEN stale' = stale \cup Summed /\ marks' = marks \cup {"raced"}
           ELSE UNCHANGED <<stale, marks>>
        /\ Finish(r)
        /\ UNCHANGED <<invoice, sessions>>

----------------------------------------------------------------------------
(* createInvoiceStripeCheckout. *)

StartCheckout(r) ==
    /\ \E p \in Payments, amount \in Amounts :
          /\ Fresh(p)
          /\ AcceptsPayment(invoice, amount)
          /\ Start(r, "checkout", "failPending",
                   For(p, [status |-> "PENDING", method |-> "STRIPE", amount |-> amount]))
    /\ UNCHANGED sessions

\* failPendingStripePayments: the condition is in the statement, which waits
\* for the rows it selects.
PendingStripe == {p \in Payments : payments[p].status = "PENDING"
                                   /\ payments[p].method = "STRIPE"}

FailPending(r) ==
    /\ pc[r] = "failPending"
    /\ \A p \in PendingStripe : locks[p] = None
    /\ payments' = [p \in Payments |-> IF p \in PendingStripe
                                       THEN [payments[p] EXCEPT !.status = "FAILED"]
                                       ELSE payments[p]]
    /\ Goto(r, "check")
    /\ UNCHANGED <<invoice, sessions, locks, local, stale, marks>>

\* The end of the transaction that checked: the row is stored as PENDING.
InsertPending(r) ==
    /\ pc[r] = "insert"
    /\ payments' = Visible(r)
    /\ Goto(r, "session")
    /\ UNCHANGED <<invoice, sessions, locks, local, stale, marks>>

\* Stripe gives a session, or an error after which the row is failed.
OpenSession(r) ==
    /\ pc[r] = "session"
    /\ \/ /\ sessions' = [sessions EXCEPT ![local[r].p] = "open"]
          /\ Finish(r)
       \/ /\ Goto(r, "writeRow")
          /\ local' = [local EXCEPT ![r].row.status = "FAILED"]
          /\ UNCHANGED <<sessions, locks>>
    /\ UNCHANGED <<invoice, payments, stale, marks>>

----------------------------------------------------------------------------
\* The process of a request dies, or its transaction times out.
Crash(r) == /\ pc[r] # "idle"
            /\ Finish(r)
            /\ stale' = stale \ {r}
            /\ UNCHANGED <<invoice, payments, sessions, marks>>

Begin(r) == \/ StartSend(r) \/ StartEdit(r) \/ StartStatus(r) \/ StartDelete(r)
            \/ StartView(r) \/ StartOverdue(r) \/ StartRecord(r) \/ StartSettle(r)
            \/ StartPaid(r) \/ StartCancel(r) \/ StartExpired(r) \/ StartCheckout(r)

Continue(r) == \/ CountPayments(r) \/ WriteInvoice(r)
               \/ CheckFits(r) \/ UpdatePayment(r) \/ ReadInvoice(r) \/ ReadPayments(r)
               \/ CommitPayment(r) \/ WriteRow(r)
               \/ FailPending(r) \/ InsertPending(r) \/ OpenSession(r)

Next == \E r \in Requests : Begin(r) \/ Continue(r) \/ Crash(r)

Spec == Init /\ [][Next]_vars

----------------------------------------------------------------------------
(* Properties. *)

\* However statements interleave and whichever requests die, the money columns
\* agree with one another and with the status, as long as no edit of a draft
\* changes the total under a recomputation: each write of paidAmount carries the
\* balance, and the status that goes with them, and each write of a status
\* alone is of one that says nothing of money.
MoneyIsConsistent ==
    "edited" \notin marks =>
        /\ invoice.balanceDue = Outstanding(invoice.total, invoice.paidAmount)
        /\ invoice.status = "PAID" => invoice.paidAmount >= invoice.total
        /\ invoice.status = "PARTIALLY_PAID" => invoice.paidAmount \in 1 .. (invoice.total - 1)
        /\ invoice.status = "REFUNDED" => invoice.paidAmount = 0

AtRest == \A r \in Requests : pc[r] = "idle"

Disturbed == marks \cap {"byHand", "raced", "overlapped"} # {}

\* paidAmount is the sum of the completed payments, at every moment and however
\* many requests are under way, but for three disturbances: money entered by hand; a
\* cancellation or expiry that hits a payment completed since it was read ("raced");
\* and a recomputation that commits although a payment changed between its sum and
\* its commit ("overlapped").  The next recomputation that nothing overlaps puts the
\* invoice right again, and an overlap takes two payments: of two changes of one
\* payment the second waits for the first.
BackedUnlessDisturbed ==
    /\ ~invoice.deleted /\ ~Disturbed => invoice.paidAmount = CompletedSum(payments)
    /\ "overlapped" \in marks =>
           \E p, q \in Payments : p # q /\ payments[p].status # "ABSENT"
                                      /\ payments[q].status # "ABSENT"

\* "Guard against completing a pending payment that would overpay the invoice":
\* with the total fixed, completed payments stay within it.
WithinTotal == CompletedSum(payments) <= invoice.total

\* syncInvoiceFromPayments is "called inside a transaction after every payment
\* mutation": so once nothing is in flight paidAmount is the sum of the
\* completed payments.
BackedAtRest == AtRest => invoice.paidAmount = CompletedSum(payments)
=============================================================================
