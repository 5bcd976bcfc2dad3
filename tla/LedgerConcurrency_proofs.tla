--------------------- MODULE LedgerConcurrency_proofs ---------------------
(***************************************************************************)
(* Theorems about LedgerConcurrency, for any number of requests and        *)
(* payments and any amounts, totals and inputs; that with a single request *)
(* it implements InvoiceLedger; and how far several can overpay.           *)
(***************************************************************************)
EXTENDS LedgerConcurrency, FiniteSetTheorems, TLAPS

\* A checkout that has stored its row and has no session for it yet.
Opening(r) == \/ pc[r] = "session"
              \/ /\ pc[r] = "writeRow"
                 /\ local[r].row.status = "FAILED" /\ sessions[local[r].p] = "none"

\* The payments as InvoiceLedger shows them: a checkout stores its row and opens
\* the session in one step.
Shown == [p \in Payments |-> IF \E r \in Requests : Opening(r) /\ local[r].p = p
                             THEN NoPayment ELSE payments[p]]

Ledger == INSTANCE InvoiceLedger_proofs
              WITH payments <- Shown, byHand <- "byHand" \in marks

Rows == [Payments -> PaymentRow]

----------------------------------------------------------------------------
(* The rules of InvoiceLedger are the rules used here. *)

LEMMA SameFiniteSets ==
    ASSUME NEW S
    PROVE  IsFiniteSet(S) <=> Ledger!IsFiniteSet(S)
  BY DEF IsFiniteSet, Ledger!IsFiniteSet

LEMMA SameCardinality ==
    ASSUME NEW S
    PROVE  Cardinality(S) = Ledger!Cardinality(S)
  BY DEF Cardinality, Ledger!Cardinality

LEMMA LedgerAssumptions ==
    /\ Ledger!AmountAssumption /\ Ledger!TotalAssumption
    /\ Ledger!PaidInputAssumption /\ Ledger!PaymentsAssumption
<1>1. Ledger!PaymentsAssumption
  BY PaymentsAssumption, SameFiniteSets DEF Ledger!PaymentsAssumption
<1> QED
  BY <1>1, AmountAssumption, TotalAssumption, PaidInputAssumption
     DEF Ledger!AmountAssumption, Ledger!TotalAssumption, Ledger!PaidInputAssumption

LEMMA SameSum ==
    ASSUME NEW rows, NEW ps
    PROVE  Ledger!SumOf(rows, ps) = SumOf(rows, ps)
<1>1. Ledger!Cents(rows, ps) = Cents(rows, ps)
  BY DEF Cents, Ledger!Cents
<1> QED
  BY <1>1, SameCardinality DEF SumOf, Ledger!SumOf

LEMMA SameCompletedSum ==
    ASSUME NEW rows
    PROVE  /\ Ledger!Completed(rows) = Completed(rows)
           /\ Ledger!CompletedSum(rows) = CompletedSum(rows)
<1>1. Ledger!Completed(rows) = Completed(rows)
  BY DEF Completed, Ledger!Completed
<1> QED
  BY <1>1, SameSum DEF CompletedSum, Ledger!CompletedSum

LEMMA SameRows == Ledger!Rows = Rows
  BY DEF Rows, PaymentRow, PaymentStatuses, Methods,
         Ledger!Rows, Ledger!PaymentRow, Ledger!PaymentStatuses, Ledger!Methods

LEMMA CompletedSumIsNat ==
    ASSUME NEW rows \in Rows
    PROVE  CompletedSum(rows) \in Nat
<1>1. rows \in Ledger!Rows
  BY SameRows
<1>2. Ledger!CompletedSum(rows) \in Nat
  BY <1>1, LedgerAssumptions, Ledger!CompletedSumIsNat
<1> QED
  BY <1>2, SameCompletedSum

LEMMA SyncStatusFits ==
    ASSUME NEW status \in InvoiceStatuses, NEW total \in Nat, NEW paid \in Nat,
           NEW refunded \in BOOLEAN
    PROVE  LET new == SyncStatus(status, total, paid, refunded)
           IN  /\ new \in InvoiceStatuses
               /\ new = "PAID" => paid >= total
               /\ new = "PARTIALLY_PAID" => 0 < paid /\ paid < total
               /\ new = "REFUNDED" => paid = 0
<1>1. Ledger!SyncStatus(status, total, paid, refunded) = SyncStatus(status, total, paid, refunded)
  BY DEF SyncStatus, Ledger!SyncStatus, AutoStatuses, Ledger!AutoStatuses, Payable, Ledger!Payable
<1>2. status \in Ledger!InvoiceStatuses
  BY DEF InvoiceStatuses, Ledger!InvoiceStatuses
<1>3. InvoiceStatuses = Ledger!InvoiceStatuses
  BY DEF InvoiceStatuses, Ledger!InvoiceStatuses
<1> QED
  BY <1>1, <1>2, <1>3, LedgerAssumptions, Ledger!SyncStatusFits

----------------------------------------------------------------------------
(* Columns, and what a request has at hand. *)

\* What a request has at hand before each of its statements.
LEMMA AtHand ==
    ASSUME NEW label \in Labels, NEW w \in WorkAt(label)
    PROVE  /\ w = [p |-> w.p, row |-> w.row, data |-> w.data]
           /\ w \in Work
           /\ label = "idle" => w = Blank
           /\ label \in {"idle", "count", "write"} => w.p = None /\ w.row = NoPayment
           /\ label \notin {"idle", "count", "write"} => w.p \in Payments /\ w.row \in PaymentRow
           /\ label = "count" => w.data = [deleted |-> TRUE]
           /\ label = "write" => w.data \in AllColumns
           /\ label = "readPayments" => w.data \in ReadColumns
           /\ label = "commit" => w.data \in {NoColumns} \cup MoneyColumns
           /\ label \notin {"count", "write", "readPayments", "commit"} => w.data = NoColumns
<1>1. w.data \in DataAt(label) /\ w = [p |-> w.p, row |-> w.row, data |-> w.data]
  BY DEF WorkAt
<1>2. w \in Work
  <2>1. DataAt(label) \subseteq AllColumns \cup ReadColumns
    BY DEF DataAt, AllColumns
  <2>2. NoPayment \in PaymentRow
    BY DEF NoPayment, PaymentRow, PaymentStatuses, Methods
  <2> QED
    BY <1>1, <2>1, <2>2 DEF WorkAt, Work
<1>3. /\ label \in {"idle", "count", "write"} => w.p = None /\ w.row = NoPayment
      /\ label \notin {"idle", "count", "write"} => w.p \in Payments /\ w.row \in PaymentRow
  BY DEF WorkAt
<1>4. /\ label = "count" => w.data = [deleted |-> TRUE]
      /\ label = "write" => w.data \in AllColumns
      /\ label = "readPayments" => w.data \in ReadColumns
      /\ label = "commit" => w.data \in {NoColumns} \cup MoneyColumns
      /\ label \notin {"count", "write", "readPayments", "commit"} => w.data = NoColumns
  BY <1>1 DEF DataAt
<1> QED
  BY <1>1, <1>2, <1>3, <1>4 DEF Blank, Writing

\* A handler of the invoice starts with the columns it will write, one of a
\* payment with its row.
LEMMA WorkOnInvoice ==
    ASSUME NEW label \in {"idle", "count", "write"}, NEW data \in DataAt(label)
    PROVE  Writing(data) \in WorkAt(label) /\ Writing(data) = [p |-> None, row |-> NoPayment, data |-> data]
  BY DEF Writing, WorkAt

LEMMA WorkOnPayment ==
    ASSUME NEW label \in {"check", "update", "writeRow", "failPending"},
           NEW p \in Payments, NEW row \in PaymentRow
    PROVE  For(p, row) \in WorkAt(label) /\ For(p, row) = [p |-> p, row |-> row, data |-> NoColumns]
<1>1. NoColumns \in DataAt(label)
  BY DEF DataAt
<1>2. WorkAt(label) = [p : Payments, row : PaymentRow, data : DataAt(label)]
  BY DEF WorkAt
<1> HIDE DEF WorkAt
<1> QED
  BY <1>1, <1>2 DEF For

LEMMA BlankIsWork == Blank \in WorkAt("idle")
<1>1. NoColumns \in DataAt("idle")
  BY DEF DataAt
<1> QED
  BY <1>1, WorkOnInvoice DEF Blank

\* The kinds of columns are told apart by their names.
LEMMA ColumnNames ==
    /\ DOMAIN NoColumns = {}
    /\ DOMAIN [deleted |-> TRUE] = {"deleted"}
    /\ \A data \in StatusColumns : DOMAIN data = {"status"}
    /\ \A data \in EditColumns : DOMAIN data = {"total", "balanceDue"}
    /\ \A data \in MoneyColumns : DOMAIN data = {"status", "paidAmount", "balanceDue"}
  BY DEF NoColumns, StatusColumns, EditColumns, MoneyColumns

\* What an update leaves of the invoice.
LEMMA UpdatedRow ==
    ASSUME invoice \in InvoiceRow, NEW data \in AllColumns
    PROVE  LET new == Updated(data)
           IN  /\ new \in InvoiceRow
               /\ new.status = IF data \in StatusColumns \cup MoneyColumns THEN data.status
                               ELSE invoice.status
               /\ new.total = IF data \in EditColumns THEN data.total ELSE invoice.total
               /\ new.paidAmount = IF data \in MoneyColumns THEN data.paidAmount
                                   ELSE invoice.paidAmount
               /\ new.balanceDue = IF data \in EditColumns \cup MoneyColumns THEN data.balanceDue
                                   ELSE invoice.balanceDue
               /\ new.deleted = (invoice.deleted \/ data = [deleted |-> TRUE])
<1> DEFINE new == Updated(data)
           Named(c) == IF c \in DOMAIN data THEN data[c] ELSE invoice[c]
<1>1. DOMAIN invoice = {"status", "total", "paidAmount", "balanceDue", "deleted"}
  BY DEF InvoiceRow
<1>2. new = [status |-> Named("status"), total |-> Named("total"),
             paidAmount |-> Named("paidAmount"), balanceDue |-> Named("balanceDue"),
             deleted |-> Named("deleted")]
  BY <1>1 DEF Updated
<1> HIDE DEF new
<1>3. /\ new.status = Named("status") /\ new.total = Named("total")
      /\ new.paidAmount = Named("paidAmount") /\ new.balanceDue = Named("balanceDue")
      /\ new.deleted = Named("deleted")
  BY <1>2
<1>4. CASE data = NoColumns
  BY <1>2, <1>3, <1>4, ColumnNames DEF InvoiceRow, new
<1>5. CASE data = [deleted |-> TRUE]
  BY <1>2, <1>3, <1>5, ColumnNames DEF InvoiceRow, new
<1>6. CASE data \in StatusColumns
  <2>1. data.status \in InvoiceStatuses
    BY <1>6 DEF StatusColumns
  <2> QED
    BY <1>2, <1>3, <1>6, <2>1, ColumnNames DEF InvoiceRow, new
<1>7. CASE data \in EditColumns
  <2>1. data.total \in Nat /\ data.balanceDue \in Nat
    BY <1>7 DEF EditColumns
  <2> QED
    BY <1>2, <1>3, <1>7, <2>1, ColumnNames DEF InvoiceRow, new
<1>8. CASE data \in MoneyColumns
  <2>1. data.status \in InvoiceStatuses /\ data.paidAmount \in Nat /\ data.balanceDue \in Nat
    BY <1>8 DEF MoneyColumns
  <2> QED
    BY <1>2, <1>3, <1>8, <2>1, ColumnNames DEF InvoiceRow, new
<1> QED
  BY <1>4, <1>5, <1>6, <1>7, <1>8 DEF AllColumns

\* Rows with the same columns are the same.
LEMMA SameRow ==
    ASSUME NEW a \in InvoiceRow, NEW b \in InvoiceRow,
           a.status = b.status, a.total = b.total, a.paidAmount = b.paidAmount,
           a.balanceDue = b.balanceDue, a.deleted = b.deleted
    PROVE  a = b
  BY DEF InvoiceRow

\* The columns that a change by hand writes: with sums in whole cents they agree
\* with one another and with the total.
WholeCents == \A mills \in PaidInputs : mills % 10 = 0

Agree(data, total) ==
    /\ data.balanceDue = Outstanding(total, data.paidAmount)
    /\ data.status = "PAID" => data.paidAmount >= total
    /\ data.status = "PARTIALLY_PAID" => 0 < data.paidAmount /\ data.paidAmount < total
    /\ data.status = "REFUNDED" => data.paidAmount = 0

LEMMA RoundPart ==
    ASSUME NEW total \in Nat, NEW mills \in Nat, 0 < mills, mills < 10 * total
    PROVE  /\ RoundMoney(mills) \in Nat /\ RoundMoney(10 * total - mills) \in Nat
           /\ mills % 10 = 0 => /\ 0 < RoundMoney(mills) /\ RoundMoney(mills) < total
                                /\ RoundMoney(10 * total - mills) = total - RoundMoney(mills)
<1>1. RoundMoney(mills) \in Nat /\ RoundMoney(10 * total - mills) \in Nat
  BY DEF RoundMoney
<1>2. ASSUME mills % 10 = 0
      PROVE  /\ 0 < RoundMoney(mills) /\ RoundMoney(mills) < total
             /\ RoundMoney(10 * total - mills) = total - RoundMoney(mills)
  <2> DEFINE cents == mills \div 10
  <2>1. cents \in Nat /\ mills = 10 * cents
    BY <1>2
  <2> HIDE DEF cents
  <2>2. 0 < cents /\ cents < total
    BY <2>1
  <2>3. (10 * cents + 5) \div 10 = cents
    BY <2>1
  <2>4. (10 * (total - cents) + 5) \div 10 = total - cents
    BY <2>1, <2>2
  <2>5. RoundMoney(mills) = cents
    BY <2>1, <2>3 DEF RoundMoney
  <2>6. 10 * total - mills + 5 = 10 * (total - cents) + 5
    BY <2>1
  <2>7. RoundMoney(10 * total - mills) = total - cents
    BY <2>4, <2>6 DEF RoundMoney
  <2> QED
    BY <2>2, <2>5, <2>7
<1> QED
  BY <1>1, <1>2

LEMMA EnteredColumns ==
    ASSUME NEW row \in InvoiceRow, NEW to \in MoneyTargets, NEW mills \in PaidInputs,
           ValidPart(to, row.total, mills)
    PROVE  LET data == [status |-> to, paidAmount |-> PaidAfter(to, row, mills),
                        balanceDue |-> BalanceAfter(to, row, mills)]
           IN  data \in MoneyColumns /\ (WholeCents => Agree(data, row.total))
<1> DEFINE data == [status |-> to, paidAmount |-> PaidAfter(to, row, mills),
                    balanceDue |-> BalanceAfter(to, row, mills)]
<1>1. mills \in Nat /\ row.total \in Nat
  BY PaidInputAssumption DEF InvoiceRow
<1>2. to \in InvoiceStatuses
  BY DEF MoneyTargets, InvoiceStatuses
<1>3. CASE to = "PARTIALLY_PAID"
  <2>1. 0 < mills /\ mills < 10 * row.total
    BY <1>3 DEF ValidPart
  <2>2. data = [status |-> "PARTIALLY_PAID", paidAmount |-> RoundMoney(mills),
                balanceDue |-> RoundMoney(10 * row.total - mills)]
    BY <1>3 DEF PaidAfter, BalanceAfter
  <2>3. data \in MoneyColumns
    BY <1>1, <1>2, <1>3, <2>1, <2>2, RoundPart DEF MoneyColumns
  <2>4. ASSUME WholeCents PROVE Agree(data, row.total)
    <3>1. mills % 10 = 0
      BY <2>4 DEF WholeCents
    <3>2. /\ 0 < RoundMoney(mills) /\ RoundMoney(mills) < row.total
          /\ RoundMoney(10 * row.total - mills) = row.total - RoundMoney(mills)
          /\ RoundMoney(mills) \in Nat
      BY <1>1, <2>1, <3>1, RoundPart
    <3> QED
      BY <1>1, <2>2, <3>2 DEF Agree, Outstanding
  <2> QED
    BY <2>3, <2>4
<1>4. CASE to = "PAID"
  <2>1. data = [status |-> "PAID", paidAmount |-> row.total, balanceDue |-> 0]
    BY <1>4 DEF PaidAfter, BalanceAfter
  <2> QED
    BY <1>1, <1>2, <1>4, <2>1 DEF MoneyColumns, Agree, Outstanding
<1>5. CASE to \in {"REFUNDED", "DRAFT"}
  <2>1. data = [status |-> to, paidAmount |-> 0, balanceDue |-> row.total]
    BY <1>5 DEF PaidAfter, BalanceAfter
  <2> QED
    BY <1>1, <1>2, <1>5, <2>1 DEF MoneyColumns, Agree, Outstanding
<1> QED
  BY <1>3, <1>4, <1>5 DEF MoneyTargets

\* So are the columns of a recomputation, for the total it was given.
LEMMA SummedColumns ==
    ASSUME NEW total \in Nat, NEW status \in InvoiceStatuses, NEW rows \in Rows
    PROVE  LET data == SyncData(total, status, rows)
           IN  /\ data \in MoneyColumns /\ Agree(data, total)
               /\ data.paidAmount = CompletedSum(rows)
<1> DEFINE paid == CompletedSum(rows)
           new == SyncStatus(status, total, paid, SomeRefunded(rows))
<1>1. paid \in Nat /\ SomeRefunded(rows) \in BOOLEAN
  BY CompletedSumIsNat DEF SomeRefunded
<1>2. SyncData(total, status, rows)
        = [paidAmount |-> paid, balanceDue |-> Outstanding(total, paid), status |-> new]
  BY DEF SyncData
<1>3. /\ new \in InvoiceStatuses
      /\ new = "PAID" => paid >= total
      /\ new = "PARTIALLY_PAID" => 0 < paid /\ paid < total
      /\ new = "REFUNDED" => paid = 0
  <2> HIDE DEF paid
  <2> QED
    BY <1>1, SyncStatusFits
<1>4. Outstanding(total, paid) \in Nat
  BY <1>1 DEF Outstanding
<1> HIDE DEF paid, new
<1> QED
  BY <1>1, <1>2, <1>3, <1>4 DEF MoneyColumns, Agree, paid

----------------------------------------------------------------------------
(* Kinds of steps. *)

Sessions == [Payments -> {"none", "open", "paid", "expired"}]

\* A request starts and has `work` at hand.
Begins(r, label, work) ==
    /\ pc[r] = "idle"
    /\ pc' = [pc EXCEPT ![r] = label]
    /\ local' = [local EXCEPT ![r] = work]
    /\ UNCHANGED <<invoice, payments, locks, stale, marks>>

LEMMA StartBegins ==
    ASSUME NEW r, NEW op, NEW label, NEW work, Start(r, op, label, work)
    PROVE  Begins(r, label, work)
  BY DEF Start, Begins

\* The first statement of each handler of the invoice ...
LEMMA BeginOnInvoice ==
    ASSUME TypeOK, NEW r \in Requests,
           \/ StartSend(r) \/ StartEdit(r) \/ StartStatus(r) \/ StartDelete(r)
           \/ StartView(r) \/ StartOverdue(r)
    PROVE  /\ UNCHANGED sessions
           /\ \E label \in {"count", "write"} : \E data \in DataAt(label) :
                 /\ Begins(r, label, Writing(data))
                 /\ data \in MoneyColumns /\ WholeCents => Agree(data, invoice.total)
<1> DEFINE Goal == \E label \in {"count", "write"} : \E data \in DataAt(label) :
                      /\ Begins(r, label, Writing(data))
                      /\ data \in MoneyColumns /\ WholeCents => Agree(data, invoice.total)
<1>0. invoice.status \in InvoiceStatuses /\ invoice.total \in Nat /\ invoice.paidAmount \in Nat
  BY DEF TypeOK, InvoiceRow
<1>1. /\ DataAt("write") = {NoColumns, [deleted |-> TRUE]} \cup StatusColumns
                              \cup EditColumns \cup MoneyColumns
      /\ DataAt("count") = {[deleted |-> TRUE]}
  BY DEF DataAt, AllColumns
<1>2. ASSUME NEW data \in {NoColumns, [deleted |-> TRUE]} \cup StatusColumns \cup EditColumns
      PROVE  data \notin MoneyColumns
  BY <1>2, ColumnNames
<1>3. ASSUME NEW data \in {NoColumns} \cup StatusColumns \cup EditColumns,
             Begins(r, "write", Writing(data))
      PROVE  Goal
  BY <1>1, <1>2, <1>3
<1>4. ASSUME NEW to \in InvoiceStatuses \ {"DRAFT", "PARTIALLY_PAID", "PAID", "REFUNDED"}
      PROVE  [status |-> to] \in StatusColumns
  BY <1>4 DEF StatusColumns
<1>5. CASE StartSend(r)
  <2>1. PICK data \in {[status |-> "SENT"], NoColumns} : Begins(r, "write", Writing(data))
    BY <1>5, StartBegins DEF StartSend
  <2>2. data \in {NoColumns} \cup StatusColumns
    BY <2>1, <1>4 DEF InvoiceStatuses
  <2> QED
    BY <1>3, <1>5, <2>1, <2>2 DEF StartSend
<1>6. CASE StartEdit(r)
  <2>1. PICK total \in Totals :
           Begins(r, "write", Writing([total |-> total,
                                       balanceDue |-> Outstanding(total, invoice.paidAmount)]))
    BY <1>6, StartBegins DEF StartEdit
  <2>2. total \in Nat /\ Outstanding(total, invoice.paidAmount) \in Nat
    BY <1>0, TotalAssumption DEF Outstanding
  <2>3. [total |-> total, balanceDue |-> Outstanding(total, invoice.paidAmount)] \in EditColumns
    BY <2>2 DEF EditColumns
  <2> QED
    BY <1>3, <1>6, <2>1, <2>3 DEF StartEdit
<1>7. CASE StartStatus(r)
  <2>1. PICK to \in ManualTransitions(invoice.status), mills \in PaidInputs :
           /\ ValidPart(to, invoice.total, mills)
           /\ Begins(r, "write",
                     Writing(IF to \in MoneyTargets
                             THEN [status |-> to,
                                   paidAmount |-> PaidAfter(to, invoice, mills),
                                   balanceDue |-> BalanceAfter(to, invoice, mills)]
                             ELSE [status |-> to]))
    BY <1>7, StartBegins DEF StartStatus
  <2>2. to \in InvoiceStatuses
    BY <1>0, <2>1 DEF ManualTransitions, InvoiceStatuses
  <2>3. CASE to \in MoneyTargets
    <3> DEFINE data == [status |-> to, paidAmount |-> PaidAfter(to, invoice, mills),
                        balanceDue |-> BalanceAfter(to, invoice, mills)]
    <3>1. data \in MoneyColumns /\ (WholeCents => Agree(data, invoice.total))
      BY <2>1, <2>3, EnteredColumns DEF TypeOK
    <3>2. Begins(r, "write", Writing(data))
      BY <2>1, <2>3
    <3> HIDE DEF data
    <3>3. Goal
      BY <1>1, <3>1, <3>2
    <3> QED
      BY <1>7, <3>3 DEF StartStatus
  <2>4. CASE to \notin MoneyTargets
    <3>1. [status |-> to] \in StatusColumns
      BY <1>4, <2>2, <2>4 DEF MoneyTargets
    <3>2. Begins(r, "write", Writing([status |-> to]))
      BY <2>1, <2>4
    <3> QED
      BY <1>3, <1>7, <3>1, <3>2 DEF StartStatus
  <2> QED
    BY <2>3, <2>4
<1>8. CASE StartDelete(r)
  <2>1. Begins(r, "count", Writing([deleted |-> TRUE]))
    BY <1>8, StartBegins DEF StartDelete
  <2>2. Goal
    BY <1>1, <1>2, <2>1
  <2> QED
    BY <1>8, <2>2 DEF StartDelete
<1>9. CASE StartView(r) \/ StartOverdue(r)
  <2>1. PICK to \in {"VIEWED", "OVERDUE"} : Begins(r, "write", Writing([status |-> to]))
    BY <1>9, StartBegins DEF StartView, StartOverdue
  <2>2. [status |-> to] \in StatusColumns
    BY <1>4 DEF InvoiceStatuses
  <2> QED
    BY <1>3, <1>9, <2>1, <2>2 DEF StartView, StartOverdue
<1> QED
  BY <1>5, <1>6, <1>7, <1>8, <1>9

\* ... and of each handler of a payment: what it prepares to write to which row.
Prepared(label, p, row) ==
    /\ row.status # "ABSENT"
    /\ label = "writeRow" => row.status \in {"FAILED", "REMOVED"}
    /\ label = "failPending" => Fresh(p)
    /\ row.status = "PENDING" <=> label = "failPending"
    /\ payments[p].status = "ABSENT" => Fresh(p)
    /\ payments[p].status # "ABSENT" => row.amount = payments[p].amount
    /\ label = "update" => row.status # "COMPLETED"

LEMMA BeginOnPayment ==
    ASSUME TypeOK, NEW r \in Requests,
           \/ StartRecord(r) \/ StartSettle(r) \/ StartPaid(r) \/ StartCancel(r)
           \/ StartExpired(r) \/ StartCheckout(r)
    PROVE  /\ sessions' \in Sessions
           /\ \E label \in {"check", "update", "writeRow", "failPending"} :
                 \E p \in Payments, row \in PaymentRow :
                    Begins(r, label, For(p, row)) /\ Prepared(label, p, row)
<1> DEFINE Goal == \E label \in {"check", "update", "writeRow", "failPending"} :
                      \E p \in Payments, row \in PaymentRow :
                         Begins(r, label, For(p, row)) /\ Prepared(label, p, row)
<1>0. sessions \in Sessions /\ payments \in Rows
  BY DEF TypeOK, Sessions, Rows
<1>1. ASSUME NEW p \in Payments, NEW to \in PaymentStatuses
      PROVE  /\ [payments[p] EXCEPT !.status = to] \in PaymentRow
             /\ [payments[p] EXCEPT !.status = to].status = to
             /\ [payments[p] EXCEPT !.status = to].amount = payments[p].amount
  BY <1>0 DEF Rows, PaymentRow
<1>2. ASSUME NEW status \in PaymentStatuses, NEW method \in Methods, NEW amount \in Amounts
      PROVE  [status |-> status, method |-> method, amount |-> amount] \in PaymentRow
  BY AmountAssumption DEF PaymentRow
<1>3. ASSUME NEW p \in Payments, NEW how \in {"paid", "expired"}, Ended(p, how)
      PROVE  sessions' \in Sessions
  BY <1>0, <1>3 DEF Ended, Sessions
<1>4. CASE StartRecord(r)
  <2>1. PICK p \in Payments, amount \in Amounts :
           /\ Fresh(p)
           /\ Begins(r, "check", For(p, [status |-> "COMPLETED", method |-> "MANUAL",
                                         amount |-> amount]))
    BY <1>4, StartBegins DEF StartRecord
  <2>2. Prepared("check", p, [status |-> "COMPLETED", method |-> "MANUAL", amount |-> amount])
    BY <2>1 DEF Prepared, Fresh
  <2>3. Goal
    BY <1>2, <2>1, <2>2 DEF PaymentStatuses, Methods
  <2> QED
    BY <1>0, <1>4, <2>3 DEF StartRecord
<1>5. CASE StartSettle(r)
  <2>1. PICK p \in Payments : \E to \in PaymentTransitions(payments[p].status) :
           Begins(r, IF to = "COMPLETED" THEN "check" ELSE "update",
                  For(p, [payments[p] EXCEPT !.status = to]))
    BY <1>5, StartBegins DEF StartSettle
  <2>2. PICK to \in PaymentTransitions(payments[p].status) :
           Begins(r, IF to = "COMPLETED" THEN "check" ELSE "update",
                  For(p, [payments[p] EXCEPT !.status = to]))
    BY <2>1
  <2>3. /\ to \in PaymentStatuses \ {"ABSENT", "PENDING", "REMOVED"}
        /\ payments[p].status # "ABSENT"
    BY DEF PaymentTransitions, PaymentStatuses
  <2> DEFINE row == [payments[p] EXCEPT !.status = to]
             label == IF to = "COMPLETED" THEN "check" ELSE "update"
  <2>4. row \in PaymentRow /\ row.status = to /\ row.amount = payments[p].amount
    BY <1>1, <2>3
  <2>5. /\ label \in {"check", "update"} /\ Begins(r, label, For(p, row))
        /\ label = "update" => to # "COMPLETED"
    BY <2>2
  <2> HIDE DEF row, label
  <2>6. Prepared(label, p, row)
    BY <2>3, <2>4, <2>5 DEF Prepared
  <2>7. Goal
    BY <2>4, <2>5, <2>6
  <2> QED
    BY <1>0, <1>5, <2>7 DEF StartSettle
<1>6. CASE StartPaid(r)
  <2>1. PICK p \in Payments :
           /\ Ended(p, "paid") /\ Exists(p)
           /\ Begins(r, "check", For(p, [payments[p] EXCEPT !.status = "COMPLETED"]))
    BY <1>6, StartBegins DEF StartPaid
  <2>2. Prepared("check", p, [payments[p] EXCEPT !.status = "COMPLETED"])
    BY <1>1, <2>1 DEF Prepared, Exists, PaymentStatuses
  <2> QED
    BY <1>1, <1>3, <2>1, <2>2 DEF PaymentStatuses
<1>7. CASE StartCancel(r)
  <2>1. PICK p \in Payments :
           /\ payments[p].status = "PENDING"
           /\ Begins(r, "writeRow", For(p, [payments[p] EXCEPT !.status = "REMOVED"]))
    BY <1>7, StartBegins DEF StartCancel
  <2>2. Prepared("writeRow", p, [payments[p] EXCEPT !.status = "REMOVED"])
    BY <1>1, <2>1 DEF Prepared, PaymentStatuses
  <2>3. Goal
    BY <1>1, <2>1, <2>2 DEF PaymentStatuses
  <2> QED
    BY <1>0, <1>7, <2>3 DEF StartCancel
<1>8. CASE StartExpired(r)
  <2>1. PICK p \in Payments :
           /\ Ended(p, "expired") /\ payments[p].status = "PENDING"
           /\ Begins(r, "writeRow", For(p, [payments[p] EXCEPT !.status = "FAILED"]))
    BY <1>8, StartBegins DEF StartExpired
  <2>2. Prepared("writeRow", p, [payments[p] EXCEPT !.status = "FAILED"])
    BY <1>1, <2>1 DEF Prepared, PaymentStatuses
  <2> QED
    BY <1>1, <1>3, <2>1, <2>2 DEF PaymentStatuses
<1>9. CASE StartCheckout(r)
  <2>1. PICK p \in Payments, amount \in Amounts :
           /\ Fresh(p)
           /\ Begins(r, "failPending", For(p, [status |-> "PENDING", method |-> "STRIPE",
                                               amount |-> amount]))
    BY <1>9, StartBegins DEF StartCheckout
  <2>2. Prepared("failPending", p, [status |-> "PENDING", method |-> "STRIPE",
                                    amount |-> amount])
    BY <2>1 DEF Prepared, Fresh
  <2>3. Goal
    BY <1>2, <2>1, <2>2 DEF PaymentStatuses, Methods
  <2> QED
    BY <1>0, <1>9, <2>3 DEF StartCheckout
<1> QED
  BY <1>4, <1>5, <1>6, <1>7, <1>8, <1>9

\* Request r goes on at `label` with work w; the others stay where they are.
Moves(r, label, w) ==
    /\ pc' = [pc EXCEPT ![r] = label]
    /\ local' = [local EXCEPT ![r] = w]

Stays(s) == pc'[s] = pc[s] /\ local'[s] = local[s]

LEMMA OthersStay ==
    ASSUME TypeOK, NEW r \in Requests, NEW label, NEW w, Moves(r, label, w)
    PROVE  /\ pc'[r] = label /\ local'[r] = w
           /\ \A s \in Requests \ {r} : Stays(s)
  BY DEF TypeOK, Moves, Stays

\* Locks that are somebody else's or nobody's stay so; r releases its own or
\* takes that of its row.
Locking(r, w) ==
    /\ locks' \in [Payments -> Requests \cup {None}]
    /\ \A p \in Payments : locks'[p] \in {locks[p], None, r}
    /\ \A p \in Payments : locks'[p] = r => w.p = p
    /\ \A p \in Payments : locks[p] # r /\ locks[p] # None => locks'[p] = locks[p]

LEMMA TypedStep ==
    ASSUME TypeOK, NEW r \in Requests, NEW label \in Labels, NEW w \in WorkAt(label),
           Moves(r, label, w), Locking(r, w),
           invoice' \in InvoiceRow, payments' \in Rows, sessions' \in Sessions,
           stale' \subseteq Requests, marks' \subseteq {"edited", "byHand", "raced", "overlapped"}
    PROVE  TypeOK'
<1>1. w \in Work
  BY AtHand
<1>2. /\ pc' \in [Requests -> Labels] /\ local' \in [Requests -> Work]
      /\ \A s \in Requests : local'[s] \in WorkAt(pc'[s])
  BY <1>1, OthersStay DEF TypeOK, Moves, Stays
<1>3. ASSUME NEW p \in Payments, locks'[p] # None
      PROVE  local'[locks'[p]].p = p
  <2>1. CASE locks'[p] = r
    BY <2>1, OthersStay DEF Locking
  <2>2. CASE locks'[p] # r
    <3>1. locks'[p] = locks[p] /\ locks[p] \in Requests \ {r}
      BY <1>3, <2>2 DEF Locking, TypeOK
    <3>2. local[locks[p]].p = p
      BY <1>3, <3>1 DEF TypeOK
    <3> QED
      BY <3>1, <3>2, OthersStay DEF Stays
  <2> QED
    BY <2>1, <2>2
<1> QED
  BY <1>2, <1>3 DEF TypeOK, Rows, Sessions, Locking

\* Three ways of going on: with the locks as they are, ...
LEMMA KeepsLocks ==
    ASSUME TypeOK, NEW r \in Requests, NEW w, UNCHANGED locks,
           w.p = local[r].p \/ pc[r] = "idle"
    PROVE  Locking(r, w)
<1>1. ASSUME NEW p \in Payments, locks[p] = r
      PROVE  w.p = p
  <2>1. r # None /\ p # None
    BY NoneAssumption
  <2>2. local[r].p = p
    BY <1>1, <2>1 DEF TypeOK
  <2>3. pc[r] # "idle"
    BY <2>1, <2>2, AtHand DEF TypeOK
  <2> QED
    BY <2>2, <2>3
<1> QED
  BY <1>1 DEF Locking, TypeOK

\* ... at the end of the handler, ...
LEMMA Finished ==
    ASSUME TypeOK, NEW r \in Requests, Finish(r)
    PROVE  /\ Moves(r, "idle", Blank) /\ Locking(r, Blank)
           /\ \A p \in Payments : locks'[p] # r
           /\ Blank \in WorkAt("idle") /\ "idle" \in Labels /\ Blank.p = None
<1>1. Moves(r, "idle", Blank)
  BY DEF Finish, Goto, Moves
<1>2. Locking(r, Blank) /\ \A p \in Payments : locks'[p] # r
  BY NoneAssumption DEF Finish, TypeOK, Locking
<1> QED
  BY <1>1, <1>2, BlankIsWork DEF Labels, Blank, Writing

\* ... or with the lock of the row.
LEMMA TakesLock ==
    ASSUME TypeOK, NEW r \in Requests, local[r].p \in Payments, locks[local[r].p] = None,
           locks' = [locks EXCEPT ![local[r].p] = r]
    PROVE  Locking(r, local[r])
<1>1. ASSUME NEW p \in Payments, locks[p] = r
      PROVE  local[r].p = p
  BY <1>1, NoneAssumption DEF TypeOK
<1> QED
  BY <1>1, NoneAssumption DEF Locking, TypeOK
----------------------------------------------------------------------------
(* What each statement makes of the work at hand. *)

\* A payment's handler carries its row from statement to statement.
CarryLabels == {"check", "update", "readInvoice", "insert", "session", "writeRow", "failPending"}
RowWork == [p : Payments, row : PaymentRow, data : {NoColumns}]

LEMMA CarriedWork ==
    /\ \A label \in CarryLabels : WorkAt(label) = RowWork
    /\ RowWork \subseteq WorkAt("commit")
    /\ WorkAt("count") \subseteq WorkAt("write")
<1>1. ASSUME NEW label \in CarryLabels
      PROVE  DataAt(label) = {NoColumns} /\ label \notin {"idle", "count", "write"}
  BY DEF DataAt, CarryLabels
<1>2. /\ DataAt("commit") = {NoColumns} \cup MoneyColumns
      /\ DataAt("count") = {[deleted |-> TRUE]}
      /\ [deleted |-> TRUE] \in DataAt("write")
  BY DEF DataAt, AllColumns
<1>3. \A label \in CarryLabels : WorkAt(label) = RowWork
  BY <1>1 DEF WorkAt, RowWork
<1>4. /\ WorkAt("commit") = [p : Payments, row : PaymentRow, data : DataAt("commit")]
      /\ WorkAt("count") = [p : {None}, row : {NoPayment}, data : DataAt("count")]
      /\ WorkAt("write") = [p : {None}, row : {NoPayment}, data : DataAt("write")]
  BY DEF WorkAt
<1>5. RowWork \subseteq WorkAt("commit")
  BY <1>2, <1>4 DEF RowWork
<1>6. ASSUME NEW w \in WorkAt("count") PROVE w \in WorkAt("write")
  <2>1. w \in [p : {None}, row : {NoPayment}, data : {[deleted |-> TRUE]}]
    BY <1>2, <1>4
  <2>2. w = [p |-> None, row |-> NoPayment, data |-> [deleted |-> TRUE]]
    BY <2>1
  <2>3. [deleted |-> TRUE] \in DataAt("write")
    BY <1>2
  <2> QED
    BY <1>4, <2>2, <2>3
<1> QED
  BY <1>3, <1>5, <1>6

LEMMA GoesOn ==
    ASSUME TypeOK, NEW r \in Requests, NEW label, Goto(r, label), UNCHANGED <<local, locks>>
    PROVE  Moves(r, label, local[r]) /\ Locking(r, local[r])
  BY KeepsLocks DEF Goto, Moves, TypeOK

LEMMA Counted ==
    ASSUME TypeOK, NEW r \in Requests, CountPayments(r)
    PROVE  \/ Finish(r)
           \/ Moves(r, "write", local[r]) /\ local[r] \in WorkAt("write")
              /\ Locking(r, local[r]) /\ local[r].data = [deleted |-> TRUE]
<1>1. local[r] \in WorkAt("count")
  BY DEF CountPayments, TypeOK
<1>2. local[r] \in WorkAt("write") /\ local[r].data = [deleted |-> TRUE]
  BY <1>1, CarriedWork, AtHand DEF Labels
<1> QED
  BY <1>2, GoesOn DEF CountPayments

LEMMA Checked ==
    ASSUME TypeOK, NEW r \in Requests, CheckFits(r)
    PROVE  \/ Finish(r)
           \/ /\ CanComplete(invoice, payments, local[r].p, local[r].row.amount)
              /\ local[r] \in RowWork /\ Locking(r, local[r])
              /\ Moves(r, IF local[r].row.status = "PENDING" THEN "insert" ELSE "update", local[r])
<1>1. local[r] \in RowWork
  BY CarriedWork DEF CheckFits, TypeOK, CarryLabels
<1> QED
  BY <1>1, GoesOn DEF CheckFits

LEMMA PaymentUpdated ==
    ASSUME TypeOK, NEW r \in Requests, UpdatePayment(r)
    PROVE  \/ Finish(r)
           \/ /\ Moves(r, "readInvoice", local[r]) /\ Locking(r, local[r])
              /\ local[r] \in RowWork
              /\ locks[local[r].p] = None /\ locks'[local[r].p] = r
              /\ payments[local[r].p].status # "REMOVED"
<1>1. local[r] \in RowWork
  BY CarriedWork DEF UpdatePayment, TypeOK, CarryLabels
<1>2. local[r].p \in Payments
  BY <1>1 DEF RowWork
<1>3. ASSUME ~Finish(r)
      PROVE  /\ locks' = [locks EXCEPT ![local[r].p] = r]
             /\ Goto(r, "readInvoice") /\ UNCHANGED local
             /\ locks[local[r].p] = None
             /\ payments[local[r].p].status # "REMOVED"
  BY <1>3 DEF UpdatePayment
<1>4. ASSUME ~Finish(r)
      PROVE  Moves(r, "readInvoice", local[r]) /\ Locking(r, local[r])
  BY <1>2, <1>3, <1>4, TakesLock DEF Goto, Moves, TypeOK
<1> QED
  BY <1>1, <1>2, <1>3, <1>4 DEF TypeOK

LEMMA InvoiceRead ==
    ASSUME TypeOK, NEW r \in Requests, ReadInvoice(r)
    PROVE  LET w == [p |-> local[r].p, row |-> local[r].row,
                     data |-> [total |-> invoice.total, status |-> invoice.status]]
           IN  /\ local[r] \in RowWork
               /\ invoice.deleted => /\ Moves(r, "commit", local[r]) /\ Locking(r, local[r])
               /\ ~invoice.deleted => /\ Moves(r, "readPayments", w) /\ Locking(r, w)
                                      /\ w \in WorkAt("readPayments")
<1> DEFINE w == [p |-> local[r].p, row |-> local[r].row,
                 data |-> [total |-> invoice.total, status |-> invoice.status]]
<1>1. local[r] \in RowWork
  BY CarriedWork DEF ReadInvoice, TypeOK, CarryLabels
<1>2. ASSUME invoice.deleted PROVE Moves(r, "commit", local[r]) /\ Locking(r, local[r])
  BY <1>2, GoesOn DEF ReadInvoice
<1>3. ASSUME ~invoice.deleted
      PROVE  /\ Moves(r, "readPayments", w) /\ Locking(r, w)
             /\ w \in WorkAt("readPayments")
  <2>1. [local[r] EXCEPT !.data = [total |-> invoice.total, status |-> invoice.status]] = w
    BY <1>1 DEF RowWork
  <2>2. Moves(r, "readPayments", w)
    BY <1>3, <2>1 DEF ReadInvoice, Goto, Moves
  <2>3. [total |-> invoice.total, status |-> invoice.status] \in ReadColumns
    BY DEF TypeOK, InvoiceRow, ReadColumns
  <2>4. DataAt("readPayments") = ReadColumns
    BY DEF DataAt
  <2>5. WorkAt("readPayments") = [p : Payments, row : PaymentRow, data : ReadColumns]
    BY <2>4 DEF WorkAt
  <2>6. w \in WorkAt("readPayments")
    BY <1>1, <2>3, <2>5 DEF RowWork
  <2>7. w.p = local[r].p
    OBVIOUS
  <2> HIDE DEF w
  <2> QED
    BY <2>2, <2>6, <2>7, KeepsLocks DEF ReadInvoice
<1> QED
  BY <1>1, <1>2, <1>3

LEMMA VisibleRows ==
    ASSUME TypeOK, NEW r \in Requests, local[r].p \in Payments, local[r].row \in PaymentRow
    PROVE  /\ Visible(r) \in Rows
           /\ Visible(r)[local[r].p] = local[r].row
           /\ \A p \in Payments \ {local[r].p} : Visible(r)[p] = payments[p]
  BY DEF Visible, TypeOK, Rows

LEMMA PaymentsRead ==
    ASSUME TypeOK, NEW r \in Requests, ReadPayments(r)
    PROVE  LET seen == local[r].data
               data == SyncData(seen.total, seen.status, Visible(r))
               w == [p |-> local[r].p, row |-> local[r].row, data |-> data]
           IN  /\ Moves(r, "commit", w) /\ Locking(r, w) /\ w \in WorkAt("commit")
               /\ data \in MoneyColumns /\ Agree(data, seen.total)
               /\ data.paidAmount = CompletedSum(Visible(r))
               /\ seen \in ReadColumns
<1> DEFINE seen == local[r].data
           data == SyncData(seen.total, seen.status, Visible(r))
           w == [p |-> local[r].p, row |-> local[r].row, data |-> data]
<1>1. /\ local[r] = [p |-> local[r].p, row |-> local[r].row, data |-> seen]
      /\ local[r].p \in Payments /\ local[r].row \in PaymentRow
      /\ seen \in ReadColumns
  BY AtHand DEF ReadPayments, TypeOK, Labels
<1>2. seen.total \in Nat /\ seen.status \in InvoiceStatuses
  BY <1>1 DEF ReadColumns
<1>3. /\ data \in MoneyColumns /\ Agree(data, seen.total)
      /\ data.paidAmount = CompletedSum(Visible(r))
  BY <1>1, <1>2, VisibleRows, SummedColumns
<1>4. local' = [local EXCEPT ![r].data = data] /\ pc' = [pc EXCEPT ![r] = "commit"]
  BY DEF ReadPayments, Goto
<1>5. DataAt("commit") = {NoColumns} \cup MoneyColumns
  BY DEF DataAt
<1>6. WorkAt("commit") = [p : Payments, row : PaymentRow, data : {NoColumns} \cup MoneyColumns]
  BY <1>5 DEF WorkAt
<1> HIDE DEF data
<1>7. [local[r] EXCEPT !.data = data] = w
  BY <1>1
<1>8. Moves(r, "commit", w)
  BY <1>4, <1>7 DEF Moves
<1>9. w \in WorkAt("commit")
  BY <1>1, <1>3, <1>6
<1>10. w.p = local[r].p
  OBVIOUS
<1>11. Locking(r, w)
  <2> HIDE DEF w
  <2> QED
    BY <1>10, KeepsLocks DEF ReadPayments
<1> QED
  BY <1>1, <1>3, <1>8, <1>9, <1>11 DEF data

LEMMA InvoiceWritten ==
    ASSUME TypeOK, NEW r \in Requests, WriteInvoice(r)
    PROVE  /\ Finish(r)
           /\ local[r].data \in AllColumns
           /\ invoice' = Updated(local[r].data) /\ invoice' \in InvoiceRow
           /\ marks' = marks \cup (IF local[r].data \in EditColumns THEN {"edited"} ELSE {})
                             \cup (IF local[r].data \in MoneyColumns THEN {"byHand"} ELSE {})
           /\ UNCHANGED <<payments, sessions, stale>>
<1>1. local[r].data \in AllColumns
  BY AtHand DEF WriteInvoice, TypeOK, Labels, AllColumns
<1>2. /\ "total" \in DOMAIN local[r].data <=> local[r].data \in EditColumns
      /\ "paidAmount" \in DOMAIN local[r].data <=> local[r].data \in MoneyColumns
  BY <1>1, ColumnNames DEF AllColumns
<1>3. Updated(local[r].data) \in InvoiceRow
  BY <1>1, UpdatedRow DEF TypeOK
<1> QED
  BY <1>1, <1>2, <1>3 DEF WriteInvoice

LEMMA Committed ==
    ASSUME TypeOK, NEW r \in Requests, CommitPayment(r)
    PROVE  /\ Finish(r)
           /\ local[r].p \in Payments /\ local[r].row \in PaymentRow
           /\ local[r].data \in {NoColumns} \cup MoneyColumns
           /\ payments' = Visible(r) /\ payments' \in Rows
           /\ invoice' = Updated(local[r].data) /\ invoice' \in InvoiceRow
           /\ stale' = (stale \cup Summed) \ {r}
           /\ marks' = IF local[r].data = NoColumns THEN marks
                       ELSE (marks \cap {"edited"})
                              \cup (IF r \in stale THEN {"overlapped"} ELSE {})
           /\ UNCHANGED sessions
<1>1. /\ local[r].p \in Payments /\ local[r].row \in PaymentRow
      /\ local[r].data \in {NoColumns} \cup MoneyColumns
  BY AtHand DEF CommitPayment, TypeOK, Labels
<1>2. Updated(local[r].data) \in InvoiceRow
  BY <1>1, UpdatedRow DEF TypeOK, AllColumns
<1> QED
  BY <1>1, <1>2, VisibleRows DEF CommitPayment

\* A row changes its status, or it is gone and stays so.
LEMMA RowWritten ==
    ASSUME TypeOK, NEW r \in Requests, WriteRow(r)
    PROVE  /\ Finish(r)
           /\ local[r] \in RowWork
           /\ locks[local[r].p] = None
           /\ payments' \in Rows
           /\ \A q \in Payments \ {local[r].p} : payments'[q] = payments[q]
           /\ payments'[local[r].p].amount = payments[local[r].p].amount
           /\ payments'[local[r].p].status = IF Exists(local[r].p) THEN local[r].row.status
                                             ELSE payments[local[r].p].status
           /\ UNCHANGED <<invoice, sessions>>
<1> DEFINE p == local[r].p
           to == local[r].row.status
<1>1. local[r] \in RowWork
  BY CarriedWork DEF WriteRow, TypeOK, CarryLabels
<1>2. p \in Payments /\ to \in PaymentStatuses /\ payments \in Rows
  BY <1>1 DEF RowWork, PaymentRow, TypeOK, Rows
<1>3. payments' = IF Exists(p) THEN [payments EXCEPT ![p].status = to] ELSE payments
  BY DEF WriteRow
<1> HIDE DEF p, to
<1>4. /\ payments' \in Rows
      /\ \A q \in Payments \ {p} : payments'[q] = payments[q]
      /\ payments'[p].amount = payments[p].amount
      /\ payments'[p].status = IF Exists(p) THEN to ELSE payments[p].status
  BY <1>2, <1>3 DEF Rows, PaymentRow
<1> QED
  BY <1>1, <1>4 DEF WriteRow, p, to

LEMMA OthersFailed ==
    ASSUME TypeOK, NEW r \in Requests, FailPending(r)
    PROVE  /\ Moves(r, "check", local[r]) /\ Locking(r, local[r])
           /\ local[r] \in RowWork
           /\ payments' \in Rows
           /\ \A q \in Payments :
                 /\ payments'[q].amount = payments[q].amount
                 /\ payments'[q].status = IF q \in PendingStripe THEN "FAILED"
                                          ELSE payments[q].status
           /\ UNCHANGED <<invoice, sessions, locks, stale, marks>>
<1>1. local[r] \in RowWork
  BY CarriedWork DEF FailPending, TypeOK, CarryLabels
<1>2. payments \in Rows
  BY DEF TypeOK, Rows
<1>3. payments' = [p \in Payments |-> IF p \in PendingStripe
                                      THEN [payments[p] EXCEPT !.status = "FAILED"]
                                      ELSE payments[p]]
  BY DEF FailPending
<1>4. /\ payments' \in Rows
      /\ \A q \in Payments :
            /\ payments'[q].amount = payments[q].amount
            /\ payments'[q].status = IF q \in PendingStripe THEN "FAILED"
                                     ELSE payments[q].status
  BY <1>2, <1>3 DEF Rows, PaymentRow, PaymentStatuses
<1> QED
  BY <1>1, <1>4, GoesOn DEF FailPending

LEMMA PendingInserted ==
    ASSUME TypeOK, NEW r \in Requests, InsertPending(r)
    PROVE  /\ Moves(r, "session", local[r]) /\ Locking(r, local[r])
           /\ local[r] \in RowWork
           /\ payments' \in Rows
           /\ payments'[local[r].p] = local[r].row
           /\ \A q \in Payments \ {local[r].p} : payments'[q] = payments[q]
           /\ UNCHANGED <<invoice, sessions, locks, stale, marks>>
<1>1. local[r] \in RowWork
  BY CarriedWork DEF InsertPending, TypeOK, CarryLabels
<1>2. local[r].p \in Payments /\ local[r].row \in PaymentRow
  BY <1>1 DEF RowWork
<1> QED
  BY <1>1, <1>2, VisibleRows, GoesOn DEF InsertPending

LEMMA SessionOpened ==
    ASSUME TypeOK, NEW r \in Requests, OpenSession(r)
    PROVE  LET w == [p |-> local[r].p, data |-> NoColumns,
                     row |-> [status |-> "FAILED", method |-> local[r].row.method,
                              amount |-> local[r].row.amount]]
           IN  /\ sessions' \in Sessions
               /\ \/ Finish(r) /\ sessions' = [sessions EXCEPT ![local[r].p] = "open"]
                  \/ /\ Moves(r, "writeRow", w) /\ Locking(r, w) /\ w \in RowWork
                     /\ UNCHANGED <<sessions, locks>>
               /\ local[r] \in RowWork
               /\ UNCHANGED <<invoice, payments, stale, marks>>
<1> DEFINE row == [status |-> "FAILED", method |-> local[r].row.method,
                   amount |-> local[r].row.amount]
           w == [p |-> local[r].p, data |-> NoColumns, row |-> row]
<1>1. local[r] \in RowWork
  BY CarriedWork DEF OpenSession, TypeOK, CarryLabels
<1>2. /\ local[r] = [p |-> local[r].p, row |-> local[r].row, data |-> NoColumns]
      /\ local[r].p \in Payments /\ local[r].row \in PaymentRow
  BY <1>1 DEF RowWork
<1>3. row \in PaymentRow /\ [local[r].row EXCEPT !.status = "FAILED"] = row
  BY <1>2 DEF PaymentRow, PaymentStatuses
<1>4. ASSUME local' = [local EXCEPT ![r].row.status = "FAILED"]
      PROVE  local' = [local EXCEPT ![r] = w]
  <2>1. [local[r] EXCEPT !.row.status = "FAILED"]
          = [local[r] EXCEPT !.row = [local[r].row EXCEPT !.status = "FAILED"]]
    BY <1>2
  <2>2. [local[r] EXCEPT !.row.status = "FAILED"] = [local[r] EXCEPT !.row = row]
    BY <1>3, <2>1
  <2> HIDE DEF row
  <2>3. [local[r] EXCEPT !.row = row] = w
    BY <1>2
  <2> HIDE DEF w
  <2> QED
    BY <1>4, <2>2, <2>3
<1>5. w \in RowWork
  BY <1>2, <1>3 DEF RowWork
<1>6. sessions' \in Sessions
  BY <1>2 DEF OpenSession, TypeOK, Sessions
<1>7. ASSUME ~(Finish(r) /\ sessions' = [sessions EXCEPT ![local[r].p] = "open"])
      PROVE  /\ Moves(r, "writeRow", w) /\ Locking(r, w)
             /\ UNCHANGED <<sessions, locks>>
  <2>1. /\ Goto(r, "writeRow") /\ local' = [local EXCEPT ![r].row.status = "FAILED"]
        /\ UNCHANGED <<sessions, locks>>
    BY <1>7 DEF OpenSession
  <2>2. w.p = local[r].p
    OBVIOUS
  <2> HIDE DEF w
  <2> QED
    BY <1>4, <2>1, <2>2, KeepsLocks DEF Goto, Moves
<1> QED
  BY <1>1, <1>5, <1>6, <1>7 DEF OpenSession
----------------------------------------------------------------------------
(* Type correctness. *)

LEMMA BeginsMoves ==
    ASSUME TypeOK, NEW r \in Requests, NEW label \in Labels, NEW w \in WorkAt(label),
           Begins(r, label, w)
    PROVE  /\ Moves(r, label, w) /\ Locking(r, w)
           /\ UNCHANGED <<invoice, payments, locks, stale, marks>>
  BY KeepsLocks DEF Begins, Moves

LEMMA TypedBegin ==
    ASSUME TypeOK, NEW r \in Requests, Begin(r)
    PROVE  TypeOK'
<1>0. /\ invoice \in InvoiceRow /\ payments \in Rows /\ sessions \in Sessions
      /\ stale \subseteq Requests /\ marks \subseteq {"edited", "byHand", "raced", "overlapped"}
  BY DEF TypeOK, Rows, Sessions
<1>1. CASE \/ StartSend(r) \/ StartEdit(r) \/ StartStatus(r) \/ StartDelete(r)
           \/ StartView(r) \/ StartOverdue(r)
  <2>1. UNCHANGED sessions
    BY <1>1, BeginOnInvoice
  <2>2. PICK label \in {"count", "write"} : \E data \in DataAt(label) :
           Begins(r, label, Writing(data))
    BY <1>1, BeginOnInvoice
  <2>3. PICK data \in DataAt(label) : Begins(r, label, Writing(data))
    BY <2>2
  <2>4. label \in Labels /\ Writing(data) \in WorkAt(label)
    BY WorkOnInvoice DEF Labels
  <2> QED
    BY <1>0, <2>1, <2>3, <2>4, BeginsMoves, TypedStep
<1>2. CASE \/ StartRecord(r) \/ StartSettle(r) \/ StartPaid(r) \/ StartCancel(r)
           \/ StartExpired(r) \/ StartCheckout(r)
  <2>1. sessions' \in Sessions
    BY <1>2, BeginOnPayment
  <2>2. PICK label \in {"check", "update", "writeRow", "failPending"} :
           \E p \in Payments, row \in PaymentRow : Begins(r, label, For(p, row))
    BY <1>2, BeginOnPayment
  <2>3. PICK p \in Payments, row \in PaymentRow : Begins(r, label, For(p, row))
    BY <2>2
  <2>4. label \in Labels /\ For(p, row) \in WorkAt(label)
    BY WorkOnPayment DEF Labels
  <2> QED
    BY <1>0, <2>1, <2>3, <2>4, BeginsMoves, TypedStep
<1> QED
  BY <1>1, <1>2 DEF Begin

LEMMA TypedContinue ==
    ASSUME TypeOK, NEW r \in Requests, Continue(r) \/ Crash(r)
    PROVE  TypeOK'
<1>0. /\ invoice \in InvoiceRow /\ payments \in Rows /\ sessions \in Sessions
      /\ stale \subseteq Requests /\ marks \subseteq {"edited", "byHand", "raced", "overlapped"}
      /\ Summed \subseteq Requests
  BY DEF TypeOK, Rows, Sessions, Summed
<1>1. ASSUME Finish(r), invoice' \in InvoiceRow, payments' \in Rows, sessions' \in Sessions,
             stale' \subseteq Requests,
             marks' \subseteq {"edited", "byHand", "raced", "overlapped"}
      PROVE  TypeOK'
  BY <1>1, Finished, TypedStep
<1>2. ASSUME NEW label \in CarryLabels, NEW w \in RowWork, Moves(r, label, w), Locking(r, w),
             invoice' \in InvoiceRow, payments' \in Rows, sessions' \in Sessions,
             stale' \subseteq Requests,
             marks' \subseteq {"edited", "byHand", "raced", "overlapped"}
      PROVE  TypeOK'
  <2>1. label \in Labels /\ w \in WorkAt(label)
    BY CarriedWork DEF CarryLabels, Labels
  <2> QED
    BY <1>2, <2>1, TypedStep
<1>3. CASE CountPayments(r)
  <2>1. UNCHANGED <<invoice, payments, sessions, stale, marks>>
    BY <1>3 DEF CountPayments
  <2>2. ASSUME Moves(r, "write", local[r]), local[r] \in WorkAt("write"), Locking(r, local[r])
        PROVE  TypeOK'
    BY <1>0, <2>1, <2>2, TypedStep DEF Labels
  <2> QED
    BY <1>0, <1>1, <1>3, <2>1, <2>2, Counted
<1>4. CASE WriteInvoice(r)
  BY <1>0, <1>1, <1>4, InvoiceWritten
<1>5. CASE CheckFits(r)
  <2>1. UNCHANGED <<invoice, payments, sessions, stale, marks>>
    BY <1>5 DEF CheckFits
  <2>2. (IF local[r].row.status = "PENDING" THEN "insert" ELSE "update") \in CarryLabels
    BY DEF CarryLabels
  <2> QED
    BY <1>0, <1>1, <1>2, <1>5, <2>1, <2>2, Checked
<1>6. CASE UpdatePayment(r)
  <2>1. UNCHANGED <<invoice, payments, sessions, stale, marks>>
    BY <1>6 DEF UpdatePayment
  <2> QED
    BY <1>0, <1>1, <1>2, <1>6, <2>1, PaymentUpdated DEF CarryLabels
<1>7. CASE ReadInvoice(r)
  <2>1. UNCHANGED <<invoice, payments, sessions, stale, marks>>
    BY <1>7 DEF ReadInvoice
  <2>2. CASE invoice.deleted
    <3>1. local[r] \in WorkAt("commit") /\ Moves(r, "commit", local[r]) /\ Locking(r, local[r])
      BY <1>7, <2>2, InvoiceRead, CarriedWork
    <3> QED
      BY <1>0, <2>1, <3>1, TypedStep DEF Labels
  <2>3. CASE ~invoice.deleted
    <3>1. PICK w \in WorkAt("readPayments") : Moves(r, "readPayments", w) /\ Locking(r, w)
      BY <1>7, <2>3, InvoiceRead
    <3> QED
      BY <1>0, <2>1, <3>1, TypedStep DEF Labels
  <2> QED
    BY <2>2, <2>3 DEF TypeOK, InvoiceRow
<1>8. CASE ReadPayments(r)
  <2>1. UNCHANGED <<invoice, payments, sessions, stale, marks>>
    BY <1>8 DEF ReadPayments
  <2>2. PICK w \in WorkAt("commit") : Moves(r, "commit", w) /\ Locking(r, w)
    BY <1>8, PaymentsRead
  <2> QED
    BY <1>0, <2>1, <2>2, TypedStep DEF Labels
<1>9. CASE CommitPayment(r)
  BY <1>0, <1>1, <1>9, Committed
<1>10. CASE WriteRow(r)
  <2>1. stale' \subseteq Requests /\ marks' \subseteq {"edited", "byHand", "raced", "overlapped"}
    BY <1>0, <1>10 DEF WriteRow
  <2> QED
    BY <1>0, <1>1, <1>10, <2>1, RowWritten
<1>11. CASE FailPending(r)
  BY <1>0, <1>2, <1>11, OthersFailed DEF CarryLabels
<1>12. CASE InsertPending(r)
  BY <1>0, <1>2, <1>12, PendingInserted DEF CarryLabels
<1>13. CASE OpenSession(r)
  BY <1>0, <1>1, <1>2, <1>13, SessionOpened DEF CarryLabels
<1>14. CASE Crash(r)
  BY <1>0, <1>1, <1>14 DEF Crash
<1> QED
  BY <1>3, <1>4, <1>5, <1>6, <1>7, <1>8, <1>9, <1>10, <1>11, <1>12, <1>13, <1>14 DEF Continue

\* However many requests run and wherever they die, rows, locks and what each
\* request has at hand keep their shape: a lock is held by a request at work on
\* the locked row, and no statement writes a column that is not its own.
THEOREM TypeCorrect == Spec => []TypeOK
<1>1. Init => TypeOK
  <2> SUFFICES ASSUME Init PROVE TypeOK
    OBVIOUS
  <2>1. invoice \in InvoiceRow
    BY TotalAssumption DEF Init, NewInvoice, InvoiceRow, InvoiceStatuses
  <2>2. NoPayment \in PaymentRow
    BY DEF NoPayment, PaymentRow, PaymentStatuses, Methods
  <2>3. "idle" \in Labels /\ Blank \in Work
    BY BlankIsWork, AtHand DEF Labels
  <2>4. pc \in [Requests -> Labels] /\ local \in [Requests -> Work]
    BY <2>3 DEF Init
  <2>5. \A r \in Requests : local[r] \in WorkAt(pc[r])
    BY BlankIsWork DEF Init
  <2> QED
    BY <2>1, <2>2, <2>4, <2>5 DEF Init, TypeOK
<1>2. TypeOK /\ [Next]_vars => TypeOK'
  <2> SUFFICES ASSUME TypeOK, [Next]_vars PROVE TypeOK'
    OBVIOUS
  <2>1. CASE UNCHANGED vars
    BY <2>1 DEF vars, TypeOK
  <2> QED
    BY <2>1, TypedBegin, TypedContinue DEF Next
<1> QED
  BY <1>1, <1>2, PTL DEF Spec
----------------------------------------------------------------------------
(* The money columns. *)

\* Besides the invoice, what requests are about to write to it: a change by hand
\* agrees with the total it has read, and a recomputation is made for the total
\* of the invoice, because only an edit changes that.
MoneyInv ==
    "edited" \notin marks =>
        /\ Agree(invoice, invoice.total)
        /\ \A r \in Requests :
              /\ local[r].data \in MoneyColumns => Agree(local[r].data, invoice.total)
              /\ pc[r] = "readPayments" => local[r].data.total = invoice.total

\* What requests have at hand keeps agreeing when the total stays.
LEMMA MoneyKept ==
    ASSUME TypeOK, MoneyInv, NEW r \in Requests, NEW label, NEW w, Moves(r, label, w),
           "edited" \notin marks' => /\ "edited" \notin marks
                                     /\ invoice'.total = invoice.total
                                     /\ Agree(invoice', invoice'.total)
                                     /\ w.data \in MoneyColumns => Agree(w.data, invoice.total)
                                     /\ label = "readPayments" => w.data.total = invoice.total
    PROVE  MoneyInv'
<1> SUFFICES ASSUME "edited" \notin marks'
             PROVE  /\ Agree(invoice', invoice'.total)
                    /\ \A s \in Requests :
                          /\ local'[s].data \in MoneyColumns
                                => Agree(local'[s].data, invoice'.total)
                          /\ pc'[s] = "readPayments" => local'[s].data.total = invoice'.total
  BY DEF MoneyInv
<1>1. pc'[r] = label /\ local'[r] = w /\ \A s \in Requests \ {r} : Stays(s)
  BY OthersStay
<1>2. ASSUME NEW s \in Requests
      PROVE  /\ local'[s].data \in MoneyColumns => Agree(local'[s].data, invoice'.total)
             /\ pc'[s] = "readPayments" => local'[s].data.total = invoice'.total
  BY <1>1 DEF MoneyInv, Stays
<1> QED
  BY <1>2

LEMMA MoneyBegin ==
    ASSUME WholeCents, TypeOK, MoneyInv, NEW r \in Requests, Begin(r)
    PROVE  MoneyInv'
<1>1. CASE \/ StartSend(r) \/ StartEdit(r) \/ StartStatus(r) \/ StartDelete(r)
           \/ StartView(r) \/ StartOverdue(r)
  <2>1. PICK label \in {"count", "write"} : \E data \in DataAt(label) :
           /\ Begins(r, label, Writing(data))
           /\ data \in MoneyColumns /\ WholeCents => Agree(data, invoice.total)
    BY <1>1, BeginOnInvoice
  <2>2. PICK data \in DataAt(label) :
           /\ Begins(r, label, Writing(data))
           /\ data \in MoneyColumns /\ WholeCents => Agree(data, invoice.total)
    BY <2>1
  <2>3. label \in Labels /\ Writing(data) \in WorkAt(label) /\ Writing(data).data = data
    BY WorkOnInvoice DEF Labels
  <2>4. Moves(r, label, Writing(data)) /\ UNCHANGED <<invoice, marks>>
    BY <2>2, <2>3, BeginsMoves
  <2> QED
    BY <2>2, <2>3, <2>4, MoneyKept DEF MoneyInv
<1>2. CASE \/ StartRecord(r) \/ StartSettle(r) \/ StartPaid(r) \/ StartCancel(r)
           \/ StartExpired(r) \/ StartCheckout(r)
  <2>1. PICK label \in {"check", "update", "writeRow", "failPending"} :
           \E p \in Payments, row \in PaymentRow : Begins(r, label, For(p, row))
    BY <1>2, BeginOnPayment
  <2>2. PICK p \in Payments, row \in PaymentRow : Begins(r, label, For(p, row))
    BY <2>1
  <2>3. label \in Labels /\ For(p, row) \in WorkAt(label) /\ For(p, row).data = NoColumns
    BY WorkOnPayment DEF Labels
  <2>4. Moves(r, label, For(p, row)) /\ UNCHANGED <<invoice, marks>>
    BY <2>2, <2>3, BeginsMoves
  <2>5. NoColumns \notin MoneyColumns
    BY ColumnNames
  <2> QED
    BY <2>3, <2>4, <2>5, MoneyKept DEF MoneyInv
<1> QED
  BY <1>1, <1>2 DEF Begin

LEMMA MoneyContinue ==
    ASSUME TypeOK, MoneyInv, NEW r \in Requests, Continue(r) \/ Crash(r)
    PROVE  MoneyInv'
<1>0. NoColumns \notin MoneyColumns /\ [deleted |-> TRUE] \notin MoneyColumns
  BY ColumnNames
<1>1. Blank.data = NoColumns
  BY DEF Blank, Writing
<1>2. ASSUME UNCHANGED <<invoice, marks>>, NEW label, NEW w, Moves(r, label, w),
             "edited" \notin marks =>
                /\ w.data \in MoneyColumns => Agree(w.data, invoice.total)
                /\ label = "readPayments" => w.data.total = invoice.total
      PROVE  MoneyInv'
  BY <1>2, MoneyKept DEF MoneyInv
<1>3. ASSUME UNCHANGED <<invoice, marks>>, Finish(r)
      PROVE  MoneyInv'
  BY <1>0, <1>1, <1>2, <1>3, Finished
<1>4. ASSUME UNCHANGED <<invoice, marks>>, NEW label \in CarryLabels \cup {"commit"},
             NEW w \in RowWork, Moves(r, label, w)
      PROVE  MoneyInv'
  BY <1>0, <1>2, <1>4 DEF RowWork, CarryLabels
<1>5. CASE CountPayments(r)
  <2>1. UNCHANGED <<invoice, marks>>
    BY <1>5 DEF CountPayments
  <2> QED
    BY <1>0, <1>2, <1>3, <1>5, <2>1, Counted
<1>6. CASE WriteInvoice(r)
  <2> DEFINE data == local[r].data
  <2>1. /\ data \in AllColumns /\ invoice' = Updated(data)
        /\ marks' = marks \cup (IF data \in EditColumns THEN {"edited"} ELSE {})
                          \cup (IF data \in MoneyColumns THEN {"byHand"} ELSE {})
        /\ Moves(r, "idle", Blank)
    BY <1>6, InvoiceWritten, Finished
  <2>2. "edited" \notin marks' => "edited" \notin marks /\ data \notin EditColumns
    BY <2>1
  <2>3. ASSUME "edited" \notin marks'
        PROVE  invoice'.total = invoice.total /\ Agree(invoice', invoice'.total)
    <3>1. Agree(invoice, invoice.total) /\ (data \in MoneyColumns => Agree(data, invoice.total))
      BY <2>2, <2>3 DEF MoneyInv
    <3>2. /\ invoice'.status = IF data \in StatusColumns \cup MoneyColumns THEN data.status
                               ELSE invoice.status
          /\ invoice'.total = invoice.total
          /\ invoice'.paidAmount = IF data \in MoneyColumns THEN data.paidAmount
                                   ELSE invoice.paidAmount
          /\ invoice'.balanceDue = IF data \in MoneyColumns THEN data.balanceDue
                                   ELSE invoice.balanceDue
      BY <2>1, <2>2, <2>3, UpdatedRow DEF TypeOK
    <3>3. data \in StatusColumns
            => data.status \notin {"PARTIALLY_PAID", "PAID", "REFUNDED"} /\ data \notin MoneyColumns
      BY ColumnNames DEF StatusColumns
    <3> HIDE DEF data
    <3> QED
      BY <3>1, <3>2, <3>3 DEF Agree
  <2> QED
    BY <1>0, <1>1, <2>1, <2>2, <2>3, MoneyKept
<1>7. CASE CheckFits(r)
  <2>1. UNCHANGED <<invoice, marks>>
    BY <1>7 DEF CheckFits
  <2>2. (IF local[r].row.status = "PENDING" THEN "insert" ELSE "update") \in CarryLabels
    BY DEF CarryLabels
  <2> QED
    BY <1>3, <1>4, <1>7, <2>1, <2>2, Checked
<1>8. CASE UpdatePayment(r)
  <2>1. UNCHANGED <<invoice, marks>>
    BY <1>8 DEF UpdatePayment
  <2> QED
    BY <1>3, <1>4, <1>8, <2>1, PaymentUpdated DEF CarryLabels
<1>9. CASE ReadInvoice(r)
  <2>1. UNCHANGED <<invoice, marks>>
    BY <1>9 DEF ReadInvoice
  <2>2. CASE invoice.deleted
    BY <1>4, <1>9, <2>1, <2>2, InvoiceRead
  <2>3. CASE ~invoice.deleted
    <3> DEFINE w == [p |-> local[r].p, row |-> local[r].row,
                     data |-> [total |-> invoice.total, status |-> invoice.status]]
    <3>1. Moves(r, "readPayments", w)
      BY <1>9, <2>3, InvoiceRead
    <3>2. DOMAIN [total |-> invoice.total, status |-> invoice.status] = {"total", "status"}
      OBVIOUS
    <3>3. w.data \notin MoneyColumns /\ w.data.total = invoice.total
      BY <3>2, ColumnNames
    <3> HIDE DEF w
    <3> QED
      BY <1>2, <2>1, <3>1, <3>3
  <2> QED
    BY <2>2, <2>3 DEF TypeOK, InvoiceRow
<1>10. CASE ReadPayments(r)
  <2>1. UNCHANGED <<invoice, marks>>
    BY <1>10 DEF ReadPayments
  <2> DEFINE data == SyncData(local[r].data.total, local[r].data.status, Visible(r))
             w == [p |-> local[r].p, row |-> local[r].row, data |-> data]
  <2>2. Moves(r, "commit", w) /\ Agree(data, local[r].data.total) /\ w.data = data
    BY <1>10, PaymentsRead
  <2>3. "edited" \notin marks => local[r].data.total = invoice.total
    BY <1>10 DEF MoneyInv, ReadPayments
  <2> HIDE DEF w, data
  <2> QED
    BY <1>2, <2>1, <2>2, <2>3
<1>11. CASE CommitPayment(r)
  <2> DEFINE data == local[r].data
  <2>1. /\ data \in {NoColumns} \cup MoneyColumns /\ invoice' = Updated(data)
        /\ "edited" \in marks' <=> "edited" \in marks
        /\ Moves(r, "idle", Blank)
    BY <1>11, Committed, Finished
  <2>2. ASSUME "edited" \notin marks'
        PROVE  invoice'.total = invoice.total /\ Agree(invoice', invoice'.total)
    <3>1. Agree(invoice, invoice.total) /\ (data \in MoneyColumns => Agree(data, invoice.total))
      BY <2>1, <2>2 DEF MoneyInv
    <3>2. data \notin EditColumns /\ data \notin StatusColumns
      BY <2>1, ColumnNames
    <3>3. /\ invoice'.status = IF data \in MoneyColumns THEN data.status ELSE invoice.status
          /\ invoice'.total = invoice.total
          /\ invoice'.paidAmount = IF data \in MoneyColumns THEN data.paidAmount
                                   ELSE invoice.paidAmount
          /\ invoice'.balanceDue = IF data \in MoneyColumns THEN data.balanceDue
                                   ELSE invoice.balanceDue
      BY <2>1, <3>2, UpdatedRow DEF TypeOK, AllColumns
    <3> HIDE DEF data
    <3> QED
      BY <3>1, <3>3 DEF Agree
  <2> QED
    BY <1>0, <1>1, <2>1, <2>2, MoneyKept
<1>12. CASE WriteRow(r)
  <2>1. UNCHANGED invoice /\ ("edited" \in marks' <=> "edited" \in marks)
    BY <1>12 DEF WriteRow
  <2>2. Moves(r, "idle", Blank)
    BY <1>12, RowWritten, Finished
  <2> QED
    BY <1>0, <1>1, <2>1, <2>2, MoneyKept DEF MoneyInv
<1>13. CASE FailPending(r)
  BY <1>4, <1>13, OthersFailed DEF CarryLabels
<1>14. CASE InsertPending(r)
  BY <1>4, <1>14, PendingInserted DEF CarryLabels
<1>15. CASE OpenSession(r)
  BY <1>3, <1>4, <1>15, SessionOpened DEF CarryLabels
<1>16. CASE Crash(r)
  BY <1>3, <1>16 DEF Crash
<1> QED
  BY <1>5, <1>6, <1>7, <1>8, <1>9, <1>10, <1>11, <1>12, <1>13, <1>14, <1>15, <1>16 DEF Continue

LEMMA MoneyInit == Init => MoneyInv
<1> SUFFICES ASSUME Init PROVE MoneyInv
  OBVIOUS
<1>1. PICK total \in Totals : invoice = NewInvoice(total)
  BY DEF Init
<1>2. total \in Nat /\ invoice.total = total
  BY <1>1, TotalAssumption DEF NewInvoice
<1>3. Agree(invoice, invoice.total)
  BY <1>1, <1>2 DEF NewInvoice, Agree, Outstanding
<1>4. ASSUME NEW r \in Requests
      PROVE  local[r].data \notin MoneyColumns /\ pc[r] # "readPayments"
  BY ColumnNames DEF Init, Blank, Writing
<1> QED
  BY <1>3, <1>4 DEF MoneyInv

\* The money columns of the invoice agree with one another and with its status
\* at every moment, whichever statements of however many requests interleave and
\* wherever a request dies, until an edit of a draft changes the total.
THEOREM MoneyAgrees ==
    ASSUME WholeCents
    PROVE  Spec => []MoneyIsConsistent
<1>1. TypeOK /\ MoneyInv /\ [Next]_vars => MoneyInv'
  <2> SUFFICES ASSUME TypeOK, MoneyInv, [Next]_vars PROVE MoneyInv'
    OBVIOUS
  <2>1. CASE UNCHANGED vars
    BY <2>1 DEF vars, MoneyInv
  <2> QED
    BY <2>1, MoneyBegin, MoneyContinue DEF Next
<1>2. TypeOK /\ MoneyInv => MoneyIsConsistent
  BY DEF TypeOK, InvoiceRow, MoneyInv, Agree, MoneyIsConsistent
<1> QED
  BY <1>1, <1>2, MoneyInit, TypeCorrect, PTL DEF Spec
----------------------------------------------------------------------------
(* Locks, and who writes which row. *)

\* From its write of the payment to the commit a request holds the row's lock.
LockedLabels == {"readInvoice", "readPayments", "commit"}

\* What a request can be about to store.
Carries(label, w) ==
    w.p \in Payments =>
        /\ w.row.status # "ABSENT"
        /\ label = "writeRow" => w.row.status \in {"FAILED", "REMOVED"}
        /\ label \in {"failPending", "insert", "session"} => w.row.status = "PENDING"

\* A checkout that has not stored its row yet.
Creating(label, w) == /\ label \in {"failPending", "check", "insert"}
                      /\ w.row.status = "PENDING"

\* Two requests never work on one row before it exists: a checkout finds the
\* row of its payment as it left it.
RowsInv ==
    /\ \A r \in Requests : Carries(pc[r], local[r])
    /\ \A r \in Requests : Creating(pc[r], local[r]) => payments[local[r].p].status = "ABSENT"
    /\ \A r, s \in Requests :
          r # s /\ local[r].p = local[s].p /\ local[r].p \in Payments
              => payments[local[r].p].status # "ABSENT"
    /\ \A r \in Requests : pc[r] \in LockedLabels => locks[local[r].p] = r

\* No row returns to what it was before its creation, and only that of r is created.
NoneVanishes == \A q \in Payments : payments[q].status # "ABSENT" => payments'[q].status # "ABSENT"
CreatesOwn(r) == \A q \in Payments \ {local[r].p} :
                    payments[q].status = "ABSENT" => payments'[q].status = "ABSENT"

LEMMA RowAtHand ==
    ASSUME TypeOK, NEW r \in Requests
    PROVE  /\ pc[r] \in LockedLabels \cup CarryLabels => local[r].p \in Payments
           /\ local[r].p \in Payments => local[r].row \in PaymentRow
           /\ local[r].p \in Payments \cup {None}
           /\ pc[r] = "idle" => local[r].p = None
<1>1. pc[r] \in Labels /\ local[r] \in WorkAt(pc[r])
  BY DEF TypeOK
<1> QED
  BY <1>1, AtHand, NoneAssumption DEF LockedLabels, CarryLabels

LEMMA RowsKept ==
    ASSUME TypeOK, RowsInv, NEW r \in Requests, NEW label, NEW w,
           Moves(r, label, w), Locking(r, w), Carries(label, w),
           NoneVanishes, CreatesOwn(r),
           w.p \in Payments /\ w.p # local[r].p =>
               payments'[w.p].status # "ABSENT" \/ \A s \in Requests : local[s].p # w.p,
           Creating(label, w) => payments'[w.p].status = "ABSENT",
           label \in LockedLabels => locks'[w.p] = r
    PROVE  RowsInv'
<1>1. pc'[r] = label /\ local'[r] = w /\ \A s \in Requests \ {r} : Stays(s)
  BY OthersStay
<1>2. ASSUME NEW s \in Requests PROVE Carries(pc'[s], local'[s])
  BY <1>1 DEF RowsInv, Stays
<1>3. ASSUME NEW s \in Requests, Creating(pc'[s], local'[s])
      PROVE  payments'[local'[s].p].status = "ABSENT"
  <2>1. CASE s = r
    BY <1>1, <1>3, <2>1
  <2>2. CASE s # r
    <3>1. Creating(pc[s], local[s]) /\ local'[s] = local[s]
      BY <1>1, <1>3, <2>2 DEF Stays
    <3>2. payments[local[s].p].status = "ABSENT"
      BY <3>1 DEF RowsInv
    <3>3. local[s].p \in Payments
      BY <3>1, RowAtHand DEF Creating, CarryLabels
    <3>4. local[r].p # local[s].p
      BY <2>2, <3>2, <3>3 DEF RowsInv
    <3> QED
      BY <3>1, <3>2, <3>3, <3>4 DEF CreatesOwn
  <2> QED
    BY <2>1, <2>2
<1>4. ASSUME NEW s \in Requests, NEW t \in Requests, s # t,
             local'[s].p = local'[t].p, local'[s].p \in Payments
      PROVE  payments'[local'[s].p].status # "ABSENT"
  <2>1. CASE s # r /\ t # r
    <3>1. local'[s] = local[s] /\ local'[t] = local[t]
      BY <1>1, <2>1 DEF Stays
    <3> QED
      BY <1>4, <3>1 DEF RowsInv, NoneVanishes
  <2>2. ASSUME NEW o \in Requests \ {r}, local'[o].p = w.p, w.p \in Payments
        PROVE  payments'[w.p].status # "ABSENT"
    <3>1. local[o].p = w.p
      BY <1>1, <2>2 DEF Stays
    <3>2. CASE w.p = local[r].p
      BY <2>2, <3>1, <3>2 DEF RowsInv, NoneVanishes
    <3>3. CASE w.p # local[r].p
      BY <2>2, <3>1, <3>3
    <3> QED
      BY <3>2, <3>3
  <2> QED
    BY <1>1, <1>4, <2>1, <2>2
<1>5. ASSUME NEW s \in Requests, pc'[s] \in LockedLabels
      PROVE  locks'[local'[s].p] = s
  <2>1. CASE s = r
    BY <1>1, <1>5, <2>1
  <2>2. CASE s # r
    <3>1. pc[s] \in LockedLabels /\ local'[s] = local[s]
      BY <1>1, <1>5, <2>2 DEF Stays
    <3>2. local[s].p \in Payments /\ locks[local[s].p] = s
      BY <3>1, RowAtHand DEF RowsInv
    <3> QED
      BY <2>2, <3>1, <3>2, NoneAssumption DEF Locking
  <2> QED
    BY <2>1, <2>2
<1> QED
  BY <1>2, <1>3, <1>4, <1>5 DEF RowsInv

LEMMA RowsBegin ==
    ASSUME TypeOK, RowsInv, NEW r \in Requests, Begin(r)
    PROVE  RowsInv'
<1>1. CASE \/ StartSend(r) \/ StartEdit(r) \/ StartStatus(r) \/ StartDelete(r)
           \/ StartView(r) \/ StartOverdue(r)
  <2>1. PICK label \in {"count", "write"} : \E data \in DataAt(label) :
           Begins(r, label, Writing(data))
    BY <1>1, BeginOnInvoice
  <2>2. PICK data \in DataAt(label) : Begins(r, label, Writing(data))
    BY <2>1
  <2>3. /\ label \in Labels /\ Writing(data) \in WorkAt(label) /\ Writing(data).p \notin Payments
        /\ label \notin LockedLabels
    BY WorkOnInvoice, NoneAssumption DEF Labels, LockedLabels
  <2>4. Moves(r, label, Writing(data)) /\ Locking(r, Writing(data)) /\ UNCHANGED payments
    BY <2>2, <2>3, BeginsMoves
  <2>5. ~Creating(label, Writing(data)) /\ Carries(label, Writing(data))
    BY <2>3 DEF Creating, Carries
  <2> QED
    BY <2>3, <2>4, <2>5, RowsKept DEF NoneVanishes, CreatesOwn
<1>2. CASE \/ StartRecord(r) \/ StartSettle(r) \/ StartPaid(r) \/ StartCancel(r)
           \/ StartExpired(r) \/ StartCheckout(r)
  <2>1. PICK label \in {"check", "update", "writeRow", "failPending"} :
           \E p \in Payments, row \in PaymentRow :
              Begins(r, label, For(p, row)) /\ Prepared(label, p, row)
    BY <1>2, BeginOnPayment
  <2>2. PICK p \in Payments, row \in PaymentRow :
              Begins(r, label, For(p, row)) /\ Prepared(label, p, row)
    BY <2>1
  <2> DEFINE w == For(p, row)
  <2>3. /\ label \in Labels /\ w \in WorkAt(label) /\ w.p = p /\ w.row = row
        /\ label \notin LockedLabels
    BY WorkOnPayment DEF Labels, LockedLabels
  <2> HIDE DEF w
  <2>4. Moves(r, label, w) /\ Locking(r, w) /\ UNCHANGED payments
    BY <2>2, <2>3, BeginsMoves DEF w
  <2>5. Carries(label, w)
    BY <2>2, <2>3 DEF Carries, Prepared
  <2>6. Creating(label, w) => payments'[w.p].status = "ABSENT"
    BY <2>2, <2>3, <2>4 DEF Creating, Prepared, Fresh
  <2>7. payments'[w.p].status # "ABSENT" \/ \A s \in Requests : local[s].p # w.p
    BY <2>2, <2>3, <2>4 DEF Prepared, Fresh
  <2> QED
    BY <2>3, <2>4, <2>5, <2>6, <2>7, RowsKept DEF NoneVanishes, CreatesOwn
<1> QED
  BY <1>1, <1>2 DEF Begin

\* A handler that goes on with its row, or ends.
LEMMA RowsGoOn ==
    ASSUME TypeOK, RowsInv, NEW r \in Requests, NoneVanishes, CreatesOwn(r),
           \/ Finish(r)
           \/ \E label \in Labels, w \in Work :
                 /\ Moves(r, label, w) /\ Locking(r, w) /\ w.p = local[r].p
                 /\ Carries(label, w)
                 /\ Creating(label, w) => payments'[w.p].status = "ABSENT"
                 /\ label \in LockedLabels => locks'[w.p] = r
    PROVE  RowsInv'
<1>1. CASE Finish(r)
  <2>1. Moves(r, "idle", Blank) /\ Locking(r, Blank) /\ Blank.p \notin Payments
    BY <1>1, Finished, NoneAssumption
  <2>2. Carries("idle", Blank) /\ ~Creating("idle", Blank) /\ "idle" \notin LockedLabels
    BY <2>1 DEF Carries, Creating, LockedLabels
  <2> QED
    BY <2>1, <2>2, RowsKept
<1>2. ASSUME NEW label \in Labels, NEW w \in Work,
             Moves(r, label, w), Locking(r, w), w.p = local[r].p, Carries(label, w),
             Creating(label, w) => payments'[w.p].status = "ABSENT",
             label \in LockedLabels => locks'[w.p] = r
      PROVE  RowsInv'
  BY <1>2, RowsKept
<1> QED
  BY <1>1, <1>2

LEMMA RowsContinue ==
    ASSUME TypeOK, RowsInv, NEW r \in Requests, Continue(r) \/ Crash(r)
    PROVE  RowsInv' /\ NoneVanishes
<1>0. /\ Carries(pc[r], local[r])
      /\ Creating(pc[r], local[r]) => payments[local[r].p].status = "ABSENT"
      /\ pc[r] \in LockedLabels => locks[local[r].p] = r
      /\ local[r] \in Work
  BY DEF RowsInv, TypeOK
<1>1. ASSUME UNCHANGED payments
      PROVE  NoneVanishes /\ CreatesOwn(r)
  BY <1>1 DEF NoneVanishes, CreatesOwn
<1>2. ASSUME NEW label \in Labels, Moves(r, label, local[r]), Locking(r, local[r]),
             NoneVanishes, CreatesOwn(r), Carries(label, local[r]),
             Creating(label, local[r]) => payments'[local[r].p].status = "ABSENT",
             label \in LockedLabels => locks'[local[r].p] = r
      PROVE  RowsInv'
  BY <1>0, <1>2, RowsGoOn
<1>3. CASE CountPayments(r)
  <2>1. UNCHANGED payments /\ local[r].p \notin Payments
    BY <1>3, AtHand, NoneAssumption DEF CountPayments, TypeOK, Labels
  <2>2. ASSUME Moves(r, "write", local[r]), Locking(r, local[r]) PROVE RowsInv'
    BY <1>1, <1>2, <2>1, <2>2 DEF Carries, Creating, LockedLabels, Labels
  <2> QED
    BY <1>1, <1>3, <2>1, <2>2, Counted, RowsGoOn
<1>4. CASE WriteInvoice(r)
  BY <1>1, <1>4, InvoiceWritten, RowsGoOn
<1>5. CASE CheckFits(r)
  <2>1. UNCHANGED payments /\ pc[r] = "check"
    BY <1>5 DEF CheckFits
  <2> DEFINE label == IF local[r].row.status = "PENDING" THEN "insert" ELSE "update"
  <2>2. label \in Labels /\ label \notin LockedLabels
    BY DEF Labels, LockedLabels
  <2>3. ASSUME Moves(r, label, local[r]), Locking(r, local[r]) PROVE RowsInv'
    <3>1. Carries(label, local[r])
      BY <1>0 DEF Carries
    <3>2. Creating(label, local[r]) => payments'[local[r].p].status = "ABSENT"
      BY <1>0, <2>1 DEF Creating
    <3> HIDE DEF label
    <3> QED
      BY <1>1, <1>2, <2>1, <2>2, <2>3, <3>1, <3>2
  <2> QED
    BY <1>1, <1>5, <2>1, <2>3, Checked, RowsGoOn
<1>6. CASE UpdatePayment(r)
  <2>1. UNCHANGED payments
    BY <1>6 DEF UpdatePayment
  <2>2. ASSUME Moves(r, "readInvoice", local[r]), Locking(r, local[r]), locks'[local[r].p] = r
        PROVE  RowsInv'
    BY <1>0, <1>1, <1>2, <2>1, <2>2 DEF Carries, Creating, Labels
  <2> QED
    BY <1>1, <1>6, <2>1, <2>2, PaymentUpdated, RowsGoOn
<1>7. CASE ReadInvoice(r)
  <2>1. UNCHANGED <<payments, locks>> /\ locks[local[r].p] = r
    BY <1>0, <1>7 DEF ReadInvoice, LockedLabels
  <2>2. CASE invoice.deleted
    BY <1>0, <1>1, <1>2, <1>7, <2>1, <2>2, InvoiceRead DEF Carries, Creating, Labels
  <2>3. CASE ~invoice.deleted
    <3> DEFINE w == [p |-> local[r].p, row |-> local[r].row,
                     data |-> [total |-> invoice.total, status |-> invoice.status]]
    <3>1. /\ Moves(r, "readPayments", w) /\ Locking(r, w) /\ w \in Work
          /\ w.p = local[r].p /\ w.row = local[r].row
      BY <1>7, <2>3, InvoiceRead, AtHand DEF Labels
    <3> HIDE DEF w
    <3>2. Carries("readPayments", w) /\ ~Creating("readPayments", w)
      BY <1>0, <3>1 DEF Carries, Creating
    <3> QED
      BY <1>1, <2>1, <3>1, <3>2, RowsGoOn DEF Labels
  <2> QED
    BY <1>1, <2>1, <2>2, <2>3 DEF TypeOK, InvoiceRow
<1>8. CASE ReadPayments(r)
  <2>1. UNCHANGED <<payments, locks>> /\ locks[local[r].p] = r
    BY <1>0, <1>8 DEF ReadPayments, LockedLabels
  <2> DEFINE data == SyncData(local[r].data.total, local[r].data.status, Visible(r))
             w == [p |-> local[r].p, row |-> local[r].row, data |-> data]
  <2>2. Moves(r, "commit", w) /\ Locking(r, w) /\ w \in WorkAt("commit")
    BY <1>8, PaymentsRead
  <2> HIDE DEF data
  <2>3. w.p = local[r].p /\ w.row = local[r].row
    OBVIOUS
  <2> HIDE DEF w
  <2>4. Carries("commit", w) /\ ~Creating("commit", w) /\ w \in Work
    BY <1>0, <2>2, <2>3, AtHand DEF Carries, Creating, Labels
  <2> QED
    BY <1>1, <2>1, <2>2, <2>3, <2>4, RowsGoOn DEF Labels
<1>9. CASE CommitPayment(r)
  <2>1. /\ Finish(r) /\ local[r].p \in Payments /\ local[r].row \in PaymentRow
        /\ payments' = Visible(r)
    BY <1>9, Committed
  <2>2. local[r].row.status # "ABSENT"
    BY <1>0, <2>1 DEF Carries
  <2>3. NoneVanishes /\ CreatesOwn(r)
    BY <2>1, <2>2, VisibleRows DEF NoneVanishes, CreatesOwn
  <2> QED
    BY <2>1, <2>3, RowsGoOn
<1>10. CASE WriteRow(r)
  <2>1. local[r].p \in Payments /\ local[r].row.status # "ABSENT"
    BY <1>0, <1>10, RowWritten DEF RowWork, Carries
  <2>2. NoneVanishes /\ CreatesOwn(r)
    BY <1>10, <2>1, RowWritten DEF NoneVanishes, CreatesOwn
  <2> QED
    BY <1>10, <2>2, RowWritten, RowsGoOn
<1>11. CASE FailPending(r)
  <2>1. NoneVanishes /\ CreatesOwn(r) /\ pc[r] = "failPending"
    BY <1>11, OthersFailed DEF NoneVanishes, CreatesOwn, PendingStripe, FailPending
  <2>2. local[r].p \in Payments /\ local[r].row.status = "PENDING"
    BY <1>0, <1>11, <2>1, OthersFailed DEF RowWork, Carries
  <2>3. payments[local[r].p].status = "ABSENT"
    BY <1>0, <2>1, <2>2 DEF Creating
  <2>4. payments'[local[r].p].status = "ABSENT"
    BY <1>11, <2>2, <2>3, OthersFailed DEF PendingStripe
  <2>5. Carries("check", local[r])
    BY <2>2 DEF Carries
  <2> QED
    BY <1>2, <1>11, <2>1, <2>4, <2>5, OthersFailed DEF Labels, LockedLabels
<1>12. CASE InsertPending(r)
  <2>1. local[r].p \in Payments /\ local[r].row.status = "PENDING"
    BY <1>0, <1>12, PendingInserted DEF RowWork, Carries, InsertPending
  <2>2. NoneVanishes /\ CreatesOwn(r)
    BY <1>12, <2>1, PendingInserted DEF NoneVanishes, CreatesOwn
  <2>3. Carries("session", local[r]) /\ ~Creating("session", local[r])
    BY <2>1 DEF Carries, Creating
  <2> QED
    BY <1>2, <1>12, <2>2, <2>3, PendingInserted DEF Labels, LockedLabels
<1>13. CASE OpenSession(r)
  <2> DEFINE w == [p |-> local[r].p, data |-> NoColumns,
                   row |-> [status |-> "FAILED", method |-> local[r].row.method,
                            amount |-> local[r].row.amount]]
  <2>1. UNCHANGED payments
    BY <1>13, SessionOpened
  <2>2. ASSUME Moves(r, "writeRow", w), Locking(r, w), w \in RowWork
        PROVE  RowsInv'
    <3>1. w.p = local[r].p /\ w.row.status = "FAILED"
      OBVIOUS
    <3>2. w \in Work
      BY <2>2, CarriedWork, AtHand DEF CarryLabels, Labels
    <3> HIDE DEF w
    <3>3. Carries("writeRow", w) /\ ~Creating("writeRow", w)
      BY <3>1 DEF Carries, Creating
    <3> QED
      BY <1>1, <2>1, <2>2, <3>1, <3>2, <3>3, RowsGoOn DEF Labels, LockedLabels
  <2> QED
    BY <1>1, <1>13, <2>1, <2>2, SessionOpened, RowsGoOn
<1>14. CASE Crash(r)
  <2>1. UNCHANGED payments /\ Finish(r)
    BY <1>14 DEF Crash
  <2> QED
    BY <1>1, <2>1, RowsGoOn
<1> QED
  BY <1>3, <1>4, <1>5, <1>6, <1>7, <1>8, <1>9, <1>10, <1>11, <1>12, <1>13, <1>14 DEF Continue

LEMMA RowsStep == TypeOK /\ RowsInv /\ [Next]_vars => RowsInv'
<1> SUFFICES ASSUME TypeOK, RowsInv, [Next]_vars PROVE RowsInv'
  OBVIOUS
<1>1. CASE UNCHANGED vars
  BY <1>1 DEF vars, RowsInv
<1> QED
  BY <1>1, RowsBegin, RowsContinue DEF Next

LEMMA RowsInit == Init => RowsInv
<1> SUFFICES ASSUME Init PROVE RowsInv
  OBVIOUS
<1>1. ASSUME NEW r \in Requests
      PROVE  pc[r] = "idle" /\ local[r] = Blank /\ local[r].p \notin Payments
  BY NoneAssumption DEF Init, Blank, Writing
<1> QED
  BY <1>1 DEF RowsInv, Carries, Creating, LockedLabels

\* No two transactions are at work on the row of one payment.
OneAtATime ==
    \A r, s \in Requests : r # s /\ pc[r] \in LockedLabels /\ pc[s] \in LockedLabels
                              => local[r].p # local[s].p

\* Of two transactions that both change one payment the second waits until the
\* first has committed, so that what each of them writes is still in force when
\* it commits.
THEOREM PaymentsAreLocked == Spec => []OneAtATime
<1>1. TypeOK /\ RowsInv => OneAtATime
  BY DEF RowsInv, OneAtATime
<1> QED
  BY <1>1, RowsInit, RowsStep, TypeCorrect, PTL DEF Spec

----------------------------------------------------------------------------
(* The paid amount. *)

\* A change of rows that leaves the completed ones alone keeps their sum.
Leaves(old, new) ==
    /\ Completed(new) = Completed(old)
    /\ \A p \in Completed(old) : new[p].amount = old[p].amount

LEMMA SumLeft ==
    ASSUME NEW old \in Rows, NEW new \in Rows, Leaves(old, new)
    PROVE  CompletedSum(new) = CompletedSum(old)
<1>1. old \in Ledger!Rows /\ new \in Ledger!Rows
  BY SameRows
<1>2. Ledger!LeavesCompleted(old, new)
  BY SameCompletedSum DEF Leaves, Ledger!LeavesCompleted
<1>3. Ledger!CompletedSum(new) = Ledger!CompletedSum(old)
  BY <1>1, <1>2, LedgerAssumptions, Ledger!SameCompletedSum
<1> QED
  BY <1>3, SameCompletedSum

\* Rows that change no completed payment, whatever a transaction adds to them.
LEMMA LeavesVisible ==
    ASSUME TypeOK, NEW r \in Requests, payments' \in Rows, Leaves(payments, payments'),
           local[r].p \in Payments, local[r].row \in PaymentRow, local'[r] = local[r]
    PROVE  CompletedSum([payments' EXCEPT ![local'[r].p] = local'[r].row])
             = CompletedSum(Visible(r))
<1> DEFINE p == local[r].p
           row == local[r].row
           old == [payments EXCEPT ![p] = row]
           new == [payments' EXCEPT ![p] = row]
<1>1. payments \in Rows /\ payments' \in Rows
  BY DEF TypeOK, Rows
<1> HIDE DEF p, row
<1>2. p \in Payments /\ row \in PaymentRow
  BY DEF p, row
<1>3. old \in Rows /\ new \in Rows
  BY <1>1, <1>2 DEF Rows
<1>4. ASSUME NEW q \in Payments
      PROVE  /\ old[q] = IF q = p THEN row ELSE payments[q]
             /\ new[q] = IF q = p THEN row ELSE payments'[q]
  BY <1>1, <1>2 DEF Rows
<1>5. DOMAIN old = Payments /\ DOMAIN new = Payments
      /\ DOMAIN payments = Payments /\ DOMAIN payments' = Payments
  BY <1>1, <1>3 DEF Rows
<1> HIDE DEF old, new
<1>6. Leaves(old, new)
  BY <1>4, <1>5 DEF Leaves, Completed
<1>7. CompletedSum(new) = CompletedSum(old)
  BY <1>3, <1>6, SumLeft
<1> QED
  BY <1>7 DEF old, new, p, row, Visible

\* What a request at its commit is about to store is the sum of what will be
\* there, unless that sum has been overtaken, which takes another payment.
SumsUp(r) ==
    /\ pc[r] = "commit" /\ local[r].data = NoColumns => invoice.deleted
    /\ pc[r] = "commit" /\ local[r].data # NoColumns /\ r \notin stale
          => local[r].data.paidAmount = CompletedSum(Visible(r))

Overtaken(r) == pc[r] = "commit"
                /\ \E q \in Payments \ {local[r].p} : payments[q].status # "ABSENT"

SumInv == /\ BackedUnlessDisturbed
          /\ \A r \in Requests : SumsUp(r)
          /\ \A r \in stale : Overtaken(r)

\* Requests other than the one that moves.
LEMMA OthersSums ==
    ASSUME TypeOK, SumInv, NEW r \in Requests, NEW label, NEW w, Moves(r, label, w),
           payments' \in Rows, invoice.deleted => invoice'.deleted,
           stale \ {r} \subseteq stale',
           Leaves(payments, payments') \/ Summed \subseteq stale' \cup {r},
           NEW s \in Requests \ {r}
    PROVE  SumsUp(s)'
<1>1. pc'[s] = pc[s] /\ local'[s] = local[s]
  BY OthersStay DEF Stays
<1>2. SumsUp(s)
  BY DEF SumInv
<1>3. CASE pc[s] # "commit"
  BY <1>1, <1>3 DEF SumsUp
<1>4. CASE pc[s] = "commit"
  <2>1. pc'[s] = "commit" /\ (local[s].data = NoColumns => invoice'.deleted)
    BY <1>1, <1>2, <1>4 DEF SumsUp
  <2>2. ASSUME local[s].data # NoColumns, s \notin stale'
        PROVE  local[s].data.paidAmount
                 = CompletedSum([payments' EXCEPT ![local'[s].p] = local'[s].row])
    <3>1. s \notin stale /\ s \in Summed
      BY <1>4, <2>2 DEF Summed
    <3>2. Leaves(payments, payments')
      BY <2>2, <3>1
    <3>3. local[s].p \in Payments /\ local[s].row \in PaymentRow
      BY <1>4, RowAtHand DEF LockedLabels
    <3> QED
      BY <1>1, <1>2, <1>4, <2>2, <3>1, <3>2, <3>3, LeavesVisible DEF SumsUp
  <2> QED
    BY <1>1, <2>1, <2>2 DEF SumsUp, Visible
<1> QED
  BY <1>3, <1>4

\* The statements that change no completed payment and prepare no commit.
LEMMA QuietStep ==
    ASSUME TypeOK, SumInv, NEW r \in Requests, NEW label, NEW w, Moves(r, label, w),
           label # "commit", payments' \in Rows, Leaves(payments, payments'), NoneVanishes,
           invoice.deleted => invoice'.deleted,
           invoice'.paidAmount = invoice.paidAmount \/ "byHand" \in marks',
           marks \subseteq marks', "overlapped" \in marks' => "overlapped" \in marks,
           stale' = stale \ {r}
    PROVE  SumInv'
<1>1. pc'[r] = label /\ local'[r] = w /\ \A s \in Requests \ {r} : Stays(s)
  BY OthersStay
<1>2. ASSUME NEW s \in Requests PROVE SumsUp(s)'
  <2>1. CASE s = r
    BY <1>1, <2>1 DEF SumsUp
  <2>2. CASE s # r
    BY <2>2, OthersSums
  <2> QED
    BY <2>1, <2>2
<1>3. ASSUME NEW s \in stale' PROVE Overtaken(s)'
  <2>1. s \in stale /\ s \in Requests \ {r}
    BY <1>3 DEF TypeOK
  <2>2. Overtaken(s) /\ Stays(s)
    BY <1>1, <2>1 DEF SumInv
  <2> QED
    BY <2>2 DEF Overtaken, Stays, NoneVanishes
<1>4. BackedUnlessDisturbed'
  <2>1. CompletedSum(payments') = CompletedSum(payments)
    BY SumLeft DEF TypeOK, Rows
  <2>2. BackedUnlessDisturbed
    BY DEF SumInv
  <2>3. ~invoice'.deleted /\ ~Disturbed' => invoice'.paidAmount = CompletedSum(payments')
    <3>1. ASSUME ~Disturbed' PROVE ~Disturbed /\ invoice'.paidAmount = invoice.paidAmount
      BY <3>1 DEF Disturbed
    <3> QED
      BY <2>1, <2>2, <3>1 DEF BackedUnlessDisturbed
  <2>4. "overlapped" \in marks' =>
           \E p, q \in Payments : p # q /\ payments'[p].status # "ABSENT"
                                      /\ payments'[q].status # "ABSENT"
    BY <2>2 DEF BackedUnlessDisturbed, NoneVanishes
  <2> QED
    BY <2>3, <2>4 DEF BackedUnlessDisturbed
<1> QED
  BY <1>2, <1>3, <1>4 DEF SumInv

LEMMA LeavesItself ==
    ASSUME payments' = payments
    PROVE  Leaves(payments, payments') /\ NoneVanishes
  BY DEF Leaves, Completed, NoneVanishes

LEMMA NotStale ==
    ASSUME SumInv, NEW r, pc[r] # "commit"
    PROVE  r \notin stale /\ stale \ {r} = stale
  BY DEF SumInv, Overtaken

LEMMA SumBegin ==
    ASSUME TypeOK, SumInv, NEW r \in Requests, Begin(r)
    PROVE  SumInv'
<1>0. payments \in Rows
  BY DEF TypeOK, Rows
<1>1. \E label, w : /\ label # "commit" /\ Moves(r, label, w) /\ pc[r] = "idle"
                    /\ UNCHANGED <<invoice, payments, stale, marks>>
  <2>1. CASE \/ StartSend(r) \/ StartEdit(r) \/ StartStatus(r) \/ StartDelete(r)
             \/ StartView(r) \/ StartOverdue(r)
    <3>1. PICK label \in {"count", "write"} : \E data \in DataAt(label) :
             Begins(r, label, Writing(data))
      BY <2>1, BeginOnInvoice
    <3>2. PICK data \in DataAt(label) : Begins(r, label, Writing(data))
      BY <3>1
    <3> QED
      BY <3>2 DEF Begins, Moves
  <2>2. CASE \/ StartRecord(r) \/ StartSettle(r) \/ StartPaid(r) \/ StartCancel(r)
             \/ StartExpired(r) \/ StartCheckout(r)
    <3>1. PICK label \in {"check", "update", "writeRow", "failPending"} :
             \E p \in Payments, row \in PaymentRow : Begins(r, label, For(p, row))
      BY <2>2, BeginOnPayment
    <3>2. PICK p \in Payments, row \in PaymentRow : Begins(r, label, For(p, row))
      BY <3>1
    <3> QED
      BY <3>2 DEF Begins, Moves
  <2> QED
    BY <2>1, <2>2 DEF Begin
<1>2. PICK label, w : /\ label # "commit" /\ Moves(r, label, w) /\ pc[r] = "idle"
                      /\ UNCHANGED <<invoice, payments, stale, marks>>
  BY <1>1
<1>3. stale' = stale \ {r} /\ Leaves(payments, payments') /\ NoneVanishes
  BY <1>2, NotStale, LeavesItself
<1> QED
  BY <1>0, <1>2, <1>3, QuietStep

\* A statement that the properties tell nothing of.
LEMMA SilentStep ==
    ASSUME TypeOK, SumInv, NEW r \in Requests, NEW label, NEW w, Moves(r, label, w),
           label # "commit", stale' = stale \ {r}, UNCHANGED <<invoice, payments, marks>>
    PROVE  SumInv'
  BY QuietStep, LeavesItself DEF TypeOK, Rows

\* The end of a transaction.
LEMMA SumCommit ==
    ASSUME TypeOK, RowsInv, SumInv, NEW r \in Requests, CommitPayment(r), NoneVanishes
    PROVE  SumInv'
<1> DEFINE data == local[r].data
           p == local[r].p
<1>1. /\ pc[r] = "commit" /\ p \in Payments /\ local[r].row \in PaymentRow
      /\ data \in {NoColumns} \cup MoneyColumns
      /\ payments' = Visible(r) /\ payments' \in Rows
      /\ invoice' = Updated(data)
      /\ stale' = (stale \cup Summed) \ {r}
      /\ marks' = IF data = NoColumns THEN marks
                  ELSE (marks \cap {"edited"}) \cup (IF r \in stale THEN {"overlapped"} ELSE {})
      /\ Moves(r, "idle", Blank)
  BY Committed, Finished DEF CommitPayment
<1>2. pc'[r] = "idle" /\ \A s \in Requests \ {r} : Stays(s)
  BY <1>1, OthersStay
<1>3. NoColumns \notin MoneyColumns /\ data # [deleted |-> TRUE]
      /\ data \notin StatusColumns /\ data \notin EditColumns
  BY <1>1, ColumnNames
<1>4. /\ invoice'.deleted = invoice.deleted
      /\ invoice'.paidAmount = IF data \in MoneyColumns THEN data.paidAmount
                               ELSE invoice.paidAmount
  <2>1. data \in AllColumns
    BY <1>1 DEF AllColumns
  <2> QED
    BY <1>1, <1>3, <2>1, UpdatedRow DEF TypeOK, InvoiceRow
<1>5. payments'[p] = local[r].row /\ local[r].row.status # "ABSENT"
  BY <1>1, VisibleRows DEF RowsInv, Carries
<1> HIDE DEF data, p
<1>6. ASSUME NEW s \in Requests PROVE SumsUp(s)'
  <2>1. CASE s = r
    BY <1>2, <2>1 DEF SumsUp
  <2>2. CASE s # r
    BY <1>1, <1>4, <2>2, OthersSums
  <2> QED
    BY <2>1, <2>2
<1>7. ASSUME NEW s \in stale' PROVE Overtaken(s)'
  <2>1. s \in Requests \ {r} /\ pc[s] = "commit"
    BY <1>1, <1>7 DEF TypeOK, Summed, SumInv, Overtaken
  <2>2. locks[local[s].p] = s /\ locks[p] = r
    BY <1>1, <2>1 DEF RowsInv, LockedLabels, p
  <2>3. local[s].p # p /\ Stays(s)
    BY <1>2, <2>1, <2>2
  <2> QED
    BY <1>1, <1>5, <2>1, <2>3 DEF Overtaken, Stays
<1>8. BackedUnlessDisturbed'
  <2>1. CASE data = NoColumns
    <3>1. invoice'.deleted /\ marks' = marks
      BY <1>1, <1>4, <2>1 DEF SumInv, SumsUp, data
    <3>2. BackedUnlessDisturbed
      BY DEF SumInv
    <3> QED
      BY <3>1, <3>2 DEF BackedUnlessDisturbed, NoneVanishes
  <2>2. CASE data # NoColumns /\ r \notin stale
    <3>1. invoice'.paidAmount = CompletedSum(payments')
      BY <1>1, <1>4, <2>2 DEF SumInv, SumsUp, data
    <3>2. "overlapped" \notin marks'
      BY <1>1, <2>2
    <3> QED
      BY <3>1, <3>2 DEF BackedUnlessDisturbed
  <2>3. CASE data # NoColumns /\ r \in stale
    <3>1. Disturbed'
      BY <1>1, <2>3 DEF Disturbed
    <3>2. PICK q \in Payments \ {p} : payments[q].status # "ABSENT"
      BY <2>3 DEF SumInv, Overtaken, p
    <3>3. payments'[q].status # "ABSENT" /\ payments'[p].status # "ABSENT"
      BY <1>5, <3>2 DEF NoneVanishes
    <3> QED
      BY <1>1, <3>1, <3>2, <3>3 DEF BackedUnlessDisturbed
  <2> QED
    BY <2>1, <2>2, <2>3
<1> QED
  BY <1>6, <1>7, <1>8 DEF SumInv

\* A cancellation or expiry, whether the row still is what it was read as or not.
LEMMA SumWriteRow ==
    ASSUME TypeOK, RowsInv, SumInv, NEW r \in Requests, WriteRow(r), NoneVanishes
    PROVE  SumInv'
<1> DEFINE p == local[r].p
<1>1. /\ pc[r] = "writeRow" /\ p \in Payments /\ locks[p] = None /\ payments' \in Rows
      /\ local[r].row.status \in {"FAILED", "REMOVED"}
      /\ \A q \in Payments \ {p} : payments'[q] = payments[q]
      /\ payments'[p].amount = payments[p].amount
      /\ payments'[p].status = IF Exists(p) THEN local[r].row.status ELSE payments[p].status
      /\ Moves(r, "idle", Blank) /\ UNCHANGED invoice
  BY RowWritten, Finished DEF WriteRow, RowWork, RowsInv, Carries
<1>2. r \notin stale /\ r \notin Summed
  BY <1>1, NotStale DEF Summed
<1>3. CASE payments[p].status # "COMPLETED"
  <2>1. payments'[p].status # "COMPLETED"
    BY <1>1, <1>3
  <2>2. DOMAIN payments = Payments /\ DOMAIN payments' = Payments
    BY <1>1 DEF TypeOK, Rows
  <2>3. Leaves(payments, payments')
    BY <1>1, <1>3, <2>1, <2>2 DEF Leaves, Completed
  <2>4. stale' = stale \ {r} /\ marks' = marks
    BY <1>2, <1>3 DEF WriteRow
  <2> QED
    BY <1>1, <2>3, <2>4, QuietStep
<1>4. CASE payments[p].status = "COMPLETED"
  <2>1. stale' = stale \cup Summed /\ marks' = marks \cup {"raced"}
    BY <1>4 DEF WriteRow
  <2>2. pc'[r] = "idle" /\ \A s \in Requests \ {r} : Stays(s)
    BY <1>1, OthersStay
  <2>3. ASSUME NEW s \in Requests PROVE SumsUp(s)'
    <3>1. CASE s = r
      BY <2>2, <3>1 DEF SumsUp
    <3>2. CASE s # r
      BY <1>1, <2>1, <3>2, OthersSums
    <3> QED
      BY <3>1, <3>2
  <2>4. ASSUME NEW s \in stale' PROVE Overtaken(s)'
    <3>1. s \in Requests \ {r} /\ pc[s] = "commit"
      BY <1>2, <2>1, <2>4 DEF TypeOK, Summed, SumInv, Overtaken
    <3>2. locks[local[s].p] = s
      BY <3>1 DEF RowsInv, LockedLabels
    <3>3. local[s].p # p /\ Stays(s)
      BY <1>1, <2>2, <3>1, <3>2, NoneAssumption
    <3>4. payments'[p].status # "ABSENT"
      BY <1>1, <1>4 DEF NoneVanishes
    <3> QED
      BY <1>1, <3>1, <3>3, <3>4 DEF Overtaken, Stays
  <2>5. BackedUnlessDisturbed'
    <3>1. Disturbed' /\ ("overlapped" \in marks' => "overlapped" \in marks)
      BY <2>1 DEF Disturbed
    <3>2. BackedUnlessDisturbed
      BY DEF SumInv
    <3> QED
      BY <3>1, <3>2 DEF BackedUnlessDisturbed, NoneVanishes
  <2> QED
    BY <2>3, <2>4, <2>5 DEF SumInv
<1> QED
  BY <1>3, <1>4

LEMMA SumContinue ==
    ASSUME TypeOK, RowsInv, SumInv, NEW r \in Requests, Continue(r) \/ Crash(r)
    PROVE  SumInv'
<1>0. NoneVanishes
  BY RowsContinue
<1>1. ASSUME pc[r] # "commit", UNCHANGED <<invoice, payments, stale, marks>>,
             Finish(r) \/ \E label \in Labels \ {"commit"}, w \in Work : Moves(r, label, w)
      PROVE  SumInv'
  <2>1. stale' = stale \ {r}
    BY <1>1, NotStale
  <2>2. CASE Finish(r)
    BY <1>1, <2>1, <2>2, Finished, SilentStep
  <2>3. ASSUME NEW label \in Labels \ {"commit"}, NEW w \in Work, Moves(r, label, w)
        PROVE  SumInv'
    BY <1>1, <2>1, <2>3, SilentStep
  <2> QED
    BY <1>1, <2>2, <2>3
<1>2. local[r] \in Work
  BY DEF TypeOK
<1>3. CASE CountPayments(r) \/ CheckFits(r) \/ UpdatePayment(r)
  <2>1. UNCHANGED <<invoice, payments, stale, marks>> /\ pc[r] # "commit"
    BY <1>3 DEF CountPayments, CheckFits, UpdatePayment
  <2>2. \/ Finish(r)
        \/ \E label \in {"write", "insert", "update", "readInvoice"} : Moves(r, label, local[r])
    BY <1>3, Counted, Checked, PaymentUpdated
  <2> QED
    BY <1>1, <1>2, <2>1, <2>2 DEF Labels
<1>4. CASE WriteInvoice(r)
  <2> DEFINE data == local[r].data
  <2>1. /\ pc[r] # "commit" /\ data \in AllColumns /\ invoice' = Updated(data)
        /\ marks' = marks \cup (IF data \in EditColumns THEN {"edited"} ELSE {})
                          \cup (IF data \in MoneyColumns THEN {"byHand"} ELSE {})
        /\ Moves(r, "idle", Blank) /\ UNCHANGED <<payments, stale>>
    BY <1>4, InvoiceWritten, Finished DEF WriteInvoice
  <2>2. /\ invoice.deleted => invoice'.deleted
        /\ invoice'.paidAmount = invoice.paidAmount \/ data \in MoneyColumns
    BY <2>1, UpdatedRow DEF TypeOK
  <2> HIDE DEF data
  <2>3. stale' = stale \ {r} /\ Leaves(payments, payments') /\ payments' \in Rows
    BY <2>1, NotStale, LeavesItself DEF TypeOK, Rows
  <2> QED
    BY <1>0, <2>1, <2>2, <2>3, QuietStep
<1>5. CASE ReadInvoice(r) /\ ~invoice.deleted
  <2>1. UNCHANGED <<invoice, payments, stale, marks>> /\ pc[r] # "commit"
    BY <1>5 DEF ReadInvoice
  <2>2. PICK w \in WorkAt("readPayments") : Moves(r, "readPayments", w)
    BY <1>5, InvoiceRead
  <2> QED
    BY <1>1, <2>1, <2>2, AtHand DEF Labels
<1>6. ASSUME (ReadInvoice(r) /\ invoice.deleted) \/ ReadPayments(r)
      PROVE  SumInv'
  <2>1. UNCHANGED <<invoice, payments, stale, marks>> /\ pc[r] # "commit"
    BY <1>6 DEF ReadInvoice, ReadPayments
  <2>2. PICK w \in WorkAt("commit") :
           /\ Moves(r, "commit", w)
           /\ w.p = local[r].p /\ w.row = local[r].row
           /\ w.data = NoColumns => invoice.deleted
           /\ w.data # NoColumns => w.data.paidAmount = CompletedSum(Visible(r))
    <3>1. CASE ReadInvoice(r) /\ invoice.deleted
      <4>1. local[r] \in WorkAt("commit") /\ local[r].data = NoColumns
        BY <3>1, InvoiceRead, CarriedWork DEF RowWork
      <4> QED
        BY <3>1, <4>1, InvoiceRead
    <3>2. CASE ReadPayments(r)
      <4> DEFINE data == SyncData(local[r].data.total, local[r].data.status, Visible(r))
                 w == [p |-> local[r].p, row |-> local[r].row, data |-> data]
      <4>1. /\ Moves(r, "commit", w) /\ w \in WorkAt("commit") /\ data \in MoneyColumns
            /\ data.paidAmount = CompletedSum(Visible(r))
        BY <3>2, PaymentsRead
      <4> HIDE DEF data
      <4>2. w.p = local[r].p /\ w.row = local[r].row /\ w.data = data /\ data # NoColumns
        BY <4>1, ColumnNames
      <4> HIDE DEF w
      <4> QED
        BY <4>1, <4>2
    <3> QED
      BY <1>6, <3>1, <3>2
  <2>3. pc'[r] = "commit" /\ local'[r] = w /\ \A s \in Requests \ {r} : Stays(s)
    BY <2>2, OthersStay
  <2>4. Leaves(payments, payments') /\ payments' \in Rows
    BY <2>1, LeavesItself DEF TypeOK, Rows
  <2>5. ASSUME NEW s \in Requests PROVE SumsUp(s)'
    <3>1. CASE s = r
      <4>1. Visible(r)' = Visible(r)
        BY <2>1, <2>2, <2>3 DEF Visible
      <4> QED
        BY <2>1, <2>2, <2>3, <3>1, <4>1 DEF SumsUp
    <3>2. CASE s # r
      BY <2>1, <2>2, <2>4, <3>2, OthersSums
    <3> QED
      BY <3>1, <3>2
  <2>6. ASSUME NEW s \in stale' PROVE Overtaken(s)'
    <3>1. Overtaken(s) /\ s \in Requests \ {r}
      BY <2>1, <2>6, NotStale DEF TypeOK, SumInv
    <3> QED
      BY <2>1, <2>3, <3>1 DEF Overtaken, Stays
  <2>7. BackedUnlessDisturbed'
    BY <2>1 DEF SumInv, BackedUnlessDisturbed, Disturbed
  <2> QED
    BY <2>5, <2>6, <2>7 DEF SumInv
<1>7. CASE FailPending(r)
  <2>1. /\ Moves(r, "check", local[r]) /\ payments' \in Rows
        /\ UNCHANGED <<invoice, stale, marks>> /\ pc[r] # "commit"
    BY <1>7, OthersFailed DEF FailPending
  <2>2. DOMAIN payments = Payments /\ DOMAIN payments' = Payments
    BY <2>1 DEF TypeOK, Rows
  <2>3. ASSUME NEW q \in Payments
        PROVE  /\ payments'[q].amount = payments[q].amount
               /\ payments'[q].status = "COMPLETED" <=> payments[q].status = "COMPLETED"
    BY <1>7, OthersFailed DEF PendingStripe
  <2>4. Leaves(payments, payments')
    BY <2>2, <2>3 DEF Leaves, Completed
  <2> QED
    BY <1>0, <2>1, <2>4, NotStale, QuietStep
<1>8. CASE InsertPending(r)
  <2>1. /\ Moves(r, "session", local[r]) /\ payments' \in Rows
        /\ UNCHANGED <<invoice, stale, marks>> /\ pc[r] = "insert"
        /\ local[r].p \in Payments
        /\ payments'[local[r].p] = local[r].row
        /\ \A q \in Payments \ {local[r].p} : payments'[q] = payments[q]
    BY <1>8, PendingInserted DEF InsertPending, RowWork
  <2>2. DOMAIN payments = Payments /\ DOMAIN payments' = Payments
    BY <2>1 DEF TypeOK, Rows
  <2>3. local[r].row.status = "PENDING" /\ payments[local[r].p].status = "ABSENT"
    BY <2>1 DEF RowsInv, Carries, Creating
  <2>4. Leaves(payments, payments')
    BY <2>1, <2>2, <2>3 DEF Leaves, Completed
  <2> QED
    BY <1>0, <2>1, <2>4, NotStale, QuietStep
<1>9. CASE OpenSession(r)
  <2>1. UNCHANGED <<invoice, payments, stale, marks>> /\ pc[r] # "commit"
    BY <1>9 DEF OpenSession
  <2>2. Finish(r) \/ \E w \in WorkAt("writeRow") : Moves(r, "writeRow", w)
    BY <1>9, SessionOpened, CarriedWork DEF CarryLabels
  <2> QED
    BY <1>1, <2>1, <2>2, AtHand DEF Labels
<1>10. CASE Crash(r)
  <2>1. Moves(r, "idle", Blank) /\ stale' = stale \ {r} /\ UNCHANGED <<invoice, payments, marks>>
    BY <1>10, Finished DEF Crash
  <2> QED
    BY <2>1, SilentStep
<1> QED
  BY <1>0, <1>3, <1>4, <1>5, <1>6, <1>7, <1>8, <1>9, <1>10, SumCommit, SumWriteRow
     DEF Continue, TypeOK, InvoiceRow

LEMMA SumInit == Init => SumInv
<1> SUFFICES ASSUME Init PROVE SumInv
  OBVIOUS
<1>1. payments \in Rows /\ invoice.paidAmount = 0 /\ \A r \in Requests : pc[r] = "idle"
  BY DEF Init, NewInvoice, Rows, NoPayment, PaymentRow, PaymentStatuses, Methods
<1>2. Completed(payments) = {}
  BY DEF Init, Completed, NoPayment
<1>3. CompletedSum(payments) = 0
  <2>1. Cents(payments, {}) = {}
    BY DEF Cents
  <2> QED
    BY <1>2, <2>1, FS_EmptySet DEF CompletedSum, SumOf
<1> QED
  BY <1>1, <1>3 DEF Init, SumInv, SumsUp, BackedUnlessDisturbed

\* At every moment the paid amount is the sum of the completed payments, except
\* after an entry by hand, a cancellation or expiry that hits a payment completed
\* since it was read, and a recomputation that another change of a payment has
\* overtaken between its sum and its commit; and the last takes two payments.
THEOREM PaidIsBackedUnlessDisturbed == Spec => []BackedUnlessDisturbed
<1>1. TypeOK /\ RowsInv /\ SumInv /\ [Next]_vars => SumInv'
  <2> SUFFICES ASSUME TypeOK, RowsInv, SumInv, [Next]_vars PROVE SumInv'
    OBVIOUS
  <2>1. CASE UNCHANGED vars
    BY <2>1 DEF vars, SumInv, SumsUp, Overtaken, Visible, BackedUnlessDisturbed, Disturbed
  <2> QED
    BY <2>1, SumBegin, SumContinue DEF Next
<1> QED
  BY <1>1, SumInit, RowsInit, RowsStep, TypeCorrect, PTL DEF Spec, SumInv
----------------------------------------------------------------------------
(* One request at a time. *)

Alone == \A r, s \in Requests : r = s

\* What a handler of the invoice has decided to write, and on what grounds.
InvoicePlan(data) ==
    \/ data = NoColumns
    \/ /\ ~invoice.deleted
       /\ \/ data = [status |-> "SENT"] /\ invoice.status = "DRAFT" /\ invoice.total > 0
          \/ /\ invoice.status \in Editable
             /\ \E total \in Totals :
                   data = [total |-> total, balanceDue |-> Outstanding(total, invoice.paidAmount)]
          \/ \E to \in ManualTransitions(invoice.status), mills \in PaidInputs :
                /\ to = "SENT" => invoice.total > 0
                /\ ValidPart(to, invoice.total, mills)
                /\ data = IF to \in MoneyTargets
                          THEN [status |-> to, paidAmount |-> PaidAfter(to, invoice, mills),
                                balanceDue |-> BalanceAfter(to, invoice, mills)]
                          ELSE [status |-> to]
          \/ data = [status |-> "VIEWED"] /\ invoice.status = "SENT"
          \/ data = [status |-> "OVERDUE"] /\ invoice.balanceDue > 0 /\ invoice.status \in CanFallDue
          \/ data = [deleted |-> TRUE] /\ invoice.status \in Deletable

\* The row that recordPayment, updatePaymentStatus and completeStripePayment write.
ChangedTo(w, to) == /\ w.row.status = to
                    /\ w.row.method = payments[w.p].method
                    /\ w.row.amount = payments[w.p].amount

PaymentPlan(w) ==
    \/ /\ payments[w.p].status = "ABSENT"
       /\ w.row.status = "COMPLETED" /\ w.row.method = "MANUAL" /\ w.row.amount \in Amounts
       /\ AcceptsPayment(invoice, w.row.amount)
    \/ ~invoice.deleted /\ \E to \in PaymentTransitions(payments[w.p].status) : ChangedTo(w, to)
    \/ /\ sessions[w.p] = "paid" /\ payments[w.p].status \notin {"ABSENT", "REMOVED", "COMPLETED"}
       /\ ChangedTo(w, "COMPLETED")

Fits(w) == CanComplete(invoice, payments, w.p, w.row.amount)

\* A checkout: what it has found, and what it has done.
CheckoutPlan(w) == /\ w.row.method = "STRIPE" /\ w.row.amount \in Amounts
                   /\ AcceptsPayment(invoice, w.row.amount)

OthersNotPending(w) == \A q \in Payments \ {w.p} : q \notin PendingStripe

Stored(w) == /\ CheckoutPlan(w) /\ OthersNotPending(w) /\ Fits(w)
             /\ payments[w.p].status = "PENDING" /\ payments[w.p].method = "STRIPE"
             /\ payments[w.p].amount = w.row.amount
             /\ sessions[w.p] = "none"

\* What a request that is alone still knows before each of its statements.
Plan(label, w) ==
    /\ label \in {"count", "write"} => InvoicePlan(w.data)
    /\ label = "write" /\ w.data = [deleted |-> TRUE] => Completed(payments) = {}
    /\ label = "failPending" => CheckoutPlan(w)
    /\ label = "check" /\ w.row.status = "PENDING" => CheckoutPlan(w) /\ OthersNotPending(w)
    /\ label = "insert" => CheckoutPlan(w) /\ OthersNotPending(w) /\ Fits(w)
    /\ label = "session" => Stored(w)
    /\ label = "writeRow" =>
          \/ w.row.status = "FAILED" /\ Stored(w)
          \/ w.row.status = "FAILED" /\ sessions[w.p] = "expired" /\ payments[w.p].status = "PENDING"
          \/ w.row.status = "REMOVED" /\ ~invoice.deleted /\ payments[w.p].status = "PENDING"
    /\ label = "check" /\ w.row.status # "PENDING" => PaymentPlan(w)
    /\ label \in {"update"} \cup LockedLabels =>
          /\ PaymentPlan(w) /\ ~invoice.deleted
          /\ w.row.status = "COMPLETED" => Fits(w)
    /\ label = "readPayments" => w.data = [total |-> invoice.total, status |-> invoice.status]
    /\ label = "commit" => w.data = SyncData(invoice.total, invoice.status,
                                             [payments EXCEPT ![w.p] = w.row])

\* A row that is not there yet is a blank one, and has no session.
BlankRows == \A p \in Payments :
                payments[p].status = "ABSENT" => payments[p] = NoPayment /\ sessions[p] = "none"

PlanInv == BlankRows /\ \A r \in Requests : Plan(pc[r], local[r])

LEMMA SamePlan ==
    ASSUME UNCHANGED <<invoice, payments, sessions>>, NEW label, NEW w, Plan(label, w)
    PROVE  Plan(label, w)'
<1>1. /\ invoice' = invoice /\ payments' = payments /\ sessions' = sessions
      /\ PendingStripe' = PendingStripe
  BY DEF PendingStripe
<1>2. InvoicePlan(w.data)' <=> InvoicePlan(w.data)
  BY <1>1 DEF InvoicePlan
<1>3. PaymentPlan(w)' <=> PaymentPlan(w)
  BY <1>1 DEF PaymentPlan, ChangedTo
<1>4. /\ CheckoutPlan(w)' <=> CheckoutPlan(w)
      /\ OthersNotPending(w)' <=> OthersNotPending(w)
      /\ Fits(w)' <=> Fits(w)
  BY <1>1 DEF CheckoutPlan, OthersNotPending, Fits
<1>5. Stored(w)' <=> Stored(w)
  BY <1>1, <1>4 DEF Stored
<1> QED
  BY <1>1, <1>2, <1>3, <1>4, <1>5 DEF Plan

LEMMA PlanKept ==
    ASSUME Alone, TypeOK, NEW r \in Requests, NEW label, NEW w, Moves(r, label, w),
           Plan(label, w)', BlankRows'
    PROVE  PlanInv'
<1>1. pc'[r] = label /\ local'[r] = w
  BY OthersStay
<1>2. \A s \in Requests : s = r
  BY DEF Alone
<1> QED
  BY <1>1, <1>2 DEF PlanInv

\* A request that is done plans nothing.
LEMMA PlanDone ==
    ASSUME Alone, TypeOK, NEW r \in Requests, Finish(r), BlankRows'
    PROVE  PlanInv'
<1>1. Moves(r, "idle", Blank)
  BY Finished
<1>2. Plan("idle", Blank)'
  BY DEF Plan, LockedLabels
<1> QED
  BY <1>1, <1>2, PlanKept

LEMMA PlanOnInvoice ==
    ASSUME TypeOK, NEW r \in Requests,
           \/ StartSend(r) \/ StartEdit(r) \/ StartStatus(r) \/ StartDelete(r)
           \/ StartView(r) \/ StartOverdue(r)
    PROVE  \E label \in {"count", "write"} : \E data \in AllColumns :
              /\ Begins(r, label, Writing(data)) /\ InvoicePlan(data)
              /\ label = "write" => data # [deleted |-> TRUE]
<1> DEFINE Goal == \E label \in {"count", "write"} : \E data \in AllColumns :
                      /\ Begins(r, label, Writing(data)) /\ InvoicePlan(data)
                      /\ label = "write" => data # [deleted |-> TRUE]
           Deletion == [deleted |-> TRUE]
<1>0. invoice.status \in InvoiceStatuses /\ invoice.total \in Nat /\ invoice.paidAmount \in Nat
  BY DEF TypeOK, InvoiceRow
<1>1. ASSUME NEW to \in InvoiceStatuses \ {"DRAFT", "PARTIALLY_PAID", "PAID", "REFUNDED"}
      PROVE  [status |-> to] \in AllColumns \ {Deletion}
  <2>1. [status |-> to] \in StatusColumns
    BY DEF StatusColumns
  <2> QED
    BY <2>1, ColumnNames DEF AllColumns
<1>2. \A data \in EditColumns \cup MoneyColumns \cup {NoColumns} : data \in AllColumns \ {Deletion}
  BY ColumnNames DEF AllColumns
<1>3. ASSUME NEW data \in AllColumns \ {Deletion}, Begins(r, "write", Writing(data)),
             InvoicePlan(data)
      PROVE  Goal
  BY <1>3
<1>4. CASE StartSend(r)
  <2>1. PICK data \in {[status |-> "SENT"], NoColumns} :
           /\ Begins(r, "write", Writing(data))
           /\ data = IF invoice.status = "DRAFT" THEN [status |-> "SENT"] ELSE NoColumns
    BY <1>4, StartBegins DEF StartSend
  <2>2. data \in AllColumns \ {Deletion}
    BY <1>1, <1>2, <2>1 DEF InvoiceStatuses
  <2>3. InvoicePlan(data)
    BY <1>4, <2>1 DEF StartSend, InvoicePlan
  <2> QED
    BY <1>3, <2>1, <2>2, <2>3
<1>5. CASE StartEdit(r)
  <2>1. PICK total \in Totals :
           Begins(r, "write", Writing([total |-> total,
                                       balanceDue |-> Outstanding(total, invoice.paidAmount)]))
    BY <1>5, StartBegins DEF StartEdit
  <2> DEFINE data == [total |-> total, balanceDue |-> Outstanding(total, invoice.paidAmount)]
  <2>2. total \in Nat /\ Outstanding(total, invoice.paidAmount) \in Nat
    BY <1>0, TotalAssumption DEF Outstanding
  <2>3. data \in AllColumns \ {Deletion}
    BY <1>2, <2>2 DEF EditColumns
  <2>4. InvoicePlan(data)
    BY <1>5 DEF StartEdit, InvoicePlan
  <2>5. Begins(r, "write", Writing(data))
    BY <2>1
  <2> HIDE DEF data
  <2> QED
    BY <1>3, <2>3, <2>4, <2>5
<1>6. CASE StartStatus(r)
  <2>1. PICK to \in ManualTransitions(invoice.status), mills \in PaidInputs :
           /\ to = "SENT" => invoice.total > 0
           /\ ValidPart(to, invoice.total, mills)
           /\ Begins(r, "write",
                     Writing(IF to \in MoneyTargets
                             THEN [status |-> to,
                                   paidAmount |-> PaidAfter(to, invoice, mills),
                                   balanceDue |-> BalanceAfter(to, invoice, mills)]
                             ELSE [status |-> to]))
    BY <1>6, StartBegins DEF StartStatus
  <2> DEFINE data == IF to \in MoneyTargets
                     THEN [status |-> to, paidAmount |-> PaidAfter(to, invoice, mills),
                           balanceDue |-> BalanceAfter(to, invoice, mills)]
                     ELSE [status |-> to]
  <2>2. to \in InvoiceStatuses
    BY <1>0, <2>1 DEF ManualTransitions, InvoiceStatuses
  <2>3. data \in AllColumns \ {Deletion}
    <3>1. CASE to \in MoneyTargets
      <4>1. data \in MoneyColumns
        BY <2>1, <3>1, EnteredColumns DEF TypeOK
      <4> HIDE DEF data
      <4> QED
        BY <1>2, <4>1
    <3>2. CASE to \notin MoneyTargets
      BY <1>1, <2>2, <3>2 DEF MoneyTargets
    <3> QED
      BY <3>1, <3>2
  <2>4. InvoicePlan(data)
    BY <1>6, <2>1 DEF StartStatus, InvoicePlan
  <2>5. Begins(r, "write", Writing(data))
    BY <2>1
  <2> HIDE DEF data
  <2> QED
    BY <1>3, <2>3, <2>4, <2>5
<1>7. CASE StartDelete(r)
  <2>1. Begins(r, "count", Writing(Deletion)) /\ InvoicePlan(Deletion)
    BY <1>7, StartBegins DEF StartDelete, InvoicePlan
  <2> QED
    BY <2>1 DEF AllColumns
<1>8. CASE StartView(r)
  <2>1. Begins(r, "write", Writing([status |-> "VIEWED"])) /\ InvoicePlan([status |-> "VIEWED"])
    BY <1>8, StartBegins DEF StartView, InvoicePlan
  <2> QED
    BY <1>1, <1>3, <2>1 DEF InvoiceStatuses
<1>9. CASE StartOverdue(r)
  <2>1. Begins(r, "write", Writing([status |-> "OVERDUE"])) /\ InvoicePlan([status |-> "OVERDUE"])
    BY <1>9, StartBegins DEF StartOverdue, InvoicePlan
  <2> QED
    BY <1>1, <1>3, <2>1 DEF InvoiceStatuses
<1> QED
  BY <1>4, <1>5, <1>6, <1>7, <1>8, <1>9

LEMMA PlanOnPayment ==
    ASSUME TypeOK, BlankRows, NEW r \in Requests,
           \/ StartRecord(r) \/ StartSettle(r) \/ StartPaid(r) \/ StartCancel(r)
           \/ StartExpired(r) \/ StartCheckout(r)
    PROVE  /\ BlankRows'
           /\ \E label \in {"check", "update", "writeRow", "failPending"} : \E w :
                 Begins(r, label, w) /\ Plan(label, w)'
<1> DEFINE Goal == \E label \in {"check", "update", "writeRow", "failPending"} : \E w :
                      Begins(r, label, w) /\ Plan(label, w)'
<1>0. sessions \in Sessions /\ payments \in Rows
  BY DEF TypeOK, Sessions, Rows
<1>1. ASSUME NEW p \in Payments, NEW to \in PaymentStatuses
      PROVE  /\ [payments[p] EXCEPT !.status = to] \in PaymentRow
             /\ ChangedTo(For(p, [payments[p] EXCEPT !.status = to]), to)
             /\ For(p, [payments[p] EXCEPT !.status = to]).p = p
  BY <1>0 DEF Rows, PaymentRow, ChangedTo, For
<1>2. ASSUME NEW label \in {"check", "update", "writeRow", "failPending"}, NEW w,
             Begins(r, label, w), UNCHANGED sessions, Plan(label, w)
      PROVE  Goal /\ BlankRows'
  BY <1>2, SamePlan DEF Begins, BlankRows
<1>3. CASE StartRecord(r)
  <2>1. PICK p \in Payments, amount \in Amounts :
           /\ Fresh(p) /\ AcceptsPayment(invoice, amount)
           /\ Begins(r, "check", For(p, [status |-> "COMPLETED", method |-> "MANUAL",
                                         amount |-> amount]))
    BY <1>3, StartBegins DEF StartRecord
  <2> DEFINE w == For(p, [status |-> "COMPLETED", method |-> "MANUAL", amount |-> amount])
  <2>2. /\ w.p = p /\ w.row.status = "COMPLETED" /\ w.row.method = "MANUAL"
        /\ w.row.amount = amount
    BY DEF For
  <2> HIDE DEF w
  <2>3. PaymentPlan(w)
    BY <2>1, <2>2 DEF PaymentPlan, Fresh
  <2>4. Plan("check", w)
    BY <2>2, <2>3 DEF Plan, LockedLabels
  <2> QED
    BY <1>2, <1>3, <2>1, <2>4 DEF w, StartRecord
<1>4. CASE StartSettle(r)
  <2>1. PICK p \in Payments : \E to \in PaymentTransitions(payments[p].status) :
           Begins(r, IF to = "COMPLETED" THEN "check" ELSE "update",
                  For(p, [payments[p] EXCEPT !.status = to]))
    BY <1>4, StartBegins DEF StartSettle
  <2>2. PICK to \in PaymentTransitions(payments[p].status) :
           Begins(r, IF to = "COMPLETED" THEN "check" ELSE "update",
                  For(p, [payments[p] EXCEPT !.status = to]))
    BY <2>1
  <2>3. to \in PaymentStatuses \ {"PENDING"}
    BY DEF PaymentTransitions, PaymentStatuses
  <2> DEFINE w == For(p, [payments[p] EXCEPT !.status = to])
             label == IF to = "COMPLETED" THEN "check" ELSE "update"
  <2>4. w.p = p /\ ChangedTo(w, to) /\ Begins(r, label, w)
    BY <1>1, <2>2, <2>3
  <2> HIDE DEF w
  <2>5. ~invoice.deleted /\ PaymentPlan(w)
    BY <1>4, <2>2, <2>4 DEF StartSettle, PaymentPlan
  <2>6. w.row.status = to
    BY <2>4 DEF ChangedTo
  <2>7. Plan(label, w)
    BY <2>3, <2>5, <2>6 DEF Plan, LockedLabels
  <2> QED
    BY <1>2, <1>4, <2>4, <2>7 DEF StartSettle
<1>5. ASSUME NEW p \in Payments, NEW how \in {"paid", "expired"}, Ended(p, how),
             payments[p].status # "ABSENT", UNCHANGED payments
      PROVE  BlankRows' /\ sessions'[p] = how
  BY <1>0, <1>5 DEF Ended, Sessions, BlankRows
<1>6. CASE StartPaid(r)
  <2>1. PICK p \in Payments :
           /\ Ended(p, "paid") /\ Exists(p) /\ payments[p].status # "COMPLETED"
           /\ Begins(r, "check", For(p, [payments[p] EXCEPT !.status = "COMPLETED"]))
    BY <1>6, StartBegins DEF StartPaid
  <2>2. PICK w : /\ w = For(p, [payments[p] EXCEPT !.status = "COMPLETED"])
                 /\ w.p = p /\ ChangedTo(w, "COMPLETED")
    BY <1>1 DEF PaymentStatuses
  <2>3. BlankRows' /\ sessions'[p] = "paid" /\ UNCHANGED <<invoice, payments>>
    BY <1>5, <2>1 DEF Begins, Exists
  <2>4. ChangedTo(w, "COMPLETED")' /\ w.row.status = "COMPLETED"
    BY <2>2, <2>3 DEF ChangedTo
  <2>5. PaymentPlan(w)'
    BY <2>1, <2>2, <2>3, <2>4 DEF PaymentPlan, Exists
  <2>6. Plan("check", w)'
    BY <2>4, <2>5 DEF Plan, LockedLabels
  <2> QED
    BY <2>1, <2>2, <2>3, <2>6
<1>7. CASE StartCancel(r)
  <2>1. PICK p \in Payments :
           /\ payments[p].status = "PENDING"
           /\ Begins(r, "writeRow", For(p, [payments[p] EXCEPT !.status = "REMOVED"]))
    BY <1>7, StartBegins DEF StartCancel
  <2> DEFINE w == For(p, [payments[p] EXCEPT !.status = "REMOVED"])
  <2>2. w.p = p /\ ChangedTo(w, "REMOVED")
    BY <1>1 DEF PaymentStatuses
  <2> HIDE DEF w
  <2>3. Plan("writeRow", w)
    BY <1>7, <2>1, <2>2 DEF Plan, LockedLabels, ChangedTo, StartCancel
  <2> QED
    BY <1>2, <1>7, <2>1, <2>3 DEF StartCancel, w
<1>8. CASE StartExpired(r)
  <2>1. PICK p \in Payments :
           /\ Ended(p, "expired") /\ payments[p].status = "PENDING"
           /\ Begins(r, "writeRow", For(p, [payments[p] EXCEPT !.status = "FAILED"]))
    BY <1>8, StartBegins DEF StartExpired
  <2>2. PICK w : /\ w = For(p, [payments[p] EXCEPT !.status = "FAILED"])
                 /\ w.p = p /\ ChangedTo(w, "FAILED")
    BY <1>1 DEF PaymentStatuses
  <2>3. BlankRows' /\ sessions'[p] = "expired" /\ UNCHANGED <<invoice, payments>>
    BY <1>5, <2>1 DEF Begins
  <2>4. Plan("writeRow", w)'
    BY <2>1, <2>2, <2>3 DEF Plan, LockedLabels, ChangedTo
  <2> QED
    BY <2>1, <2>2, <2>3, <2>4
<1>9. CASE StartCheckout(r)
  <2>1. PICK p \in Payments, amount \in Amounts :
           /\ Fresh(p) /\ AcceptsPayment(invoice, amount)
           /\ Begins(r, "failPending", For(p, [status |-> "PENDING", method |-> "STRIPE",
                                               amount |-> amount]))
    BY <1>9, StartBegins DEF StartCheckout
  <2> DEFINE w == For(p, [status |-> "PENDING", method |-> "STRIPE", amount |-> amount])
  <2>2. w.p = p /\ w.row.method = "STRIPE" /\ w.row.amount = amount
    BY DEF For
  <2> HIDE DEF w
  <2>3. Plan("failPending", w)
    BY <2>1, <2>2 DEF Plan, LockedLabels, CheckoutPlan
  <2> QED
    BY <1>2, <1>9, <2>1, <2>3 DEF StartCheckout, w
<1> QED
  BY <1>3, <1>4, <1>6, <1>7, <1>8, <1>9

LEMMA PlanBegin ==
    ASSUME Alone, TypeOK, PlanInv, NEW r \in Requests, Begin(r)
    PROVE  PlanInv'
<1>1. CASE \/ StartSend(r) \/ StartEdit(r) \/ StartStatus(r) \/ StartDelete(r)
           \/ StartView(r) \/ StartOverdue(r)
  <2>1. PICK label \in {"count", "write"} : \E data \in AllColumns :
           /\ Begins(r, label, Writing(data)) /\ InvoicePlan(data)
           /\ label = "write" => data # [deleted |-> TRUE]
    BY <1>1, PlanOnInvoice
  <2>2. PICK data \in AllColumns :
           /\ Begins(r, label, Writing(data)) /\ InvoicePlan(data)
           /\ label = "write" => data # [deleted |-> TRUE]
    BY <2>1
  <2>3. Plan(label, Writing(data))
    BY <2>2 DEF Plan, LockedLabels, Writing
  <2>4. UNCHANGED <<invoice, payments, sessions>> /\ Moves(r, label, Writing(data))
    BY <1>1, <2>2, BeginOnInvoice DEF Begins, Moves
  <2>5. Plan(label, Writing(data))' /\ BlankRows'
    BY <2>3, <2>4, SamePlan DEF PlanInv, BlankRows
  <2> QED
    BY <2>4, <2>5, PlanKept
<1>2. CASE \/ StartRecord(r) \/ StartSettle(r) \/ StartPaid(r) \/ StartCancel(r)
           \/ StartExpired(r) \/ StartCheckout(r)
  <2>1. PICK label, w :
           Begins(r, label, w) /\ Plan(label, w)' /\ BlankRows'
    BY <1>2, PlanOnPayment DEF PlanInv
  <2> QED
    BY <2>1, PlanKept DEF Begins, Moves
<1> QED
  BY <1>1, <1>2 DEF Begin

\* What the others have paid does not depend on the row of p.
LEMMA OthersPaid ==
    ASSUME NEW a \in Rows, NEW b \in Rows, NEW p, \A q \in Payments \ {p} : a[q] = b[q]
    PROVE  SumOf(a, Completed(a) \ {p}) = SumOf(b, Completed(b) \ {p})
<1>1. DOMAIN a = Payments /\ DOMAIN b = Payments
  BY DEF Rows
<1>2. Completed(a) \ {p} = Completed(b) \ {p}
  BY <1>1 DEF Completed
<1> DEFINE ps == Completed(a) \ {p}
<1>3. \A q \in ps : a[q] = b[q]
  BY <1>1 DEF Completed
<1> HIDE DEF ps
<1>4. Cents(a, ps) = Cents(b, ps)
  BY <1>3 DEF Cents
<1> QED
  BY <1>2, <1>4 DEF SumOf, ps

\* A plan is made of the row and its payment.
LEMMA SameRowPlan ==
    ASSUME NEW v, NEW w, w.p = v.p, w.row.method = v.row.method, w.row.amount = v.row.amount
    PROVE  /\ Stored(w) <=> Stored(v)
           /\ Fits(w) <=> Fits(v)
           /\ w.row = v.row => (PaymentPlan(w) <=> PaymentPlan(v))
<1>1. Fits(w) <=> Fits(v)
  BY DEF Fits
<1>2. (CheckoutPlan(w) <=> CheckoutPlan(v)) /\ (OthersNotPending(w) <=> OthersNotPending(v))
  BY DEF CheckoutPlan, OthersNotPending
<1>3. w.row = v.row => (PaymentPlan(w) <=> PaymentPlan(v))
  BY DEF PaymentPlan, ChangedTo
<1> QED
  BY <1>1, <1>2, <1>3 DEF Stored

LEMMA PlanContinue ==
    ASSUME Alone, TypeOK, RowsInv, PlanInv, NEW r \in Requests, Continue(r) \/ Crash(r)
    PROVE  PlanInv'
<1> DEFINE v == local[r]
           p == v.p
<1>0. /\ Plan(pc[r], v) /\ BlankRows /\ Carries(pc[r], v)
      /\ Creating(pc[r], v) => payments[p].status = "ABSENT"
      /\ payments \in Rows /\ sessions \in Sessions
  BY DEF PlanInv, RowsInv, TypeOK, Rows, Sessions
<1>1. ASSUME UNCHANGED <<payments, sessions>>
      PROVE  BlankRows'
  BY <1>0, <1>1 DEF BlankRows
<1>2. ASSUME UNCHANGED <<invoice, payments, sessions>>, NEW label, NEW w,
             Moves(r, label, w), Plan(label, w)
      PROVE  PlanInv'
  BY <1>1, <1>2, SamePlan, PlanKept
<1>3. ASSUME UNCHANGED <<payments, sessions>>, Finish(r)
      PROVE  PlanInv'
  BY <1>1, <1>3, PlanDone
<1>4. CASE CountPayments(r)
  <2>1. UNCHANGED <<invoice, payments, sessions>> /\ pc[r] = "count"
    BY <1>4 DEF CountPayments
  <2>2. CASE Completed(payments) = {}
    <3>1. Moves(r, "write", v)
      BY <1>4, <2>2 DEF CountPayments, Goto, Moves, TypeOK
    <3>2. Plan("write", v)
      BY <1>0, <2>1, <2>2 DEF Plan, LockedLabels
    <3> QED
      BY <1>2, <2>1, <3>1, <3>2
  <2>3. CASE Completed(payments) # {}
    BY <1>3, <1>4, <2>1, <2>3 DEF CountPayments
  <2> QED
    BY <2>2, <2>3
<1>5. CASE WriteInvoice(r) \/ Crash(r)
  BY <1>3, <1>5, InvoiceWritten DEF Crash
<1>6. CASE CheckFits(r)
  <2>1. UNCHANGED <<invoice, payments, sessions>> /\ pc[r] = "check"
    BY <1>6 DEF CheckFits
  <2>2. ASSUME CanComplete(invoice, payments, p, v.row.amount),
               Moves(r, IF v.row.status = "PENDING" THEN "insert" ELSE "update", v)
        PROVE  PlanInv'
    <3>1. Fits(v) /\ ~invoice.deleted
      BY <2>2 DEF Fits, CanComplete
    <3>2. CASE v.row.status = "PENDING"
      <4>1. Plan("insert", v)
        BY <1>0, <2>1, <3>1, <3>2 DEF Plan, LockedLabels
      <4> QED
        BY <1>2, <2>1, <2>2, <3>2, <4>1
    <3>3. CASE v.row.status # "PENDING"
      <4>1. Plan("update", v)
        BY <1>0, <2>1, <3>1, <3>3 DEF Plan, LockedLabels
      <4> QED
        BY <1>2, <2>1, <2>2, <3>3, <4>1
    <3> QED
      BY <3>2, <3>3
  <2> QED
    BY <1>3, <1>6, <2>1, <2>2, Checked
<1>7. CASE UpdatePayment(r)
  <2>1. UNCHANGED <<invoice, payments, sessions>> /\ pc[r] = "update"
    BY <1>7 DEF UpdatePayment
  <2>2. Plan("readInvoice", v)
    BY <1>0, <2>1 DEF Plan, LockedLabels
  <2> QED
    BY <1>2, <1>3, <1>7, <2>1, <2>2, PaymentUpdated
<1>8. CASE ReadInvoice(r)
  <2>1. UNCHANGED <<invoice, payments, sessions>> /\ pc[r] = "readInvoice"
    BY <1>8 DEF ReadInvoice
  <2>2. ~invoice.deleted /\ PaymentPlan(v) /\ (v.row.status = "COMPLETED" => Fits(v))
    BY <1>0, <2>1 DEF Plan, LockedLabels
  <2> DEFINE w == [p |-> local[r].p, row |-> local[r].row,
                   data |-> [total |-> invoice.total, status |-> invoice.status]]
  <2>3. Moves(r, "readPayments", w)
    BY <1>8, <2>2, InvoiceRead
  <2>4. w.p = p /\ w.row = v.row /\ w.data = [total |-> invoice.total, status |-> invoice.status]
    OBVIOUS
  <2> HIDE DEF w
  <2>5. PaymentPlan(w) /\ (w.row.status = "COMPLETED" => Fits(w))
    BY <2>2, <2>4, SameRowPlan
  <2>6. Plan("readPayments", w)
    BY <2>2, <2>4, <2>5 DEF Plan, LockedLabels
  <2>7. \E x : Moves(r, "readPayments", x) /\ Plan("readPayments", x)
    BY <2>3, <2>6
  <2> QED
    BY <1>2, <2>1, <2>7
<1>9. CASE ReadPayments(r)
  <2>1. UNCHANGED <<invoice, payments, sessions>> /\ pc[r] = "readPayments"
    BY <1>9 DEF ReadPayments
  <2>2. /\ ~invoice.deleted /\ PaymentPlan(v) /\ (v.row.status = "COMPLETED" => Fits(v))
        /\ v.data = [total |-> invoice.total, status |-> invoice.status]
    BY <1>0, <2>1 DEF Plan, LockedLabels
  <2> DEFINE data == SyncData(local[r].data.total, local[r].data.status, Visible(r))
             w == [p |-> local[r].p, row |-> local[r].row, data |-> data]
  <2>3. Moves(r, "commit", w)
    BY <1>9, PaymentsRead
  <2>4. data = SyncData(invoice.total, invoice.status, [payments EXCEPT ![p] = v.row])
    BY <2>2 DEF Visible
  <2>5. w.p = p /\ w.row = v.row /\ w.data = data
    OBVIOUS
  <2> HIDE DEF w, data
  <2>6. PaymentPlan(w) /\ (w.row.status = "COMPLETED" => Fits(w))
    BY <2>2, <2>5, SameRowPlan
  <2>7. Plan("commit", w)
    BY <2>2, <2>4, <2>5, <2>6 DEF Plan, LockedLabels
  <2>8. \E x : Moves(r, "commit", x) /\ Plan("commit", x)
    BY <2>3, <2>7
  <2> QED
    BY <1>2, <2>1, <2>8
<1>10. CASE CommitPayment(r)
  <2>1. /\ Finish(r) /\ p \in Payments /\ v.row \in PaymentRow /\ payments' = Visible(r)
        /\ UNCHANGED sessions
    BY <1>10, Committed
  <2>2. v.row.status # "ABSENT"
    BY <1>0, <2>1 DEF Carries
  <2>3. BlankRows'
    BY <1>0, <2>1, <2>2, VisibleRows DEF BlankRows
  <2> QED
    BY <2>1, <2>3, PlanDone
<1>11. CASE WriteRow(r)
  <2>1. pc[r] = "writeRow" /\ UNCHANGED sessions /\ Finish(r) /\ p \in Payments
    BY <1>11, RowWritten DEF WriteRow, RowWork
  <2>2. payments[p].status = "PENDING" /\ v.row.status # "ABSENT"
    BY <1>0, <2>1 DEF Plan, Stored
  <2>3. /\ \A q \in Payments \ {p} : payments'[q] = payments[q]
        /\ payments'[p].status = v.row.status
    BY <1>11, <2>2, RowWritten DEF Exists
  <2>4. BlankRows'
    BY <1>0, <2>1, <2>2, <2>3 DEF BlankRows
  <2> QED
    BY <2>1, <2>4, PlanDone
<1>12. CASE FailPending(r)
  <2>1. /\ pc[r] = "failPending" /\ Moves(r, "check", v) /\ v \in RowWork
        /\ UNCHANGED <<invoice, sessions>>
        /\ \A q \in Payments :
              payments'[q].status = IF q \in PendingStripe THEN "FAILED" ELSE payments[q].status
    BY <1>12, OthersFailed DEF FailPending
  <2>2. \A q \in Payments \ PendingStripe : payments'[q] = payments[q]
    BY <1>12 DEF FailPending
  <2>3. BlankRows'
    BY <1>0, <2>1, <2>2 DEF BlankRows
  <2>4. PendingStripe' = {}
    BY <2>1, <2>2 DEF PendingStripe
  <2>5. CheckoutPlan(v) /\ v.row.status = "PENDING"
    BY <1>0, <2>1 DEF Plan, Carries, RowWork
  <2>6. ASSUME NEW w, CheckoutPlan(w), w.row.status = "PENDING"
        PROVE  Plan("check", w)'
    <3>1. CheckoutPlan(w)' /\ OthersNotPending(w)'
      BY <2>1, <2>4, <2>6 DEF CheckoutPlan, OthersNotPending
    <3> QED
      BY <2>6, <3>1 DEF Plan, LockedLabels
  <2>7. PICK w : w = v
    OBVIOUS
  <2> QED
    BY <2>1, <2>3, <2>5, <2>6, <2>7, PlanKept
<1>13. CASE InsertPending(r)
  <2>1. /\ pc[r] = "insert" /\ Moves(r, "session", v) /\ v \in RowWork
        /\ UNCHANGED <<invoice, sessions>> /\ payments' \in Rows
        /\ payments'[p] = v.row
        /\ \A q \in Payments \ {p} : payments'[q] = payments[q]
    BY <1>13, PendingInserted DEF InsertPending
  <2>2. /\ CheckoutPlan(v) /\ OthersNotPending(v) /\ Fits(v)
        /\ v.row.status = "PENDING" /\ p \in Payments /\ payments[p].status = "ABSENT"
    BY <1>0, <2>1 DEF Plan, Carries, Creating, RowWork
  <2>3. BlankRows' /\ sessions[p] = "none"
    BY <1>0, <2>1, <2>2 DEF BlankRows
  <2>4. ASSUME NEW w, w = v
        PROVE  Stored(w)'
    <3>1. CheckoutPlan(w)'
      BY <2>1, <2>2, <2>4 DEF CheckoutPlan
    <3>2. OthersNotPending(w)'
      BY <2>1, <2>2, <2>4 DEF OthersNotPending, PendingStripe
    <3>3. SumOf(payments', Completed(payments') \ {p}) = SumOf(payments, Completed(payments) \ {p})
      BY <1>0, <2>1, OthersPaid
    <3>4. Fits(w)'
      BY <2>1, <2>2, <2>4, <3>3 DEF Fits, CanComplete
    <3> QED
      BY <2>1, <2>2, <2>3, <2>4, <3>1, <3>2, <3>4 DEF Stored, CheckoutPlan
  <2>5. PICK w : w = v
    OBVIOUS
  <2>6. Plan("session", w)'
    BY <2>4, <2>5 DEF Plan, LockedLabels
  <2> QED
    BY <2>1, <2>3, <2>5, <2>6, PlanKept
<1>14. CASE OpenSession(r)
  <2>1. pc[r] = "session" /\ v \in RowWork /\ Stored(v) /\ UNCHANGED <<invoice, payments>>
    BY <1>0, <1>14, SessionOpened DEF OpenSession, Plan
  <2>2. CASE Finish(r) /\ sessions' = [sessions EXCEPT ![p] = "open"]
    <3>1. payments[p].status # "ABSENT"
      BY <2>1 DEF Stored
    <3>2. BlankRows'
      BY <1>0, <2>1, <2>2, <3>1 DEF BlankRows, Sessions
    <3> QED
      BY <2>2, <3>2, PlanDone
  <2>3. CASE ~(Finish(r) /\ sessions' = [sessions EXCEPT ![p] = "open"])
    <3> DEFINE w == [p |-> local[r].p, data |-> NoColumns,
                     row |-> [status |-> "FAILED", method |-> local[r].row.method,
                              amount |-> local[r].row.amount]]
    <3>1. Moves(r, "writeRow", w) /\ UNCHANGED sessions
      BY <1>14, <2>3, SessionOpened
    <3>2. /\ w.p = p /\ w.row.status = "FAILED" /\ w.row.method = v.row.method
          /\ w.row.amount = v.row.amount
      OBVIOUS
    <3> HIDE DEF w
    <3>3. Stored(w)
      BY <2>1, <3>2, SameRowPlan
    <3>4. Plan("writeRow", w)
      BY <3>2, <3>3 DEF Plan, LockedLabels
    <3>5. \E x : Moves(r, "writeRow", x) /\ Plan("writeRow", x)
      BY <3>1, <3>4
    <3> QED
      BY <1>2, <2>1, <3>1, <3>5
  <2> QED
    BY <2>2, <2>3
<1> QED
  BY <1>4, <1>5, <1>6, <1>7, <1>8, <1>9, <1>10, <1>11, <1>12, <1>13, <1>14 DEF Continue

LEMMA PlanStep == Alone /\ TypeOK /\ RowsInv /\ PlanInv /\ [Next]_vars => PlanInv'
<1> SUFFICES ASSUME Alone, TypeOK, RowsInv, PlanInv, [Next]_vars PROVE PlanInv'
  OBVIOUS
<1>1. CASE UNCHANGED vars
  <2>1. UNCHANGED <<invoice, payments, sessions, pc, local>>
    BY <1>1 DEF vars
  <2>2. ASSUME NEW r \in Requests PROVE Plan(pc[r], local[r])'
    <3>1. Plan(pc[r], local[r])
      BY DEF PlanInv
    <3>2. PICK label, w : label = pc[r] /\ w = local[r]
      OBVIOUS
    <3>3. Plan(label, w)'
      BY <2>1, <3>1, <3>2, SamePlan
    <3>4. pc'[r] = label /\ local'[r] = w
      BY <2>1, <3>2
    <3> QED
      BY <3>3, <3>4
  <2> QED
    BY <2>1, <2>2 DEF PlanInv, BlankRows
<1> QED
  BY <1>1, PlanBegin, PlanContinue DEF Next

LEMMA PlanInit == Init => PlanInv
<1> SUFFICES ASSUME Init PROVE PlanInv
  OBVIOUS
<1>1. BlankRows
  BY DEF Init, BlankRows
<1>2. ASSUME NEW r \in Requests PROVE Plan(pc[r], local[r])
  BY DEF Init, Plan, LockedLabels
<1> QED
  BY <1>1, <1>2 DEF PlanInv

----------------------------------------------------------------------------
(* One request at a time implements InvoiceLedger. *)

LEMMA SameRules ==
    /\ Ledger!InvoiceStatuses = InvoiceStatuses /\ Ledger!PaymentStatuses = PaymentStatuses
    /\ Ledger!Editable = Editable /\ Ledger!Deletable = Deletable
    /\ Ledger!Sendable = Sendable /\ Ledger!CanFallDue = CanFallDue
    /\ Ledger!MoneyTargets = MoneyTargets
    /\ Ledger!NoPayment = NoPayment
  BY DEF InvoiceStatuses, PaymentStatuses, Editable, Deletable, Sendable, CanFallDue,
         MoneyTargets, NoPayment,
         Ledger!InvoiceStatuses, Ledger!PaymentStatuses, Ledger!Editable, Ledger!Deletable,
         Ledger!Sendable, Ledger!CanFallDue, Ledger!MoneyTargets, Ledger!NoPayment

LEMMA SameChecks ==
    ASSUME NEW row, NEW rows, NEW p, NEW amount
    PROVE  /\ Ledger!AcceptsPayment(row, amount) <=> AcceptsPayment(row, amount)
           /\ Ledger!CanComplete(row, rows, p, amount) <=> CanComplete(row, rows, p, amount)
<1>1. Ledger!AcceptsPayment(row, amount) <=> AcceptsPayment(row, amount)
  BY DEF AcceptsPayment, Ledger!AcceptsPayment, Payable, Ledger!Payable
<1>2. Ledger!CanComplete(row, rows, p, amount) <=> CanComplete(row, rows, p, amount)
  BY SameCompletedSum, SameSum DEF CanComplete, Ledger!CanComplete
<1> QED
  BY <1>1, <1>2

LEMMA SameTransitions ==
    ASSUME NEW from
    PROVE  /\ Ledger!ManualTransitions(from) = ManualTransitions(from)
           /\ Ledger!PaymentTransitions(from) = PaymentTransitions(from)
  BY DEF ManualTransitions, PaymentTransitions,
         Ledger!ManualTransitions, Ledger!PaymentTransitions

LEMMA SameMoney ==
    ASSUME NEW total, NEW paid, NEW to, NEW row, NEW mills
    PROVE  /\ Ledger!Outstanding(total, paid) = Outstanding(total, paid)
           /\ Ledger!ValidPart(to, total, mills) <=> ValidPart(to, total, mills)
           /\ Ledger!PaidAfter(to, row, mills) = PaidAfter(to, row, mills)
           /\ Ledger!BalanceAfter(to, row, mills) = BalanceAfter(to, row, mills)
  BY DEF Outstanding, ValidPart, PaidAfter, BalanceAfter, RoundMoney,
         Ledger!Outstanding, Ledger!ValidPart, Ledger!PaidAfter, Ledger!BalanceAfter,
         Ledger!RoundMoney

LEMMA SameRecomputation ==
    ASSUME NEW total, NEW status, NEW rows
    PROVE  Ledger!SyncData(total, status, rows) = SyncData(total, status, rows)
<1> DEFINE paid == CompletedSum(rows)
<1>1. Ledger!SomeRefunded(rows) = SomeRefunded(rows)
  BY DEF SomeRefunded, Ledger!SomeRefunded
<1>2. Ledger!SyncStatus(status, total, paid, SomeRefunded(rows))
        = SyncStatus(status, total, paid, SomeRefunded(rows))
  BY DEF SyncStatus, Ledger!SyncStatus, AutoStatuses, Ledger!AutoStatuses, Payable, Ledger!Payable
<1>3. Ledger!Outstanding(total, paid) = Outstanding(total, paid)
  BY DEF Outstanding, Ledger!Outstanding
<1> QED
  BY <1>1, <1>2, <1>3, SameCompletedSum DEF SyncData, Ledger!SyncData

\* What is shown while r is at work and after its step.
LEMMA ShownNow ==
    ASSUME Alone, TypeOK, NEW r \in Requests
    PROVE  /\ ~Opening(r) => Shown = payments
           /\ Opening(r) => Shown = [payments EXCEPT ![local[r].p] = NoPayment]
<1>1. \A p : (\E s \in Requests : Opening(s) /\ local[s].p = p) <=> Opening(r) /\ local[r].p = p
  BY DEF Alone
<1>2. payments = [p \in Payments |-> payments[p]]
  BY DEF TypeOK
<1>3. Shown = [p \in Payments |-> IF Opening(r) /\ local[r].p = p THEN NoPayment ELSE payments[p]]
  BY <1>1 DEF Shown
<1> HIDE DEF Opening
<1> QED
  BY <1>2, <1>3

LEMMA ShownNext ==
    ASSUME Alone, TypeOK', NEW r \in Requests
    PROVE  /\ ~Opening(r)' => Shown' = payments'
           /\ Opening(r)' => Shown' = [payments' EXCEPT ![local'[r].p] = NoPayment]
<1>1. \A p : (\E s \in Requests : Opening(s)' /\ local'[s].p = p)
                <=> Opening(r)' /\ local'[r].p = p
  BY DEF Alone
<1>2. payments' = [p \in Payments |-> payments'[p]]
  BY DEF TypeOK
<1>3. Shown' = [p \in Payments |-> IF Opening(r)' /\ local'[r].p = p THEN NoPayment
                                   ELSE payments'[p]]
  BY <1>1 DEF Shown
<1> HIDE DEF Opening
<1> QED
  BY <1>2, <1>3

\* A step that shows nothing.
LEMMA Stutters ==
    ASSUME Alone, TypeOK, TypeOK', NEW r \in Requests, ~Opening(r), ~Opening(r)',
           UNCHANGED <<invoice, payments, sessions, marks>>
    PROVE  UNCHANGED Ledger!vars
<1>1. Shown = payments /\ Shown' = payments'
  BY ShownNow, ShownNext
<1> HIDE DEF Shown, Opening
<1> QED
  BY <1>1 DEF Ledger!vars

LEMMA NotOpening ==
    ASSUME TypeOK, NEW r \in Requests
    PROVE  /\ pc[r] \notin {"session", "writeRow"} => ~Opening(r)
           /\ \A label, w : Moves(r, label, w) /\ label \notin {"session", "writeRow"}
                 => ~Opening(r)'
           /\ Finish(r) => ~Opening(r)'
<1>1. ASSUME NEW label, NEW w, Moves(r, label, w), label \notin {"session", "writeRow"}
      PROVE  ~Opening(r)'
  BY <1>1, OthersStay DEF Opening
<1> QED
  BY <1>1, Finished DEF Opening

\* The write of a handler of the invoice is that handler.
LEMMA InvoiceHandler ==
    ASSUME Alone, TypeOK, TypeOK', PlanInv, NEW r \in Requests, WriteInvoice(r)
    PROVE  [Ledger!Next]_(Ledger!vars)
<1> DEFINE data == local[r].data
           new == Updated(data)
<1>1. Shown = payments /\ Shown' = payments' /\ UNCHANGED Shown
  <2>1. ~Opening(r) /\ ~Opening(r)'
    BY InvoiceWritten, NotOpening DEF WriteInvoice
  <2> QED
    BY <2>1, ShownNow, ShownNext, InvoiceWritten
<1>2. /\ data \in AllColumns /\ invoice' = new /\ UNCHANGED sessions
      /\ marks' = marks \cup (IF data \in EditColumns THEN {"edited"} ELSE {})
                        \cup (IF data \in MoneyColumns THEN {"byHand"} ELSE {})
      /\ InvoicePlan(data) /\ (data = [deleted |-> TRUE] => Completed(payments) = {})
  BY InvoiceWritten DEF WriteInvoice, PlanInv, Plan
<1>3. /\ invoice \in InvoiceRow /\ new \in InvoiceRow
      /\ new.status = IF data \in StatusColumns \cup MoneyColumns THEN data.status
                      ELSE invoice.status
      /\ new.total = IF data \in EditColumns THEN data.total ELSE invoice.total
      /\ new.paidAmount = IF data \in MoneyColumns THEN data.paidAmount ELSE invoice.paidAmount
      /\ new.balanceDue = IF data \in EditColumns \cup MoneyColumns THEN data.balanceDue
                          ELSE invoice.balanceDue
      /\ new.deleted = (invoice.deleted \/ data = [deleted |-> TRUE])
  BY <1>2, UpdatedRow DEF TypeOK
<1>4. /\ invoice.status \in InvoiceStatuses /\ invoice.total \in Nat
      /\ invoice.paidAmount \in Nat /\ invoice.balanceDue \in Nat /\ invoice.deleted \in BOOLEAN
  BY <1>3 DEF InvoiceRow
<1>5. ASSUME data \notin MoneyColumns
      PROVE  UNCHANGED ("byHand" \in marks)
  BY <1>2, <1>5
<1> HIDE DEF data, new, Shown
\* A write of a status alone.
<1>6. ASSUME NEW to \in {"SENT", "VIEWED", "OVERDUE", "CANCELLED"}, data = [status |-> to]
      PROVE  /\ new = [invoice EXCEPT !.status = to]
             /\ UNCHANGED ("byHand" \in marks)
  <2>1. data \in StatusColumns /\ data.status = to /\ to \in InvoiceStatuses
    BY <1>6 DEF StatusColumns, InvoiceStatuses
  <2>2. data \notin MoneyColumns /\ data \notin EditColumns /\ data # [deleted |-> TRUE]
    BY <2>1, ColumnNames
  <2> DEFINE row == [invoice EXCEPT !.status = to]
  <2>3. /\ row \in InvoiceRow /\ row.status = to /\ row.total = invoice.total
        /\ row.paidAmount = invoice.paidAmount /\ row.balanceDue = invoice.balanceDue
        /\ row.deleted = invoice.deleted
    BY <1>3, <2>1 DEF InvoiceRow
  <2> HIDE DEF row
  <2>4. new = row
    BY <1>3, <1>4, <2>1, <2>2, <2>3, SameRow
  <2> QED
    BY <1>5, <2>2, <2>4 DEF row
<1>7. CASE data = NoColumns
  <2>1. data \notin StatusColumns \cup EditColumns \cup MoneyColumns /\ data # [deleted |-> TRUE]
    BY <1>7, ColumnNames
  <2>2. invoice' = invoice
    BY <1>2, <1>3, <1>4, <2>1, SameRow
  <2> QED
    BY <1>1, <1>2, <1>5, <2>1, <2>2 DEF Ledger!vars
<1>8. CASE /\ ~invoice.deleted /\ data = [status |-> "SENT"]
           /\ invoice.status = "DRAFT" /\ invoice.total > 0
  <2>1. Ledger!SendInvoice
    BY <1>1, <1>2, <1>6, <1>8, SameRules DEF Ledger!SendInvoice, Sendable
  <2> QED
    BY <2>1 DEF Ledger!Next, Ledger!OwnerStep
<1>9. CASE /\ ~invoice.deleted /\ invoice.status \in Editable
           /\ \E total \in Totals :
                 data = [total |-> total, balanceDue |-> Outstanding(total, invoice.paidAmount)]
  <2>1. PICK total \in Totals :
           data = [total |-> total, balanceDue |-> Outstanding(total, invoice.paidAmount)]
    BY <1>9
  <2> DEFINE due == Outstanding(total, invoice.paidAmount)
             row == [invoice EXCEPT !.total = total, !.balanceDue = due]
  <2>2. total \in Nat /\ due \in Nat
    BY <1>4, TotalAssumption DEF Outstanding
  <2> HIDE DEF due
  <2>3. data \in EditColumns /\ data.total = total /\ data.balanceDue = due
    BY <2>1, <2>2 DEF EditColumns, due
  <2>4. data \notin MoneyColumns /\ data \notin StatusColumns /\ data # [deleted |-> TRUE]
    BY <2>3, ColumnNames
  <2>5. /\ row \in InvoiceRow /\ row.status = invoice.status /\ row.total = total
        /\ row.paidAmount = invoice.paidAmount /\ row.balanceDue = due
        /\ row.deleted = invoice.deleted
    BY <1>3, <2>2 DEF InvoiceRow
  <2> HIDE DEF row
  <2>6. new = row
    BY <1>3, <1>4, <2>3, <2>4, <2>5, SameRow
  <2>7. Ledger!UpdateInvoice
    BY <1>1, <1>2, <1>5, <1>9, <2>4, <2>6, SameRules, SameMoney DEF Ledger!UpdateInvoice, row, due
  <2> QED
    BY <2>7 DEF Ledger!Next, Ledger!OwnerStep
<1>10. CASE /\ ~invoice.deleted
            /\ \E to \in ManualTransitions(invoice.status), mills \in PaidInputs :
                  /\ to = "SENT" => invoice.total > 0
                  /\ ValidPart(to, invoice.total, mills)
                  /\ data = IF to \in MoneyTargets
                            THEN [status |-> to, paidAmount |-> PaidAfter(to, invoice, mills),
                                  balanceDue |-> BalanceAfter(to, invoice, mills)]
                            ELSE [status |-> to]
  <2>1. PICK to \in ManualTransitions(invoice.status), mills \in PaidInputs :
           /\ to = "SENT" => invoice.total > 0
           /\ ValidPart(to, invoice.total, mills)
           /\ data = IF to \in MoneyTargets
                     THEN [status |-> to, paidAmount |-> PaidAfter(to, invoice, mills),
                           balanceDue |-> BalanceAfter(to, invoice, mills)]
                     ELSE [status |-> to]
    BY <1>10
  <2>2. to \in InvoiceStatuses
    BY <1>4, <2>1 DEF ManualTransitions, InvoiceStatuses
  <2> DEFINE paid == PaidAfter(to, invoice, mills)
             due == BalanceAfter(to, invoice, mills)
             row == [invoice EXCEPT !.status = to, !.paidAmount = paid, !.balanceDue = due]
  <2>3. /\ new = row
        /\ to \in MoneyTargets => "byHand" \in marks'
        /\ to \notin MoneyTargets => UNCHANGED ("byHand" \in marks)
    <3>1. CASE to \in MoneyTargets
      <4>1. data \in MoneyColumns
        BY <1>3, <2>1, <3>1, EnteredColumns
      <4>2. data.status = to /\ data.paidAmount = paid /\ data.balanceDue = due
        BY <2>1, <3>1
      <4>3. paid \in Nat /\ due \in Nat
        BY <4>1, <4>2 DEF MoneyColumns
      <4>4. data \notin EditColumns /\ data # [deleted |-> TRUE]
        BY <4>1, ColumnNames
      <4> HIDE DEF paid, due
      <4>5. /\ row \in InvoiceRow /\ row.status = to /\ row.total = invoice.total
            /\ row.paidAmount = paid /\ row.balanceDue = due /\ row.deleted = invoice.deleted
        BY <1>3, <2>2, <4>3 DEF InvoiceRow
      <4> HIDE DEF row
      <4>6. new = row
        BY <1>3, <1>4, <4>1, <4>2, <4>4, <4>5, SameRow
      <4> QED
        BY <1>2, <3>1, <4>1, <4>6
    <3>2. CASE to \notin MoneyTargets
      <4>1. paid = invoice.paidAmount /\ due = invoice.balanceDue
        BY <3>2 DEF PaidAfter, BalanceAfter, MoneyTargets
      <4>2. to \in {"SENT", "VIEWED", "OVERDUE", "CANCELLED"} /\ data = [status |-> to]
        BY <2>1, <2>2, <3>2 DEF MoneyTargets, InvoiceStatuses
      <4>3. new = [invoice EXCEPT !.status = to] /\ UNCHANGED ("byHand" \in marks)
        BY <1>6, <4>2
      <4> HIDE DEF paid, due
      <4>4. row = [invoice EXCEPT !.status = to]
        BY <1>3, <4>1 DEF InvoiceRow
      <4> HIDE DEF row
      <4>5. new = row
        BY <4>3, <4>4
      <4>6. UNCHANGED ("byHand" \in marks)
        BY <4>3
      <4> QED
        BY <3>2, <4>5, <4>6
    <3> QED
      BY <3>1, <3>2
  <2>4. ("byHand" \in marks)' = ("byHand" \in marks \/ to \in MoneyTargets)
    BY <1>2, <2>3
  <2>5. /\ to \in Ledger!ManualTransitions(invoice.status) /\ Ledger!ValidPart(to, invoice.total, mills)
        /\ Ledger!PaidAfter(to, invoice, mills) = paid
        /\ Ledger!BalanceAfter(to, invoice, mills) = due
    BY <2>1, SameMoney, SameTransitions
  <2> HIDE DEF paid, due
  <2>6. Ledger!ChangeStatus(to, mills)
    BY <1>1, <1>2, <1>10, <2>1, <2>3, <2>4, <2>5, SameRules DEF Ledger!ChangeStatus
  <2> QED
    BY <2>2, <2>6, SameRules DEF Ledger!Next, Ledger!OwnerStep
<1>11. CASE ~invoice.deleted /\ data = [status |-> "VIEWED"] /\ invoice.status = "SENT"
  <2>1. Ledger!ViewFromPortal
    BY <1>1, <1>2, <1>6, <1>11 DEF Ledger!ViewFromPortal
  <2> QED
    BY <2>1 DEF Ledger!Next
<1>12. CASE /\ ~invoice.deleted /\ data = [status |-> "OVERDUE"]
            /\ invoice.balanceDue > 0 /\ invoice.status \in CanFallDue
  <2>1. Ledger!FallOverdue
    BY <1>1, <1>2, <1>6, <1>12, SameRules DEF Ledger!FallOverdue
  <2> QED
    BY <2>1 DEF Ledger!Next
<1>13. CASE ~invoice.deleted /\ data = [deleted |-> TRUE] /\ invoice.status \in Deletable
  <2>1. data \notin StatusColumns \cup EditColumns \cup MoneyColumns
    BY <1>13, ColumnNames
  <2> DEFINE row == [invoice EXCEPT !.deleted = TRUE]
  <2>2. /\ row \in InvoiceRow /\ row.status = invoice.status /\ row.total = invoice.total
        /\ row.paidAmount = invoice.paidAmount /\ row.balanceDue = invoice.balanceDue
        /\ row.deleted = TRUE
    BY <1>3 DEF InvoiceRow
  <2> HIDE DEF row
  <2>3. new = row
    BY <1>3, <1>13, <2>1, <2>2, SameRow
  <2>4. Ledger!Completed(Shown) = {}
    BY <1>1, <1>2, <1>13, SameCompletedSum
  <2>5. Ledger!DeleteInvoice
    BY <1>1, <1>2, <1>5, <1>13, <2>1, <2>3, <2>4, SameRules DEF Ledger!DeleteInvoice, row
  <2> QED
    BY <2>5 DEF Ledger!Next, Ledger!OwnerStep
<1> QED
  BY <1>2, <1>7, <1>8, <1>9, <1>10, <1>11, <1>12, <1>13 DEF InvoicePlan

\* A commit is the handler that recomputes: recordPayment, updatePaymentStatus or
\* completeStripePayment, with what was true when it was checked still true.
LEMMA PaymentHandler ==
    ASSUME Alone, TypeOK, TypeOK', PlanInv, NEW r \in Requests, CommitPayment(r)
    PROVE  Ledger!Next
<1> DEFINE w == local[r]
           p == w.p
           rows == Visible(r)
           data == SyncData(invoice.total, invoice.status, rows)
           new == Updated(data)
<1>1. Shown = payments /\ Shown' = payments'
  <2>1. ~Opening(r) /\ ~Opening(r)'
    BY Committed, NotOpening DEF CommitPayment
  <2> QED
    BY <2>1, ShownNow, ShownNext
<1>2. /\ p \in Payments /\ w.row \in PaymentRow /\ payments' = rows
      /\ w.data \in {NoColumns} \cup MoneyColumns
      /\ invoice' = Updated(w.data) /\ UNCHANGED sessions
      /\ w.data # NoColumns => "byHand" \notin marks'
  BY Committed
<1>3. /\ PaymentPlan(w) /\ ~invoice.deleted
      /\ w.row.status = "COMPLETED" => Fits(w)
      /\ w.data = data
  BY DEF PlanInv, Plan, CommitPayment, LockedLabels, Visible
<1>4. /\ invoice.status \in InvoiceStatuses /\ invoice.total \in Nat
      /\ invoice \in InvoiceRow /\ payments \in Rows /\ rows \in Rows
  BY <1>2, VisibleRows DEF TypeOK, InvoiceRow, Rows
<1>5. data \in MoneyColumns
  BY <1>4, SummedColumns
<1>6. data \notin StatusColumns /\ data \notin EditColumns /\ data # [deleted |-> TRUE]
      /\ data # NoColumns
  BY <1>5, ColumnNames
<1> HIDE DEF data
<1>7. /\ new \in InvoiceRow /\ new.status = data.status /\ new.total = invoice.total
      /\ new.paidAmount = data.paidAmount /\ new.balanceDue = data.balanceDue
      /\ new.deleted = invoice.deleted
  BY <1>4, <1>5, <1>6, UpdatedRow DEF AllColumns, InvoiceRow
<1> HIDE DEF new, w, rows, Shown
<1>8. new = [invoice EXCEPT !.paidAmount = data.paidAmount, !.balanceDue = data.balanceDue,
                            !.status = data.status]
  <2> DEFINE row == [invoice EXCEPT !.paidAmount = data.paidAmount,
                                    !.balanceDue = data.balanceDue, !.status = data.status]
  <2>1. data.paidAmount \in Nat /\ data.balanceDue \in Nat /\ data.status \in InvoiceStatuses
    BY <1>5 DEF MoneyColumns
  <2>2. /\ row \in InvoiceRow /\ row.status = data.status /\ row.total = invoice.total
        /\ row.paidAmount = data.paidAmount /\ row.balanceDue = data.balanceDue
        /\ row.deleted = invoice.deleted
    BY <1>4, <2>1 DEF InvoiceRow
  <2> HIDE DEF row
  <2>3. new = row
    BY <1>7, <2>2, SameRow
  <2> QED
    BY <2>3 DEF row
<1>9. Ledger!Settle(rows)
  <2>1. Ledger!SyncData(invoice.total, invoice.status, rows) = data
    BY SameRecomputation DEF data
  <2>2. ("byHand" \in marks)' = ("byHand" \in marks /\ invoice.deleted)
    BY <1>2, <1>3, <1>6
  <2>3. invoice' = new
    BY <1>2, <1>3 DEF new
  <2> QED
    BY <1>1, <1>2, <1>3, <1>8, <2>1, <2>2, <2>3 DEF Ledger!Settle
<1>10. rows = [payments EXCEPT ![p] = w.row]
  BY DEF rows, Visible, w
<1>11. w.row.status = "COMPLETED" => Ledger!CanComplete(invoice, Shown, p, w.row.amount)
  BY <1>1, <1>3, SameChecks DEF Fits
<1>12. ASSUME NEW to, ChangedTo(w, to)
       PROVE  rows = [payments EXCEPT ![p].status = to]
  <2>1. w.row = [payments[p] EXCEPT !.status = to]
    BY <1>2, <1>4, <1>12 DEF ChangedTo, Rows, PaymentRow
  <2> QED
    BY <1>10, <2>1
<1>13. CASE /\ payments[p].status = "ABSENT"
            /\ w.row.status = "COMPLETED" /\ w.row.method = "MANUAL" /\ w.row.amount \in Amounts
            /\ AcceptsPayment(invoice, w.row.amount)
  <2>1. w.row = [status |-> "COMPLETED", method |-> "MANUAL", amount |-> w.row.amount]
    BY <1>2, <1>13 DEF PaymentRow
  <2>2. rows = [Shown EXCEPT ![p] = [status |-> "COMPLETED", method |-> "MANUAL",
                                     amount |-> w.row.amount]]
    BY <1>1, <1>10, <2>1
  <2>3. Ledger!AcceptsPayment(invoice, w.row.amount)
    BY <1>13, SameChecks
  <2>4. Ledger!RecordPayment(p, w.row.amount)
    BY <1>1, <1>2, <1>9, <1>11, <1>13, <2>2, <2>3 DEF Ledger!RecordPayment
  <2> QED
    BY <1>2, <1>13, <2>4 DEF Ledger!Next, Ledger!OwnerStep
<1>14. CASE \E to \in PaymentTransitions(payments[p].status) : ChangedTo(w, to)
  <2>1. PICK to \in PaymentTransitions(payments[p].status) : ChangedTo(w, to)
    BY <1>14
  <2>2. to \in PaymentStatuses
    BY <2>1 DEF PaymentTransitions, PaymentStatuses
  <2>3. /\ to \in Ledger!PaymentTransitions(Shown[p].status)
        /\ to \in Ledger!PaymentStatuses
    BY <1>1, <2>1, <2>2, SameTransitions, SameRules
  <2>4. to = "COMPLETED" => Ledger!CanComplete(invoice, Shown, p, Shown[p].amount)
    BY <1>1, <1>11, <2>1 DEF ChangedTo, p
  <2>5. rows = [Shown EXCEPT ![p].status = to]
    BY <1>1, <1>12, <2>1
  <2>6. Ledger!UpdatePaymentStatus(p, to)
    BY <1>2, <1>3, <1>9, <2>3, <2>4, <2>5 DEF Ledger!UpdatePaymentStatus
  <2> QED
    BY <1>2, <2>3, <2>6 DEF Ledger!Next, Ledger!OwnerStep
<1>15. CASE /\ sessions[p] = "paid"
            /\ payments[p].status \notin {"ABSENT", "REMOVED", "COMPLETED"}
            /\ ChangedTo(w, "COMPLETED")
  <2>1. rows = [Shown EXCEPT ![p].status = "COMPLETED"]
    BY <1>1, <1>12, <1>15
  <2>2. Ledger!CanComplete(invoice, Shown, p, Shown[p].amount)
    BY <1>1, <1>11, <1>15 DEF ChangedTo, p
  <2>3. Ledger!CheckoutCompleted(p)
    BY <1>1, <1>2, <1>9, <1>15, <2>1, <2>2 DEF Ledger!CheckoutCompleted
  <2> QED
    BY <1>2, <2>3 DEF Ledger!Next, Ledger!StripeStep
<1> QED
  BY <1>3, <1>13, <1>14, <1>15 DEF PaymentPlan, p

\* A checkout that has stored its row still knows why: nothing has changed since.
LEMMA StoredRow ==
    ASSUME Alone, TypeOK, PlanInv, NEW r \in Requests, Opening(r)
    PROVE  /\ Stored(local[r]) /\ local[r].p \in Payments /\ pc[r] # "idle"
           /\ Shown \in Rows /\ Shown[local[r].p] = NoPayment
           /\ \A q \in Payments \ {local[r].p} : Shown[q] = payments[q]
           /\ Ledger!PendingFailed(Shown) = Shown
<1> DEFINE w == local[r]
           p == w.p
<1>1. pc[r] \in {"session", "writeRow"} /\ Plan(pc[r], w)
  BY DEF Opening, PlanInv
<1>2. Stored(w)
  BY <1>1 DEF Plan, Opening
<1>3. p \in Payments
  BY <1>1, RowAtHand DEF CarryLabels
<1>4. Shown = [payments EXCEPT ![p] = NoPayment]
  BY ShownNow
<1>5. payments \in Rows /\ NoPayment \in PaymentRow /\ NoPayment.status = "ABSENT"
  BY DEF TypeOK, Rows, NoPayment, PaymentRow, PaymentStatuses, Methods
<1> HIDE DEF Shown, w, p
<1>6. /\ Shown \in Rows /\ Shown[p] = NoPayment
      /\ \A q \in Payments \ {p} : Shown[q] = payments[q]
  BY <1>3, <1>4, <1>5 DEF Rows
<1>7. ASSUME NEW q \in Payments
      PROVE  ~(Shown[q].status = "PENDING" /\ Shown[q].method = "STRIPE")
  BY <1>2, <1>5, <1>6 DEF Stored, OthersNotPending, PendingStripe, p
<1>8. Shown = [q \in Payments |-> Shown[q]]
  BY <1>6 DEF Rows
<1>9. Ledger!PendingFailed(Shown) = Shown
  BY <1>7, <1>8 DEF Ledger!PendingFailed
<1> QED
  BY <1>1, <1>2, <1>3, <1>6, <1>9 DEF p, w

\* Once its row shows, with a session or without, the checkout has taken place.
LEMMA CheckoutHandler ==
    ASSUME Alone, TypeOK, TypeOK', PlanInv, NEW r \in Requests, Opening(r), ~Opening(r)',
           UNCHANGED <<invoice, marks>>,
           NEW status \in {"PENDING", "FAILED"},
           payments' = [payments EXCEPT ![local[r].p].status = status],
           \/ UNCHANGED sessions
           \/ status = "PENDING" /\ sessions' = [sessions EXCEPT ![local[r].p] = "open"]
    PROVE  Ledger!Next
<1> DEFINE p == local[r].p
           amount == local[r].row.amount
           row == [status |-> status, method |-> "STRIPE", amount |-> amount]
<1>1. /\ Stored(local[r]) /\ p \in Payments
      /\ Shown \in Rows /\ Shown[p] = NoPayment
      /\ \A q \in Payments \ {p} : Shown[q] = payments[q]
      /\ Ledger!PendingFailed(Shown) = Shown
  BY StoredRow
<1>2. payments \in Rows /\ Shown' = payments'
  BY ShownNext DEF TypeOK, Rows
<1>3. /\ AcceptsPayment(invoice, amount) /\ amount \in Amounts
      /\ CanComplete(invoice, payments, p, amount)
      /\ payments[p].method = "STRIPE" /\ payments[p].amount = amount
  BY <1>1 DEF Stored, CheckoutPlan, Fits
<1> HIDE DEF Shown, p, amount
<1>4. [payments[p] EXCEPT !.status = status] = row
  BY <1>1, <1>2, <1>3 DEF Rows, PaymentRow
<1>5. payments' = [payments EXCEPT ![p] = row]
  BY <1>4 DEF p
<1> HIDE DEF row
<1>6. Shown' = [Shown EXCEPT ![p] = row]
  BY <1>1, <1>2, <1>5 DEF Rows
<1>7. SumOf(Shown, Completed(Shown) \ {p}) = SumOf(payments, Completed(payments) \ {p})
  BY <1>1, <1>2, OthersPaid
<1>8. Ledger!CanComplete(invoice, Shown, p, amount) /\ Ledger!AcceptsPayment(invoice, amount)
  <2>1. CanComplete(invoice, Shown, p, amount)
    BY <1>3, <1>7 DEF CanComplete
  <2> QED
    BY <1>3, <2>1, SameChecks
<1>9. Shown[p].status = "ABSENT"
  BY <1>1 DEF NoPayment
<1>10. Ledger!StripeCheckout(p, amount)
  <2>1. CASE status = "PENDING"
    <3>1. Shown' = [Shown EXCEPT ![p] = [status |-> "PENDING", method |-> "STRIPE",
                                         amount |-> amount]]
      BY <1>6, <2>1 DEF row
    <3>2. sessions' = [sessions EXCEPT ![p] = "open"] \/ UNCHANGED sessions
      BY DEF p
    <3> QED
      BY <1>1, <1>8, <1>9, <3>1, <3>2 DEF Ledger!StripeCheckout
  <2>2. CASE status = "FAILED"
    <3>1. Shown' = [Shown EXCEPT ![p] = [status |-> "FAILED", method |-> "STRIPE",
                                         amount |-> amount]]
      BY <1>6, <2>2 DEF row
    <3>2. UNCHANGED sessions
      BY <2>2
    <3> QED
      BY <1>1, <1>8, <1>9, <3>1, <3>2 DEF Ledger!StripeCheckout
  <2> QED
    BY <2>1, <2>2
<1> QED
  BY <1>1, <1>3, <1>10 DEF Ledger!Next, Ledger!StripeStep

\* The first statement of a checkout takes effect whatever becomes of the rest.
LEMMA EarlierFailed ==
    ASSUME Alone, TypeOK, TypeOK', RowsInv, PlanInv, NEW r \in Requests, FailPending(r)
    PROVE  Ledger!Next
<1> DEFINE p == local[r].p
           amount == local[r].row.amount
<1>1. /\ pc[r] = "failPending" /\ Moves(r, "check", local[r])
      /\ UNCHANGED <<invoice, sessions, marks>> /\ p \in Payments
      /\ payments' = [q \in Payments |-> IF q \in PendingStripe
                                         THEN [payments[q] EXCEPT !.status = "FAILED"]
                                         ELSE payments[q]]
  BY OthersFailed DEF FailPending, RowWork
<1>2. Shown = payments /\ Shown' = payments'
  BY <1>1, NotOpening, ShownNow, ShownNext
<1>3. CheckoutPlan(local[r]) /\ payments[p].status = "ABSENT"
  BY <1>1 DEF PlanInv, Plan, RowsInv, Carries, Creating
<1> HIDE DEF p, Shown
<1>4. Ledger!PendingFailed(Shown) = payments'
  BY <1>1, <1>2 DEF Ledger!PendingFailed, PendingStripe
<1>5. Ledger!AcceptsPayment(invoice, amount) /\ amount \in Amounts
  BY <1>3, SameChecks DEF CheckoutPlan
<1>6. Ledger!StripeCheckout(p, amount)
  BY <1>1, <1>2, <1>3, <1>4, <1>5 DEF Ledger!StripeCheckout
<1> QED
  BY <1>1, <1>5, <1>6 DEF Ledger!Next, Ledger!StripeStep

\* The row that a checkout stores does not show before its session.
LEMMA InsertedUnseen ==
    ASSUME Alone, TypeOK, TypeOK', RowsInv, PlanInv, NEW r \in Requests, InsertPending(r)
    PROVE  UNCHANGED Ledger!vars
<1> DEFINE p == local[r].p
<1>1. /\ pc[r] = "insert" /\ Moves(r, "session", local[r]) /\ p \in Payments
      /\ payments' \in Rows
      /\ \A q \in Payments \ {p} : payments'[q] = payments[q]
      /\ UNCHANGED <<invoice, sessions, marks>>
  BY PendingInserted DEF InsertPending, RowWork
<1>2. payments \in Rows /\ payments[p] = NoPayment
  BY <1>1 DEF TypeOK, Rows, RowsInv, Carries, Creating, PlanInv, BlankRows
<1>3. Shown = payments
  BY <1>1, NotOpening, ShownNow
<1>4. Opening(r)' /\ local'[r].p = p
  BY <1>1, OthersStay DEF Opening
<1>5. Shown' = [payments' EXCEPT ![local'[r].p] = NoPayment]
  BY <1>4, ShownNext
<1> HIDE DEF p, Shown, Opening
<1>6. Shown' = [payments' EXCEPT ![p] = NoPayment]
  BY <1>4, <1>5
<1>7. Shown' = Shown
  BY <1>1, <1>2, <1>3, <1>6 DEF Rows
<1> QED
  BY <1>1, <1>7 DEF Ledger!vars

\* Stripe's answer.
LEMMA SessionHandler ==
    ASSUME Alone, TypeOK, TypeOK', PlanInv, NEW r \in Requests, OpenSession(r)
    PROVE  [Ledger!Next]_(Ledger!vars)
<1> DEFINE p == local[r].p
           w == [p |-> local[r].p, data |-> NoColumns,
                 row |-> [status |-> "FAILED", method |-> local[r].row.method,
                          amount |-> local[r].row.amount]]
<1>1. /\ pc[r] = "session" /\ Opening(r) /\ UNCHANGED <<invoice, payments, marks>>
  BY DEF OpenSession, Opening
<1>2. Stored(local[r]) /\ p \in Payments
  BY <1>1, StoredRow
<1>3. CASE Finish(r) /\ sessions' = [sessions EXCEPT ![p] = "open"]
  <2>1. payments' = [payments EXCEPT ![p].status = "PENDING"]
    <3>1. [payments[p] EXCEPT !.status = "PENDING"] = payments[p]
      BY <1>2 DEF Stored, TypeOK, PaymentRow
    <3> QED
      BY <1>1, <1>2, <3>1 DEF TypeOK
  <2>2. ~Opening(r)'
    BY <1>3, NotOpening
  <2> QED
    BY <1>1, <1>3, <2>1, <2>2, CheckoutHandler
<1>4. CASE Moves(r, "writeRow", w) /\ UNCHANGED sessions
  <2>1. pc'[r] = "writeRow" /\ local'[r].p = p /\ local'[r].row.status = "FAILED"
    BY <1>4, OthersStay
  <2>2. sessions[p] = "none"
    BY <1>2 DEF Stored
  <2>3. Opening(r)'
    BY <1>4, <2>1, <2>2 DEF Opening
  <2>4. /\ Shown = [payments EXCEPT ![p] = NoPayment]
        /\ Shown' = [payments' EXCEPT ![local'[r].p] = NoPayment]
    BY <1>1, <2>3, ShownNow, ShownNext
  <2> HIDE DEF Shown, p
  <2>5. UNCHANGED Shown
    BY <1>1, <2>1, <2>4
  <2> QED
    BY <1>1, <1>4, <2>5 DEF Ledger!vars
<1> QED
  BY <1>3, <1>4, SessionOpened

\* A write to a row that was read as PENDING: it still is.
LEMMA RowHandler ==
    ASSUME Alone, TypeOK, TypeOK', PlanInv, NEW r \in Requests, WriteRow(r)
    PROVE  Ledger!Next
<1> DEFINE w == local[r]
           p == w.p
<1>1. /\ pc[r] = "writeRow" /\ Finish(r) /\ p \in Payments /\ UNCHANGED <<invoice, sessions>>
      /\ Plan("writeRow", w)
  BY RowWritten DEF WriteRow, RowWork, PlanInv
<1>2. payments[p].status = "PENDING"
  BY <1>1 DEF Plan, Stored
<1>3. /\ payments' = [payments EXCEPT ![p].status = w.row.status]
      /\ UNCHANGED marks
  BY <1>2 DEF WriteRow, Exists
<1>4. ~Opening(r)' /\ Shown' = payments'
  BY <1>1, NotOpening, ShownNext
<1>5. CASE Opening(r)
  <2>1. w.row.status = "FAILED"
    BY <1>1, <1>5, StoredRow DEF Opening
  <2> QED
    BY <1>1, <1>3, <1>4, <1>5, <2>1, CheckoutHandler
<1>6. CASE ~Opening(r)
  <2>1. Shown = payments
    BY <1>6, ShownNow
  <2>2. CASE w.row.status = "FAILED" /\ sessions[p] = "expired"
    <3>1. Ledger!CheckoutExpired(p)
      BY <1>1, <1>2, <1>3, <1>4, <2>1, <2>2 DEF Ledger!CheckoutExpired
    <3> QED
      BY <1>1, <3>1 DEF Ledger!Next, Ledger!StripeStep
  <2>3. CASE w.row.status = "REMOVED" /\ ~invoice.deleted
    <3>1. Ledger!CancelPayment(p)
      BY <1>1, <1>2, <1>3, <1>4, <2>1, <2>3 DEF Ledger!CancelPayment
    <3> QED
      BY <1>1, <3>1 DEF Ledger!Next, Ledger!OwnerStep
  <2>4. ~(w.row.status = "FAILED" /\ sessions[p] = "none")
    BY <1>1, <1>6 DEF Opening
  <2> QED
    BY <1>1, <2>2, <2>3, <2>4 DEF Plan, Stored
<1> QED
  BY <1>5, <1>6

\* The first statement of a handler writes nothing; that a webhook arrives says
\* how its session has ended.
LEMMA BeginHandler ==
    ASSUME Alone, TypeOK, TypeOK', NEW r \in Requests, Begin(r)
    PROVE  [Ledger!Next]_(Ledger!vars)
<1>1. /\ pc[r] = "idle" /\ UNCHANGED <<invoice, payments, marks>>
      /\ ~Opening(r) /\ Shown = payments
  <2>1. pc[r] = "idle" /\ UNCHANGED <<invoice, payments, marks>>
    BY DEF Begin, StartSend, StartEdit, StartStatus, StartDelete, StartView, StartOverdue,
           StartRecord, StartSettle, StartPaid, StartCancel, StartExpired, StartCheckout, Start
  <2> QED
    BY <2>1, NotOpening, ShownNow
<1>2. ASSUME ~Opening(r)', UNCHANGED sessions
      PROVE  [Ledger!Next]_(Ledger!vars)
  BY <1>1, <1>2, Stutters
<1>3. ASSUME NEW label, NEW w, Begins(r, label, w)
      PROVE  pc'[r] = label /\ local'[r] = w /\ (label \notin {"session", "writeRow"} => ~Opening(r)')
  <2>1. Moves(r, label, w)
    BY <1>3 DEF Begins, Moves
  <2> QED
    BY <2>1, OthersStay, NotOpening
<1>4. ASSUME NEW p \in Payments, NEW how \in {"paid", "expired"}, Ended(p, how), ~Opening(r)'
      PROVE  [Ledger!Next]_(Ledger!vars)
  <2>1. CASE sessions[p] = "open"
    <3>1. Shown' = payments'
      BY <1>4, ShownNext
    <3>2. Ledger!SessionEnds(p, how)
      BY <1>1, <1>4, <2>1, <3>1 DEF Ledger!SessionEnds, Ended
    <3> QED
      BY <3>2 DEF Ledger!Next, Ledger!StripeStep
  <2>2. CASE sessions[p] = how
    <3>1. sessions' = sessions
      BY <1>4, <2>2 DEF Ended, TypeOK
    <3> QED
      BY <1>2, <1>4, <3>1
  <2> QED
    BY <1>4, <2>1, <2>2 DEF Ended
<1>5. CASE \/ StartSend(r) \/ StartEdit(r) \/ StartStatus(r) \/ StartDelete(r)
           \/ StartView(r) \/ StartOverdue(r)
  <2>1. UNCHANGED sessions /\ \E label \in {"count", "write"} : \E w : Begins(r, label, w)
    BY <1>5, BeginOnInvoice
  <2> QED
    BY <1>2, <1>3, <2>1
<1>6. CASE StartRecord(r) \/ StartSettle(r) \/ StartCheckout(r)
  <2>1. UNCHANGED sessions /\ \E label \in {"check", "update", "failPending"} : \E w : Begins(r, label, w)
    BY <1>6, StartBegins DEF StartRecord, StartSettle, StartCheckout
  <2> QED
    BY <1>2, <1>3, <2>1
<1>7. CASE StartPaid(r)
  <2>1. PICK p \in Payments : Ended(p, "paid") /\ \E w : Begins(r, "check", w)
    BY <1>7, StartBegins DEF StartPaid
  <2> QED
    BY <1>3, <1>4, <2>1
<1>8. CASE StartCancel(r)
  <2>1. PICK p \in Payments : Begins(r, "writeRow", For(p, [payments[p] EXCEPT !.status = "REMOVED"]))
    BY <1>8, StartBegins DEF StartCancel
  <2>2. local'[r].row.status = "REMOVED"
    BY <1>3, <2>1 DEF For, TypeOK, PaymentRow
  <2>3. ~Opening(r)'
    BY <1>3, <2>1, <2>2 DEF Opening
  <2> QED
    BY <1>2, <1>8, <2>3 DEF StartCancel
<1>9. CASE StartExpired(r)
  <2>1. PICK p \in Payments :
           /\ Ended(p, "expired")
           /\ Begins(r, "writeRow", For(p, [payments[p] EXCEPT !.status = "FAILED"]))
    BY <1>9, StartBegins DEF StartExpired
  <2>2. local'[r].p = p /\ sessions'[p] = "expired"
    BY <1>3, <2>1 DEF For, Ended, TypeOK
  <2>3. ~Opening(r)'
    BY <1>3, <2>1, <2>2 DEF Opening
  <2> QED
    BY <1>4, <2>1, <2>3
<1> QED
  BY <1>5, <1>6, <1>7, <1>8, <1>9 DEF Begin

LEMMA ContinueHandler ==
    ASSUME Alone, TypeOK, TypeOK', RowsInv, PlanInv, NEW r \in Requests, Continue(r) \/ Crash(r)
    PROVE  [Ledger!Next]_(Ledger!vars)
<1>1. ASSUME NEW label, NEW w, Moves(r, label, w),
             pc[r] \notin {"session", "writeRow"}, label \notin {"session", "writeRow"},
             UNCHANGED <<invoice, payments, sessions, marks>>
      PROVE  [Ledger!Next]_(Ledger!vars)
  BY <1>1, NotOpening, Stutters
<1>2. ASSUME pc[r] \notin {"session", "writeRow"}, Finish(r),
             UNCHANGED <<invoice, payments, sessions, marks>>
      PROVE  [Ledger!Next]_(Ledger!vars)
  BY <1>1, <1>2, Finished
<1>3. CASE CountPayments(r)
  BY <1>1, <1>2, <1>3, Counted DEF CountPayments
<1>4. CASE CheckFits(r)
  <2>1. \/ Finish(r)
        \/ \E label \in {"insert", "update"} : Moves(r, label, local[r])
    BY <1>4, Checked
  <2> QED
    BY <1>1, <1>2, <1>4, <2>1 DEF CheckFits
<1>5. CASE UpdatePayment(r)
  BY <1>1, <1>2, <1>5, PaymentUpdated DEF UpdatePayment
<1>6. CASE ReadInvoice(r)
  <2>1. \E label \in {"commit", "readPayments"} : \E w : Moves(r, label, w)
    BY <1>6, InvoiceRead
  <2> QED
    BY <1>1, <1>6, <2>1 DEF ReadInvoice
<1>7. CASE ReadPayments(r)
  <2>1. \E w : Moves(r, "commit", w)
    BY <1>7, PaymentsRead
  <2> QED
    BY <1>1, <1>7, <2>1 DEF ReadPayments
<1>8. CASE WriteInvoice(r) \/ CommitPayment(r) \/ WriteRow(r)
  BY <1>8, InvoiceHandler, PaymentHandler, RowHandler
<1>9. CASE FailPending(r) \/ InsertPending(r) \/ OpenSession(r)
  BY <1>9, EarlierFailed, InsertedUnseen, SessionHandler
<1>10. CASE Crash(r)
  <2>1. Finish(r) /\ ~Opening(r)' /\ UNCHANGED <<invoice, payments, sessions, marks>>
    BY <1>10, NotOpening DEF Crash
  <2>2. CASE Opening(r)
    <3>1. Stored(local[r]) /\ local[r].p \in Payments
      BY <2>2, StoredRow
    <3>2. payments' = [payments EXCEPT ![local[r].p].status = "PENDING"]
      <4>1. [payments[local[r].p] EXCEPT !.status = "PENDING"] = payments[local[r].p]
        BY <3>1 DEF Stored, TypeOK, PaymentRow
      <4> QED
        BY <2>1, <3>1, <4>1 DEF TypeOK
    <3> QED
      BY <2>1, <2>2, <3>2, CheckoutHandler
  <2>3. CASE ~Opening(r)
    BY <2>1, <2>3, Stutters
  <2> QED
    BY <2>2, <2>3
<1> QED
  BY <1>3, <1>4, <1>5, <1>6, <1>7, <1>8, <1>9, <1>10 DEF Continue

\* When requests do not overlap, the statements of each of them, a crash between
\* any two of them included, come to one of the handlers that InvoiceLedger runs
\* in one step, or to nothing: every theorem about InvoiceLedger holds of
\* them.
THEOREM OneAtATimeImplementsLedger ==
    ASSUME Alone PROVE Spec => Ledger!Spec
<1>1. Init => Ledger!Init
  <2> SUFFICES ASSUME Init PROVE Ledger!Init
    OBVIOUS
  <2>1. Shown = payments
    <3>1. \A r \in Requests : ~Opening(r)
      BY DEF Init, Opening
    <3> QED
      BY <3>1 DEF Shown, Init
  <2>2. Shown = [p \in Payments |-> Ledger!NoPayment]
    BY <2>1, SameRules DEF Init
  <2>3. ("byHand" \in marks) = FALSE
    BY DEF Init
  <2> HIDE DEF Shown
  <2> QED
    BY <2>2, <2>3 DEF Init, NewInvoice, Ledger!Init
<1>2. TypeOK /\ TypeOK' /\ RowsInv /\ PlanInv /\ [Next]_vars => [Ledger!Next]_(Ledger!vars)
  <2> SUFFICES ASSUME TypeOK, TypeOK', RowsInv, PlanInv, [Next]_vars
               PROVE  [Ledger!Next]_(Ledger!vars)
    OBVIOUS
  <2>1. CASE UNCHANGED vars
    BY <2>1 DEF vars, Ledger!vars, Shown, Opening
  <2> QED
    BY <2>1, BeginHandler, ContinueHandler DEF Next
<1>3. TypeOK /\ RowsInv /\ PlanInv /\ [Next]_vars => PlanInv'
  BY PlanStep
<1> QED
  BY <1>1, <1>2, <1>3, TypeCorrect, RowsInit, RowsStep, PlanInit, PTL DEF Spec, Ledger!Spec
\* What InvoiceLedger shows and what is stored have been paid alike.
LEMMA SamePaid ==
    ASSUME Alone
    PROVE  TypeOK /\ PlanInv => CompletedSum(Shown) = CompletedSum(payments)
<1> SUFFICES ASSUME TypeOK, PlanInv PROVE CompletedSum(Shown) = CompletedSum(payments)
  OBVIOUS
<1>1. CASE \E r \in Requests : Opening(r)
  <2>1. PICK r \in Requests : Opening(r)
    BY <1>1
  <2> DEFINE p == local[r].p
  <2>2. /\ payments[p].status = "PENDING" /\ p \in Payments
        /\ Shown \in Rows /\ Shown[p] = NoPayment
        /\ \A q \in Payments \ {p} : Shown[q] = payments[q]
    BY <2>1, StoredRow DEF Stored
  <2>3. payments \in Rows
    BY DEF TypeOK, Rows
  <2> HIDE DEF p, Shown
  <2>4. p \notin Completed(Shown) /\ p \notin Completed(payments)
    BY <2>2 DEF Completed, NoPayment
  <2>5. SumOf(Shown, Completed(Shown) \ {p}) = SumOf(payments, Completed(payments) \ {p})
    BY <2>2, <2>3, OthersPaid
  <2>6. Completed(Shown) \ {p} = Completed(Shown) /\ Completed(payments) \ {p} = Completed(payments)
    BY <2>4
  <2> QED
    BY <2>5, <2>6 DEF CompletedSum
<1>2. CASE ~\E r \in Requests : Opening(r)
  <2>1. Shown = payments
    BY <1>2 DEF Shown, TypeOK
  <2> QED
    BY <2>1
<1> QED
  BY <1>1, <1>2

LEMMA PlanHolds ==
    ASSUME Alone PROVE Spec => []PlanInv
  BY TypeCorrect, RowsInit, RowsStep, PlanInit, PlanStep, PTL DEF Spec

\* Without overlap no cancellation, expiry or recomputation disturbs the paid
\* amount, wherever requests die: it is the sum of the completed payments at
\* every moment, unless the owner has entered money by hand.
THEOREM OneAtATimeIsBacked ==
    ASSUME Alone
    PROVE  Spec => []("byHand" \in marks \/ invoice.paidAmount = CompletedSum(payments))
<1>1. Ledger!Spec => []Ledger!PaidIsBacked
  BY LedgerAssumptions, Ledger!PaidAmountIsBacked
<1>2. /\ TypeOK /\ PlanInv /\ Ledger!PaidIsBacked
      => ("byHand" \in marks \/ invoice.paidAmount = CompletedSum(payments))
  BY SamePaid, SameCompletedSum DEF Ledger!PaidIsBacked
<1> QED
  BY <1>1, <1>2, OneAtATimeImplementsLedger, TypeCorrect, PlanHolds, PTL

\* Without overlap the guard against overpayment holds, though it reads the
\* other payments before the transaction that completes one.
THEOREM OneAtATimeNeverOverpays ==
    ASSUME Alone
    PROVE  Spec => [][CompletedSum(payments') > CompletedSum(payments)
                        => CompletedSum(payments') <= invoice'.total]_vars
<1> DEFINE Within == CompletedSum(payments') > CompletedSum(payments)
                        => CompletedSum(payments') <= invoice'.total
           WithinShown == Ledger!CompletedSum(Shown') > Ledger!CompletedSum(Shown)
                             => Ledger!CompletedSum(Shown') <= invoice'.total
           Same == CompletedSum(Shown) = CompletedSum(payments)
<1>1. Ledger!Spec => [][WithinShown]_(Ledger!vars)
  BY LedgerAssumptions, Ledger!NeverOverpaid DEF Ledger!NeverOverpays
<1>2. TypeOK /\ PlanInv => Same
  BY SamePaid
<1>3. TypeOK /\ TypeOK' /\ Same /\ Same' /\ [WithinShown]_(Ledger!vars) => [Within]_vars
  <2> SUFFICES ASSUME TypeOK, TypeOK', Same, Same', [WithinShown]_(Ledger!vars) PROVE Within
    OBVIOUS
  <2>1. CASE WithinShown
    BY <2>1, SameCompletedSum
  <2>2. CASE UNCHANGED Ledger!vars
    <3>1. Shown' = Shown
      BY <2>2 DEF Ledger!vars
    <3>2. CompletedSum(payments') = CompletedSum(payments)
      BY <3>1
    <3>3. CompletedSum(payments) \in Nat
      BY CompletedSumIsNat DEF TypeOK, Rows
    <3> QED
      BY <3>2, <3>3
  <2> QED
    BY <2>1, <2>2
<1> QED
  BY <1>1, <1>2, <1>3, OneAtATimeImplementsLedger, TypeCorrect, PlanHolds, PTL

\* Without overlap the balance is never promised twice: between requests at most
\* one payment waits for Stripe, a row that a dead checkout left behind included.
THEOREM OneAtATimeOnePending ==
    ASSUME Alone
    PROVE  Spec => [](AtRest => Cardinality({p \in Payments : payments[p].status = "PENDING"}) <= 1)
<1>1. Ledger!Spec => []Ledger!OnePending
  BY LedgerAssumptions, Ledger!OnePendingPayment
<1>2. /\ TypeOK /\ Ledger!OnePending
      => (AtRest => Cardinality({p \in Payments : payments[p].status = "PENDING"}) <= 1)
  <2> SUFFICES ASSUME TypeOK, Ledger!OnePending, AtRest
               PROVE  Cardinality({p \in Payments : payments[p].status = "PENDING"}) <= 1
    OBVIOUS
  <2>1. Shown = payments
    BY DEF AtRest, Shown, Opening, TypeOK
  <2>2. {p \in Payments : Shown[p].status = "PENDING"} = {p \in Payments : payments[p].status = "PENDING"}
    BY <2>1
  <2> QED
    BY <2>2, SameCardinality DEF Ledger!OnePending
<1> QED
  BY <1>1, <1>2, OneAtATimeImplementsLedger, TypeCorrect, PTL
----------------------------------------------------------------------------
(* How far requests that overlap can overpay. *)

\* Requests that will complete a payment: its amount has been found to fit.
AdmittedLabels == {"update"} \cup LockedLabels
Admits(label, w) == label \in AdmittedLabels /\ w.row.status = "COMPLETED"
Admitted == {r \in Requests : Admits(pc[r], local[r])}

\* Cents that are paid or will be, unless a request dies.
CentsAtHand(rs) == UNION {{local[r].p} \X (1 .. local[r].row.amount) : r \in rs}
Promised == Cents(payments, Completed(payments)) \cup CentsAtHand(Admitted)

\* The amount of a row never changes, so that every request has it right.
SameAmount(w) == w.p \in Payments /\ payments[w.p].status # "ABSENT"
                     => w.row.amount = payments[w.p].amount
AmountsInv == \A r \in Requests : SameAmount(local[r])

\* With each admitted amount at most the total, the last of them found the others'
\* cents, at most the total each, on top of what fitted.
PromisedInv == "edited" \notin marks =>
    /\ \A r \in Admitted : local[r].row.amount <= invoice.total
    /\ Cardinality(Promised) <= Cardinality(Requests) * invoice.total

\* While no edit changes the total, completed payments stay within as many times
\* the total as requests can overlap.
OverpaymentBounded ==
    "edited" \notin marks => CompletedSum(payments) <= Cardinality(Requests) * invoice.total

LEMMA CentsAreFinite ==
    ASSUME NEW rows \in Rows, NEW ps \in SUBSET Payments
    PROVE  IsFiniteSet(Cents(rows, ps)) /\ Cardinality(Cents(rows, ps)) \in Nat
<1>1. Ledger!IsFiniteSet(Ledger!Cents(rows, ps))
  BY SameRows, LedgerAssumptions, Ledger!SumIsNat
<1>2. IsFiniteSet(Cents(rows, ps))
  BY <1>1, SameFiniteSets DEF Cents, Ledger!Cents
<1> QED
  BY <1>2, FS_CardinalityType

\* Requests promise at most the total each.
LEMMA CentsAtHandBound ==
    ASSUME NEW rs \in SUBSET Requests, IsFiniteSet(rs), NEW total \in Nat,
           \A r \in rs : local[r].row.amount \in Nat /\ local[r].row.amount <= total
    PROVE  /\ IsFiniteSet(CentsAtHand(rs))
           /\ Cardinality(CentsAtHand(rs)) \in Nat
           /\ Cardinality(CentsAtHand(rs)) <= Cardinality(rs) * total
<1> DEFINE All == rs \X (1 .. total)
           Due == {d \in All : d[2] <= local[d[1]].row.amount}
           f == [d \in Due |-> <<local[d[1]].p, d[2]>>]
<1>1. IsFiniteSet(All) /\ Cardinality(All) = Cardinality(rs) * total
  <2>1. IsFiniteSet(1 .. total) /\ Cardinality(1 .. total) = total
    BY FS_Interval
  <2> QED
    BY <2>1, FS_Product
<1>2. Due \in SUBSET All
  OBVIOUS
<1> HIDE DEF All
<1>3. IsFiniteSet(Due) /\ Cardinality(Due) <= Cardinality(rs) * total
  BY <1>1, <1>2, FS_Subset
<1>4. f \in Surjection(Due, CentsAtHand(rs))
  <2>1. ASSUME NEW d \in Due PROVE f[d] \in CentsAtHand(rs)
    <3>1. d[1] \in rs /\ d[2] \in 1 .. local[d[1]].row.amount
      BY <2>1 DEF All
    <3> QED
      BY <3>1 DEF CentsAtHand
  <2>2. ASSUME NEW c \in CentsAtHand(rs) PROVE \E d \in Due : f[d] = c
    <3>1. PICK r \in rs : c \in {local[r].p} \X (1 .. local[r].row.amount)
      BY <2>2 DEF CentsAtHand
    <3>2. PICK i \in 1 .. local[r].row.amount : c = <<local[r].p, i>>
      BY <3>1
    <3>3. <<r, i>> \in Due
      BY <3>2 DEF All
    <3>4. f[<<r, i>>] = c
      BY <3>2, <3>3
    <3> QED
      BY <3>3, <3>4
  <2> HIDE DEF f, Due
  <2>3. f \in [Due -> CentsAtHand(rs)]
    BY <2>1 DEF f
  <2> QED
    BY <2>2, <2>3 DEF Surjection
<1> HIDE DEF f, Due
<1>5. /\ IsFiniteSet(CentsAtHand(rs))
      /\ Cardinality(CentsAtHand(rs)) <= Cardinality(Due)
  BY <1>3, <1>4, FS_Surjection
<1>6. Cardinality(CentsAtHand(rs)) \in Nat /\ Cardinality(Due) \in Nat /\ Cardinality(rs) \in Nat
  BY <1>3, <1>5, FS_CardinalityType
<1> QED
  BY <1>3, <1>5, <1>6

\* What a request goes on with: no row at all, or the payment it had and its amount.
KeepsAmount(r, w) == w.p \in Payments => w.p = local[r].p /\ w.row.amount = local[r].row.amount

\* An amount is admitted where it fits, and stays so.
AdmitsWith(r, label, w) ==
    Admits(label, w) => /\ w.p = local[r].p /\ w.row.amount = local[r].row.amount
                        /\ \/ Admits(pc[r], local[r])
                           \/ pc[r] = "check" /\ Fits(local[r]) /\ UNCHANGED payments

\* Rows of other payments keep their amount, and are neither created nor completed.
KeepsOthers(r) ==
    \A q \in Payments \ {local[r].p} :
        /\ payments'[q].amount = payments[q].amount
        /\ payments'[q].status # "ABSENT" => payments[q].status # "ABSENT"
        /\ payments'[q].status = "COMPLETED" => payments[q].status = "COMPLETED"

\* The row of r gets the amount r has for it when it is created, and is
\* completed by what was admitted.
WritesOwn(r) ==
    LET p == local[r].p
        amount == local[r].row.amount
    IN  p \in Payments =>
            /\ \/ payments'[p].amount = amount
               \/ /\ payments'[p].amount = payments[p].amount
                  /\ payments'[p].status # "ABSENT" => payments[p].status # "ABSENT"
            /\ payments'[p].status = "COMPLETED" =>
                  \/ payments[p].status = "COMPLETED" /\ payments'[p].amount = payments[p].amount
                  \/ Admits(pc[r], local[r]) /\ payments'[p].amount = amount

LEMMA BeginAmount ==
    ASSUME TypeOK, NEW r \in Requests, Begin(r)
    PROVE  /\ UNCHANGED <<invoice, payments, marks>>
           /\ \E label, w : /\ Moves(r, label, w) /\ ~Admits(label, w)
                            /\ SameAmount(w)
<1>1. CASE \/ StartSend(r) \/ StartEdit(r) \/ StartStatus(r) \/ StartDelete(r)
           \/ StartView(r) \/ StartOverdue(r)
  <2>1. PICK label \in {"count", "write"} : \E data \in DataAt(label) :
           Begins(r, label, Writing(data))
    BY <1>1, BeginOnInvoice
  <2>2. PICK data \in DataAt(label) : Begins(r, label, Writing(data))
    BY <2>1
  <2>3. label \in Labels /\ Writing(data) \in WorkAt(label) /\ Writing(data).p = None
    BY WorkOnInvoice DEF Labels
  <2>4. Moves(r, label, Writing(data)) /\ UNCHANGED <<invoice, payments, marks>>
    BY <2>2, <2>3, BeginsMoves
  <2>5. ~Admits(label, Writing(data)) /\ SameAmount(Writing(data))
    BY <2>1, <2>3, NoneAssumption DEF Admits, AdmittedLabels, LockedLabels, SameAmount
  <2> QED
    BY <2>4, <2>5
<1>2. CASE \/ StartRecord(r) \/ StartSettle(r) \/ StartPaid(r) \/ StartCancel(r)
           \/ StartExpired(r) \/ StartCheckout(r)
  <2>1. PICK label \in {"check", "update", "writeRow", "failPending"} :
           \E p \in Payments, row \in PaymentRow :
              Begins(r, label, For(p, row)) /\ Prepared(label, p, row)
    BY <1>2, BeginOnPayment
  <2>2. PICK p \in Payments, row \in PaymentRow :
           Begins(r, label, For(p, row)) /\ Prepared(label, p, row)
    BY <2>1
  <2>3. /\ label \in Labels /\ For(p, row) \in WorkAt(label)
        /\ For(p, row).p = p /\ For(p, row).row = row
    BY WorkOnPayment DEF Labels
  <2>4. Moves(r, label, For(p, row)) /\ UNCHANGED <<invoice, payments, marks>>
    BY <2>2, <2>3, BeginsMoves
  <2>5. ~Admits(label, For(p, row))
    BY <2>1, <2>2, <2>3 DEF Admits, AdmittedLabels, LockedLabels, Prepared
  <2>6. SameAmount(For(p, row))
    BY <2>2, <2>3 DEF SameAmount, Prepared
  <2> QED
    BY <2>4, <2>5, <2>6
<1> QED
  BY <1>1, <1>2 DEF Begin

LEMMA ContinueAmount ==
    ASSUME TypeOK, RowsInv, NEW r \in Requests, Continue(r) \/ Crash(r)
    PROVE  \E label, w : Moves(r, label, w) /\ KeepsAmount(r, w) /\ AdmitsWith(r, label, w)
<1> DEFINE Goal == \E label, w : Moves(r, label, w) /\ KeepsAmount(r, w)
                                 /\ AdmitsWith(r, label, w)
<1> SUFFICES Goal
  OBVIOUS
<1>1. ASSUME Finish(r) PROVE Goal
  <2>1. Moves(r, "idle", Blank) /\ Blank.p = None
    BY <1>1, Finished
  <2>2. KeepsAmount(r, Blank) /\ AdmitsWith(r, "idle", Blank)
    BY <2>1, NoneAssumption
       DEF KeepsAmount, AdmitsWith, Admits, AdmittedLabels, LockedLabels
  <2> QED
    BY <2>1, <2>2
<1>2. ASSUME NEW label, NEW w, Moves(r, label, w), w.p = local[r].p,
             w.row.amount = local[r].row.amount,
             Admits(label, w) => \/ Admits(pc[r], local[r])
                                 \/ pc[r] = "check" /\ Fits(local[r]) /\ UNCHANGED payments
      PROVE  Goal
  <2>1. KeepsAmount(r, w) /\ AdmitsWith(r, label, w)
    BY <1>2 DEF KeepsAmount, AdmitsWith
  <2> QED
    BY <1>2, <2>1
<1> HIDE DEF Goal
<1>3. CASE CountPayments(r)
  <2>1. ~Admits("write", local[r])
    BY DEF Admits, AdmittedLabels, LockedLabels
  <2> QED
    BY <1>1, <1>2, <1>3, <2>1, Counted
<1>4. CASE WriteInvoice(r) \/ CommitPayment(r) \/ WriteRow(r) \/ Crash(r)
  <2>1. Finish(r)
    BY <1>4 DEF WriteInvoice, CommitPayment, WriteRow, Crash
  <2> QED
    BY <1>1, <2>1
<1>5. CASE CheckFits(r)
  <2> DEFINE label == IF local[r].row.status = "PENDING" THEN "insert" ELSE "update"
  <2>1. UNCHANGED payments /\ pc[r] = "check"
    BY <1>5 DEF CheckFits
  <2>2. ASSUME ~Finish(r) PROVE Moves(r, label, local[r]) /\ Fits(local[r])
    BY <1>5, <2>2, Checked DEF Fits
  <2> HIDE DEF label
  <2> QED
    BY <1>1, <1>2, <2>1, <2>2
<1>6. CASE UpdatePayment(r)
  <2>1. Admits("readInvoice", local[r]) => Admits(pc[r], local[r])
    BY <1>6 DEF UpdatePayment, Admits, AdmittedLabels
  <2> QED
    BY <1>1, <1>2, <1>6, <2>1, PaymentUpdated
<1>7. CASE ReadInvoice(r)
  <2>1. pc[r] \in LockedLabels
    BY <1>7 DEF ReadInvoice, LockedLabels
  <2>2. CASE invoice.deleted
    <3>1. Admits("commit", local[r]) => Admits(pc[r], local[r])
      BY <2>1 DEF Admits, AdmittedLabels
    <3> QED
      BY <1>2, <1>7, <2>2, <3>1, InvoiceRead
  <2>3. CASE ~invoice.deleted
    <3> DEFINE w == [p |-> local[r].p, row |-> local[r].row,
                     data |-> [total |-> invoice.total, status |-> invoice.status]]
    <3>1. Moves(r, "readPayments", w) /\ w.p = local[r].p /\ w.row = local[r].row
      BY <1>7, <2>3, InvoiceRead
    <3> HIDE DEF w
    <3>2. Admits("readPayments", w) => Admits(pc[r], local[r])
      BY <2>1, <3>1 DEF Admits, AdmittedLabels
    <3> QED
      BY <1>2, <3>1, <3>2
  <2> QED
    BY <2>2, <2>3 DEF TypeOK, InvoiceRow
<1>8. CASE ReadPayments(r)
  <2> DEFINE data == SyncData(local[r].data.total, local[r].data.status, Visible(r))
             w == [p |-> local[r].p, row |-> local[r].row, data |-> data]
  <2>1. Moves(r, "commit", w)
    BY <1>8, PaymentsRead
  <2> HIDE DEF data
  <2>2. w.p = local[r].p /\ w.row = local[r].row
    OBVIOUS
  <2> HIDE DEF w
  <2>3. Admits("commit", w) => Admits(pc[r], local[r])
    BY <1>8, <2>2 DEF Admits, AdmittedLabels, LockedLabels, ReadPayments
  <2> QED
    BY <1>2, <2>1, <2>2, <2>3
<1>9. CASE FailPending(r)
  <2>1. ~Admits("check", local[r])
    BY DEF Admits, AdmittedLabels, LockedLabels
  <2> QED
    BY <1>2, <1>9, <2>1, OthersFailed
<1>10. CASE InsertPending(r)
  <2>1. ~Admits("session", local[r])
    BY DEF Admits, AdmittedLabels, LockedLabels
  <2> QED
    BY <1>2, <1>10, <2>1, PendingInserted
<1>11. CASE OpenSession(r)
  <2> DEFINE w == [p |-> local[r].p, data |-> NoColumns,
                   row |-> [status |-> "FAILED", method |-> local[r].row.method,
                            amount |-> local[r].row.amount]]
  <2>1. w.p = local[r].p /\ w.row.amount = local[r].row.amount
    OBVIOUS
  <2>2. Finish(r) \/ Moves(r, "writeRow", w)
    BY <1>11, SessionOpened
  <2> HIDE DEF w
  <2>3. ~Admits("writeRow", w)
    BY DEF Admits, AdmittedLabels, LockedLabels
  <2> QED
    BY <1>1, <1>2, <2>1, <2>2, <2>3
<1> QED
  BY <1>3, <1>4, <1>5, <1>6, <1>7, <1>8, <1>9, <1>10, <1>11 DEF Continue

LEMMA ContinueRows ==
    ASSUME TypeOK, RowsInv, NEW r \in Requests, Continue(r) \/ Crash(r)
    PROVE  payments' \in Rows /\ KeepsOthers(r) /\ WritesOwn(r)
<1>0. payments \in Rows
  BY DEF TypeOK, Rows
<1>1. ASSUME UNCHANGED payments
      PROVE  payments' \in Rows /\ KeepsOthers(r) /\ WritesOwn(r)
  BY <1>0, <1>1 DEF KeepsOthers, WritesOwn
<1>2. CASE \/ CountPayments(r) \/ WriteInvoice(r) \/ CheckFits(r) \/ UpdatePayment(r)
           \/ ReadInvoice(r) \/ ReadPayments(r) \/ OpenSession(r) \/ Crash(r)
  <2>1. UNCHANGED payments
    BY <1>2 DEF CountPayments, WriteInvoice, CheckFits, UpdatePayment, ReadInvoice,
                ReadPayments, OpenSession, Crash
  <2> QED
    BY <1>1, <2>1
<1>3. CASE CommitPayment(r)
  <2>1. /\ local[r].p \in Payments /\ local[r].row \in PaymentRow
        /\ payments' = Visible(r) /\ payments' \in Rows
    BY <1>3, Committed
  <2>2. /\ payments'[local[r].p] = local[r].row
        /\ \A q \in Payments \ {local[r].p} : payments'[q] = payments[q]
    BY <2>1, VisibleRows
  <2>3. local[r].row.status = "COMPLETED" => Admits(pc[r], local[r])
    BY <1>3 DEF CommitPayment, Admits, AdmittedLabels, LockedLabels
  <2> QED
    BY <2>1, <2>2, <2>3 DEF KeepsOthers, WritesOwn
<1>4. CASE WriteRow(r)
  <2>1. local[r].p \in Payments /\ local[r].row.status \in {"FAILED", "REMOVED"}
    BY <1>4, RowWritten DEF RowWork, RowsInv, Carries, WriteRow
  <2>2. /\ payments' \in Rows
        /\ \A q \in Payments \ {local[r].p} : payments'[q] = payments[q]
        /\ payments'[local[r].p].amount = payments[local[r].p].amount
        /\ payments'[local[r].p].status = IF Exists(local[r].p) THEN local[r].row.status
                                          ELSE payments[local[r].p].status
    BY <1>4, RowWritten
  <2>3. /\ payments'[local[r].p].status # "ABSENT" => payments[local[r].p].status # "ABSENT"
        /\ payments'[local[r].p].status = "COMPLETED" => payments[local[r].p].status = "COMPLETED"
    BY <2>1, <2>2 DEF Exists
  <2> QED
    BY <2>2, <2>3 DEF KeepsOthers, WritesOwn
<1>5. CASE FailPending(r)
  <2>1. payments' \in Rows
    BY <1>5, OthersFailed
  <2>2. ASSUME NEW q \in Payments
        PROVE  /\ payments'[q].amount = payments[q].amount
               /\ payments'[q].status # "ABSENT" => payments[q].status # "ABSENT"
               /\ payments'[q].status = "COMPLETED" => payments[q].status = "COMPLETED"
    BY <1>5, OthersFailed DEF PendingStripe
  <2> QED
    BY <2>1, <2>2 DEF KeepsOthers, WritesOwn
<1>6. CASE InsertPending(r)
  <2>1. /\ payments' \in Rows
        /\ payments'[local[r].p] = local[r].row
        /\ \A q \in Payments \ {local[r].p} : payments'[q] = payments[q]
    BY <1>6, PendingInserted
  <2>2. local[r].p \in Payments /\ local[r].row.status = "PENDING"
    BY <1>6, PendingInserted DEF RowWork, RowsInv, Carries, InsertPending
  <2> QED
    BY <2>1, <2>2 DEF KeepsOthers, WritesOwn
<1> QED
  BY <1>2, <1>3, <1>4, <1>5, <1>6 DEF Continue

\* Only an edit changes the total, and the mark it leaves stays.
LEMMA TotalKept ==
    ASSUME TypeOK, NEW r \in Requests, Begin(r) \/ Continue(r) \/ Crash(r),
           "edited" \notin marks'
    PROVE  "edited" \notin marks /\ invoice'.total = invoice.total
<1>1. CASE Begin(r)
  BY <1>1, BeginAmount
<1>2. CASE WriteInvoice(r)
  <2>1. /\ local[r].data \in AllColumns /\ invoice' = Updated(local[r].data)
        /\ "edited" \notin marks /\ local[r].data \notin EditColumns
    BY <1>2, InvoiceWritten
  <2> QED
    BY <2>1, UpdatedRow DEF TypeOK
<1>3. CASE CommitPayment(r)
  <2>1. /\ local[r].data \in {NoColumns} \cup MoneyColumns
        /\ invoice' = Updated(local[r].data)
        /\ "edited" \notin marks
    BY <1>3, Committed
  <2>2. local[r].data \in AllColumns /\ local[r].data \notin EditColumns
    BY <2>1, ColumnNames DEF AllColumns
  <2> QED
    BY <2>1, <2>2, UpdatedRow DEF TypeOK
<1>4. CASE WriteRow(r)
  <2>1. UNCHANGED invoice /\ marks \subseteq marks'
    BY <1>4 DEF WriteRow
  <2> QED
    BY <2>1
<1>5. CASE \/ CountPayments(r) \/ CheckFits(r) \/ UpdatePayment(r) \/ ReadInvoice(r)
           \/ ReadPayments(r) \/ FailPending(r) \/ InsertPending(r) \/ OpenSession(r) \/ Crash(r)
  BY <1>5 DEF CountPayments, CheckFits, UpdatePayment, ReadInvoice, ReadPayments,
              FailPending, InsertPending, OpenSession, Crash
<1> QED
  BY <1>1, <1>2, <1>3, <1>4, <1>5 DEF Continue

\* The amount of a row, once there, is the amount every request has for it.
LEMMA AmountsKept ==
    ASSUME TypeOK, RowsInv, AmountsInv, NEW r \in Requests, NEW label, NEW w,
           Moves(r, label, w), KeepsOthers(r), WritesOwn(r),
           KeepsAmount(r, w) \/ (UNCHANGED payments /\ SameAmount(w))
    PROVE  AmountsInv'
<1>1. local'[r] = w /\ \A s \in Requests \ {r} : local'[s] = local[s]
  BY OthersStay DEF Stays
<1>2. ASSUME NEW s \in Requests \ {r}, local[s].p \in Payments,
             payments'[local[s].p].status # "ABSENT"
      PROVE  local[s].row.amount = payments'[local[s].p].amount
  <2>1. CASE local[s].p = local[r].p
    <3>1. payments[local[r].p].status # "ABSENT"
      BY <1>2, <2>1 DEF RowsInv
    <3>2. /\ local[r].row.amount = payments[local[r].p].amount
          /\ local[s].row.amount = payments[local[r].p].amount
      BY <1>2, <2>1, <3>1 DEF AmountsInv, SameAmount
    <3> QED
      BY <1>2, <2>1, <3>2 DEF WritesOwn
  <2>2. CASE local[s].p # local[r].p
    BY <1>2, <2>2 DEF KeepsOthers, AmountsInv, SameAmount
  <2> QED
    BY <2>1, <2>2
<1>3. ASSUME w.p \in Payments, payments'[w.p].status # "ABSENT"
      PROVE  w.row.amount = payments'[w.p].amount
  <2>1. CASE UNCHANGED payments /\ SameAmount(w)
    BY <1>3, <2>1 DEF SameAmount
  <2>2. CASE KeepsAmount(r, w)
    <3>1. w.p = local[r].p /\ w.row.amount = local[r].row.amount
      BY <1>3, <2>2 DEF KeepsAmount
    <3>2. payments[w.p].status # "ABSENT" => w.row.amount = payments[w.p].amount
      BY <1>3, <3>1 DEF AmountsInv, SameAmount
    <3> QED
      BY <1>3, <3>1, <3>2 DEF WritesOwn
  <2> QED
    BY <2>1, <2>2
<1> QED
  BY <1>1, <1>2, <1>3 DEF AmountsInv, SameAmount

\* What is paid or admitted keeps its sum, or it grows by an amount that fitted
\* what was paid.
LEMMA PromisedKept ==
    ASSUME TypeOK, AmountsInv, NEW r \in Requests, NEW label, NEW w, Moves(r, label, w),
           KeepsOthers(r), WritesOwn(r), payments' \in Rows,
           AdmitsWith(r, label, w), Admits(label, w) => Admits(pc[r], local[r])
    PROVE  Promised' \subseteq Promised
<1>1. /\ pc'[r] = label /\ local'[r] = w
      /\ \A s \in Requests \ {r} : pc'[s] = pc[s] /\ local'[s] = local[s]
  BY OthersStay DEF Stays
<1>2. DOMAIN payments = Payments /\ DOMAIN payments' = Payments
  BY DEF TypeOK, Rows
<1>3. ASSUME NEW q \in Completed(payments'), NEW i \in 1 .. payments'[q].amount
      PROVE  <<q, i>> \in Promised
  <2>1. q \in Payments /\ payments'[q].status = "COMPLETED"
    BY <1>2 DEF Completed
  <2>2. CASE payments[q].status = "COMPLETED" /\ payments'[q].amount = payments[q].amount
    BY <1>2, <1>3, <2>1, <2>2 DEF Promised, Cents, Completed
  <2>3. CASE /\ q = local[r].p /\ Admits(pc[r], local[r])
             /\ payments'[q].amount = local[r].row.amount
    BY <1>3, <2>3 DEF Promised, CentsAtHand, Admitted
  <2> QED
    BY <2>1, <2>2, <2>3 DEF KeepsOthers, WritesOwn
<1>4. ASSUME NEW s \in Requests, Admits(pc'[s], local'[s]),
             NEW i \in 1 .. local'[s].row.amount
      PROVE  <<local'[s].p, i>> \in Promised
  <2>1. s \in Admitted /\ local'[s].p = local[s].p /\ local'[s].row.amount = local[s].row.amount
    BY <1>1, <1>4 DEF Admitted, AdmitsWith
  <2> QED
    BY <1>4, <2>1 DEF Promised, CentsAtHand
<1> QED
  BY <1>3, <1>4 DEF Promised, Cents, CentsAtHand, Admitted

LEMMA PromisedGrows ==
    ASSUME TypeOK, AmountsInv, NEW r \in Requests, NEW label, NEW w, Moves(r, label, w),
           UNCHANGED payments, local[r].p \in Payments, AdmitsWith(r, label, w)
    PROVE  Promised' \subseteq Cents(payments, Completed(payments) \ {local[r].p})
                               \cup CentsAtHand(Admitted \ {r})
                               \cup {local[r].p} \X (1 .. local[r].row.amount)
<1>1. /\ pc'[r] = label /\ local'[r] = w
      /\ \A s \in Requests \ {r} : pc'[s] = pc[s] /\ local'[s] = local[s]
  BY OthersStay DEF Stays
<1>2. ASSUME NEW q \in Completed(payments), NEW i \in 1 .. payments[q].amount,
             q = local[r].p
      PROVE  i \in 1 .. local[r].row.amount
  <2>1. payments[q].status # "ABSENT"
    BY DEF Completed
  <2> QED
    BY <1>2, <2>1 DEF AmountsInv, SameAmount
<1>3. ASSUME NEW s \in Requests, Admits(pc'[s], local'[s]),
             NEW i \in 1 .. local'[s].row.amount
      PROVE  <<local'[s].p, i>> \in CentsAtHand(Admitted \ {r})
                                     \cup {local[r].p} \X (1 .. local[r].row.amount)
  <2>1. CASE s = r
    BY <1>1, <1>3, <2>1 DEF AdmitsWith
  <2>2. CASE s # r
    <3>1. s \in Admitted \ {r} /\ local'[s] = local[s]
      BY <1>1, <1>3, <2>2 DEF Admitted
    <3> QED
      BY <1>3, <3>1 DEF CentsAtHand
  <2> QED
    BY <2>1, <2>2
<1> QED
  BY <1>2, <1>3 DEF Promised, Cents, CentsAtHand, Admitted

LEMMA PromisedBound ==
    ASSUME TypeOK, IsFiniteSet(Requests), \A s \in Admitted : local[s].row.amount <= invoice.total
    PROVE  IsFiniteSet(Promised) /\ Cardinality(Promised) \in Nat
<1>1. ASSUME NEW s \in Admitted PROVE local[s].row.amount \in Nat
  BY DEF Admitted, TypeOK, Work, PaymentRow
<1>2. IsFiniteSet(Admitted) /\ Admitted \in SUBSET Requests
  BY FS_Subset DEF Admitted
<1>3. invoice.total \in Nat
  BY DEF TypeOK, InvoiceRow
<1>4. IsFiniteSet(CentsAtHand(Admitted))
  BY <1>1, <1>2, <1>3, CentsAtHandBound
<1>5. IsFiniteSet(Cents(payments, Completed(payments)))
  BY CentsAreFinite DEF TypeOK, Rows, Completed
<1>6. IsFiniteSet(Promised)
  BY <1>4, <1>5, FS_Union DEF Promised
<1> QED
  BY <1>6, FS_CardinalityType

\* One request fewer, one total less.
LEMMA OneLess ==
    ASSUME NEW k \in Nat, NEW n \in Nat, k + 1 <= n, NEW total \in Nat
    PROVE  k * total + total <= n * total
<1>1. PICK d \in Nat : n = k + 1 + d
  <2>1. n - (k + 1) \in Nat /\ n = k + 1 + (n - (k + 1))
    OBVIOUS
  <2> QED
    BY <2>1
<1>2. d * total \in Nat
  OBVIOUS
<1>3. n * total = k * total + total + d * total
  BY <1>1
<1>4. k * total \in Nat
  OBVIOUS
<1> QED
  BY <1>2, <1>3, <1>4

LEMMA OneRowsCents ==
    ASSUME NEW p, NEW amount \in Nat
    PROVE  /\ IsFiniteSet({p} \X (1 .. amount))
           /\ Cardinality({p} \X (1 .. amount)) = amount
<1>1. IsFiniteSet(1 .. amount) /\ Cardinality(1 .. amount) = amount
  BY FS_Interval
<1>2. IsFiniteSet({p}) /\ Cardinality({p}) = 1
  BY FS_Singleton
<1>3. /\ IsFiniteSet({p} \X (1 .. amount))
      /\ Cardinality({p} \X (1 .. amount)) = Cardinality({p}) * Cardinality(1 .. amount)
  BY <1>1, <1>2, FS_Product
<1> QED
  BY <1>1, <1>2, <1>3

LEMMA PromisedFits ==
    ASSUME TypeOK, IsFiniteSet(Requests), NEW r \in Requests, r \notin Admitted,
           \A s \in Admitted : local[s].row.amount <= invoice.total,
           local[r].p \in Payments, Fits(local[r])
    PROVE  LET most == Cents(payments, Completed(payments) \ {local[r].p})
                       \cup CentsAtHand(Admitted)
                       \cup {local[r].p} \X (1 .. local[r].row.amount)
           IN  /\ local[r].row.amount <= invoice.total
               /\ IsFiniteSet(most)
               /\ Cardinality(most) <= Cardinality(Requests) * invoice.total
<1> DEFINE Paid == Cents(payments, Completed(payments) \ {local[r].p})
           Due == CentsAtHand(Admitted)
           Own == {local[r].p} \X (1 .. local[r].row.amount)
           amount == local[r].row.amount
           total == invoice.total
           n == Cardinality(Requests)
           k == Cardinality(Admitted)
<1>1. amount \in Nat /\ total \in Nat
  BY DEF TypeOK, Work, PaymentRow, InvoiceRow
<1>2. IsFiniteSet(Paid) /\ Cardinality(Paid) \in Nat
  BY CentsAreFinite DEF TypeOK, Rows, Completed
<1>3. Cardinality(Paid) + amount <= total
  BY DEF Fits, CanComplete, SumOf
<1>4. IsFiniteSet(Admitted) /\ Admitted \in SUBSET Requests /\ k \in Nat /\ n \in Nat /\ k + 1 <= n
  <2>1. Admitted \in SUBSET (Requests \ {r})
    BY DEF Admitted
  <2>2. /\ IsFiniteSet(Requests \ {r})
        /\ Cardinality(Requests \ {r}) = Cardinality(Requests) - 1
    BY FS_RemoveElement
  <2>3. IsFiniteSet(Admitted) /\ Cardinality(Admitted) <= Cardinality(Requests \ {r})
    BY <2>1, <2>2, FS_Subset
  <2>4. Cardinality(Admitted) \in Nat /\ Cardinality(Requests) \in Nat
    BY <2>3, FS_CardinalityType
  <2> QED
    BY <2>1, <2>2, <2>3, <2>4
<1>5. IsFiniteSet(Due) /\ Cardinality(Due) \in Nat /\ Cardinality(Due) <= k * total
  <2>1. \A s \in Admitted : local[s].row.amount \in Nat
    BY DEF Admitted, TypeOK, Work, PaymentRow
  <2> QED
    BY <1>1, <1>4, <2>1, CentsAtHandBound
<1>6. IsFiniteSet(Own) /\ Cardinality(Own) = amount
  BY <1>1, OneRowsCents
<1> HIDE DEF Paid, Due, Own, amount, total, n, k
<1>7. /\ IsFiniteSet(Paid \cup Due) /\ IsFiniteSet((Paid \cup Due) \cup Own)
      /\ Cardinality(Paid \cup Due) <= Cardinality(Paid) + Cardinality(Due)
      /\ Cardinality((Paid \cup Due) \cup Own) <= Cardinality(Paid \cup Due) + Cardinality(Own)
  <2>1. /\ IsFiniteSet(Paid \cup Due) /\ IsFiniteSet((Paid \cup Due) \cup Own)
        /\ IsFiniteSet(Paid \cap Due) /\ IsFiniteSet((Paid \cup Due) \cap Own)
    BY <1>2, <1>5, <1>6, FS_Union, FS_Intersection
  <2>2. /\ Cardinality(Paid \cup Due) = Cardinality(Paid) + Cardinality(Due)
                                        - Cardinality(Paid \cap Due)
        /\ Cardinality((Paid \cup Due) \cup Own) = Cardinality(Paid \cup Due)
                                + Cardinality(Own) - Cardinality((Paid \cup Due) \cap Own)
    BY <1>2, <1>5, <1>6, <2>1, FS_Union
  <2>3. /\ Cardinality(Paid \cap Due) \in Nat /\ Cardinality((Paid \cup Due) \cap Own) \in Nat
        /\ Cardinality(Paid \cup Due) \in Nat /\ Cardinality(Own) \in Nat
        /\ Cardinality(Due) \in Nat /\ Cardinality(Paid) \in Nat
    BY <1>2, <1>5, <1>6, <2>1, FS_CardinalityType
  <2> QED
    BY <2>1, <2>2, <2>3
<1>8. Cardinality((Paid \cup Due) \cup Own) \in Nat /\ Cardinality(Paid \cup Due) \in Nat
  BY <1>7, FS_CardinalityType
<1>9. k * total + total <= n * total /\ k * total \in Nat /\ n * total \in Nat
  BY <1>1, <1>4, OneLess
<1>10. PICK kt \in Nat, nt \in Nat : kt = k * total /\ nt = n * total
  BY <1>9
<1>11. Cardinality((Paid \cup Due) \cup Own) <= nt
  BY <1>1, <1>2, <1>3, <1>5, <1>6, <1>7, <1>8, <1>9, <1>10
<1> QED
  BY <1>1, <1>2, <1>3, <1>7, <1>10, <1>11 DEF Paid, Due, Own, amount, total, n, k

LEMMA PromisedMoves ==
    ASSUME TypeOK, AmountsInv, PromisedInv, IsFiniteSet(Requests),
           NEW r \in Requests, NEW label, NEW w, Moves(r, label, w),
           payments' \in Rows, KeepsOthers(r), WritesOwn(r), AdmitsWith(r, label, w),
           "edited" \notin marks' => "edited" \notin marks /\ invoice'.total = invoice.total
    PROVE  PromisedInv'
<1> SUFFICES ASSUME "edited" \notin marks'
             PROVE  /\ \A s \in Admitted' : local'[s].row.amount <= invoice.total
                    /\ Cardinality(Promised') <= Cardinality(Requests) * invoice.total
  BY DEF PromisedInv
<1>1. /\ pc'[r] = label /\ local'[r] = w
      /\ \A s \in Requests \ {r} : pc'[s] = pc[s] /\ local'[s] = local[s]
  BY OthersStay DEF Stays
<1>2. /\ \A s \in Admitted : local[s].row.amount <= invoice.total
      /\ Cardinality(Promised) <= Cardinality(Requests) * invoice.total
  BY DEF PromisedInv
<1>3. IsFiniteSet(Promised) /\ Cardinality(Promised) \in Nat
  BY <1>2, PromisedBound
<1>4. /\ invoice.total \in Nat /\ Cardinality(Requests) \in Nat
      /\ Cardinality(Requests) * invoice.total \in Nat
  <2>1. invoice.total \in Nat /\ Cardinality(Requests) \in Nat
    BY FS_CardinalityType DEF TypeOK, InvoiceRow
  <2> QED
    BY <2>1
<1>5. CASE Admits(label, w) => Admits(pc[r], local[r])
  <2>1. \A s \in Admitted' : s \in Admitted /\ local'[s].row.amount = local[s].row.amount
    BY <1>1, <1>5 DEF Admitted, AdmitsWith
  <2>2. Promised' \in SUBSET Promised
    BY <1>5, PromisedKept
  <2>3. IsFiniteSet(Promised') /\ Cardinality(Promised') <= Cardinality(Promised)
    BY <1>3, <2>2, FS_Subset
  <2>4. Cardinality(Promised') \in Nat
    BY <2>3, FS_CardinalityType
  <2>5. PICK most \in Nat : most = Cardinality(Requests) * invoice.total
    BY <1>4
  <2>6. Cardinality(Promised') <= most
    BY <1>2, <1>3, <2>3, <2>4, <2>5
  <2> QED
    BY <1>2, <2>1, <2>5, <2>6
<1>6. CASE Admits(label, w) /\ ~Admits(pc[r], local[r])
  <2>1. /\ pc[r] = "check" /\ Fits(local[r]) /\ UNCHANGED payments
        /\ w.p = local[r].p /\ w.row.amount = local[r].row.amount
    BY <1>6 DEF AdmitsWith
  <2>2. local[r].p \in Payments
    BY <2>1, AtHand DEF TypeOK, Labels
  <2>3. r \notin Admitted /\ Admitted \ {r} = Admitted
    BY <1>6 DEF Admitted
  <2> DEFINE most == Cents(payments, Completed(payments) \ {local[r].p})
                     \cup CentsAtHand(Admitted)
                     \cup {local[r].p} \X (1 .. local[r].row.amount)
  <2>4. /\ local[r].row.amount <= invoice.total
        /\ IsFiniteSet(most)
        /\ Cardinality(most) <= Cardinality(Requests) * invoice.total
    BY <1>2, <2>1, <2>2, <2>3, PromisedFits
  <2>5. Promised' \in SUBSET most
    BY <2>1, <2>2, <2>3, PromisedGrows
  <2> HIDE DEF most
  <2>6. IsFiniteSet(Promised') /\ Cardinality(Promised') <= Cardinality(most)
    BY <2>4, <2>5, FS_Subset
  <2>7. Cardinality(Promised') \in Nat /\ Cardinality(most) \in Nat
    BY <2>4, <2>6, FS_CardinalityType
  <2>8. PICK bound \in Nat : bound = Cardinality(Requests) * invoice.total
    BY <1>4
  <2>9. Cardinality(Promised') <= bound
    BY <2>4, <2>6, <2>7, <2>8
  <2>10. ASSUME NEW s \in Admitted' PROVE local'[s].row.amount <= invoice.total
    <3>1. CASE s = r
      BY <1>1, <2>1, <2>4, <3>1
    <3>2. CASE s # r
      <4>1. s \in Admitted /\ local'[s] = local[s]
        BY <1>1, <2>10, <3>2 DEF Admitted
      <4> QED
        BY <1>2, <4>1
    <3> QED
      BY <3>1, <3>2
  <2> QED
    BY <2>8, <2>9, <2>10
<1> QED
  BY <1>5, <1>6

LEMMA PromisedStep ==
    ASSUME IsFiniteSet(Requests)
    PROVE  TypeOK /\ RowsInv /\ AmountsInv /\ PromisedInv /\ [Next]_vars
               => AmountsInv' /\ PromisedInv'
<1> SUFFICES ASSUME TypeOK, RowsInv, AmountsInv, PromisedInv, [Next]_vars
             PROVE  AmountsInv' /\ PromisedInv'
  OBVIOUS
<1>1. CASE UNCHANGED vars
  BY <1>1 DEF vars, AmountsInv, SameAmount, PromisedInv, Promised, Cents, Completed,
              CentsAtHand, Admitted, Admits
<1>2. ASSUME NEW r \in Requests, Begin(r) PROVE AmountsInv' /\ PromisedInv'
  <2>1. UNCHANGED <<invoice, payments, marks>>
    BY <1>2, BeginAmount
  <2>2. PICK label, w : Moves(r, label, w) /\ ~Admits(label, w) /\ SameAmount(w)
    BY <1>2, BeginAmount
  <2>3. payments' \in Rows /\ KeepsOthers(r) /\ WritesOwn(r) /\ AdmitsWith(r, label, w)
    BY <2>1, <2>2 DEF TypeOK, Rows, KeepsOthers, WritesOwn, AdmitsWith
  <2>4. AmountsInv'
    BY <2>1, <2>2, <2>3, AmountsKept
  <2>5. PromisedInv'
    BY <2>1, <2>2, <2>3, PromisedMoves
  <2> QED
    BY <2>4, <2>5
<1>3. ASSUME NEW r \in Requests, Continue(r) \/ Crash(r) PROVE AmountsInv' /\ PromisedInv'
  <2>1. PICK label, w : Moves(r, label, w) /\ KeepsAmount(r, w) /\ AdmitsWith(r, label, w)
    BY <1>3, ContinueAmount
  <2>2. payments' \in Rows /\ KeepsOthers(r) /\ WritesOwn(r)
    BY <1>3, ContinueRows
  <2>3. "edited" \notin marks' => "edited" \notin marks /\ invoice'.total = invoice.total
    BY <1>3, TotalKept
  <2>4. AmountsInv'
    BY <2>1, <2>2, AmountsKept
  <2>5. PromisedInv'
    BY <2>1, <2>2, <2>3, PromisedMoves
  <2> QED
    BY <2>4, <2>5
<1> QED
  BY <1>1, <1>2, <1>3 DEF Next

LEMMA PromisedInit ==
    ASSUME IsFiniteSet(Requests), Init
    PROVE  AmountsInv /\ PromisedInv
<1>1. \A r \in Requests : local[r].p = None /\ pc[r] = "idle"
  BY DEF Init, Blank, Writing
<1>2. AmountsInv
  BY <1>1, NoneAssumption DEF AmountsInv, SameAmount
<1>3. Admitted = {}
  BY <1>1 DEF Admitted, Admits, AdmittedLabels, LockedLabels
<1>4. Completed(payments) = {}
  BY DEF Init, Completed, NoPayment
<1>5. Promised = {}
  BY <1>3, <1>4 DEF Promised, Cents, CentsAtHand
<1>6. invoice.total \in Nat /\ Cardinality(Requests) \in Nat
  BY TotalAssumption, FS_CardinalityType DEF Init, NewInvoice
<1>7. Cardinality(Promised) = 0 /\ Cardinality(Requests) * invoice.total >= 0
  <2>1. Cardinality(Promised) = 0
    BY <1>5, FS_EmptySet
  <2> QED
    BY <1>6, <2>1
<1> QED
  BY <1>2, <1>3, <1>6, <1>7 DEF PromisedInv

\* "Guard against completing a pending payment that would overpay the invoice" holds
\* of each request against the payments completed when it looked, and not of requests
\* that overlap: each of n may find room that the others are about to take.  That is
\* the most that can happen.  However their statements interleave, and however many
\* requests come one after another, as long as no edit changes the total the completed
\* payments stay within n times the total; with requests one at a time (n = 1) they
\* stay within the total.
THEOREM OverpaymentIsBounded ==
    ASSUME IsFiniteSet(Requests)
    PROVE  Spec => []OverpaymentBounded
<1>1. Init => AmountsInv /\ PromisedInv
  BY PromisedInit
<1>2. TypeOK /\ RowsInv /\ AmountsInv /\ PromisedInv /\ [Next]_vars
        => AmountsInv' /\ PromisedInv'
  BY PromisedStep
<1>3. TypeOK /\ PromisedInv => OverpaymentBounded
  <2> SUFFICES ASSUME TypeOK, PromisedInv, "edited" \notin marks
               PROVE  CompletedSum(payments) <= Cardinality(Requests) * invoice.total
    BY DEF OverpaymentBounded
  <2>1. /\ \A s \in Admitted : local[s].row.amount <= invoice.total
        /\ Cardinality(Promised) <= Cardinality(Requests) * invoice.total
    BY DEF PromisedInv
  <2>2. IsFiniteSet(Promised) /\ Cardinality(Promised) \in Nat
    BY <2>1, PromisedBound
  <2>3. Cents(payments, Completed(payments)) \in SUBSET Promised
    BY DEF Promised
  <2>4. CompletedSum(payments) <= Cardinality(Promised) /\ CompletedSum(payments) \in Nat
    BY <2>2, <2>3, FS_Subset, FS_CardinalityType DEF CompletedSum, SumOf
  <2>5. invoice.total \in Nat /\ Cardinality(Requests) \in Nat
    BY FS_CardinalityType DEF TypeOK, InvoiceRow
  <2>6. PICK most \in Nat : most = Cardinality(Requests) * invoice.total
    BY <2>5
  <2>7. CompletedSum(payments) <= most
    BY <2>1, <2>2, <2>4, <2>6
  <2> QED
    BY <2>6, <2>7
<1> QED
  BY <1>1, <1>2, <1>3, RowsInit, RowsStep, TypeCorrect, PTL DEF Spec
=============================================================================
