----------------------- MODULE InvoiceLedger_proofs -----------------------
(***************************************************************************)
(* Theorems about InvoiceLedger, for any number of payments and any        *)
(* amounts, totals and inputs.                                             *)
(***************************************************************************)
EXTENDS InvoiceLedger, FiniteSetTheorems, FunctionTheorems, TLAPS

Rows == [Payments -> PaymentRow]

----------------------------------------------------------------------------
(* Sums of payments. *)

\* A sum of payments is a number of cents.
LEMMA SumIsNat ==
    ASSUME NEW rows \in Rows, NEW ps \in SUBSET Payments
    PROVE  IsFiniteSet(Cents(rows, ps)) /\ SumOf(rows, ps) \in Nat
<1> DEFINE Of(p) == {p} \X (1 .. rows[p].amount)
           Parts == {Of(p) : p \in ps}
           F == [p \in ps |-> Of(p)]
<1>1. IsFiniteSet(ps)
  BY PaymentsAssumption, FS_Subset
<1>2. F \in Surjection(ps, Parts)
  BY DEF Surjection
<1>3. IsFiniteSet(Parts)
  BY <1>1, <1>2, FS_Surjection
<1>4. ASSUME NEW p \in ps PROVE IsFiniteSet(Of(p))
  <2>1. rows[p].amount \in Int /\ 1 \in Int
    BY DEF Rows, PaymentRow
  <2>2. IsFiniteSet(1 .. rows[p].amount) /\ IsFiniteSet({p})
    BY <2>1, FS_Interval, FS_Singleton
  <2> QED
    BY <2>2, FS_Product
<1>5. IsFiniteSet(UNION Parts)
  BY <1>3, <1>4, FS_UNION
<1>6. Cents(rows, ps) = UNION Parts
  BY DEF Cents
<1> QED
  BY <1>5, <1>6, FS_CardinalityType DEF SumOf

\* The sum depends on the amounts of the payments summed, and on nothing else.
LEMMA SameSum ==
    ASSUME NEW a \in Rows, NEW b \in Rows, NEW ps \in SUBSET Payments,
           \A p \in ps : a[p].amount = b[p].amount
    PROVE  SumOf(a, ps) = SumOf(b, ps)
<1>1. Cents(a, ps) = Cents(b, ps)
  BY DEF Cents
<1> QED
  BY <1>1 DEF SumOf

\* A payment of n cents contributes n of them.
LEMMA CentsOfOne ==
    ASSUME NEW p, NEW n \in Nat
    PROVE  IsFiniteSet({p} \X (1 .. n)) /\ Cardinality({p} \X (1 .. n)) = n
<1>1. IsFiniteSet(1 .. n) /\ Cardinality(1 .. n) = n
  <2>1. 1 \in Int /\ n \in Int
    OBVIOUS
  <2>2. IsFiniteSet(1 .. n) /\ Cardinality(1 .. n) = IF 1 > n THEN 0 ELSE n - 1 + 1
    BY <2>1, FS_Interval
  <2> QED
    BY <2>2
<1>2. IsFiniteSet({p}) /\ Cardinality({p}) = 1
  BY FS_Singleton
<1>3. /\ IsFiniteSet({p} \X (1 .. n))
      /\ Cardinality({p} \X (1 .. n)) = Cardinality({p}) * Cardinality(1 .. n)
  BY <1>1, <1>2, FS_Product
<1> QED
  BY <1>1, <1>2, <1>3

\* One more payment adds its amount.
LEMMA SumAdds ==
    ASSUME NEW rows \in Rows, NEW ps \in SUBSET Payments, NEW p \in Payments, p \notin ps
    PROVE  SumOf(rows, ps \cup {p}) = SumOf(rows, ps) + rows[p].amount
<1> DEFINE Old == Cents(rows, ps)
           One == {p} \X (1 .. rows[p].amount)
<1>1. rows[p].amount \in Nat
  BY DEF Rows, PaymentRow
<1>2. IsFiniteSet(One) /\ Cardinality(One) = rows[p].amount
  BY <1>1, CentsOfOne
<1>3. IsFiniteSet(Old) /\ Cardinality(Old) \in Nat
  BY SumIsNat DEF SumOf
<1>4. Cents(rows, ps \cup {p}) = Old \cup One
  BY DEF Cents
<1>5. Old \cap One = {}
  BY DEF Cents
<1> HIDE DEF Old, One
<1>6. Cardinality(Old \cup One) = Cardinality(Old) + Cardinality(One) - Cardinality(Old \cap One)
  BY <1>2, <1>3, FS_Union
<1>7. Cardinality(Old \cup One) = Cardinality(Old) + rows[p].amount
  BY <1>1, <1>2, <1>3, <1>5, <1>6, FS_EmptySet
<1> QED
  BY <1>4, <1>7 DEF SumOf, Old

----------------------------------------------------------------------------
(* Changes of the payment rows. *)

\* A change of rows that leaves the completed ones alone keeps their sum.
LeavesCompleted(old, new) ==
    /\ Completed(new) = Completed(old)
    /\ \A p \in Completed(old) : new[p].amount = old[p].amount

LEMMA SameCompletedSum ==
    ASSUME NEW old \in Rows, NEW new \in Rows, LeavesCompleted(old, new)
    PROVE  CompletedSum(new) = CompletedSum(old)
<1>1. Completed(old) \in SUBSET Payments
  BY DEF Completed, Rows
<1> QED
  BY <1>1, SameSum DEF LeavesCompleted, CompletedSum

LEMMA CompletedSumIsNat ==
    ASSUME NEW rows \in Rows
    PROVE  CompletedSum(rows) \in Nat
<1>1. Completed(rows) \in SUBSET Payments
  BY DEF Completed, Rows
<1> QED
  BY <1>1, SumIsNat DEF CompletedSum

\* The rows stay rows when one of them changes its status ...
LEMMA StatusChanged ==
    ASSUME NEW rows \in Rows, NEW p \in Payments, NEW to \in PaymentStatuses
    PROVE  /\ [rows EXCEPT ![p].status = to] \in Rows
           /\ rows[p].status # "COMPLETED" /\ to # "COMPLETED"
                => LeavesCompleted(rows, [rows EXCEPT ![p].status = to])
  BY DEF Rows, PaymentRow, LeavesCompleted, Completed

\* ... when a new one is stored ...
LEMMA RowStored ==
    ASSUME NEW rows \in Rows, NEW p \in Payments, NEW row \in PaymentRow
    PROVE  /\ [rows EXCEPT ![p] = row] \in Rows
           /\ rows[p].status # "COMPLETED" /\ row.status # "COMPLETED"
                => LeavesCompleted(rows, [rows EXCEPT ![p] = row])
  BY DEF Rows, LeavesCompleted, Completed

\* ... and when a new checkout fails the pending ones.
LEMMA PendingRowsFailed ==
    ASSUME NEW rows \in Rows
    PROVE  PendingFailed(rows) \in Rows /\ LeavesCompleted(rows, PendingFailed(rows))
<1>1. PendingFailed(rows) \in Rows
  BY DEF PendingFailed, Rows, PaymentRow, PaymentStatuses
<1>2. ASSUME NEW q \in Payments
      PROVE  /\ PendingFailed(rows)[q].amount = rows[q].amount
             /\ PendingFailed(rows)[q].status = "COMPLETED" <=> rows[q].status = "COMPLETED"
  BY DEF PendingFailed, Rows, PaymentRow
<1> QED
  BY <1>1, <1>2 DEF LeavesCompleted, Completed, Rows

----------------------------------------------------------------------------
(* The recomputation of the invoice. *)

\* Whatever it reads, the recomputed status says what the money says, and it
\* neither revives a cancelled invoice nor sends a draft.
LEMMA SyncStatusFits ==
    ASSUME NEW status \in InvoiceStatuses, NEW total \in Nat, NEW paid \in Nat,
           NEW refunded \in BOOLEAN
    PROVE  LET new == SyncStatus(status, total, paid, refunded)
           IN  /\ new \in InvoiceStatuses
               /\ new = "PAID" => paid >= total
               /\ new = "PARTIALLY_PAID" => 0 < paid /\ paid < total
               /\ new = "REFUNDED" => paid = 0
               /\ status \in {"DRAFT", "CANCELLED"} => new = status
               /\ new \in {"DRAFT", "CANCELLED"} => new = status
<1>1. CASE status \in {"DRAFT", "CANCELLED"}
  <2>1. status \notin AutoStatuses
    BY <1>1 DEF AutoStatuses, Payable
  <2>2. SyncStatus(status, total, paid, refunded) = status
    BY <2>1 DEF SyncStatus
  <2> QED
    BY <1>1, <2>2
<1>2. CASE status \notin {"DRAFT", "CANCELLED"}
  <2>1. status \in AutoStatuses
    BY <1>2 DEF InvoiceStatuses, AutoStatuses, Payable
  <2>2. CASE paid >= total
    <3>1. SyncStatus(status, total, paid, refunded) = "PAID"
      BY <2>1, <2>2 DEF SyncStatus
    <3> QED
      BY <1>2, <2>2, <3>1 DEF InvoiceStatuses
  <2>3. CASE paid < total /\ paid > 0
    <3>1. SyncStatus(status, total, paid, refunded) = "PARTIALLY_PAID"
      BY <2>1, <2>3 DEF SyncStatus
    <3> QED
      BY <1>2, <2>3, <3>1 DEF InvoiceStatuses
  <2>4. CASE paid < total /\ paid = 0
    <3>1. SyncStatus(status, total, paid, refunded) \in {"REFUNDED", "SENT"}
      BY <2>1, <2>4 DEF SyncStatus
    <3> QED
      BY <1>2, <2>4, <3>1 DEF InvoiceStatuses
  <2> QED
    BY <2>2, <2>3, <2>4
<1> QED
  BY <1>1, <1>2

LEMMA OutstandingIsNat ==
    ASSUME NEW total \in Nat, NEW paid \in Nat
    PROVE  Outstanding(total, paid) \in Nat
  BY DEF Outstanding

\* A recomputation leaves an invoice whose columns agree with one another and
\* with the payments.  It writes neither the total nor the deletion.
LEMMA Recomputed ==
    ASSUME TypeOK, ~invoice.deleted, NEW rows \in Rows, Settle(rows)
    PROVE  /\ payments' = rows
           /\ invoice' \in InvoiceRow
           /\ ~invoice'.deleted
           /\ byHand' = FALSE
           /\ invoice'.total = invoice.total
           /\ invoice'.paidAmount = CompletedSum(rows)
           /\ BalanceMatches'
           /\ StatusMatchesMoney'
           /\ invoice.status \in {"DRAFT", "CANCELLED"} => invoice'.status = invoice.status
           /\ invoice'.status \in {"DRAFT", "CANCELLED"} => invoice'.status = invoice.status
<1> DEFINE paid == CompletedSum(rows)
           refunded == SomeRefunded(rows)
           due == Outstanding(invoice.total, paid)
           new == SyncStatus(invoice.status, invoice.total, paid, refunded)
<1>1. /\ invoice = [status |-> invoice.status, total |-> invoice.total,
                    paidAmount |-> invoice.paidAmount, balanceDue |-> invoice.balanceDue,
                    deleted |-> invoice.deleted]
      /\ invoice.status \in InvoiceStatuses /\ invoice.total \in Nat
  BY DEF TypeOK, InvoiceRow
<1>2. paid \in Nat /\ refunded \in BOOLEAN
  BY CompletedSumIsNat DEF SomeRefunded
<1>3. due \in Nat
  BY <1>1, <1>2, OutstandingIsNat
<1>4. /\ new \in InvoiceStatuses
      /\ new = "PAID" => paid >= invoice.total
      /\ new = "PARTIALLY_PAID" => 0 < paid /\ paid < invoice.total
      /\ new = "REFUNDED" => paid = 0
      /\ invoice.status \in {"DRAFT", "CANCELLED"} => new = invoice.status
      /\ new \in {"DRAFT", "CANCELLED"} => new = invoice.status
  <2> HIDE DEF paid, refunded
  <2> QED
    BY <1>1, <1>2, SyncStatusFits
<1>5. /\ payments' = rows
      /\ byHand' = FALSE
      /\ invoice' = [invoice EXCEPT !.paidAmount = paid, !.balanceDue = due, !.status = new]
  BY DEF Settle, SyncData
<1> HIDE DEF paid, due, new, refunded
<1>6. /\ invoice'.status = new /\ invoice'.total = invoice.total
      /\ invoice'.paidAmount = paid /\ invoice'.balanceDue = due
      /\ invoice'.deleted = invoice.deleted
      /\ invoice' \in InvoiceRow
  BY <1>1, <1>2, <1>3, <1>4, <1>5 DEF TypeOK, InvoiceRow
<1>7. BalanceMatches'
  BY <1>6 DEF BalanceMatches, due
<1>8. StatusMatchesMoney'
  BY <1>4, <1>6 DEF StatusMatchesMoney, PartIsAPart
<1> QED
  BY <1>4, <1>5, <1>6, <1>7, <1>8 DEF paid

\* Actions that recompute do so with rows of the right shape, on an invoice that
\* is not deleted.
LEMMA RecordedRows ==
    ASSUME TypeOK, NEW p \in Payments, NEW amount \in Amounts, RecordPayment(p, amount)
    PROVE  LET rows == [payments EXCEPT ![p] = [status |-> "COMPLETED", method |-> "MANUAL",
                                                amount |-> amount]]
           IN  rows \in Rows /\ ~invoice.deleted /\ Settle(rows)
<1>1. payments \in Rows
  BY DEF TypeOK, Rows
<1>2. [status |-> "COMPLETED", method |-> "MANUAL", amount |-> amount] \in PaymentRow
  BY AmountAssumption DEF PaymentRow, PaymentStatuses, Methods
<1> QED
  BY <1>1, <1>2, RowStored DEF RecordPayment, AcceptsPayment

LEMMA UpdatedRows ==
    ASSUME TypeOK, NEW p \in Payments, NEW to \in PaymentStatuses,
           UpdatePaymentStatus(p, to) \/ (CheckoutCompleted(p) /\ to = "COMPLETED")
    PROVE  LET rows == [payments EXCEPT ![p].status = to]
           IN  rows \in Rows /\ ~invoice.deleted /\ Settle(rows)
<1>1. payments \in Rows
  BY DEF TypeOK, Rows
<1> QED
  BY <1>1, StatusChanged DEF UpdatePaymentStatus, CheckoutCompleted, CanComplete

\* Actions that touch payments without a recomputation leave the completed ones.
LEMMA OtherRows ==
    ASSUME TypeOK,
           \/ \E p \in Payments : CancelPayment(p) \/ CheckoutExpired(p)
           \/ \E p \in Payments, amount \in Amounts : StripeCheckout(p, amount)
    PROVE  /\ payments' \in Rows
           /\ LeavesCompleted(payments, payments')
           /\ UNCHANGED <<invoice, byHand>>
<1>0. payments \in Rows
  BY DEF TypeOK, Rows
<1>1. ASSUME NEW p \in Payments, NEW to \in {"REMOVED", "FAILED"},
             payments[p].status = "PENDING", payments' = [payments EXCEPT ![p].status = to]
      PROVE  payments' \in Rows /\ LeavesCompleted(payments, payments')
  BY <1>0, <1>1, StatusChanged DEF PaymentStatuses
<1>2. ASSUME NEW p \in Payments, NEW amount \in Amounts, StripeCheckout(p, amount)
      PROVE  /\ payments' \in Rows
             /\ LeavesCompleted(payments, payments')
  <2> DEFINE failed == PendingFailed(payments)
             row(status) == [status |-> status, method |-> "STRIPE", amount |-> amount]
  <2>1. failed \in Rows /\ LeavesCompleted(payments, failed)
    BY <1>0, PendingRowsFailed
  <2>2. failed[p].status = "ABSENT"
    BY <1>0, <1>2 DEF StripeCheckout, PendingFailed
  <2>3. ASSUME NEW status \in {"PENDING", "FAILED"}
        PROVE  /\ [failed EXCEPT ![p] = row(status)] \in Rows
               /\ LeavesCompleted(failed, [failed EXCEPT ![p] = row(status)])
    <3>1. row(status) \in PaymentRow /\ row(status).status # "COMPLETED"
      BY AmountAssumption DEF PaymentRow, PaymentStatuses, Methods
    <3> HIDE DEF failed, row
    <3> QED
      BY <2>1, <2>2, <3>1, RowStored
  <2>4. \/ payments' = failed
        \/ \E status \in {"PENDING", "FAILED"} : payments' = [failed EXCEPT ![p] = row(status)]
    BY <1>2 DEF StripeCheckout
  <2> HIDE DEF failed, row
  <2> QED
    BY <2>1, <2>3, <2>4 DEF LeavesCompleted
<1> QED
  BY <1>1, <1>2 DEF CancelPayment, CheckoutExpired, StripeCheckout

\* Actions on the invoice alone.
InvoiceStep ==
    \/ SendInvoice \/ UpdateInvoice \/ DeleteInvoice \/ ViewFromPortal \/ FallOverdue
    \/ \E to \in InvoiceStatuses, mills \in PaidInputs : ChangeStatus(to, mills)

LEMMA InvoiceStepTyped ==
    ASSUME TypeOK, InvoiceStep
    PROVE  invoice' \in InvoiceRow /\ byHand' \in BOOLEAN /\ UNCHANGED <<payments, sessions>>
<1> USE DEF TypeOK, InvoiceRow
<1>1. CASE SendInvoice \/ ViewFromPortal \/ FallOverdue \/ DeleteInvoice
  BY <1>1 DEF SendInvoice, ViewFromPortal, FallOverdue, DeleteInvoice, InvoiceStatuses
<1>2. CASE UpdateInvoice
  <2>1. PICK total \in Totals :
           invoice' = [invoice EXCEPT !.total = total,
                                      !.balanceDue = Outstanding(total, invoice.paidAmount)]
    BY <1>2 DEF UpdateInvoice
  <2>2. total \in Nat /\ Outstanding(total, invoice.paidAmount) \in Nat
    BY TotalAssumption, OutstandingIsNat
  <2> QED
    BY <1>2, <2>1, <2>2 DEF UpdateInvoice
<1>3. ASSUME NEW to \in InvoiceStatuses, NEW mills \in PaidInputs, ChangeStatus(to, mills)
      PROVE  invoice' \in InvoiceRow /\ byHand' \in BOOLEAN /\ UNCHANGED <<payments, sessions>>
  <2>1. mills \in Nat /\ invoice.total \in Nat
    BY PaidInputAssumption
  <2>2. PaidAfter(to, invoice, mills) \in Nat
    BY <2>1 DEF PaidAfter, RoundMoney
  <2>3. BalanceAfter(to, invoice, mills) \in Nat
    <3>1. ASSUME to = "PARTIALLY_PAID" PROVE RoundMoney(10 * invoice.total - mills) \in Nat
      BY <1>3, <2>1, <3>1 DEF ChangeStatus, ValidPart, RoundMoney
    <3> QED
      BY <2>1, <3>1 DEF BalanceAfter
  <2> QED
    BY <1>3, <2>2, <2>3 DEF ChangeStatus
<1> QED
  BY <1>1, <1>2, <1>3 DEF InvoiceStep

----------------------------------------------------------------------------
(* The invariants. *)

\* The state stays well typed: no sequence of handlers makes a balance or a
\* paid amount negative.
THEOREM TypeCorrect == Spec => []TypeOK
<1>1. Init => TypeOK
  <2> SUFFICES ASSUME Init PROVE TypeOK
    OBVIOUS
  <2>1. invoice \in InvoiceRow
    BY TotalAssumption DEF Init, InvoiceRow, InvoiceStatuses
  <2>2. NoPayment \in PaymentRow
    BY DEF NoPayment, PaymentRow, PaymentStatuses, Methods
  <2> QED
    BY <2>1, <2>2 DEF Init, TypeOK
<1>2. TypeOK /\ [Next]_vars => TypeOK'
  <2> SUFFICES ASSUME TypeOK, [Next]_vars PROVE TypeOK'
    OBVIOUS
  <2>1. CASE InvoiceStep
    BY <2>1, InvoiceStepTyped DEF TypeOK
  <2>2. ASSUME NEW p \in Payments, NEW amount \in Amounts, RecordPayment(p, amount)
        PROVE  TypeOK'
    BY <2>2, RecordedRows, Recomputed DEF RecordPayment, TypeOK, Rows
  <2>3. ASSUME NEW p \in Payments, NEW to \in PaymentStatuses,
               UpdatePaymentStatus(p, to) \/ (CheckoutCompleted(p) /\ to = "COMPLETED")
        PROVE  TypeOK'
    <3> DEFINE rows == [payments EXCEPT ![p].status = to]
    <3>1. rows \in Rows /\ ~invoice.deleted /\ Settle(rows)
      BY <2>3, UpdatedRows
    <3>2. sessions' = sessions
      BY <2>3 DEF UpdatePaymentStatus, CheckoutCompleted
    <3> HIDE DEF rows
    <3> QED
      BY <3>1, <3>2, Recomputed DEF TypeOK, Rows
  <2>4. ASSUME NEW p \in Payments, CancelPayment(p) \/ CheckoutExpired(p)
        PROVE  TypeOK'
    BY <2>4, OtherRows DEF CancelPayment, CheckoutExpired, TypeOK, Rows
  <2>5. ASSUME NEW p \in Payments, NEW amount \in Amounts, StripeCheckout(p, amount)
        PROVE  TypeOK'
    <3>1. payments' \in Rows /\ UNCHANGED <<invoice, byHand>>
      BY <2>5, OtherRows
    <3>2. sessions' \in [Payments -> {"none", "open", "paid", "expired"}]
      BY <2>5 DEF StripeCheckout, TypeOK
    <3> QED
      BY <3>1, <3>2 DEF TypeOK, Rows
  <2>6. ASSUME NEW p \in Payments, NEW outcome \in {"paid", "expired"}, SessionEnds(p, outcome)
        PROVE  TypeOK'
    BY <2>6 DEF SessionEnds, TypeOK
  <2>7. CASE UNCHANGED vars
    BY <2>7 DEF vars, TypeOK
  <2> QED
    BY <2>1, <2>2, <2>3, <2>4, <2>5, <2>6, <2>7
       DEF Next, OwnerStep, StripeStep, InvoiceStep, PaymentStatuses
<1> QED
  BY <1>1, <1>2, PTL DEF Spec

\* Every step is one of three kinds: it changes the invoice alone, it changes the
\* payments and recomputes the invoice, or it changes nothing completed.
LEMMA StepKinds ==
    ASSUME TypeOK, [Next]_vars
    PROVE  \/ InvoiceStep
           \/ ~invoice.deleted /\ \E rows \in Rows : Settle(rows)
           \/ LeavesCompleted(payments, payments') /\ payments' \in Rows
              /\ UNCHANGED <<invoice, byHand>>
<1>1. ASSUME NEW p \in Payments, NEW amount \in Amounts, RecordPayment(p, amount)
      PROVE  ~invoice.deleted /\ \E rows \in Rows : Settle(rows)
  BY <1>1, RecordedRows
<1>2. ASSUME NEW p \in Payments, NEW to \in PaymentStatuses,
             UpdatePaymentStatus(p, to) \/ (CheckoutCompleted(p) /\ to = "COMPLETED")
      PROVE  ~invoice.deleted /\ \E rows \in Rows : Settle(rows)
  BY <1>2, UpdatedRows
<1>3. ASSUME UNCHANGED vars \/ \E p \in Payments, outcome \in {"paid", "expired"} :
                                   SessionEnds(p, outcome)
      PROVE  LeavesCompleted(payments, payments') /\ payments' \in Rows
             /\ UNCHANGED <<invoice, byHand>>
  BY <1>3 DEF vars, SessionEnds, LeavesCompleted, TypeOK, Rows
<1> QED
  BY <1>1, <1>2, <1>3, OtherRows
     DEF Next, OwnerStep, StripeStep, InvoiceStep, PaymentStatuses

\* The lifecycle of an invoice: what holds whatever the owner enters by hand.
LifecycleInv == TypeOK /\ DeletedIsUnpaid /\ IssuedHasTotal /\ PaidIsBacked

LEMMA LifecycleInit == Init /\ TypeOK => LifecycleInv
<1> SUFFICES ASSUME Init, TypeOK PROVE LifecycleInv
  OBVIOUS
<1>1. Completed(payments) = {}
  BY DEF Init, Completed, NoPayment
<1>2. Cents(payments, {}) = {}
  BY DEF Cents
<1>3. CompletedSum(payments) = 0
  BY <1>1, <1>2, FS_EmptySet DEF CompletedSum, SumOf
<1> QED
  BY <1>1, <1>3 DEF Init, LifecycleInv, DeletedIsUnpaid, IssuedHasTotal, PaidIsBacked

LEMMA LifecycleStep ==
    ASSUME LifecycleInv, TypeOK', [Next]_vars
    PROVE  LifecycleInv'
<1> USE DEF LifecycleInv, DeletedIsUnpaid, IssuedHasTotal, PaidIsBacked
<1>1. CASE InvoiceStep
  <2>1. UNCHANGED payments
    BY <1>1, InvoiceStepTyped
  <2>2. CASE SendInvoice \/ ViewFromPortal \/ FallOverdue \/ DeleteInvoice
    BY <2>1, <2>2 DEF SendInvoice, ViewFromPortal, FallOverdue, DeleteInvoice, CanFallDue,
                      TypeOK, InvoiceRow
  <2>3. CASE UpdateInvoice
    BY <2>1, <2>3 DEF UpdateInvoice, Editable, TypeOK, InvoiceRow
  <2>4. ASSUME NEW to \in InvoiceStatuses, NEW mills \in PaidInputs, ChangeStatus(to, mills)
        PROVE  LifecycleInv'
    <3>1. /\ invoice'.status = to /\ invoice'.total = invoice.total
          /\ invoice'.deleted = invoice.deleted
          /\ invoice'.paidAmount = PaidAfter(to, invoice, mills)
          /\ byHand' = (byHand \/ to \in MoneyTargets)
      BY <2>4 DEF ChangeStatus, TypeOK, InvoiceRow
    <3>2. to \notin MoneyTargets => invoice'.paidAmount = invoice.paidAmount
      BY <3>1 DEF PaidAfter, MoneyTargets
    <3>3. invoice.status \in {"DRAFT", "CANCELLED"} =>
             to \in {"DRAFT", "CANCELLED"} \/ (to = "SENT" /\ invoice.total > 0)
      BY <2>4 DEF ChangeStatus, ManualTransitions
    <3>4. DeletedIsUnpaid' /\ IssuedHasTotal'
      BY <2>1, <3>1, <3>3
    <3>5. PaidIsBacked'
      BY <2>1, <3>1, <3>2
    <3> QED
      BY <3>4, <3>5
  <2> QED
    BY <1>1, <2>2, <2>3, <2>4 DEF InvoiceStep
<1>2. ASSUME ~invoice.deleted, NEW rows \in Rows, Settle(rows)
      PROVE  LifecycleInv'
  BY <1>2, Recomputed
<1>3. CASE /\ LeavesCompleted(payments, payments') /\ payments' \in Rows
           /\ UNCHANGED <<invoice, byHand>>
  <2>1. payments \in Rows
    BY DEF TypeOK, Rows
  <2>2. Completed(payments') = Completed(payments) /\ CompletedSum(payments') = CompletedSum(payments)
    BY <1>3, <2>1, SameCompletedSum DEF LeavesCompleted
  <2> QED
    BY <1>3, <2>2
<1> QED
  BY <1>1, <1>2, <1>3, StepKinds

\* No completed payment hangs on a deleted invoice, everything that was sent has
\* something to pay, and the paid amount is the sum of the completed payments
\* unless the owner has entered money by hand since the last recomputation.
THEOREM LifecycleSafe == Spec => [](DeletedIsUnpaid /\ IssuedHasTotal /\ PaidIsBacked)
<1>1. Init /\ TypeOK => LifecycleInv
  BY LifecycleInit
<1>2. LifecycleInv /\ TypeOK' /\ [Next]_vars => LifecycleInv'
  BY LifecycleStep
<1>3. LifecycleInv => DeletedIsUnpaid /\ IssuedHasTotal /\ PaidIsBacked
  BY DEF LifecycleInv
<1> QED
  BY <1>1, <1>2, <1>3, TypeCorrect, PTL DEF Spec

\* No completed payment hangs on a deleted invoice.
THEOREM DeletedStayUnpaid == Spec => []DeletedIsUnpaid
  BY LifecycleSafe, PTL

\* Everything a client has been sent has something to pay.
THEOREM SentHasTotal == Spec => []IssuedHasTotal
  BY LifecycleSafe, PTL

\* The paid amount is the sum of the completed payments, unless the owner has
\* entered money by hand since the last recomputation.
THEOREM PaidAmountIsBacked == Spec => []PaidIsBacked
  BY LifecycleSafe, PTL

----------------------------------------------------------------------------
(* The money columns. *)

\* Paid amounts are entered in whole cents.  Without this neither BalanceMatches
\* nor PartIsAPart holds, because the two roundings of a part payment need not
\* add up to the total.
WholeCents == \A mills \in PaidInputs : mills % 10 = 0

LEMMA RoundWhole ==
    ASSUME NEW mills \in Nat, mills % 10 = 0
    PROVE  RoundMoney(mills) \in Nat /\ mills = 10 * RoundMoney(mills)
  BY DEF RoundMoney

MoneyInv == BalanceMatches /\ StatusMatchesMoney

\* A change of status by the owner writes columns that agree.
LEMMA ChangeAgrees ==
    ASSUME WholeCents, TypeOK, MoneyInv, NEW to \in InvoiceStatuses, NEW mills \in PaidInputs,
           ChangeStatus(to, mills)
    PROVE  MoneyInv'
<1> DEFINE total == invoice.total
           cents == RoundMoney(mills)
           rest == RoundMoney(10 * total - mills)
<1>1. /\ invoice'.status = to /\ invoice'.total = total
      /\ invoice'.paidAmount = PaidAfter(to, invoice, mills)
      /\ invoice'.balanceDue = BalanceAfter(to, invoice, mills)
  BY DEF ChangeStatus, TypeOK, InvoiceRow
<1>2. mills \in Nat /\ total \in Nat
  BY PaidInputAssumption DEF TypeOK, InvoiceRow
<1>3. cents \in Nat /\ mills = 10 * cents
  BY <1>2, RoundWhole DEF WholeCents
<1>4. CASE to = "PARTIALLY_PAID"
  <2>1. 0 < mills /\ mills < 10 * total
    BY <1>4 DEF ChangeStatus, ValidPart
  <2>2. 0 < cents /\ cents < total
    BY <1>2, <1>3, <2>1
  <2>3. rest = total - cents
    <3>1. 10 * total - mills = 10 * (total - cents) /\ total - cents \in Nat
      BY <1>2, <1>3, <2>2
    <3> HIDE DEF total, cents
    <3> QED
      BY <1>2, <1>3, <3>1, <2>2 DEF rest, RoundMoney
  <2>4. invoice'.paidAmount = cents /\ invoice'.balanceDue = rest
    BY <1>1, <1>4 DEF PaidAfter, BalanceAfter
  <2> QED
    BY <1>1, <1>2, <1>3, <1>4, <2>2, <2>3, <2>4
       DEF MoneyInv, BalanceMatches, StatusMatchesMoney, PartIsAPart, Outstanding
<1>5. CASE to \in {"PAID", "REFUNDED", "DRAFT"}
  <2>1. \/ /\ to = "PAID" /\ invoice'.paidAmount = total /\ invoice'.balanceDue = 0
        \/ /\ to # "PAID" /\ invoice'.paidAmount = 0 /\ invoice'.balanceDue = total
    BY <1>1, <1>5 DEF PaidAfter, BalanceAfter
  <2> QED
    BY <1>1, <1>2, <1>5, <2>1
       DEF MoneyInv, BalanceMatches, StatusMatchesMoney, PartIsAPart, Outstanding
<1>6. CASE to \notin {"PAID", "PARTIALLY_PAID", "REFUNDED", "DRAFT"}
  <2>1. invoice'.paidAmount = invoice.paidAmount /\ invoice'.balanceDue = invoice.balanceDue
    BY <1>1, <1>6 DEF PaidAfter, BalanceAfter
  <2> QED
    BY <1>1, <1>6, <2>1
       DEF MoneyInv, BalanceMatches, StatusMatchesMoney, PartIsAPart, Outstanding
<1> QED
  BY <1>4, <1>5, <1>6

LEMMA MoneyStep ==
    ASSUME WholeCents, TypeOK, MoneyInv, [Next]_vars
    PROVE  MoneyInv'
<1>1. CASE InvoiceStep
  <2> USE DEF MoneyInv, BalanceMatches, StatusMatchesMoney, PartIsAPart, TypeOK, InvoiceRow
  <2>1. CASE SendInvoice \/ ViewFromPortal \/ FallOverdue \/ DeleteInvoice
    BY <2>1 DEF SendInvoice, ViewFromPortal, FallOverdue, DeleteInvoice
  <2>2. CASE UpdateInvoice
    BY <2>2, TotalAssumption DEF UpdateInvoice, Editable
  <2> QED
    BY <1>1, <2>1, <2>2, ChangeAgrees DEF InvoiceStep
<1>2. ASSUME ~invoice.deleted, NEW rows \in Rows, Settle(rows)
      PROVE  MoneyInv'
  BY <1>2, Recomputed DEF MoneyInv
<1>3. CASE UNCHANGED <<invoice, byHand>>
  BY <1>3 DEF MoneyInv, BalanceMatches, StatusMatchesMoney, PartIsAPart
<1> QED
  BY <1>1, <1>2, <1>3, StepKinds

\* The money columns of an invoice agree with one another and with its status
\* after any sequence of edits, manual changes, payments and webhooks.
THEOREM MoneyAgrees ==
    ASSUME WholeCents
    PROVE  Spec => [](BalanceMatches /\ StatusMatchesMoney)
<1>1. Init => MoneyInv
  BY TotalAssumption
     DEF Init, MoneyInv, BalanceMatches, StatusMatchesMoney, PartIsAPart, Outstanding
<1>2. TypeOK /\ MoneyInv /\ [Next]_vars => MoneyInv'
  BY MoneyStep
<1> QED
  BY <1>1, <1>2, TypeCorrect, PTL DEF Spec, MoneyInv

\* The balance is what the total leaves after the paid amount.
THEOREM BalanceIsRest ==
    ASSUME WholeCents
    PROVE  Spec => []BalanceMatches
<1>1. Spec => [](BalanceMatches /\ StatusMatchesMoney)
  BY MoneyAgrees
<1> QED
  BY <1>1, PTL

\* The status says of the money what the money says.
THEOREM StatusSaysMoney ==
    ASSUME WholeCents
    PROVE  Spec => []StatusMatchesMoney
<1>1. Spec => [](BalanceMatches /\ StatusMatchesMoney)
  BY MoneyAgrees
<1> QED
  BY <1>1, PTL

----------------------------------------------------------------------------
(* What a step may never do. *)

\* A deleted invoice is final.
THEOREM DeletedStays == Spec => DeletedIsFinal
<1>1. TypeOK /\ [Next]_vars => [invoice.deleted => UNCHANGED invoice]_vars
  <2> SUFFICES ASSUME TypeOK, [Next]_vars, invoice.deleted PROVE UNCHANGED invoice
    BY DEF vars
  <2>1. ~InvoiceStep
    BY DEF InvoiceStep, SendInvoice, UpdateInvoice, DeleteInvoice, ViewFromPortal, FallOverdue,
           ChangeStatus
  <2> QED
    BY <2>1, StepKinds
<1> QED
  BY <1>1, TypeCorrect, PTL DEF Spec, DeletedIsFinal

\* No payment, webhook, view or job revives a cancelled invoice or sends a draft.
THEOREM OwnerRevives == Spec => OnlyOwnerRevives
<1> DEFINE Kept == /\ invoice.status = "CANCELLED" => invoice'.status \in {"CANCELLED", "DRAFT"}
                   /\ invoice.status = "DRAFT" => invoice'.status \in {"DRAFT", "SENT", "CANCELLED"}
<1>1. TypeOK /\ [Next]_vars => [Kept]_vars
  <2> SUFFICES ASSUME TypeOK, [Next]_vars PROVE Kept
    BY DEF vars
  <2>1. CASE InvoiceStep
    <3>1. ASSUME NEW to \in InvoiceStatuses, NEW mills \in PaidInputs, ChangeStatus(to, mills)
          PROVE  Kept
      <4>1. invoice'.status = to /\ to \in ManualTransitions(invoice.status)
        BY <3>1 DEF ChangeStatus, TypeOK, InvoiceRow
      <4> QED
        BY <4>1 DEF ManualTransitions
    <3> QED
      BY <2>1, <3>1 DEF InvoiceStep, SendInvoice, UpdateInvoice, DeleteInvoice, ViewFromPortal,
                        FallOverdue, CanFallDue, Sendable, TypeOK, InvoiceRow
  <2>2. ASSUME ~invoice.deleted, NEW rows \in Rows, Settle(rows) PROVE Kept
    BY <2>2, Recomputed
  <2>3. CASE UNCHANGED <<invoice, byHand>>
    BY <2>3
  <2> QED
    BY <2>1, <2>2, <2>3, StepKinds
<1> QED
  BY <1>1, TypeCorrect, PTL DEF Spec, OnlyOwnerRevives

\* Fewer payments never sum up to more.
LEMMA SumMonotone ==
    ASSUME NEW rows \in Rows, NEW ps \in SUBSET Payments, NEW qs \in SUBSET ps
    PROVE  SumOf(rows, qs) <= SumOf(rows, ps)
<1>1. Cents(rows, qs) \in SUBSET Cents(rows, ps)
  BY DEF Cents
<1>2. IsFiniteSet(Cents(rows, ps))
  BY SumIsNat
<1> QED
  BY <1>1, <1>2, FS_Subset DEF SumOf

\* A payment that was checked to fit brings the sum to what was checked.
LEMMA CompletionFits ==
    ASSUME NEW rows \in Rows, NEW new \in Rows, NEW p \in Payments,
           new[p].status = "COMPLETED",
           \A q \in Payments \ {p} : new[q] = rows[q]
    PROVE  CompletedSum(new) = SumOf(rows, Completed(rows) \ {p}) + new[p].amount
<1> DEFINE others == Completed(rows) \ {p}
<1>1. others \in SUBSET Payments /\ p \notin others
  BY DEF Completed, Rows
<1>2. Completed(new) = others \cup {p}
  BY DEF Completed, Rows
<1>3. SumOf(new, others) = SumOf(rows, others)
  <2>1. \A q \in others : new[q].amount = rows[q].amount
    BY <1>1
  <2> HIDE DEF others
  <2> QED
    BY <1>1, <2>1, SameSum
<1>4. SumOf(new, others \cup {p}) = SumOf(new, others) + new[p].amount
  <2> HIDE DEF others
  <2> QED
    BY <1>1, SumAdds
<1> QED
  BY <1>2, <1>3, <1>4 DEF CompletedSum

\* Any other change of a payment's status takes it out of the sum, if it was in.
LEMMA OtherStatusAddsNothing ==
    ASSUME NEW rows \in Rows, NEW p \in Payments, NEW to \in PaymentStatuses, to # "COMPLETED"
    PROVE  CompletedSum([rows EXCEPT ![p].status = to]) <= CompletedSum(rows)
<1> DEFINE new == [rows EXCEPT ![p].status = to]
<1>1. new \in Rows
  BY StatusChanged
<1>2. /\ Completed(new) \in SUBSET Completed(rows)
      /\ Completed(rows) \in SUBSET Payments
      /\ \A q \in Completed(rows) : new[q].amount = rows[q].amount
  BY DEF Completed, Rows, PaymentRow
<1> HIDE DEF new
<1>3. SumOf(new, Completed(rows)) = SumOf(rows, Completed(rows))
  BY <1>1, <1>2, SameSum
<1>4. SumOf(new, Completed(new)) <= SumOf(new, Completed(rows))
  BY <1>1, <1>2, SumMonotone
<1> QED
  BY <1>3, <1>4 DEF CompletedSum, new

\* Money that comes in never takes the completed payments above the total.
THEOREM NeverOverpaid == Spec => NeverOverpays
<1> DEFINE Within == CompletedSum(payments') > CompletedSum(payments)
                        => CompletedSum(payments') <= invoice'.total
<1>1. TypeOK /\ [Next]_vars => [Within]_vars
  <2> SUFFICES ASSUME TypeOK, [Next]_vars PROVE Within
    BY DEF vars
  <2>1. payments \in Rows /\ CompletedSum(payments) \in Nat
    BY CompletedSumIsNat DEF TypeOK, Rows
  <2>2. ASSUME NEW p \in Payments, NEW amount \in Amounts, RecordPayment(p, amount)
        PROVE  Within
    <3> DEFINE rows == [payments EXCEPT ![p] = [status |-> "COMPLETED", method |-> "MANUAL",
                                                amount |-> amount]]
    <3>1. rows \in Rows /\ ~invoice.deleted /\ Settle(rows)
      BY <2>2, RecordedRows
    <3>2. /\ rows[p].status = "COMPLETED" /\ rows[p].amount = amount
          /\ \A q \in Payments \ {p} : rows[q] = payments[q]
      BY <2>1 DEF Rows
    <3> HIDE DEF rows
    <3>3. CompletedSum(rows) = SumOf(payments, Completed(payments) \ {p}) + amount
      BY <2>1, <3>1, <3>2, CompletionFits
    <3>4. CompletedSum(rows) <= invoice.total
      BY <2>2, <3>3 DEF RecordPayment, CanComplete
    <3> QED
      BY <3>1, <3>4, Recomputed
  <2>3. ASSUME NEW p \in Payments, NEW to \in PaymentStatuses,
               UpdatePaymentStatus(p, to) \/ (CheckoutCompleted(p) /\ to = "COMPLETED")
        PROVE  Within
    <3> DEFINE rows == [payments EXCEPT ![p].status = to]
    <3>1. rows \in Rows /\ ~invoice.deleted /\ Settle(rows)
      BY <2>3, UpdatedRows
    <3>2. /\ rows[p].status = to /\ rows[p].amount = payments[p].amount
          /\ \A q \in Payments \ {p} : rows[q] = payments[q]
      BY <2>1 DEF Rows, PaymentRow
    <3>3. CASE to = "COMPLETED"
      <4> HIDE DEF rows
      <4>1. CompletedSum(rows) = SumOf(payments, Completed(payments) \ {p}) + payments[p].amount
        BY <2>1, <3>1, <3>2, <3>3, CompletionFits
      <4>2. CompletedSum(rows) <= invoice.total
        BY <2>3, <3>3, <4>1 DEF UpdatePaymentStatus, CheckoutCompleted, CanComplete
      <4> QED
        BY <3>1, <4>2, Recomputed
    <3>4. CASE to # "COMPLETED"
      <4>1. CompletedSum(rows) <= CompletedSum(payments) /\ CompletedSum(rows) \in Nat
        BY <2>1, <3>1, <3>4, OtherStatusAddsNothing, CompletedSumIsNat
      <4> HIDE DEF rows
      <4>2. payments' = rows
        BY <3>1, Recomputed
      <4>3. ~(CompletedSum(payments') > CompletedSum(payments))
        BY <2>1, <4>1, <4>2
      <4> QED
        BY <4>3
    <3> QED
      BY <3>3, <3>4
  <2>4. CASE InvoiceStep
    BY <2>1, <2>4, InvoiceStepTyped
  <2>5. CASE /\ LeavesCompleted(payments, payments') /\ payments' \in Rows
    BY <2>1, <2>5, SameCompletedSum
  <2>6. ASSUME UNCHANGED vars \/ \E p \in Payments, outcome \in {"paid", "expired"} :
                                     SessionEnds(p, outcome)
        PROVE  Within
    BY <2>1, <2>6 DEF vars, SessionEnds
  <2> QED
    BY <2>2, <2>3, <2>4, <2>5, <2>6, OtherRows
       DEF Next, OwnerStep, StripeStep, InvoiceStep, PaymentStatuses
<1> QED
  BY <1>1, TypeCorrect, PTL DEF Spec, NeverOverpays

----------------------------------------------------------------------------
(* Pending payments. *)

Pending(rows) == {p \in Payments : rows[p].status = "PENDING"}

\* Only a checkout leaves a payment pending, and it fails those before it.
PendingInv == /\ \A p \in Pending(payments) : payments[p].method = "STRIPE"
              /\ \A p, q \in Pending(payments) : p = q

LEMMA PendingStep ==
    ASSUME TypeOK, PendingInv, [Next]_vars
    PROVE  PendingInv'
<1> USE DEF PendingInv, Pending
<1>1. payments \in Rows
  BY DEF TypeOK, Rows
<1>2. CASE InvoiceStep
  BY <1>2, InvoiceStepTyped
<1>3. ASSUME NEW p \in Payments, NEW row \in PaymentRow, row.status # "PENDING",
             payments' = [payments EXCEPT ![p] = row]
      PROVE  PendingInv'
  BY <1>1, <1>3 DEF Rows
<1>4. ASSUME NEW p \in Payments, NEW amount \in Amounts, RecordPayment(p, amount)
      PROVE  PendingInv'
  <2> DEFINE row == [status |-> "COMPLETED", method |-> "MANUAL", amount |-> amount]
  <2>1. row \in PaymentRow /\ row.status # "PENDING"
    BY AmountAssumption DEF PaymentRow, PaymentStatuses, Methods
  <2>2. payments' = [payments EXCEPT ![p] = row]
    BY <1>4 DEF RecordPayment, Settle
  <2> HIDE DEF row
  <2> QED
    BY <1>3, <2>1, <2>2
<1>5. ASSUME NEW p \in Payments, NEW to \in PaymentStatuses, to # "PENDING",
             payments' = [payments EXCEPT ![p].status = to]
      PROVE  PendingInv'
  BY <1>1, <1>5 DEF Rows, PaymentRow
<1>6. ASSUME NEW p \in Payments, NEW to \in PaymentStatuses, UpdatePaymentStatus(p, to)
      PROVE  PendingInv'
  <2>1. to # "PENDING"
    BY <1>6 DEF UpdatePaymentStatus, PaymentTransitions
  <2> QED
    BY <1>5, <1>6, <2>1 DEF UpdatePaymentStatus, Settle
<1>7. ASSUME NEW p \in Payments, CancelPayment(p) \/ CheckoutCompleted(p) \/ CheckoutExpired(p)
      PROVE  PendingInv'
  BY <1>5, <1>7 DEF CancelPayment, CheckoutCompleted, CheckoutExpired, Settle, PaymentStatuses
<1>8. ASSUME NEW p \in Payments, NEW amount \in Amounts, StripeCheckout(p, amount)
      PROVE  PendingInv'
  <2> DEFINE failed == PendingFailed(payments)
             row(status) == [status |-> status, method |-> "STRIPE", amount |-> amount]
  <2>1. failed \in Rows /\ \A q \in Payments : failed[q].status # "PENDING"
    BY <1>1, PendingRowsFailed DEF PendingFailed, Rows, PaymentRow
  <2>2. \/ payments' = failed
        \/ payments' = [failed EXCEPT ![p] = row("PENDING")]
        \/ payments' = [failed EXCEPT ![p] = row("FAILED")]
    BY <1>8 DEF StripeCheckout
  <2>3. row("PENDING").method = "STRIPE" /\ row("FAILED").status # "PENDING"
    OBVIOUS
  <2> HIDE DEF failed, row
  <2> QED
    BY <2>1, <2>2, <2>3 DEF Rows
<1>9. ASSUME UNCHANGED vars \/ \E p \in Payments, outcome \in {"paid", "expired"} :
                                   SessionEnds(p, outcome)
      PROVE  PendingInv'
  BY <1>9 DEF vars, SessionEnds
<1> QED
  BY <1>2, <1>4, <1>6, <1>7, <1>8, <1>9 DEF Next, OwnerStep, StripeStep, InvoiceStep

\* At most one payment waits for Stripe, whatever checkouts were started.
THEOREM OnePendingPayment == Spec => []OnePending
<1>1. Init => PendingInv
  BY DEF Init, PendingInv, Pending, NoPayment
<1>2. TypeOK /\ PendingInv /\ [Next]_vars => PendingInv'
  BY PendingStep
<1>3. PendingInv => OnePending
  <2> SUFFICES ASSUME PendingInv PROVE Cardinality(Pending(payments)) <= 1
    BY DEF OnePending, Pending
  <2>1. CASE Pending(payments) = {}
    BY <2>1, FS_EmptySet
  <2>2. ASSUME NEW p \in Pending(payments) PROVE Cardinality(Pending(payments)) = 1
    <3>1. Pending(payments) = {p}
      BY DEF PendingInv
    <3> QED
      BY <3>1, FS_Singleton
  <2> QED
    BY <2>1, <2>2
<1> QED
  BY <1>1, <1>2, <1>3, TypeCorrect, PTL DEF Spec
=============================================================================
