--------------------------- MODULE InvoiceLedger ---------------------------
(***************************************************************************)
(* One invoice, its payments and its Stripe Checkout sessions, from        *)
(* creation to deletion.  Every handler that writes any of them is one     *)
(* action: the owner's (send, edit, change of status, delete, record,      *)
(* update and cancel a payment, Stripe checkout), the client's (portal     *)
(* view, portal checkout), Stripe's webhooks, and the overdue job.         *)
(*                                                                         *)
(* A handler runs here without interleaving; what interleaving adds is     *)
(* the subject of LedgerConcurrency.  What is left open is the order of    *)
(* handlers, the inputs, when Stripe sessions are paid or expire, and      *)
(* when and how often each webhook arrives.                                *)
(***************************************************************************)
EXTENDS LedgerRules

CONSTANTS Payments,      \* payment rows that may ever be created (a bound)
          Amounts,       \* payment amounts, in cents
          Totals,        \* invoice totals an edit may lead to, in cents
          PaidInputs     \* paid amounts sent with PARTIALLY_PAID, in mills

ASSUME AmountAssumption == Amounts \subseteq Nat \ {0}
ASSUME TotalAssumption == Totals \subseteq Nat
ASSUME PaidInputAssumption == PaidInputs \subseteq Nat
ASSUME PaymentsAssumption == IsFiniteSet(Payments)

VARIABLES invoice,   \* the Invoice row
          payments,  \* the Payment rows of the invoice
          sessions,  \* what Stripe knows of the session of each payment
          byHand     \* history: the owner's entry of a paid amount, by a change
                     \* of status, is more recent than the last recomputation

vars == <<invoice, payments, sessions, byHand>>

InvoiceRow == [status : InvoiceStatuses, total : Nat, paidAmount : Nat,
               balanceDue : Nat, deleted : BOOLEAN]

PaymentRow == [status : PaymentStatuses, method : Methods, amount : Nat]

NoPayment == [status |-> "ABSENT", method |-> "MANUAL", amount |-> 0]

TypeOK == /\ invoice \in InvoiceRow
          /\ payments \in [Payments -> PaymentRow]
          /\ sessions \in [Payments -> {"none", "open", "paid", "expired"}]
          /\ byHand \in BOOLEAN

\* A new invoice: createInvoice, duplicateInvoice and recurring runs all store
\* a DRAFT with nothing paid.
Init == /\ \E total \in Totals :
              invoice = [status |-> "DRAFT", total |-> total, paidAmount |-> 0,
                         balanceDue |-> total, deleted |-> FALSE]
        /\ payments = [p \in Payments |-> NoPayment]
        /\ sessions = [p \in Payments |-> "none"]
        /\ byHand = FALSE

----------------------------------------------------------------------------
(* The owner's operations on the invoice. *)

\* Faulty: a deleted invoice can be sent.
SendDeleted ==
    /\ invoice.status \in Sendable
    /\ invoice.total > 0
    /\ invoice' = IF invoice.status = "DRAFT"
                  THEN [invoice EXCEPT !.status = "SENT"] ELSE invoice
    /\ UNCHANGED <<payments, sessions, byHand>>

\* sendInvoice, once the email has gone out.  A first send makes it SENT.
SendInvoice ==
    /\ ~invoice.deleted
    /\ invoice.status \in Sendable
    /\ invoice.total > 0
    /\ invoice' = IF invoice.status = "DRAFT"
                  THEN [invoice EXCEPT !.status = "SENT"] ELSE invoice
    /\ UNCHANGED <<payments, sessions, byHand>>

\* updateInvoice: new items, tax or discount lead to a new total.
UpdateInvoice ==
    /\ ~invoice.deleted
    /\ invoice.status \in Editable
    /\ \E total \in Totals :
          invoice' = [invoice EXCEPT !.total = total,
                                     !.balanceDue = Outstanding(total, invoice.paidAmount)]
    /\ UNCHANGED <<payments, sessions, byHand>>

\* updateInvoiceStatus.
ChangeStatus(to, mills) ==
    /\ ~invoice.deleted
    /\ to \in ManualTransitions(invoice.status)
    /\ to = "SENT" => invoice.total > 0
    /\ ValidPart(to, invoice.total, mills)
    /\ invoice' = [invoice EXCEPT !.status = to,
                                  !.paidAmount = PaidAfter(to, invoice, mills),
                                  !.balanceDue = BalanceAfter(to, invoice, mills)]
    /\ byHand' = (byHand \/ to \in MoneyTargets)
    /\ UNCHANGED <<payments, sessions>>

\* Faulty: without the count of completed payments.
DeleteUnchecked ==
    /\ ~invoice.deleted
    /\ invoice.status \in Deletable
    /\ invoice' = [invoice EXCEPT !.deleted = TRUE]
    /\ UNCHANGED <<payments, sessions, byHand>>

\* deleteInvoice.
DeleteInvoice ==
    /\ ~invoice.deleted
    /\ invoice.status \in Deletable
    /\ Completed(payments) = {}
    /\ invoice' = [invoice EXCEPT !.deleted = TRUE]
    /\ UNCHANGED <<payments, sessions, byHand>>

----------------------------------------------------------------------------
(* Payments the owner handles. *)

\* A change of the payment rows followed by syncInvoiceFromPayments, which
\* passes over a deleted invoice.
Settle(rows) ==
    LET data == SyncData(invoice.total, invoice.status, rows)
    IN  /\ payments' = rows
        /\ invoice' = IF invoice.deleted THEN invoice
                      ELSE [invoice EXCEPT !.paidAmount = data.paidAmount,
                                           !.balanceDue = data.balanceDue,
                                           !.status = data.status]
        /\ byHand' = (byHand /\ invoice.deleted)

\* recordPayment: a manual payment is COMPLETED at once.
RecordPayment(p, amount) ==
    /\ payments[p].status = "ABSENT"
    /\ AcceptsPayment(invoice, amount)
    /\ CanComplete(invoice, payments, p, amount)
    /\ Settle([payments EXCEPT ![p] = [status |-> "COMPLETED", method |-> "MANUAL",
                                       amount |-> amount]])
    /\ UNCHANGED sessions

\* Faulty: only a completion recomputes the invoice.
UpdateSyncsOnCompletion(p, to) ==
    /\ ~invoice.deleted
    /\ to \in PaymentTransitions(payments[p].status)
    /\ to = "COMPLETED" => CanComplete(invoice, payments, p, payments[p].amount)
    /\ LET rows == [payments EXCEPT ![p].status = to]
       IN  IF to = "COMPLETED" THEN Settle(rows)
           ELSE payments' = rows /\ UNCHANGED <<invoice, byHand>>
    /\ UNCHANGED sessions

\* updatePaymentStatus.  It syncs the invoice after every kind of transition.
UpdatePaymentStatus(p, to) ==
    /\ ~invoice.deleted
    /\ to \in PaymentTransitions(payments[p].status)
    /\ to = "COMPLETED" => CanComplete(invoice, payments, p, payments[p].amount)
    /\ Settle([payments EXCEPT ![p].status = to])
    /\ UNCHANGED sessions

\* cancelPayment deletes the row and leaves the invoice as it is.
CancelPayment(p) ==
    /\ ~invoice.deleted
    /\ payments[p].status = "PENDING"
    /\ payments' = [payments EXCEPT ![p].status = "REMOVED"]
    /\ UNCHANGED <<invoice, sessions, byHand>>

----------------------------------------------------------------------------
(* Stripe Checkout, started by the owner or from the portal. *)

\* Faulty: earlier pending payments are left as they are.
PendingKept(rows) == rows

\* failPendingStripePayments
PendingFailed(rows) ==
    [q \in Payments |-> IF rows[q].status = "PENDING" /\ rows[q].method = "STRIPE"
                        THEN [rows[q] EXCEPT !.status = "FAILED"] ELSE rows[q]]

\* createInvoiceStripeCheckout.  Earlier pending payments are failed first, in
\* a statement of their own, so that they stay failed when the rest does not go
\* through: the new payment may not fit, Stripe may not give a session, or the
\* process dies, which may leave the new row PENDING without a session.
\* The sessions of the earlier payments stay open at Stripe.
StripeCheckout(p, amount) ==
    /\ payments[p].status = "ABSENT"
    /\ AcceptsPayment(invoice, amount)
    /\ LET failed == PendingFailed(payments)
           row(status) == [status |-> status, method |-> "STRIPE", amount |-> amount]
       IN  \/ /\ CanComplete(invoice, failed, p, amount)
              /\ payments' = [failed EXCEPT ![p] = row("PENDING")]
              /\ sessions' = [sessions EXCEPT ![p] = "open"] \/ UNCHANGED sessions
           \/ /\ CanComplete(invoice, failed, p, amount)
              /\ payments' = [failed EXCEPT ![p] = row("FAILED")]
              /\ UNCHANGED sessions
           \/ payments' = failed /\ UNCHANGED sessions
    /\ UNCHANGED <<invoice, byHand>>

\* At Stripe: the client pays an open session, or the session expires.
SessionEnds(p, outcome) ==
    /\ sessions[p] = "open"
    /\ sessions' = [sessions EXCEPT ![p] = outcome]
    /\ UNCHANGED <<invoice, payments, byHand>>

\* Faulty: a late webhook is not checked against the other payments.
CompletedUnchecked(p) ==
    /\ sessions[p] = "paid"
    /\ payments[p].status \notin {"ABSENT", "REMOVED", "COMPLETED"}
    /\ ~invoice.deleted
    /\ Settle([payments EXCEPT ![p].status = "COMPLETED"])
    /\ UNCHANGED sessions

\* completeStripePayment on "checkout.session.completed", which Stripe sends
\* at least once and again while the answer is an error.  Any status but
\* COMPLETED is completed, if the amount fits and the invoice is not deleted.
CheckoutCompleted(p) ==
    /\ sessions[p] = "paid"
    /\ payments[p].status \notin {"ABSENT", "REMOVED", "COMPLETED"}
    /\ CanComplete(invoice, payments, p, payments[p].amount)
    /\ Settle([payments EXCEPT ![p].status = "COMPLETED"])
    /\ UNCHANGED sessions

\* failStripePayment on "checkout.session.expired".
CheckoutExpired(p) ==
    /\ sessions[p] = "expired"
    /\ payments[p].status = "PENDING"
    /\ payments' = [payments EXCEPT ![p].status = "FAILED"]
    /\ UNCHANGED <<invoice, sessions, byHand>>

----------------------------------------------------------------------------
(* The client's portal and the overdue job. *)

\* getPortalInvoiceDetail and downloadPortalInvoicePdf mark a SENT invoice.
ViewFromPortal ==
    /\ ~invoice.deleted
    /\ invoice.status = "SENT"
    /\ invoice' = [invoice EXCEPT !.status = "VIEWED"]
    /\ UNCHANGED <<payments, sessions, byHand>>

\* processOverdueInvoices, on a day after the due date.
FallOverdue ==
    /\ ~invoice.deleted
    /\ invoice.balanceDue > 0
    /\ invoice.status \in CanFallDue
    /\ invoice' = [invoice EXCEPT !.status = "OVERDUE"]
    /\ UNCHANGED <<payments, sessions, byHand>>

----------------------------------------------------------------------------
OwnerStep ==
    \/ SendInvoice \/ UpdateInvoice \/ DeleteInvoice
    \/ \E to \in InvoiceStatuses, mills \in PaidInputs : ChangeStatus(to, mills)
    \/ \E p \in Payments, amount \in Amounts : RecordPayment(p, amount)
    \/ \E p \in Payments, to \in PaymentStatuses : UpdatePaymentStatus(p, to)
    \/ \E p \in Payments : CancelPayment(p)

StripeStep ==
    \/ \E p \in Payments, amount \in Amounts : StripeCheckout(p, amount)
    \/ \E p \in Payments, outcome \in {"paid", "expired"} : SessionEnds(p, outcome)
    \/ \E p \in Payments : CheckoutCompleted(p) \/ CheckoutExpired(p)

Next == OwnerStep \/ StripeStep \/ ViewFromPortal \/ FallOverdue

Spec == Init /\ [][Next]_vars

----------------------------------------------------------------------------
(* Properties.  Amounts entered by hand are in whole cents, except for     *)
(* PartIsAPart.                                                            *)

\* The three money columns agree after any sequence of edits, manual changes
\* of status, payments and webhooks, each of which writes a different subset
\* of them.
BalanceMatches == invoice.balanceDue = Outstanding(invoice.total, invoice.paidAmount)

\* "Paid amount must be greater than 0 and less than the invoice total": so a
\* PARTIALLY_PAID invoice has been paid a part.
PartIsAPart == invoice.status = "PARTIALLY_PAID" =>
                  0 < invoice.paidAmount /\ invoice.paidAmount < invoice.total

\* What an invoice says of itself is what its money says, whichever of the
\* two writers of a money status, the owner or the recomputation, came last.
StatusMatchesMoney ==
    /\ invoice.status = "PAID" => invoice.paidAmount >= invoice.total
    /\ PartIsAPart
    /\ invoice.status = "REFUNDED" => invoice.paidAmount = 0

\* paidAmount is the sum of the completed payments unless the owner has entered
\* money by hand since: each handler that changes the set of completed payments
\* recomputes the invoice, and those that do not recompute may do without.
PaidIsBacked == byHand \/ invoice.paidAmount = CompletedSum(payments)

\* No completed payment hangs on a deleted invoice: it was refused deletion
\* while it had one, and no late webhook gives it one afterwards.
DeletedIsUnpaid == invoice.deleted => Completed(payments) = {}

\* Everything a client has been sent has something to pay: the total is checked
\* when the invoice leaves DRAFT and cannot be edited from there on.
IssuedHasTotal == invoice.status \notin {"DRAFT", "CANCELLED"} => invoice.total > 0

\* At most one payment waits for Stripe, so that the balance is not promised
\* twice: a new checkout fails the earlier ones.
OnePending == Cardinality({p \in Payments : payments[p].status = "PENDING"}) <= 1

\* Money that comes in never takes the completed payments above the total.
NeverOverpays ==
    [][CompletedSum(payments') > CompletedSum(payments)
          => CompletedSum(payments') <= invoice'.total]_vars

\* A cancelled invoice comes back only through DRAFT and a draft goes out only
\* by a send: no payment, webhook, view or job revives either.
OnlyOwnerRevives ==
    [][/\ invoice.status = "CANCELLED" => invoice'.status \in {"CANCELLED", "DRAFT"}
       /\ invoice.status = "DRAFT" => invoice'.status \in {"DRAFT", "SENT", "CANCELLED"}]_vars

\* A deleted invoice is final: nothing a webhook or a job does later changes it.
DeletedIsFinal == [][invoice.deleted => UNCHANGED invoice]_vars

\* ALLOWED_PAYMENT_STATUS_TRANSITIONS lets nothing follow REFUNDED: money that
\* went back to the client is not counted again.
RefundIsFinal ==
    [][\A p \in Payments : payments[p].status = "REFUNDED"
                               => payments'[p].status = "REFUNDED"]_vars
=============================================================================
