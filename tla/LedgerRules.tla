---------------------------- MODULE LedgerRules ----------------------------
(***************************************************************************)
(* The decisions that every handler of the invoice ledger shares: which    *)
(* statuses admit which operation, what a change of status does to the     *)
(* money of an invoice, and how an invoice is recomputed from its          *)
(* payments.                                                               *)
(*                                                                         *)
(* Money is in whole cents.  The program keeps it in doubles, but every    *)
(* stored amount went through roundMoney, and below 2^53 cents a double    *)
(* rounded to two decimals compares like the integer of its cents.  Where  *)
(* an amount is tested before it is rounded, it is in mills, tenths of a   *)
(* cent.                                                                   *)
(***************************************************************************)
EXTENDS Integers, FiniteSets

InvoiceStatuses == {"DRAFT", "SENT", "VIEWED", "PARTIALLY_PAID", "PAID",
                    "OVERDUE", "CANCELLED", "REFUNDED"}

\* PENDING ... DISPUTED are the program's statuses; ABSENT is a row not yet
\* created and REMOVED one that a cancellation deleted.
PaymentStatuses == {"ABSENT", "PENDING", "COMPLETED", "FAILED", "REFUNDED",
                    "DISPUTED", "REMOVED"}

Methods == {"MANUAL", "STRIPE"}

\* Faulty: an invoice can be edited until it is paid.
EditableUntilPaid == {"DRAFT", "SENT", "VIEWED", "OVERDUE"}

\* EDITABLE_STATUSES, DELETABLE_STATUSES, SENDABLE and RESENDABLE_STATUSES,
\* PAYABLE_INVOICE_STATUSES, and the statuses the overdue job looks for.
Editable == {"DRAFT"}
Deletable == {"DRAFT", "CANCELLED"}
Sendable == {"DRAFT", "SENT", "VIEWED", "PARTIALLY_PAID", "OVERDUE"}
Payable == {"SENT", "VIEWED", "PARTIALLY_PAID", "OVERDUE"}
CanFallDue == {"SENT", "VIEWED", "PARTIALLY_PAID"}

\* ALLOWED_STATUS_TRANSITIONS: what the owner may change a status to by hand.
ManualTransitions(from) ==
    CASE from = "DRAFT"          -> {"SENT", "CANCELLED"}
      [] from = "SENT"           -> {"VIEWED", "PARTIALLY_PAID", "PAID", "OVERDUE", "CANCELLED"}
      [] from = "VIEWED"         -> {"PARTIALLY_PAID", "PAID", "OVERDUE", "CANCELLED"}
      [] from = "PARTIALLY_PAID" -> {"PAID", "REFUNDED"}
      [] from = "PAID"           -> {"REFUNDED"}
      [] from = "OVERDUE"        -> {"PARTIALLY_PAID", "PAID", "CANCELLED"}
      [] from = "CANCELLED"      -> {"DRAFT"}
      [] from = "REFUNDED"       -> {}

\* ALLOWED_PAYMENT_STATUS_TRANSITIONS.
PaymentTransitions(from) ==
    CASE from = "PENDING"   -> {"COMPLETED", "FAILED"}
      [] from = "COMPLETED" -> {"REFUNDED", "DISPUTED"}
      [] from = "DISPUTED"  -> {"COMPLETED", "REFUNDED"}
      [] OTHER              -> {}

\* roundMoney, from mills to cents: half a cent goes up.
RoundMoney(mills) == (mills + 5) \div 10

\* Faulty: without Math.max.
OutstandingUnclamped(total, paid) == total - paid

\* Math.max(0, total - paid)
Outstanding(total, paid) == IF paid >= total THEN 0 ELSE total - paid

----------------------------------------------------------------------------
(* resolveStatusSideEffects: the row after a manual change to status `to`, *)
(* where `mills` is the paid amount that came with the request.            *)

\* Targets for which it writes paidAmount and balanceDue beside the status.
MoneyTargets == {"PAID", "PARTIALLY_PAID", "REFUNDED", "DRAFT"}

\* The one input that is refused: a part payment that is not a part.
ValidPart(to, total, mills) == to = "PARTIALLY_PAID" => 0 < mills /\ mills < 10 * total

PaidAfter(to, invoice, mills) ==
    CASE to = "PAID"               -> invoice.total
      [] to = "PARTIALLY_PAID"     -> RoundMoney(mills)
      [] to \in {"REFUNDED", "DRAFT"} -> 0
      [] OTHER                     -> invoice.paidAmount

\* Faulty: a refund by hand leaves the balance as it was.
BalanceAfterKeepsOnRefund(to, invoice, mills) ==
    CASE to = "PAID"               -> 0
      [] to = "PARTIALLY_PAID"     -> RoundMoney(10 * invoice.total - mills)
      [] to = "DRAFT"              -> invoice.total
      [] OTHER                     -> invoice.balanceDue

\* Faulty: the difference the wrong way round.
BalanceAfterReversed(to, invoice, mills) ==
    CASE to = "PAID"               -> 0
      [] to = "PARTIALLY_PAID"     -> RoundMoney(mills - 10 * invoice.total)
      [] to \in {"REFUNDED", "DRAFT"} -> invoice.total
      [] OTHER                     -> invoice.balanceDue

\* roundMoney(total - paid) for a part payment: the difference is rounded, not
\* the terms.
BalanceAfter(to, invoice, mills) ==
    CASE to = "PAID"               -> 0
      [] to = "PARTIALLY_PAID"     -> RoundMoney(10 * invoice.total - mills)
      [] to \in {"REFUNDED", "DRAFT"} -> invoice.total
      [] OTHER                     -> invoice.balanceDue

----------------------------------------------------------------------------
(* Payments of one invoice: a function from payments to rows. *)

Completed(payments) == {p \in DOMAIN payments : payments[p].status = "COMPLETED"}

\* SUM(amount) over a set of payments, by counting the cents one by one.
Cents(payments, ps) == UNION {{p} \X (1 .. payments[p].amount) : p \in ps}
SumOf(payments, ps) == Cardinality(Cents(payments, ps))

CompletedSum(payments) == SumOf(payments, Completed(payments))

SomeRefunded(payments) == \E p \in DOMAIN payments : payments[p].status = "REFUNDED"

\* assertCanCompletePayment, for a payment p that may be among the rows already.
CanComplete(invoice, payments, p, amount) ==
    /\ ~invoice.deleted
    /\ SumOf(payments, Completed(payments) \ {p}) + amount <= invoice.total

\* assertPayableInvoice and assertPaymentAmount.
AcceptsPayment(invoice, amount) ==
    /\ ~invoice.deleted
    /\ invoice.status \in Payable
    /\ invoice.balanceDue > 0
    /\ amount > 0
    /\ amount <= invoice.balanceDue

\* Faulty: a cancelled invoice is recomputed too, or a paid one is not.
AutoStatusesAndCancelled == Payable \cup {"PAID", "REFUNDED", "CANCELLED"}
AutoStatusesWithoutPaid == Payable \cup {"REFUNDED"}

\* syncInvoiceFromPayments: statuses it may replace, and by what.
AutoStatuses == Payable \cup {"PAID", "REFUNDED"}

SyncStatus(status, total, paid, refunded) ==
    CASE status \notin AutoStatuses -> status
      [] status \in AutoStatuses /\ paid >= total -> "PAID"
      [] status \in AutoStatuses /\ paid < total /\ paid > 0 -> "PARTIALLY_PAID"
      [] OTHER -> IF refunded /\ status \in {"PAID", "PARTIALLY_PAID", "REFUNDED"}
                  THEN "REFUNDED" ELSE "SENT"

\* The columns it writes, from the total and status it has read.
SyncData(total, status, payments) ==
    LET paid == CompletedSum(payments)
    IN  [paidAmount |-> paid,
         balanceDue |-> Outstanding(total, paid),
         status |-> SyncStatus(status, total, paid, SomeRefunded(payments))]
=============================================================================
