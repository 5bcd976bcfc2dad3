---------------------------- MODULE InvoiceViews ----------------------------
(***************************************************************************)
(* What the readers of an invoice are shown and let do: the owner's lists, *)
(* details, reminders and statistics, the client's portal, and the figures *)
(* of the platform's staff.  Each of these handlers has filters of its own *)
(* over the rows that InvoiceLedger writes.  They are spelled here as each *)
(* spells them, and ViewsAgree says where they tell the same story and     *)
(* where they do not.                                                      *)
(*                                                                         *)
(* There is one invoice, so that a list is a set with at most that row and *)
(* a count is 0 or 1.                                                      *)
(***************************************************************************)
EXTENDS InvoiceLedger

\* Status lists, one for each reader that has its own.
Open == {"SENT", "VIEWED", "PARTIALLY_PAID", "OVERDUE"}
Remindable == {"SENT", "VIEWED", "PARTIALLY_PAID", "OVERDUE"}
PortalVisible == {"SENT", "VIEWED", "PARTIALLY_PAID", "PAID", "OVERDUE", "REFUNDED"}

\* Payment rows that exist.
Existing == {p \in Payments : payments[p].status \notin {"ABSENT", "REMOVED"}}

\* Those of an invoice that is not deleted: `invoice: { deletedAt: null }`.
OfLive == IF invoice.deleted THEN {} ELSE Existing

With(ps, status) == {p \in ps : payments[p].status = status}
Amount(ps) == SumOf(payments, ps)
Group(ps) == [count |-> Cardinality(ps), amount |-> Amount(ps)]
Count(condition) == IF condition THEN 1 ELSE 0

-----------------------------------------------------------------------------
(* The owner *)

\* listInvoices; `past` says whether the due date is.  A filter by status is
\* not looked at when only overdue invoices are asked for.
ListInvoices(overdue, status, past) ==
    {i \in {invoice} :
        /\ ~i.deleted
        /\ IF overdue THEN i.status \in Open /\ past /\ i.balanceDue > 0
           ELSE status \in {"any", i.status}}

\* Faulty: what is outstanding without the filter by status.
GetInvoiceStatsOfAny ==
    [total |-> Count(~invoice.deleted),
     byStatus |-> [s \in InvoiceStatuses |-> Count(~invoice.deleted /\ invoice.status = s)],
     outstandingBalance |-> IF ~invoice.deleted THEN invoice.balanceDue ELSE 0]

\* getInvoiceStats
GetInvoiceStats ==
    [total |-> Count(~invoice.deleted),
     byStatus |-> [s \in InvoiceStatuses |-> Count(~invoice.deleted /\ invoice.status = s)],
     outstandingBalance |-> IF ~invoice.deleted /\ invoice.status \in Open
                            THEN invoice.balanceDue ELSE 0]

\* getClientDetail, of the invoice's client: no filter by status.
GetClientDetail ==
    [invoices |-> Count(~invoice.deleted),
     byStatus |-> [s \in InvoiceStatuses |-> Count(~invoice.deleted /\ invoice.status = s)],
     totalInvoiced |-> IF ~invoice.deleted THEN invoice.total ELSE 0,
     outstandingBalance |-> IF ~invoice.deleted THEN invoice.balanceDue ELSE 0]

\* The summary in getInvoiceDetail, listInvoicePayments and the portal.
Summary == [s \in PaymentStatuses |-> Group(With(Existing, s))]

\* getInvoiceDetail and listInvoicePayments, of an invoice that is found.
Found == ~invoice.deleted
GetInvoiceDetail ==
    [invoice |-> invoice, payments |-> Summary, paymentTotal |-> Summary["COMPLETED"].amount,
     allowedTransitions |-> ManualTransitions(invoice.status)]

\* remindInvoice up to the email; only the date of the reminder is stored.
RemindInvoice == Found /\ invoice.status \in Remindable /\ invoice.balanceDue > 0

\* listPayments, and getPaymentDetail of one of them.
ListPayments(status) == {p \in OfLive : status \in {"any", payments[p].status}}
GetPaymentDetail(p) ==
    [payment |-> payments[p], allowedTransitions |-> PaymentTransitions(payments[p].status)]

\* getPaymentStats
GetPaymentStats ==
    LET completed == With(OfLive, "COMPLETED")
    IN  [total |-> Cardinality(OfLive),
         completedTotal |-> Amount(completed),
         pendingTotal |-> Amount(With(OfLive, "PENDING")),
         byMethod |-> [m \in Methods |-> Group({p \in completed : payments[p].method = m})]]

-----------------------------------------------------------------------------
(* The client *)

\* listPortalInvoices
ListPortalInvoices(status) ==
    {i \in {invoice} : ~i.deleted /\ IF status = "any" THEN i.status \in PortalVisible
                                     ELSE status \in PortalVisible /\ status = i.status}

\* getPortalInvoiceDetail, downloadPortalInvoicePdf and the checkout open it.
PortalOpens == Found /\ invoice.status \in PortalVisible

\* getPortalInvoiceDetail: a SENT invoice is shown as the VIEWED one it becomes.
GetPortalInvoiceDetail ==
    [invoice |-> IF invoice.status = "SENT" THEN [invoice EXCEPT !.status = "VIEWED"] ELSE invoice,
     payments |-> Summary, paymentTotal |-> Summary["COMPLETED"].amount]

-----------------------------------------------------------------------------
(* The staff *)

\* getUserDetail: payments of deleted invoices are among those it adds up.
GetUserDetail ==
    [invoices |-> Count(~invoice.deleted), paidTotal |-> Amount(With(Existing, "COMPLETED"))]

\* getPlatformStats
GetPlatformStats ==
    [total |-> Count(~invoice.deleted),
     paid |-> Count(~invoice.deleted /\ invoice.status = "PAID"),
     overdue |-> Count(~invoice.deleted /\ invoice.status = "OVERDUE"),
     revenue |-> Amount(With(Existing, "COMPLETED"))]

-----------------------------------------------------------------------------
(* Pages of a list of n rows: the skip and take of every list, and          *)
(* buildPaginationMeta.                                                     *)

PageRows(n, page, limit) == {i \in 1 .. n : (page - 1) * limit < i /\ i <= page * limit}

TotalPages(n, limit) == IF n = 0 THEN 1 ELSE (n + limit - 1) \div limit

BuildPaginationMeta(n, page, limit) ==
    [totalPages |-> TotalPages(n, limit),
     hasNextPage |-> page < TotalPages(n, limit), hasPrevPage |-> page > 1]

-----------------------------------------------------------------------------
(* Properties *)

\* What the staff see of the money, over all payments, is what the owner sees,
\* over those of invoices that are not deleted.
TotalsAgree ==
    /\ GetUserDetail.paidTotal = GetPaymentStats.completedTotal
    /\ GetPlatformStats.revenue = GetPaymentStats.completedTotal

\* An invoice shows the payments it was paid with, to its owner and its client,
\* unless the owner has entered the paid amount by hand.
DetailAgrees ==
    Found /\ ~byHand => /\ GetInvoiceDetail.paymentTotal = invoice.paidAmount
                        /\ GetPortalInvoiceDetail.paymentTotal = invoice.paidAmount

\* Whatever is outstanding may be reminded of and is asked for in the portal,
\* and can be paid in full, unless the owner has entered the paid amount.
OutstandingCanBePaid ==
    GetInvoiceStats.outstandingBalance > 0 =>
        /\ RemindInvoice /\ PortalOpens
        /\ AcceptsPayment(invoice, invoice.balanceDue)
        /\ ~byHand => \A p \in Payments \ Completed(payments) :
                        CanComplete(invoice, payments, p, invoice.balanceDue)

\* A list of what is overdue has no invoice that owes nothing, and an invoice
\* that counts as paid is in no such list and owes nothing.
PaidOwesNothing ==
    /\ ListInvoices(TRUE, "any", TRUE) # {} => GetInvoiceStats.outstandingBalance > 0
    /\ GetPlatformStats.paid = 1 => invoice.balanceDue = 0

\* The client's detail has the counts of the statistics, but what it calls
\* outstanding is another figure: it adds the balances of drafts, of cancelled
\* and of refunded invoices, which nobody can pay.  Of all others the two
\* agree, PAID ones because they owe nothing, and what the statistics call
\* outstanding is part of what was invoiced to the client.
ClientDetailAgrees ==
    /\ GetClientDetail.invoices = GetInvoiceStats.total
    /\ GetClientDetail.byStatus = GetInvoiceStats.byStatus
    /\ GetInvoiceStats.outstandingBalance <= GetClientDetail.totalInvoiced
    /\ \/ GetClientDetail.outstandingBalance = GetInvoiceStats.outstandingBalance
       \/ /\ invoice.status \in {"DRAFT", "CANCELLED", "REFUNDED"}
          /\ GetInvoiceStats.outstandingBalance = 0
          /\ ~AcceptsPayment(invoice, GetClientDetail.outstandingBalance)

\* After any sequence of handlers the readers above are told the same of an
\* invoice and its payments, but for what getClientDetail calls outstanding.
ViewsAgree ==
    TotalsAgree /\ DetailAgrees /\ OutstandingCanBePaid /\ PaidOwesNothing /\ ClientDetailAgrees
=============================================================================
