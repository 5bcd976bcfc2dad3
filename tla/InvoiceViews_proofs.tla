------------------------- MODULE InvoiceViews_proofs -------------------------
(***************************************************************************)
(* Proofs about InvoiceViews: where its readers agree follows from the     *)
(* invariants of the ledger, and that pages divide a list from arithmetic. *)
(***************************************************************************)
EXTENDS InvoiceLedger_proofs, InvoiceViews

----------------------------------------------------------------------------
(* What is shown *)

LEMMA CompletedAreShown ==
    ASSUME payments \in Rows
    PROVE  /\ With(Existing, "COMPLETED") = Completed(payments)
           /\ Summary["COMPLETED"].amount = CompletedSum(payments)
<1>1. With(Existing, "COMPLETED") = Completed(payments)
  BY DEF With, Existing, Completed, Rows
<1>2. "COMPLETED" \in PaymentStatuses
  BY DEF PaymentStatuses
<1> QED
  BY <1>1, <1>2 DEF Summary, Group, Amount, CompletedSum

\* The owner's figures leave out the payments of deleted invoices, the staff's
\* do not: there are none that are completed.
LEMMA SameTotals == payments \in Rows /\ DeletedIsUnpaid => TotalsAgree
<1> SUFFICES ASSUME payments \in Rows, DeletedIsUnpaid PROVE TotalsAgree
  OBVIOUS
<1>1. With(OfLive, "COMPLETED") = With(Existing, "COMPLETED")
  <2>1. CASE ~invoice.deleted
    BY <2>1 DEF OfLive
  <2>2. CASE invoice.deleted
    <3>1. With(Existing, "COMPLETED") = {}
      BY <2>2, CompletedAreShown DEF DeletedIsUnpaid
    <3>2. With(OfLive, "COMPLETED") = {}
      BY <2>2 DEF OfLive, With
    <3> QED
      BY <3>1, <3>2
  <2> QED
    BY <2>1, <2>2
<1> QED
  BY <1>1 DEF TotalsAgree, GetUserDetail, GetPaymentStats, GetPlatformStats

LEMMA SameDetail == payments \in Rows /\ PaidIsBacked => DetailAgrees
<1> SUFFICES ASSUME payments \in Rows, PaidIsBacked, ~byHand
             PROVE  /\ GetInvoiceDetail.paymentTotal = invoice.paidAmount
                    /\ GetPortalInvoiceDetail.paymentTotal = invoice.paidAmount
  BY DEF DetailAgrees
<1>1. Summary["COMPLETED"].amount = invoice.paidAmount
  BY CompletedAreShown DEF PaidIsBacked
<1> QED
  BY <1>1 DEF GetInvoiceDetail, GetPortalInvoiceDetail

\* What is outstanding is the balance of an open invoice.
LEMMA OutstandingIsOpen ==
    GetInvoiceStats.outstandingBalance > 0 =>
        /\ ~invoice.deleted /\ invoice.status \in Open
        /\ GetInvoiceStats.outstandingBalance = invoice.balanceDue
        /\ invoice.balanceDue > 0
<1>1. GetInvoiceStats.outstandingBalance =
        IF ~invoice.deleted /\ invoice.status \in Open THEN invoice.balanceDue ELSE 0
  BY DEF GetInvoiceStats
<1> QED
  BY <1>1

LEMMA OpenIsPayable ==
    TypeOK /\ PaidIsBacked /\ BalanceMatches => OutstandingCanBePaid
<1> SUFFICES ASSUME TypeOK, PaidIsBacked, BalanceMatches,
                    GetInvoiceStats.outstandingBalance > 0
             PROVE  /\ RemindInvoice /\ PortalOpens
                    /\ AcceptsPayment(invoice, invoice.balanceDue)
                    /\ ~byHand => \A p \in Payments \ Completed(payments) :
                            CanComplete(invoice, payments, p, invoice.balanceDue)
  BY DEF OutstandingCanBePaid
<1>1. ~invoice.deleted /\ invoice.status \in Open /\ invoice.balanceDue > 0
  BY OutstandingIsOpen
<1>2. invoice.balanceDue \in Nat /\ invoice.total \in Nat /\ invoice.paidAmount \in Nat
  BY DEF TypeOK, InvoiceRow
<1>3. RemindInvoice /\ PortalOpens
  BY <1>1 DEF RemindInvoice, PortalOpens, Found, Open, Remindable, PortalVisible
<1>4. AcceptsPayment(invoice, invoice.balanceDue)
  BY <1>1, <1>2 DEF AcceptsPayment, Open, Payable
<1>5. ASSUME ~byHand, NEW p \in Payments \ Completed(payments)
      PROVE  CanComplete(invoice, payments, p, invoice.balanceDue)
  <2>1. Completed(payments) \ {p} = Completed(payments)
    OBVIOUS
  <2>2. SumOf(payments, Completed(payments) \ {p}) = invoice.paidAmount
    BY <1>5, <2>1 DEF PaidIsBacked, CompletedSum
  <2>3. invoice.balanceDue = invoice.total - invoice.paidAmount
    BY <1>1, <1>2 DEF BalanceMatches, Outstanding
  <2> QED
    BY <1>1, <1>2, <2>2, <2>3 DEF CanComplete
<1> QED
  BY <1>3, <1>4, <1>5

LEMMA NothingOwed ==
    TypeOK /\ BalanceMatches /\ StatusMatchesMoney => PaidOwesNothing
<1> SUFFICES ASSUME TypeOK, BalanceMatches, StatusMatchesMoney PROVE PaidOwesNothing
  OBVIOUS
<1>1. ASSUME ListInvoices(TRUE, "any", TRUE) # {}
      PROVE  GetInvoiceStats.outstandingBalance > 0
  <2>1. ~invoice.deleted /\ invoice.status \in Open /\ invoice.balanceDue > 0
    BY <1>1 DEF ListInvoices
  <2> QED
    BY <2>1 DEF GetInvoiceStats
<1>2. ASSUME GetPlatformStats.paid = 1 PROVE invoice.balanceDue = 0
  <2>1. invoice.status = "PAID"
    <3>1. GetPlatformStats.paid = Count(~invoice.deleted /\ invoice.status = "PAID")
      BY DEF GetPlatformStats
    <3> QED
      BY <1>2, <3>1 DEF Count
  <2> QED
    BY <2>1 DEF TypeOK, InvoiceRow, BalanceMatches, StatusMatchesMoney, Outstanding
<1> QED
  BY <1>1, <1>2 DEF PaidOwesNothing

\* getClientDetail counts as getInvoiceStats does; a balance that only the former
\* calls outstanding takes no payment.
LEMMA SameCounts ==
    TypeOK /\ BalanceMatches /\ StatusMatchesMoney => ClientDetailAgrees
<1> SUFFICES ASSUME TypeOK, BalanceMatches, StatusMatchesMoney PROVE ClientDetailAgrees
  OBVIOUS
<1> DEFINE inDetail == GetClientDetail.outstandingBalance
           inStats == GetInvoiceStats.outstandingBalance
<1>1. /\ inDetail = IF ~invoice.deleted THEN invoice.balanceDue ELSE 0
      /\ inStats = IF ~invoice.deleted /\ invoice.status \in Open THEN invoice.balanceDue ELSE 0
      /\ GetClientDetail.totalInvoiced = IF ~invoice.deleted THEN invoice.total ELSE 0
  BY DEF GetClientDetail, GetInvoiceStats
<1>2. /\ invoice.status \in InvoiceStatuses
      /\ invoice.balanceDue \in Nat /\ invoice.total \in Nat /\ invoice.paidAmount \in Nat
  BY DEF TypeOK, InvoiceRow
<1>3. /\ GetClientDetail.invoices = GetInvoiceStats.total
      /\ GetClientDetail.byStatus = GetInvoiceStats.byStatus
  BY DEF GetClientDetail, GetInvoiceStats
<1> HIDE DEF inDetail, inStats
<1>4. CASE invoice.deleted
  BY <1>1, <1>3, <1>4 DEF ClientDetailAgrees, inDetail, inStats
<1>5. CASE ~invoice.deleted /\ invoice.status \in Open
  <2>1. invoice.balanceDue <= invoice.total
    BY <1>2, <1>5 DEF BalanceMatches, Outstanding
  <2> QED
    BY <1>1, <1>2, <1>3, <1>5, <2>1 DEF ClientDetailAgrees, inDetail, inStats
<1>6. CASE ~invoice.deleted /\ invoice.status = "PAID"
  <2>1. invoice.balanceDue = 0
    BY <1>2, <1>6 DEF BalanceMatches, StatusMatchesMoney, Outstanding
  <2> QED
    BY <1>1, <1>2, <1>3, <1>6, <2>1 DEF ClientDetailAgrees, inDetail, inStats
<1>7. CASE ~invoice.deleted /\ invoice.status \in {"DRAFT", "CANCELLED", "REFUNDED"}
  <2>1. inStats = 0 /\ ~AcceptsPayment(invoice, inDetail)
    BY <1>1, <1>7 DEF Open, AcceptsPayment, Payable
  <2> QED
    BY <1>1, <1>2, <1>3, <1>7, <2>1 DEF ClientDetailAgrees, inDetail, inStats
<1> QED
  BY <1>2, <1>4, <1>5, <1>6, <1>7 DEF InvoiceStatuses, Open

\* Owner, client and staff are told the same of an invoice and its payments, as
\* long as part payments are entered in whole cents; getClientDetail's
\* outstanding balance exceeds getInvoiceStats's only by what cannot be paid.
THEOREM ReadersAgree ==
    ASSUME WholeCents
    PROVE  Spec => []ViewsAgree
<1>1. TypeOK /\ DeletedIsUnpaid /\ PaidIsBacked /\ BalanceMatches /\ StatusMatchesMoney
        => ViewsAgree
  BY SameTotals, SameDetail, OpenIsPayable, NothingOwed, SameCounts DEF ViewsAgree, TypeOK, Rows
<1>2. Spec => [](BalanceMatches /\ StatusMatchesMoney)
  BY MoneyAgrees
<1> QED
  BY <1>1, <1>2, TypeCorrect, LifecycleSafe, PTL

----------------------------------------------------------------------------
(* Pages *)

\* Products by a positive limit are ordered like their other factors.
LEMMA Multiples ==
    ASSUME NEW a \in Nat, NEW b \in Nat, NEW limit \in Nat \ {0}, a < b
    PROVE  a * limit + limit <= b * limit
<1>1. PICK d \in Nat : b = a + 1 + d
  <2>1. b - a - 1 \in Nat /\ b = a + 1 + (b - a - 1)
    OBVIOUS
  <2> QED
    BY <2>1
<1>2. b * limit = a * limit + limit + d * limit
  BY <1>1
<1>3. d * limit \in Nat /\ a * limit \in Nat
  OBVIOUS
<1> QED
  BY <1>2, <1>3

\* The pages of a list do not overlap: no row is shown twice of an unchanged list.
THEOREM PagesAreDisjoint ==
    ASSUME NEW n \in Nat, NEW limit \in Nat \ {0}, NEW a \in Nat \ {0}, NEW b \in Nat \ {0}, a < b
    PROVE  PageRows(n, a, limit) \cap PageRows(n, b, limit) = {}
<1>1. a * limit \in Nat /\ (b - 1) * limit \in Nat /\ b * limit = (b - 1) * limit + limit
  OBVIOUS
<1>2. a * limit + limit <= b * limit
  BY Multiples
<1>3. a * limit <= (b - 1) * limit
  BY <1>1, <1>2
<1> QED
  BY <1>1, <1>3 DEF PageRows

\* The last page that is counted holds the last row, and none comes after it.
LEMMA LastPage ==
    ASSUME NEW n \in Nat \ {0}, NEW limit \in Nat \ {0}
    PROVE  LET last == TotalPages(n, limit)
           IN  /\ last \in Nat \ {0}
               /\ (last - 1) * limit < n
               /\ n <= last * limit
<1> DEFINE last == TotalPages(n, limit)
<1>1. last = (n + limit - 1) \div limit
  BY DEF TotalPages
<1>2. n + limit - 1 \in Nat
  OBVIOUS
<1>3. last \in Int /\ last * limit <= n + limit - 1 /\ n + limit - 1 < last * limit + limit
  BY <1>1, <1>2
<1> QED
  BY <1>3

\* Every row is on a page that is counted.
THEOREM PagesCover ==
    ASSUME NEW n \in Nat \ {0}, NEW limit \in Nat \ {0}, NEW i \in 1 .. n
    PROVE  \E page \in 1 .. TotalPages(n, limit) : i \in PageRows(n, page, limit)
<1> DEFINE page == TotalPages(i, limit)
           last == TotalPages(n, limit)
<1>0. i \in Nat \ {0}
  OBVIOUS
<1>1. page \in Nat \ {0} /\ (page - 1) * limit < i /\ i <= page * limit
  BY <1>0, LastPage
<1>2. last \in Nat \ {0} /\ n <= last * limit
  BY LastPage
<1> HIDE DEF page, last
<1>3. page <= last
  <2> SUFFICES ASSUME last < page PROVE FALSE
    BY <1>1, <1>2
  <2>1. (page - 1) * limit + limit = page * limit /\ (page - 1) * limit \in Nat
        /\ last * limit \in Nat
    BY <1>1, <1>2
  <2>2. last * limit + limit <= page * limit
    BY <1>1, <1>2, Multiples
  <2> QED
    BY <1>1, <1>2, <2>1, <2>2
<1>4. page \in 1 .. last /\ i \in PageRows(n, page, limit)
  BY <1>1, <1>2, <1>3 DEF PageRows
<1> QED
  BY <1>4 DEF last

\* hasNextPage says whether there are rows after those of the page.
THEOREM NextPageHasRows ==
    ASSUME NEW n \in Nat \ {0}, NEW limit \in Nat \ {0}, NEW page \in Nat \ {0}
    PROVE  BuildPaginationMeta(n, page, limit).hasNextPage <=> page * limit < n
<1> DEFINE last == TotalPages(n, limit)
<1>1. last \in Nat \ {0} /\ (last - 1) * limit < n /\ n <= last * limit
  BY LastPage
<1>2. BuildPaginationMeta(n, page, limit).hasNextPage <=> page < last
  BY DEF BuildPaginationMeta
<1> HIDE DEF last
<1>3. page * limit \in Nat /\ last * limit \in Nat
      /\ (last - 1) * limit + limit = last * limit
  BY <1>1
<1>4. CASE page < last
  BY <1>1, <1>2, <1>3, <1>4, Multiples
<1>5. CASE page = last
  BY <1>1, <1>2, <1>3, <1>5
<1>6. CASE last < page
  <2>1. last * limit + limit <= page * limit
    BY <1>1, <1>6, Multiples
  <2> QED
    BY <1>1, <1>2, <1>3, <1>6, <2>1
<1> QED
  BY <1>1, <1>4, <1>5, <1>6
=============================================================================
