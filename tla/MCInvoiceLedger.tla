-------------------------- MODULE MCInvoiceLedger --------------------------
\* Bounds and symmetry for the runs of InvoiceLedger, and the arithmetic of
\* InvoiceTotals over bounded inputs.
EXTENDS InvoiceViews, InvoiceTotals, TLC

\* Payment rows are told apart by their contents alone.
PaymentSymmetry == Permutations(Payments)

\* The invoice has one line of two cents, and a tax of half of that or a
\* discount of all of it: its totals are those of the ledger.
MCLine == [quantity |-> 1500, rate |-> 10, taxable |-> TRUE]
MCTotals == {Total(x) : x \in {Columns(<<MCLine>>, 0, 0, "FIXED"),
                               Columns(<<MCLine>>, Hundred \div 2, 0, "FIXED"),
                               Columns(<<MCLine>>, Hundred, Hundred, "PERCENTAGE")}}

----------------------------------------------------------------------------
(* Amounts at and around half a cent and the limits of percentages. *)

SomeLines == [quantity : {10, 1500}, rate : {0, 333, 1005}, taxable : BOOLEAN]
SomeItems == {<<a>> : a \in SomeLines} \cup {<<a, b>> : a \in SomeLines, b \in SomeLines}
SomeTaxRates == {7500, Hundred}
SomeDiscounts == {5, 1500, 33333, Hundred}
SomeColumns == {Columns(items, taxRate, discount, type) : items \in SomeItems,
                  taxRate \in SomeTaxRates, discount \in SomeDiscounts, type \in {"FIXED", "PERCENTAGE"}}

\* The exact tax: every taxable line, less its share of the discount.
ExactTaxNear(x) ==
    LET s == Subtotal(x.items)
        exact == TaxableSubtotal(x.items) * (s - DiscountAmount(x)) * (x.taxRate \div 100)
    IN  \A error \in {TaxAmount(x) * s * 1000 - exact} : -1000 * s <= error /\ error <= 1000 * s

\* What the theorems of InvoiceTotals_proofs say, of these.
ASSUME TotalsOfBoundedInputs ==
    \A x \in SomeColumns :
        /\ x.discountType = "PERCENTAGE" /\ x.discount <= Hundred => ~Refused(x)
        /\ ~Refused(x) =>
              /\ DiscountAmount(x) <= Subtotal(x.items)
              /\ Total(x) \in Subtotal(x.items) - DiscountAmount(x) .. 2 * (Subtotal(x.items) - DiscountAmount(x))
              /\ ExactTaxNear(x)

SomeInputs == [items : {<<a>> : a \in SomeLines}, taxRate : {Missing, 7500},
               discount : {Missing, 5, 1500, Hundred, Hundred + 1},
               discountType : {Missing, "FIXED", "PERCENTAGE"},
               issue : {Missing, 2}, due : {Missing, 1, 3}]

SomeBusiness == [taxRate |-> 5000, defaultDueDays |-> 0]

NothingGiven == [items |-> Missing, taxRate |-> Missing, discount |-> Missing,
                 discountType |-> Missing, issue |-> Missing, due |-> Missing]

\* A percentage that createInvoiceSchema lets through is not refused by
\* createInvoice; what it stores can be copied as it is, at the same price; and
\* an update that gives nothing changes nothing.
ASSUME CreationsOfBoundedInputs ==
    \A in \in {i \in SomeInputs : ValidCreation(i, 2)} :
        LET row == Create(in, SomeBusiness, 2)
        IN  /\ in.discountType = "PERCENTAGE" => ~Refused(row.columns)
            /\ Accepts(row) =>
                  /\ Accepts(Copy(row, 5, 5)) /\ Copy(row, 5, 5).totals = row.totals
                  /\ ValidUpdate(NothingGiven) /\ Update(row, NothingGiven) = row

\* An edit that updateInvoiceSchema lets through may still be refused, by the
\* rules that are checked again on the merged row.
ASSUME UpdatesAreCheckedAgain ==
    LET row == Create([NothingGiven EXCEPT !.items = <<MCLine>>, !.discount = Hundred,
                                           !.discountType = "PERCENTAGE"], SomeBusiness, 2)
        edits == {[NothingGiven EXCEPT !.discount = 2 * Hundred],
                  [NothingGiven EXCEPT !.discountType = "FIXED"], [NothingGiven EXCEPT !.due = 1]}
    IN  /\ Accepts(row)
        /\ \A edit \in edits : ValidUpdate(edit) /\ ~Accepts(Update(row, edit))
=============================================================================
