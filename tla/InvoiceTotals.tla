---------------------------- MODULE InvoiceTotals ----------------------------
(***************************************************************************)
(* What an invoice costs: calculateTotals, the input that createInvoice    *)
(* and updateInvoice let through, and the columns they and the copies of   *)
(* an invoice compute the totals from.                                     *)
(*                                                                         *)
(* Results are in cents.  Quantities, rates, percentages and fixed         *)
(* discounts come with up to three decimals and are in thousandths.  The   *)
(* program computes with doubles; here the sums and products are exact, so *)
(* that what is rounded is the exact value and a half always goes up       *)
(* (Number.EPSILON is there to get the same of doubles).                   *)
(***************************************************************************)
EXTENDS LedgerRules, Sequences, FiniteSetsExt

CONSTANTS MaxItems, MinQuantity, MaxQuantity, MaxRate, MaxDiscount,   \* INVOICE_POLICY
          Missing                                                     \* a field that is not given

ASSUME PolicyAssumption ==
    /\ MaxItems \in Nat \ {0} /\ MaxRate \in Nat /\ MaxDiscount \in Nat
    /\ MinQuantity \in Nat \ {0} /\ MaxQuantity \in Nat
ASSUME MissingAssumption == Missing \notin Int /\ Missing \notin STRING

Hundred == 100 * 1000   \* 100 percent

Lines == [quantity : Nat, rate : Nat, taxable : BOOLEAN]

\* The columns that totals are computed from.
Columns(items, taxRate, discount, discountType) ==
    [items |-> items, taxRate |-> taxRate, discount |-> discount, discountType |-> discountType]

-----------------------------------------------------------------------------
(* calculateTotals *)

\* roundMoney of the fraction n/d of a cent.
Rounded(n, d) == (2 * n + d) \div (2 * d)

Priced(items) ==
    [i \in DOMAIN items |-> [amount |-> Rounded(items[i].quantity * items[i].rate, 10000)]]

Subtotal(items) == SumOf(Priced(items), DOMAIN items)
TaxableSubtotal(items) == SumOf(Priced(items), {i \in DOMAIN items : items[i].taxable})

DiscountAmount(x) ==
    IF x.discountType = "PERCENTAGE"
    THEN Rounded(Subtotal(x.items) * x.discount, Hundred)
    ELSE Rounded(x.discount, 10)

\* DISCOUNT_EXCEEDS_SUBTOTAL
Refused(x) == DiscountAmount(x) > Subtotal(x.items)

\* Taxable lines take their share of the discount.
TaxableAfterDiscount(x) ==
    LET subtotal == Subtotal(x.items)
    IN  IF subtotal = 0 THEN TaxableSubtotal(x.items)
        ELSE Rounded(TaxableSubtotal(x.items) * (subtotal - DiscountAmount(x)), subtotal)

TaxAmount(x) == Rounded(TaxableAfterDiscount(x) * x.taxRate, Hundred)
Total(x) == Subtotal(x.items) - DiscountAmount(x) + TaxAmount(x)

CalculateTotals(x, paid) ==
    [subtotal |-> Subtotal(x.items), taxAmount |-> TaxAmount(x),
     total |-> Total(x), balanceDue |-> Outstanding(Total(x), paid)]

\* assertSendableInvoice
SendableTotals(x) == DOMAIN x.items # {} /\ Total(x) > 0

-----------------------------------------------------------------------------
(* What is let through.  An input has every field, some of them Missing. *)

Given(value, default) == IF value = Missing THEN default ELSE value

\* invoiceItemSchema
ValidLine(line) == /\ line.quantity \in MinQuantity .. MaxQuantity
                   /\ line.rate \in 0 .. MaxRate
                   /\ line.taxable \in BOOLEAN

\* invoiceCoreSchema, but for the text of notes, terms and footer.
ValidItems(items) == /\ items \in Seq(Lines)
                     /\ Len(items) \in 1 .. MaxItems
                     /\ \A i \in DOMAIN items : ValidLine(items[i])
ValidNumbers(in) == /\ Given(in.taxRate, 0) \in 0 .. Hundred
                    /\ Given(in.discount, 0) \in 0 .. MaxDiscount
                    /\ Given(in.discountType, "FIXED") \in {"FIXED", "PERCENTAGE"}

\* The exact price of the items, in millionths.
ExactPrice(items) ==
    MapThenSumSet(LAMBDA i : items[i].quantity * items[i].rate, DOMAIN items)

\* createInvoiceSchema; `now` is the day of the request.
ValidCreation(in, now) ==
    /\ ValidItems(in.items) /\ ValidNumbers(in)
    /\ in.due # Missing => in.due >= Given(in.issue, now)
    /\ in.discountType = "PERCENTAGE" => Given(in.discount, 0) <= Hundred
    /\ in.discountType = "FIXED" /\ in.discount # Missing => 1000 * in.discount <= ExactPrice(in.items)

\* updateInvoiceSchema: rules between fields hold only where both are given.
ValidUpdate(in) ==
    /\ in.items # Missing => ValidItems(in.items)
    /\ ValidNumbers(in)
    /\ in.issue # Missing /\ in.due # Missing => in.due >= in.issue
    /\ in.discountType = "PERCENTAGE" /\ in.discount # Missing => in.discount <= Hundred

-----------------------------------------------------------------------------
(* What is stored *)

\* resolveDueDate and assertDateOrder
DueDate(issue, due, defaultDueDays) == Given(due, issue + defaultDueDays)
DatesInOrder(row) == row.due >= row.issue

\* The row as it is written, with its totals.
Stored(x, issue, due, paid) ==
    [columns |-> x, totals |-> CalculateTotals(x, paid), issue |-> issue, due |-> due, paid |-> paid]

\* createInvoice
Create(in, business, now) ==
    LET x == Columns(in.items, Given(in.taxRate, business.taxRate), Given(in.discount, 0),
                     Given(in.discountType, "FIXED"))
        issue == Given(in.issue, now)
    IN  Stored(x, issue, DueDate(issue, in.due, business.defaultDueDays), 0)

\* updateInvoice: what is not given stays, and all of it is computed again.
Update(row, in) ==
    LET old == row.columns
        x == Columns(Given(in.items, old.items), Given(in.taxRate, old.taxRate),
                     Given(in.discount, old.discount), Given(in.discountType, old.discountType))
    IN  Stored(x, Given(in.issue, row.issue), Given(in.due, row.due), row.paid)

\* createInvoiceFromTemplateInTransaction, for duplicates and recurring runs.
Copy(row, issue, due) == Stored(row.columns, issue, due, 0)

\* The calls that end without a refusal.
Accepts(row) == ~Refused(row.columns) /\ DatesInOrder(row)
=============================================================================
