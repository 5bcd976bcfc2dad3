------------------------- MODULE InvoiceTotals_proofs -------------------------
(***************************************************************************)
(* Theorems about the arithmetic of an invoice, for any lines, rates and   *)
(* discounts, and about what createInvoice and updateInvoice let through.  *)
(***************************************************************************)
EXTENDS InvoiceTotals, FiniteSetTheorems, TLAPS

-----------------------------------------------------------------------------
(* Rounding *)

\* What \div does.
LEMMA Division ==
    ASSUME NEW a \in Int, NEW b \in Nat \ {0}
    PROVE  /\ a \div b \in Int
           /\ b * (a \div b) <= a
           /\ a < b * (a \div b) + b
OBVIOUS

\* Factors keep an order.
LEMMA Product ==
    ASSUME NEW a \in Int, NEW b \in Int, NEW k \in Nat, a <= b
    PROVE  a * k <= b * k
OBVIOUS

\* A rounded amount is at most half a cent off.
LEMMA RoundedNear ==
    ASSUME NEW n \in Int, NEW d \in Nat \ {0}
    PROVE  /\ Rounded(n, d) \in Int
           /\ 2 * (d * Rounded(n, d)) <= 2 * n + d
           /\ 2 * n < 2 * (d * Rounded(n, d)) + d
<1> DEFINE q == (2 * n + d) \div (2 * d)
<1>1. 2 * n + d \in Int /\ 2 * d \in Nat \ {0}
  OBVIOUS
<1>2. q \in Int /\ (2 * d) * q <= 2 * n + d /\ 2 * n + d < (2 * d) * q + 2 * d
  BY <1>1, Division
<1>3. Rounded(n, d) = q
  BY DEF Rounded
<1> HIDE DEF q
<1>4. (2 * d) * q = 2 * (d * q) /\ d * q \in Int
  BY <1>2
<1> QED
  BY <1>2, <1>3, <1>4

\* Rounding keeps an amount between whole cents it is between.
LEMMA RoundedBetween ==
    ASSUME NEW n \in Int, NEW d \in Nat \ {0}, NEW low \in Int, NEW high \in Int,
           d * low <= n, n <= d * high
    PROVE  low <= Rounded(n, d) /\ Rounded(n, d) <= high
<1> DEFINE q == Rounded(n, d)
<1>1. q \in Int /\ 2 * (d * q) <= 2 * n + d /\ 2 * n < 2 * (d * q) + d
  BY RoundedNear
<1> HIDE DEF q
<1>2. ASSUME q <= low - 1 PROVE FALSE
  <2>1. d * q \in Int /\ d * low \in Int /\ d * (low - 1) = d * low - d
    BY <1>1
  <2>2. q * d <= (low - 1) * d
    BY <1>1, <1>2, Product
  <2>3. d * q <= d * low - d
    BY <1>1, <2>1, <2>2
  <2> QED
    BY <1>1, <2>1, <2>3
<1>3. ASSUME q >= high + 1 PROVE FALSE
  <2>1. d * q \in Int /\ d * high \in Int /\ d * (high + 1) = d * high + d
    BY <1>1
  <2>2. (high + 1) * d <= q * d
    BY <1>1, <1>3, Product
  <2>3. d * high + d <= d * q
    BY <1>1, <2>1, <2>2
  <2> QED
    BY <1>1, <2>1, <2>3
<1>4. low <= q /\ q <= high
  BY <1>1, <1>2, <1>3
<1> QED
  BY <1>4 DEF q

-----------------------------------------------------------------------------
(* Sums of lines *)

\* A sum of amounts is a number of cents, and no part of it exceeds the whole.
LEMMA Sums ==
    ASSUME NEW S, IsFiniteSet(S), NEW rows, \A i \in S : rows[i].amount \in Nat,
           NEW T \in SUBSET S
    PROVE  /\ SumOf(rows, T) \in Nat /\ SumOf(rows, S) \in Nat
           /\ SumOf(rows, T) <= SumOf(rows, S)
<1> DEFINE Of(i) == {i} \X (1 .. rows[i].amount)
           Parts == {Of(i) : i \in S}
           F == [i \in S |-> Of(i)]
<1>1. F \in Surjection(S, Parts)
  BY DEF Surjection
<1>2. IsFiniteSet(Parts)
  BY <1>1, FS_Surjection
<1>3. ASSUME NEW i \in S PROVE IsFiniteSet(Of(i))
  <2>1. rows[i].amount \in Int /\ 1 \in Int
    OBVIOUS
  <2>2. IsFiniteSet(1 .. rows[i].amount) /\ IsFiniteSet({i})
    BY <2>1, FS_Interval, FS_Singleton
  <2> QED
    BY <2>2, FS_Product
<1>4. IsFiniteSet(UNION Parts)
  BY <1>2, <1>3, FS_UNION
<1>5. Cents(rows, S) = UNION Parts
  BY DEF Cents
<1>6. Cents(rows, T) \in SUBSET Cents(rows, S)
  BY DEF Cents
<1> QED
  BY <1>4, <1>5, <1>6, FS_Subset, FS_CardinalityType DEF SumOf

\* Every line has a price in whole cents.
LEMMA LinesPriced ==
    ASSUME NEW items \in Seq(Lines)
    PROVE  /\ IsFiniteSet(DOMAIN items)
           /\ DOMAIN Priced(items) = DOMAIN items
           /\ \A i \in DOMAIN items : Priced(items)[i].amount \in Nat
<1>1. DOMAIN items = 1 .. Len(items) /\ Len(items) \in Nat
  OBVIOUS
<1>2. IsFiniteSet(1 .. Len(items))
  <2>1. 1 \in Int /\ Len(items) \in Int
    BY <1>1
  <2> QED
    BY <2>1, FS_Interval
<1>3. ASSUME NEW i \in DOMAIN items PROVE Priced(items)[i].amount \in Nat
  <2> DEFINE n == items[i].quantity * items[i].rate
  <2>1. items[i] \in Lines
    OBVIOUS
  <2>2. items[i].quantity \in Nat /\ items[i].rate \in Nat
    BY <2>1 DEF Lines
  <2>3. n \in Nat
    BY <2>2
  <2> HIDE DEF n
  <2>4. Rounded(n, 10000) \in Int
    BY <2>3, RoundedNear
  <2>5. 10000 * 0 <= n /\ n <= 10000 * n
    BY <2>3
  <2>6. 0 <= Rounded(n, 10000)
    BY <2>3, <2>5, RoundedBetween
  <2>7. Priced(items)[i].amount = Rounded(n, 10000)
    BY DEF Priced, n
  <2> QED
    BY <2>4, <2>6, <2>7
<1> QED
  BY <1>1, <1>2, <1>3 DEF Priced

LEMMA Subtotals ==
    ASSUME NEW items \in Seq(Lines)
    PROVE  /\ Subtotal(items) \in Nat /\ TaxableSubtotal(items) \in Nat
           /\ TaxableSubtotal(items) <= Subtotal(items)
<1> DEFINE S == DOMAIN items
           T == {i \in DOMAIN items : items[i].taxable}
           rows == Priced(items)
<1>1. IsFiniteSet(S) /\ (\A i \in S : rows[i].amount \in Nat) /\ T \in SUBSET S
  BY LinesPriced
<1> HIDE DEF S, T, rows
<1>2. SumOf(rows, T) \in Nat /\ SumOf(rows, S) \in Nat /\ SumOf(rows, T) <= SumOf(rows, S)
  BY <1>1, Sums
<1> QED
  BY <1>2 DEF S, T, rows, Subtotal, TaxableSubtotal

-----------------------------------------------------------------------------
(* Totals *)

\* Columns that may be stored.
ColumnSet == [items : Seq(Lines), taxRate : 0 .. Hundred, discount : Nat,
              discountType : {"FIXED", "PERCENTAGE"}]

LEMMA DiscountIsNat ==
    ASSUME NEW x \in ColumnSet
    PROVE  DiscountAmount(x) \in Nat
<1> DEFINE n == IF x.discountType = "PERCENTAGE" THEN Subtotal(x.items) * x.discount ELSE x.discount
           d == IF x.discountType = "PERCENTAGE" THEN Hundred ELSE 10
<1>1. x.items \in Seq(Lines) /\ x.discount \in Nat
  BY DEF ColumnSet
<1>2. n \in Nat /\ d \in Nat \ {0}
  <2>1. Subtotal(x.items) \in Nat
    BY <1>1, Subtotals
  <2>2. Subtotal(x.items) * x.discount \in Nat
    BY <1>1, <2>1
  <2> QED
    BY <1>1, <2>2 DEF Hundred
<1>3. DiscountAmount(x) = Rounded(n, d)
  BY DEF DiscountAmount
<1> HIDE DEF n, d
<1>4. Rounded(n, d) \in Int
  BY <1>2, RoundedNear
<1>5. d * 0 <= n /\ n <= d * n
  BY <1>2
<1>6. 0 <= Rounded(n, d)
  BY <1>2, <1>5, RoundedBetween
<1> QED
  BY <1>3, <1>4, <1>6

\* What is taxed is at most the taxable lines, and nothing once all is discounted.
LEMMA TaxableBounds ==
    ASSUME NEW x \in ColumnSet, ~Refused(x)
    PROVE  /\ TaxableAfterDiscount(x) \in Nat
           /\ TaxableAfterDiscount(x) <= TaxableSubtotal(x.items)
           /\ TaxableAfterDiscount(x) <= Subtotal(x.items) - DiscountAmount(x)
<1> DEFINE s == Subtotal(x.items)
           t == TaxableSubtotal(x.items)
           d == DiscountAmount(x)
<1>1. s \in Nat /\ t \in Nat /\ t <= s
  <2>1. x.items \in Seq(Lines)
    BY DEF ColumnSet
  <2> QED
    BY <2>1, Subtotals
<1>2. d \in Nat /\ d <= s
  <2>1. d \in Nat
    BY DiscountIsNat
  <2> QED
    BY <1>1, <2>1 DEF Refused
<1>3. TaxableAfterDiscount(x) = IF s = 0 THEN t ELSE Rounded(t * (s - d), s)
  BY DEF TaxableAfterDiscount
<1> HIDE DEF s, t, d
<1>4. CASE s = 0
  BY <1>1, <1>2, <1>3, <1>4 DEF s, t, d
<1>5. CASE s # 0
  <2>1. s \in Nat \ {0} /\ s - d \in Nat /\ s - d <= s /\ t * (s - d) \in Nat
    BY <1>1, <1>2, <1>5
  <2>2. s * 0 <= t * (s - d)
    BY <2>1
  <2>3. t * (s - d) <= s * t
    <3>1. (s - d) * t <= s * t
      BY <1>1, <2>1, Product
    <3> QED
      BY <1>1, <2>1, <3>1
  <2>4. t * (s - d) <= s * (s - d)
    BY <1>1, <2>1, Product
  <2> DEFINE n == t * (s - d)
             r == Rounded(n, s)
  <2>5. n \in Int /\ s * 0 <= n /\ n <= s * t /\ n <= s * (s - d)
    BY <2>1, <2>2, <2>3, <2>4
  <2> HIDE DEF n
  <2>6. r \in Int
    BY <2>1, <2>5, RoundedNear
  <2>7. 0 <= r /\ r <= t
    <3> HIDE DEF r
    <3>1. 0 \in Int /\ t \in Int
      BY <1>1
    <3> QED
      BY <2>1, <2>5, <3>1, RoundedBetween DEF r
  <2>8. r <= s - d
    <3>1. 0 \in Int /\ s - d \in Int
      BY <2>1
    <3> QED
      BY <2>1, <2>5, <3>1, RoundedBetween
  <2>9. TaxableAfterDiscount(x) = r
    BY <1>3, <1>5 DEF n
  <2> HIDE DEF r
  <2> QED
    BY <2>6, <2>7, <2>8, <2>9 DEF s, t, d
<1> QED
  BY <1>4, <1>5

\* The tax is at most what is taxed.
LEMMA TaxBounds ==
    ASSUME NEW x \in ColumnSet, ~Refused(x)
    PROVE  TaxAmount(x) \in Nat /\ TaxAmount(x) <= TaxableAfterDiscount(x)
<1> DEFINE a == TaxableAfterDiscount(x)
           n == a * x.taxRate
<1>1. a \in Nat /\ x.taxRate \in 0 .. Hundred
  BY TaxableBounds DEF ColumnSet
<1>2. Hundred \in Nat \ {0}
  BY DEF Hundred
<1> HIDE DEF a
<1>3. x.taxRate \in Nat /\ x.taxRate <= Hundred
  BY <1>1, <1>2
<1>4. n \in Nat /\ Hundred * 0 <= n /\ n <= Hundred * a
  <2>1. x.taxRate * a <= Hundred * a
    BY <1>1, <1>2, <1>3, Product
  <2> QED
    BY <1>1, <1>2, <1>3, <2>1
<1> HIDE DEF n
<1>5. Rounded(n, Hundred) \in Int
  BY <1>2, <1>4, RoundedNear
<1>6. 0 <= Rounded(n, Hundred) /\ Rounded(n, Hundred) <= a
  <2>1. 0 \in Int /\ a \in Int /\ n \in Int
    BY <1>1, <1>4
  <2> QED
    BY <1>2, <1>4, <2>1, RoundedBetween
<1>7. TaxAmount(x) = Rounded(n, Hundred)
  BY DEF TaxAmount, n, a
<1> QED
  BY <1>5, <1>6, <1>7 DEF a

\* The totals of an invoice that calculateTotals lets through (createInvoice,
\* updateInvoice, duplicates and recurring runs all call it) are in order,
\* whatever the lines, the rate and the discount: the discount is within the
\* subtotal, nothing is negative, and tax at most doubles what is left to pay.
THEOREM TotalsInOrder ==
    ASSUME NEW x \in ColumnSet, NEW paid \in Nat, ~Refused(x)
    PROVE  LET c == CalculateTotals(x, paid)
               net == c.subtotal - DiscountAmount(x)
           IN  /\ c \in [subtotal : Nat, taxAmount : Nat, total : Nat, balanceDue : Nat]
               /\ net \in Nat
               /\ c.taxAmount <= net
               /\ c.total >= net /\ c.total <= 2 * net
               /\ c.balanceDue <= c.total
<1> DEFINE s == Subtotal(x.items)
           d == DiscountAmount(x)
           v == TaxAmount(x)
           total == Total(x)
<1>1. s \in Nat /\ d \in Nat /\ d <= s
  <2>1. x.items \in Seq(Lines)
    BY DEF ColumnSet
  <2>2. s \in Nat /\ d \in Nat
    BY <2>1, Subtotals, DiscountIsNat
  <2> QED
    BY <2>2 DEF Refused
<1>2. v \in Nat /\ v <= s - d
  <2>1. TaxableAfterDiscount(x) \in Nat /\ TaxableAfterDiscount(x) <= s - d
    BY TaxableBounds
  <2>2. v \in Nat /\ v <= TaxableAfterDiscount(x)
    BY TaxBounds
  <2> QED
    BY <1>1, <2>1, <2>2
<1>3. total = s - d + v
  BY DEF Total
<1> DEFINE c == CalculateTotals(x, paid)
<1>4. /\ c = [subtotal |-> s, taxAmount |-> v, total |-> total, balanceDue |-> Outstanding(total, paid)]
      /\ c.subtotal = s /\ c.taxAmount = v /\ c.total = total
      /\ c.balanceDue = Outstanding(total, paid)
  BY DEF CalculateTotals
<1> HIDE DEF s, d, v, total, c
<1>5. total \in Nat /\ total >= s - d /\ total <= 2 * (s - d)
  BY <1>1, <1>2, <1>3
<1>6. Outstanding(total, paid) \in Nat /\ Outstanding(total, paid) <= total
  BY <1>5 DEF Outstanding
<1>7. c \in [subtotal : Nat, taxAmount : Nat, total : Nat, balanceDue : Nat]
  BY <1>1, <1>2, <1>4, <1>5, <1>6
<1> QED
  BY <1>1, <1>2, <1>4, <1>5, <1>6, <1>7 DEF s, d, c

\* A discount of a percentage up to 100 is never refused, so that the rule of
\* createInvoiceSchema is enough for it (the rounded amount cannot exceed the
\* rounded lines).
THEOREM PercentageFits ==
    ASSUME NEW x \in ColumnSet, x.discountType = "PERCENTAGE", x.discount <= Hundred
    PROVE  ~Refused(x)
<1> DEFINE s == Subtotal(x.items)
           n == s * x.discount
<1>1. s \in Nat /\ x.discount \in Nat
  <2>1. x.items \in Seq(Lines) /\ x.discount \in Nat
    BY DEF ColumnSet
  <2> QED
    BY <2>1, Subtotals
<1>2. Hundred \in Nat \ {0}
  BY DEF Hundred
<1>3. DiscountAmount(x) = Rounded(n, Hundred)
  BY DEF DiscountAmount
<1>4. Refused(x) <=> DiscountAmount(x) > s
  BY DEF Refused
<1> HIDE DEF s
<1>5. n \in Int /\ Hundred * 0 <= n /\ n <= Hundred * s
  <2>1. x.discount * s <= Hundred * s
    BY <1>1, <1>2, Product
  <2> QED
    BY <1>1, <1>2, <2>1
<1> HIDE DEF n
<1>6. Rounded(n, Hundred) \in Int /\ Rounded(n, Hundred) <= s
  <2>1. 0 \in Int /\ s \in Int
    BY <1>1
  <2> QED
    BY <1>2, <1>5, <2>1, RoundedNear, RoundedBetween
<1> QED
  BY <1>1, <1>3, <1>4, <1>6

\* The tax is rounded twice, once with the discounted base and once itself,
\* and is still within a cent of the exact one: the part of the lines that is
\* taxable, less its share of the discount, times the rate.
THEOREM TaxWithinACent ==
    ASSUME NEW x \in ColumnSet, ~Refused(x), Subtotal(x.items) > 0
    PROVE  LET unit == Subtotal(x.items) * Hundred
               exact == (TaxableSubtotal(x.items) * (Subtotal(x.items) - DiscountAmount(x))) * x.taxRate
           IN  exact - unit <= unit * TaxAmount(x) /\ unit * TaxAmount(x) <= exact + unit
<1> DEFINE s == Subtotal(x.items)
           b == TaxableSubtotal(x.items) * (s - DiscountAmount(x))
           a == TaxableAfterDiscount(x)
           v == TaxAmount(x)
           r == x.taxRate
           h == Hundred
<1>1. s \in Nat \ {0} /\ b \in Nat /\ a \in Nat /\ v \in Nat
  <2>1. x.items \in Seq(Lines)
    BY DEF ColumnSet
  <2>2. s \in Nat \ {0} /\ TaxableSubtotal(x.items) \in Nat
    BY <2>1, Subtotals
  <2>3. DiscountAmount(x) \in Nat /\ DiscountAmount(x) <= s
    BY <2>2, DiscountIsNat DEF Refused
  <2>4. s - DiscountAmount(x) \in Nat
    BY <2>2, <2>3
  <2>5. b \in Nat
    BY <2>2, <2>4
  <2> QED
    BY <2>2, <2>5, TaxableBounds, TaxBounds
<1>2. r \in Nat /\ h \in Nat \ {0} /\ r <= h
  <2>1. x.taxRate \in 0 .. Hundred
    BY DEF ColumnSet
  <2>2. Hundred \in Nat \ {0}
    BY DEF Hundred
  <2> QED
    BY <2>1, <2>2
<1>3. a = Rounded(b, s) /\ v = Rounded(a * r, h)
  BY <1>1 DEF TaxableAfterDiscount, TaxAmount
<1> HIDE DEF s, b, a, v, r, h
<1>4. 2 * (s * a) <= 2 * b + s /\ 2 * b < 2 * (s * a) + s
  BY <1>1, <1>3, RoundedNear
<1>5. 2 * (h * v) <= 2 * (a * r) + h /\ 2 * (a * r) < 2 * (h * v) + h
  <2>1. a * r \in Int
    BY <1>1, <1>2
  <2> QED
    BY <1>2, <1>3, <2>1, RoundedNear
<1> DEFINE sa == s * a
           ar == a * r
           hv == h * v
<1>6. sa \in Int /\ ar \in Int /\ hv \in Int
  BY <1>1, <1>2
\* Both errors, brought to the same unit.
<1>7. (2 * sa) * r <= (2 * b + s) * r /\ (2 * b) * r <= (2 * sa + s) * r
  <2>1. 2 * sa \in Int /\ 2 * b + s \in Int /\ 2 * b \in Int /\ 2 * sa + s \in Int
    BY <1>1, <1>6
  <2>2. 2 * sa <= 2 * b + s /\ 2 * b <= 2 * sa + s
    BY <1>1, <1>4, <1>6
  <2> HIDE DEF sa
  <2> QED
    BY <1>2, <2>1, <2>2, Product
<1>8. (2 * hv) * s <= (2 * ar + h) * s /\ (2 * ar) * s <= (2 * hv + h) * s
  <2>1. 2 * hv \in Int /\ 2 * ar + h \in Int /\ 2 * ar \in Int /\ 2 * hv + h \in Int
    BY <1>2, <1>6
  <2>2. 2 * hv <= 2 * ar + h /\ 2 * ar <= 2 * hv + h
    BY <1>2, <1>5, <1>6
  <2> HIDE DEF hv, ar
  <2> QED
    BY <1>1, <2>1, <2>2, Product
<1>9. s * r <= s * h
  <2>1. r * s <= h * s
    BY <1>1, <1>2, Product
  <2> QED
    BY <1>1, <1>2, <2>1
<1> DEFINE X == (s * h) * v
           E == b * r
           M == (s * a) * r
           sr == s * r
           sh == s * h
<1>10. X \in Int /\ E \in Int /\ M \in Int /\ sr \in Int /\ sh \in Int
  BY <1>1, <1>2
<1>11. (2 * sa) * r = 2 * M /\ (2 * b + s) * r = 2 * E + sr /\ (2 * b) * r = 2 * E /\ (2 * sa + s) * r = 2 * M + sr
  BY <1>1, <1>2
<1>12. (2 * hv) * s = 2 * X /\ (2 * ar + h) * s = 2 * M + sh /\ (2 * ar) * s = 2 * M /\ (2 * hv + h) * s = 2 * X + sh
  BY <1>1, <1>2
<1>13. sr <= sh
  BY <1>9
<1> HIDE DEF X, E, M, sr, sh, sa, ar, hv
<1>14. E - sh <= X /\ X <= E + sh
  BY <1>7, <1>8, <1>10, <1>11, <1>12, <1>13
<1> QED
  BY <1>14 DEF X, E, sh, s, b, v, r, h
=============================================================================
