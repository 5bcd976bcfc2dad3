--------------------------- MODULE InvoiceSeries ---------------------------
(***************************************************************************)
(* What invoice numbering promises: an owner's invoices form a series.     *)
(* Each new invoice gets a number that no other invoice has and that is    *)
(* not ahead of the counter, and the counter advances by one per invoice.  *)
(* Under a single prefix this leaves one number to choose: the next one.   *)
(* InvoiceNumbering implements this as long as nobody sets the counter.    *)
(***************************************************************************)
EXTENDS Integers

CONSTANT Prefixes

VARIABLES numbers,   \* the numbers that stored invoices carry
          next       \* the counter

Init == numbers = {} /\ next = 1

Issue == \E p \in Prefixes, k \in 1 .. next :
            /\ [prefix |-> p, n |-> k] \notin numbers
            /\ numbers' = numbers \cup {[prefix |-> p, n |-> k]}
            /\ next' = next + 1

Spec == Init /\ [][Issue]_<<numbers, next>>
=============================================================================
