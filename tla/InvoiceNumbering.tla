------------------------- MODULE InvoiceNumbering -------------------------
(***************************************************************************)
(* The per-owner counter behind invoice numbers: the `Business` row        *)
(* (invoicePrefix, nextNumber) read and incremented by every transaction   *)
(* that creates an invoice (create, duplicate, recurring run), and edited  *)
(* by the owner through PATCH /business.                                   *)
(*                                                                         *)
(* One step is one SQL statement.  Transactions run at PostgreSQL's        *)
(* default level, READ COMMITTED: a SELECT sees the last committed row and *)
(* takes no lock; an UPDATE waits for the row's lock, works on the value   *)
(* committed by then, and keeps the lock until the transaction ends.       *)
(* The invoices of one owner are under a UNIQUE (userId, number) key.      *)
(***************************************************************************)
EXTENDS Integers, FiniteSets

CONSTANTS Requests,      \* requests in flight; each serves one call after another
          Prefixes,      \* values the owner may give to invoicePrefix
          FirstPrefix,   \* the prefix of a new business profile
          NumberInputs,  \* values the owner may give to nextNumber
          MaxNumber,     \* bound: no creation starts above this number
          MaxAborts,     \* bound: transactions that time out or lose their process
          NoOne          \* "the row is not locked"

ASSUME PrefixAssumption == FirstPrefix \in Prefixes
ASSUME NumberAssumption == NumberInputs \subseteq Nat \ {0}
ASSUME BoundAssumption == MaxNumber \in Nat /\ MaxAborts \in Nat
ASSUME NoOneAssumption == NoOne \notin Requests

VARIABLES prefix, nextNumber,  \* the committed Business row
          issued,              \* the numbers of the stored invoices
          lock,                \* the transaction that holds the row's lock
          pc,                  \* where each request is
          seen,                \* the row as each request read it
          want,                \* the row an edit asks for
          aborts               \* transactions aborted from outside so far

vars == <<prefix, nextNumber, issued, lock, pc, seen, want, aborts>>

\* An invoice number, "<prefix>-<n padded to four digits>".  The text never
\* merges two numbers (the part after the last dash is n), so the pair stands
\* for it.
Number == [prefix : Prefixes, n : Nat \ {0}]

Row == [prefix |-> prefix, n |-> nextNumber]

\* A faulty profile default, for a schema that starts the counter at 0.
FirstRowZero == [prefix |-> FirstPrefix, n |-> 0]

\* The row of a new profile, also what idle requests are said to have read.
FirstRow == [prefix |-> FirstPrefix, n |-> 1]

TypeOK == /\ prefix \in Prefixes
          /\ nextNumber \in Nat \ {0}
          /\ issued \subseteq Number
          /\ IsFiniteSet(issued)
          /\ lock \in Requests \cup {NoOne}
          /\ pc \in [Requests -> {"idle", "allocated", "locked", "inserted", "editing"}]
          /\ seen \in [Requests -> Number]
          /\ want \in [Requests -> Number]
          /\ aborts \in 0 .. MaxAborts

Init == /\ prefix = FirstRow.prefix
        /\ nextNumber = FirstRow.n
        /\ issued = {}
        /\ lock = NoOne
        /\ pc = [r \in Requests |-> "idle"]
        /\ seen = [r \in Requests |-> FirstRow]
        /\ want = [r \in Requests |-> FirstRow]
        /\ aborts = 0

Goto(r, label) == pc' = [pc EXCEPT ![r] = label] /\ UNCHANGED <<seen, want>>

\* The request has been answered; it forgets what it has read.
Finish(r) == /\ pc' = [pc EXCEPT ![r] = "idle"]
             /\ seen' = [seen EXCEPT ![r] = FirstRow]
             /\ want' = [want EXCEPT ![r] = FirstRow]

----------------------------------------------------------------------------
(* A transaction that creates an invoice. *)

\* allocateInvoiceNumber reads the row and forms the number from it.
ReadCounter(r) ==
    /\ pc[r] = "idle"
    /\ nextNumber <= MaxNumber
    /\ seen' = [seen EXCEPT ![r] = Row]
    /\ pc' = [pc EXCEPT ![r] = "allocated"]
    /\ UNCHANGED <<prefix, nextNumber, issued, lock, want, aborts>>

\* allocateInvoiceNumber increments nextNumber: the statement waits for the
\* row's lock.  Nobody sees the increment before the commit.
IncrementCounter(r) ==
    /\ pc[r] = "allocated"
    /\ lock = NoOne
    /\ lock' = r
    /\ Goto(r, "locked")
    /\ UNCHANGED <<prefix, nextNumber, issued, aborts>>

\* Faulty: no UNIQUE (userId, number) key.
InsertUnchecked(r) ==
    /\ pc[r] = "locked"
    /\ Goto(r, "inserted")
    /\ UNCHANGED <<prefix, nextNumber, issued, lock, aborts>>

\* tx.invoice.create passes the UNIQUE key ...
InsertInvoice(r) ==
    /\ pc[r] = "locked"
    /\ seen[r] \notin issued
    /\ Goto(r, "inserted")
    /\ UNCHANGED <<prefix, nextNumber, issued, lock, aborts>>

\* Faulty: the number is allocated outside the transaction and stays used up.
RejectKeepsIncrement(r) ==
    /\ pc[r] = "locked"
    /\ seen[r] \in issued
    /\ nextNumber' = nextNumber + 1
    /\ lock' = NoOne
    /\ Finish(r)
    /\ UNCHANGED <<prefix, issued, aborts>>

\* Faulty: the error path leaves the transaction open.
RejectHoldsLock(r) ==
    /\ pc[r] = "locked"
    /\ seen[r] \in issued
    /\ Finish(r)
    /\ UNCHANGED <<prefix, nextNumber, issued, lock, aborts>>

\* ... or hits it: the error leaves the callback and the transaction rolls back.
RejectDuplicate(r) ==
    /\ pc[r] = "locked"
    /\ seen[r] \in issued
    /\ lock' = NoOne
    /\ Finish(r)
    /\ UNCHANGED <<prefix, nextNumber, issued, aborts>>

\* Faulty: writes the value it has read plus one, not an increment.
CommitStaleCounter(r) ==
    /\ pc[r] = "inserted"
    /\ nextNumber' = seen[r].n + 1
    /\ issued' = issued \cup {seen[r]}
    /\ lock' = NoOne
    /\ Finish(r)
    /\ UNCHANGED <<prefix, aborts>>

\* The callback returns: the increment and the invoice become visible together.
Commit(r) ==
    /\ pc[r] = "inserted"
    /\ nextNumber' = nextNumber + 1
    /\ issued' = issued \cup {seen[r]}
    /\ lock' = NoOne
    /\ Finish(r)
    /\ UNCHANGED <<prefix, aborts>>

\* Prisma ends an interactive transaction that outlives its time limit, and a
\* process that dies loses its connection: either way the transaction is undone.
Abort(r) ==
    /\ aborts < MaxAborts
    /\ pc[r] \in {"allocated", "locked", "inserted"}
    /\ lock' = IF lock = r THEN NoOne ELSE lock
    /\ Finish(r)
    /\ aborts' = aborts + 1
    /\ UNCHANGED <<prefix, nextNumber, issued>>

----------------------------------------------------------------------------
(* PATCH /business: a read, a check of the input against what was read,    *)
(* and an update of the fields that differ from what was read.             *)

\* The row an edit asks for: a field left out of the body keeps its value.
EditInput == [prefix : Prefixes, n : NumberInputs \cup {nextNumber}]

\* A request that lowers nextNumber is answered 409 and changes nothing.
AcceptsEdit(input) == input.n >= nextNumber

ReadBusiness(r) ==
    /\ pc[r] = "idle"
    /\ \E input \in EditInput :
          /\ AcceptsEdit(input)
          /\ want' = [want EXCEPT ![r] = input]
    /\ seen' = [seen EXCEPT ![r] = Row]
    /\ pc' = [pc EXCEPT ![r] = "editing"]
    /\ UNCHANGED <<prefix, nextNumber, issued, lock, aborts>>

\* What a column becomes: only fields that differ from what was read are part
\* of the update.
Written(asked, read, current) == IF asked = read THEN current ELSE asked

\* With nothing to change there is no statement, and nothing to wait for.
WriteBusiness(r) ==
    /\ pc[r] = "editing"
    /\ lock = NoOne \/ want[r] = seen[r]
    /\ prefix' = Written(want[r].prefix, seen[r].prefix, prefix)
    /\ nextNumber' = Written(want[r].n, seen[r].n, nextNumber)
    /\ Finish(r)
    /\ UNCHANGED <<issued, lock, aborts>>

----------------------------------------------------------------------------
CreateStep(r) == \/ ReadCounter(r) \/ IncrementCounter(r)
                 \/ InsertInvoice(r) \/ RejectDuplicate(r) \/ Commit(r)

Next == \E r \in Requests : \/ CreateStep(r) \/ Abort(r)
                            \/ ReadBusiness(r) \/ WriteBusiness(r)

Spec == Init /\ [][Next]_vars

\* A transaction that has begun runs on: each of its statements is executed
\* once PostgreSQL can execute it.  Nothing obliges a client to send a request.
Fairness == \A r \in Requests :
               /\ WF_vars(IncrementCounter(r))
               /\ WF_vars(InsertInvoice(r) \/ RejectDuplicate(r))
               /\ WF_vars(Commit(r))

FairSpec == Spec /\ Fairness

----------------------------------------------------------------------------
(* Properties.  All but NeverBackwards are about an owner who may change   *)
(* the prefix at any moment but never sets nextNumber.                     *)

\* Every stored invoice used up exactly one value of the counter: whatever
\* transactions roll back or time out, nextNumber counts the invoices.
CountMatches == Cardinality(issued) = nextNumber - 1

\* The counter is ahead of every number in use, under any prefix, so that a
\* creation that runs alone never meets the UNIQUE key.
AheadOfIssued == \A i \in issued : i.n < nextNumber

\* As long as every invoice carries one prefix, the numbers in use are exactly
\* 1 .. nextNumber - 1: failed and competing creations leave no gap.
Gapless == \A p \in Prefixes :
              (\A i \in issued : i.prefix = p)
                 => issued = {[prefix |-> p, n |-> k] : k \in 1 .. (nextNumber - 1)}

\* The transactions implement the series: a commit is one Issue step, and every
\* other statement, a rollback included, is invisible.
Series == INSTANCE InvoiceSeries WITH numbers <- issued, next <- nextNumber
ImplementsSeries == Series!Spec

\* A creation holding the current number is followed by a stored invoice, its
\* own or a competitor's, unless another transaction is cut off meanwhile:
\* contention costs retries, never progress.
CreationProgress ==
    \A k \in 1 .. MaxNumber, a \in 0 .. MaxAborts :
        (/\ nextNumber = k /\ aborts = a
         /\ \E r \in Requests : pc[r] = "allocated" /\ seen[r] = Row)
            ~> (nextNumber > k \/ aborts > a)

\* "never allow going backwards (would clash with existing invoices)":
\* no step lowers the counter.
NeverBackwards == [][nextNumber' >= nextNumber]_vars
=============================================================================
