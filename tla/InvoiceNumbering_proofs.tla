---------------------- MODULE InvoiceNumbering_proofs ----------------------
(***************************************************************************)
(* Theorems about InvoiceNumbering, for any number of requests, any       *)
(* prefixes and any bound.                                                 *)
(***************************************************************************)
EXTENDS InvoiceNumbering, FiniteSetTheorems, TLAPS

\* The state stays well typed: in particular the counter stays a positive
\* integer and only numbers with an allowed prefix are stored.
THEOREM TypeCorrect == Spec => []TypeOK
<1>1. Init => TypeOK
  BY PrefixAssumption, BoundAssumption, FS_EmptySet DEF Init, TypeOK, Number, FirstRow
<1>2. TypeOK /\ [Next]_vars => TypeOK'
  <2> SUFFICES ASSUME TypeOK, [Next]_vars PROVE TypeOK'
    OBVIOUS
  <2> USE PrefixAssumption, BoundAssumption DEF TypeOK, Number, Row, FirstRow, Goto, Finish
  <2>1. ASSUME NEW r \in Requests, ReadCounter(r) PROVE TypeOK'
    BY <2>1 DEF ReadCounter
  <2>2. ASSUME NEW r \in Requests, IncrementCounter(r) PROVE TypeOK'
    BY <2>2 DEF IncrementCounter
  <2>3. ASSUME NEW r \in Requests, InsertInvoice(r) PROVE TypeOK'
    BY <2>3 DEF InsertInvoice
  <2>4. ASSUME NEW r \in Requests, RejectDuplicate(r) PROVE TypeOK'
    BY <2>4 DEF RejectDuplicate
  <2>5. ASSUME NEW r \in Requests, Commit(r) PROVE TypeOK'
    <3>1. IsFiniteSet(issued')
      BY <2>5, FS_AddElement DEF Commit
    <3> QED
      BY <3>1, <2>5 DEF Commit
  <2>6. ASSUME NEW r \in Requests, Abort(r) PROVE TypeOK'
    BY <2>6 DEF Abort
  <2>7. ASSUME NEW r \in Requests, ReadBusiness(r) PROVE TypeOK'
    <3>1. EditInput \subseteq Number
      BY NumberAssumption DEF EditInput
    <3> QED
      BY <3>1, <2>7 DEF ReadBusiness
  <2>8. ASSUME NEW r \in Requests, WriteBusiness(r) PROVE TypeOK'
    BY <2>8 DEF WriteBusiness, Written
  <2>9. CASE UNCHANGED vars
    BY <2>9 DEF vars
  <2> QED
    BY <2>1, <2>2, <2>3, <2>4, <2>5, <2>6, <2>7, <2>8, <2>9 DEF Next, CreateStep
<1> QED
  BY <1>1, <1>2, PTL DEF Spec

----------------------------------------------------------------------------
(* The row lock makes the second half of a creation exclusive. *)

LockInv == \A r \in Requests : pc[r] \in {"locked", "inserted"} <=> lock = r

InsertInv == \A r \in Requests : pc[r] = "inserted" => seen[r] \notin issued

\* While nobody renumbers, what a request has read is not ahead of the row,
\* and an edit in flight writes no counter.
SeenInv == \A r \in Requests :
              /\ pc[r] \in {"allocated", "locked", "inserted"} => seen[r].n <= nextNumber
              /\ pc[r] = "editing" => want[r].n = seen[r].n

CountInv == TypeOK /\ LockInv /\ InsertInv /\ SeenInv /\ CountMatches /\ AheadOfIssued

LEMMA CountInvInit == Init => CountInv
  BY PrefixAssumption, BoundAssumption, NoOneAssumption, FS_EmptySet
     DEF Init, CountInv, TypeOK, Number, FirstRow, LockInv, InsertInv, SeenInv,
         CountMatches, AheadOfIssued

\* Only a commit moves the counter, by one, together with the set of numbers.
LEMMA CountInvStep ==
    ASSUME NumberInputs = {}, CountInv, TypeOK', [Next]_vars
    PROVE  CountInv'
<1> USE PrefixAssumption DEF CountInv, TypeOK, Number, Row, FirstRow, Goto, Finish, LockInv, InsertInv, SeenInv,
            CountMatches, AheadOfIssued
<1>1. ASSUME NEW r \in Requests, ReadCounter(r) PROVE CountInv'
  BY <1>1 DEF ReadCounter
<1>2. ASSUME NEW r \in Requests, IncrementCounter(r) PROVE CountInv'
  BY <1>2, NoOneAssumption DEF IncrementCounter
<1>3. ASSUME NEW r \in Requests, InsertInvoice(r) PROVE CountInv'
  BY <1>3 DEF InsertInvoice
<1>4. ASSUME NEW r \in Requests, RejectDuplicate(r) PROVE CountInv'
  BY <1>4, NoOneAssumption DEF RejectDuplicate
<1>5. ASSUME NEW r \in Requests, Commit(r) PROVE CountInv'
  <2>1. Cardinality(issued') = Cardinality(issued) + 1
    BY <1>5, FS_AddElement DEF Commit
  <2>2. CountMatches'
    BY <2>1, <1>5 DEF Commit
  <2>3. AheadOfIssued'
    BY <1>5 DEF Commit
  <2>4. LockInv' /\ SeenInv'
    BY <1>5, NoOneAssumption DEF Commit
  <2>5. InsertInv'
    BY <1>5, NoOneAssumption DEF Commit
  <2> QED
    BY <2>2, <2>3, <2>4, <2>5
<1>6. ASSUME NEW r \in Requests, Abort(r) PROVE CountInv'
  BY <1>6, NoOneAssumption DEF Abort
<1>7. ASSUME NEW r \in Requests, ReadBusiness(r) PROVE CountInv'
  BY <1>7 DEF ReadBusiness, EditInput, AcceptsEdit
<1>8. ASSUME NEW r \in Requests, WriteBusiness(r) PROVE CountInv'
  <2>1. nextNumber' = nextNumber
    BY <1>8 DEF WriteBusiness, Written
  <2> QED
    BY <2>1, <1>8 DEF WriteBusiness
<1>9. CASE UNCHANGED vars
  BY <1>9 DEF vars
<1> QED
  BY <1>1, <1>2, <1>3, <1>4, <1>5, <1>6, <1>7, <1>8, <1>9 DEF Next, CreateStep

\* As long as nobody renumbers, the counter counts the stored invoices and is
\* ahead of every number in use, however transactions interleave, fail, time
\* out or race with a change of prefix.
THEOREM CounterCountsInvoices ==
    ASSUME NumberInputs = {}
    PROVE  Spec => [](CountMatches /\ AheadOfIssued)
<1>1. CountInv /\ TypeOK' /\ [Next]_vars => CountInv'
  BY CountInvStep
<1>2. CountInv => CountMatches /\ AheadOfIssued
  BY DEF CountInv
<1> QED
  BY <1>1, <1>2, CountInvInit, TypeCorrect, PTL DEF Spec

\* The counter counts the stored invoices.
THEOREM CounterCounts ==
    ASSUME NumberInputs = {}
    PROVE  Spec => []CountMatches
<1>1. Spec => [](CountMatches /\ AheadOfIssued)
  BY CounterCountsInvoices
<1> QED
  BY <1>1, PTL

\* The counter is ahead of every number in use.
THEOREM CounterIsAhead ==
    ASSUME NumberInputs = {}
    PROVE  Spec => []AheadOfIssued
<1>1. Spec => [](CountMatches /\ AheadOfIssued)
  BY CounterCountsInvoices
<1> QED
  BY <1>1, PTL

----------------------------------------------------------------------------
(* Refinement, and what it means for an owner who keeps one prefix. *)

\* A commit is an Issue step of the series, every other step leaves it alone.
LEMMA SeriesStep ==
    ASSUME NumberInputs = {}, CountInv, [Next]_vars
    PROVE  [Series!Issue]_<<issued, nextNumber>>
<1> USE DEF CountInv, TypeOK, Number
<1>1. ASSUME NEW r \in Requests, Commit(r) PROVE Series!Issue
  <2>1. seen[r].prefix \in Prefixes /\ seen[r].n \in 1 .. nextNumber
    BY <1>1 DEF Commit, SeenInv
  <2>2. seen[r] = [prefix |-> seen[r].prefix, n |-> seen[r].n]
    OBVIOUS
  <2>3. seen[r] \notin issued
    BY <1>1 DEF Commit, InsertInv
  <2>4. issued' = issued \cup {seen[r]} /\ nextNumber' = nextNumber + 1
    BY <1>1 DEF Commit
  <2>5. /\ [prefix |-> seen[r].prefix, n |-> seen[r].n] \notin issued
        /\ issued' = issued \cup {[prefix |-> seen[r].prefix, n |-> seen[r].n]}
        /\ nextNumber' = nextNumber + 1
    BY <2>2, <2>3, <2>4
  <2> HIDE DEF CountInv, TypeOK, Number
  <2> QED
    BY <2>1, <2>5 DEF Series!Issue
<1>2. ASSUME NEW r \in Requests, WriteBusiness(r) PROVE UNCHANGED <<issued, nextNumber>>
  BY <1>2 DEF WriteBusiness, Written, SeenInv
<1>3. ASSUME NEW r \in Requests,
             \/ ReadCounter(r) \/ IncrementCounter(r) \/ InsertInvoice(r)
             \/ RejectDuplicate(r) \/ Abort(r) \/ ReadBusiness(r)
      PROVE  UNCHANGED <<issued, nextNumber>>
  BY <1>3 DEF ReadCounter, IncrementCounter, InsertInvoice, RejectDuplicate, Abort,
              ReadBusiness
<1>4. CASE UNCHANGED vars
  BY <1>4 DEF vars
<1> QED
  BY <1>1, <1>2, <1>3, <1>4 DEF Next, CreateStep

\* The statements of concurrent creations, with their failures, implement the
\* series, as long as nobody sets the counter.
THEOREM ImplementsTheSeries ==
    ASSUME NumberInputs = {}
    PROVE  Spec => ImplementsSeries
<1>1. Init => Series!Init
  BY DEF Init, FirstRow, Series!Init
<1>2. CountInv /\ [Next]_vars => [Series!Issue]_<<issued, nextNumber>>
  BY SeriesStep
<1>3. CountInv /\ TypeOK' /\ [Next]_vars => CountInv'
  BY CountInvStep
<1> QED
  BY <1>1, <1>2, <1>3, CountInvInit, TypeCorrect, PTL
     DEF Spec, ImplementsSeries, Series!Spec

----------------------------------------------------------------------------
(* Gaplessness, by counting. *)

\* With one prefix the numbers in use are nextNumber - 1 different elements of
\* a set of nextNumber - 1: they are all of it.
LEMMA CountedIsGapless == CountInv => Gapless
<1> SUFFICES ASSUME CountInv, NEW p \in Prefixes, \A i \in issued : i.prefix = p
             PROVE  issued = {[prefix |-> p, n |-> k] : k \in 1 .. (nextNumber - 1)}
  BY DEF Gapless
<1> DEFINE I == 1 .. (nextNumber - 1)
           All == {[prefix |-> p, n |-> k] : k \in I}
<1>1. nextNumber \in Nat \ {0} /\ issued \subseteq Number
  BY DEF CountInv, TypeOK
<1>2. issued \subseteq All
  <2> SUFFICES ASSUME NEW i \in issued PROVE i \in All
    OBVIOUS
  <2>1. i.prefix = p /\ i.n \in Nat \ {0} /\ i.n < nextNumber
    BY <1>1 DEF CountInv, AheadOfIssued, Number
  <2>2. i.n \in I
    BY <1>1, <2>1
  <2>3. i = [prefix |-> p, n |-> i.n]
    BY <1>1, <2>1 DEF Number
  <2> QED
    BY <2>2, <2>3
<1>3. IsFiniteSet(I) /\ Cardinality(I) = nextNumber - 1
  BY <1>1, FS_Interval
<1>4. IsFiniteSet(All) /\ Cardinality(All) <= nextNumber - 1
  <2> DEFINE f == [k \in I |-> [prefix |-> p, n |-> k]]
  <2>1. f \in Surjection(I, All)
    BY DEF Surjection
  <2> QED
    BY <1>3, <2>1, FS_Surjection
<1>5. Cardinality(issued) = nextNumber - 1
  BY DEF CountInv, CountMatches
<1>6. Cardinality(All) \in Nat /\ Cardinality(issued) <= Cardinality(All)
  BY <1>2, <1>4, FS_CardinalityType, FS_Subset
<1> QED
  BY <1>1, <1>2, <1>4, <1>5, <1>6, FS_Subset

\* Failed, competing and timed-out creations leave no gap in the numbers of an
\* owner who keeps one prefix.
THEOREM NumbersAreGapless ==
    ASSUME NumberInputs = {}
    PROVE  Spec => []Gapless
<1>1. CountInv /\ TypeOK' /\ [Next]_vars => CountInv'
  BY CountInvStep
<1> QED
  BY <1>1, CountInvInit, CountedIsGapless, TypeCorrect, PTL DEF Spec

----------------------------------------------------------------------------
(* The check against a decrease is sound when requests do not overlap. *)

\* What a single request has read is what the row still is.
EditInv == \A r \in Requests :
              pc[r] = "editing" => seen[r] = Row /\ want[r].n >= nextNumber

\* If the business profile is only ever touched by one request at a time, the
\* counter never goes backwards, whatever values the owner sends.
THEOREM NeverBackwardsAlone ==
    ASSUME NEW only, Requests = {only}
    PROVE  Spec => NeverBackwards
<1>1. Init => EditInv
  BY DEF Init, EditInv
<1>2. ASSUME TypeOK, EditInv, [Next]_vars
      PROVE  EditInv' /\ nextNumber' >= nextNumber
  <2> USE <1>2 DEF TypeOK, EditInv, Number, Row, Goto, Finish
  <2>1. ASSUME ReadCounter(only) PROVE EditInv' /\ nextNumber' >= nextNumber
    BY <2>1 DEF ReadCounter
  <2>2. ASSUME IncrementCounter(only) \/ InsertInvoice(only)
        PROVE  EditInv' /\ nextNumber' >= nextNumber
    BY <2>2 DEF IncrementCounter, InsertInvoice
  <2>3. ASSUME RejectDuplicate(only) \/ Commit(only) \/ Abort(only)
        PROVE  EditInv' /\ nextNumber' >= nextNumber
    BY <2>3 DEF RejectDuplicate, Commit, Abort
  <2>4. ASSUME ReadBusiness(only) PROVE EditInv' /\ nextNumber' >= nextNumber
    <3>1. PICK input \in EditInput : /\ AcceptsEdit(input)
                                     /\ want' = [want EXCEPT ![only] = input]
      BY <2>4 DEF ReadBusiness
    <3> QED
      BY <3>1, <2>4 DEF ReadBusiness, AcceptsEdit
  <2>5. ASSUME WriteBusiness(only) PROVE EditInv' /\ nextNumber' >= nextNumber
    BY <2>5 DEF WriteBusiness, Written
  <2>6. CASE UNCHANGED vars
    BY <2>6 DEF vars
  <2> QED
    BY <2>1, <2>2, <2>3, <2>4, <2>5, <2>6 DEF Next, CreateStep
<1>3. nextNumber' >= nextNumber => [nextNumber' >= nextNumber]_vars
  OBVIOUS
<1> QED
  BY <1>1, <1>2, <1>3, TypeCorrect, PTL DEF Spec, NeverBackwards
=============================================================================
