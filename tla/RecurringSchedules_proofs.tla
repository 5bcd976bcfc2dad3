---------------------- MODULE RecurringSchedules_proofs ----------------------
(***************************************************************************)
(* Theorems about RecurringSchedules, for any number of schedules, workers *)
(* and manual runs, any frequencies and any limit.                         *)
(***************************************************************************)
EXTENDS RecurringSchedules, TLAPS

\* The owner's handlers that write a schedule write one row, and a proper one.
LEMMA OwnerWritesRow ==
    ASSUME TypeOK, NEW s \in Schedules,
           \/ CreateSchedule(s) \/ UpdateSchedule(s) \/ Activate(s)
           \/ Deactivate(s) \/ DeleteSchedule(s)
    PROVE  \E row \in Row : schedule' = [schedule EXCEPT ![s] = row]
<1> USE DEF TypeOK
<1>1. schedule[s] \in Row
  OBVIOUS
<1>2. \A t \in Times : t \in Nat
  BY ClockAssumption DEF Times
<1>3. CASE CreateSchedule(s)
  <2>1. PICK status \in {"active", "inactive"}, frequency \in Periods, start \in Times :
          schedule' = [schedule EXCEPT ![s] = NewRow(status, frequency, start)]
    BY <1>3 DEF CreateSchedule
  <2>2. NewRow(status, frequency, start) \in Row
    BY <1>2 DEF NewRow, Row
  <2> QED
    BY <2>1, <2>2
<1>4. CASE UpdateSchedule(s)
  <2>1. PICK frequency \in Periods, start \in Times \cup {schedule[s].nextRunAt} :
          schedule' = [schedule EXCEPT
                         ![s] = NewRow(schedule[s].status, frequency, start)]
    BY <1>4 DEF UpdateSchedule
  <2>2. start \in Nat
    BY <1>1, <1>2 DEF Row
  <2>3. NewRow(schedule[s].status, frequency, start) \in Row
    BY <1>1, <2>2 DEF NewRow, Row
  <2> QED
    BY <2>1, <2>3
<1>5. ASSUME NEW status \in {"active", "inactive", "deleted"}
      PROVE  [schedule[s] EXCEPT !.status = status] \in Row
  BY <1>1 DEF Row
<1>6. CASE Activate(s)
  BY <1>5, <1>6 DEF Activate
<1>7. CASE Deactivate(s)
  BY <1>5, <1>7 DEF Deactivate
<1>8. CASE DeleteSchedule(s)
  BY <1>5, <1>8 DEF DeleteSchedule
<1> QED
  BY <1>3, <1>4, <1>6, <1>7, <1>8

\* What is a number.
LEMMA Numbers ==
    ASSUME TypeOK
    PROVE  /\ now \in Nat
           /\ \A s \in Schedules :
                 schedule[s].frequency \in Nat /\ schedule[s].nextRunAt \in Nat
           /\ \A w \in Workers, s \in Schedules : billed[w][s] \in Int
<1>1. now \in Nat
  BY ClockAssumption DEF TypeOK, Times
<1>2. ASSUME NEW s \in Schedules
      PROVE  schedule[s].frequency \in Nat /\ schedule[s].nextRunAt \in Nat
  <2>1. schedule[s] \in Row
    BY DEF TypeOK
  <2>2. schedule[s].frequency \in Periods /\ schedule[s].nextRunAt \in Nat
    BY <2>1 DEF Row
  <2> QED
    BY <2>2, PeriodAssumption
<1>3. ASSUME NEW w \in Workers, NEW s \in Schedules PROVE billed[w][s] \in Int
  BY DEF TypeOK, Never
<1> QED
  BY <1>1, <1>2, <1>3

\* The state is well typed, whatever the interleaving of jobs, runs and owners.
THEOREM TypeCorrect == Spec => []TypeOK
<1>1. Init => TypeOK
  BY ClockAssumption DEF Init, TypeOK, Times, Row, NewRow, Exists, Never
<1>2. TypeOK /\ [Next]_vars => TypeOK'
  <2> SUFFICES ASSUME TypeOK, [Next]_vars PROVE TypeOK'
    OBVIOUS
  <2> USE ClockAssumption, PeriodAssumption DEF TypeOK, jobVars, Times, Event, Actors
  <2>1. ASSUME NEW w \in Workers, StartJobs(w) PROVE TypeOK'
    BY <2>1 DEF StartJobs
  <2>2. ASSUME NEW w \in Workers, EarlierJobFails(w) PROVE TypeOK'
    BY <2>2 DEF EarlierJobFails
  <2>3. ASSUME NEW w \in Workers, ListDue(w) PROVE TypeOK'
    BY <2>3 DEF ListDue, Due
  <2>4. ASSUME NEW w \in Workers, CheckRun(w) PROVE TypeOK'
    BY <2>4 DEF CheckRun
  <2>5. ASSUME NEW w \in Workers, RefuseRun(w) PROVE TypeOK'
    BY <2>5 DEF RefuseRun
  <2>6. ASSUME NEW a \in Actors, RunCommits(a) PROVE TypeOK'
    <3>1. checked[a] \in Schedules
      BY <2>6 DEF RunCommits
    <3>2. Marked(schedule[checked[a]], now) \in Row
      BY <3>1 DEF Marked, ComputeNextRunAt, Row
    <3> QED
      BY <2>6, <3>1, <3>2 DEF RunCommits, Leave
  <2>7. ASSUME NEW a \in Actors, RunFails(a) PROVE TypeOK'
    BY <2>7 DEF RunFails, Leave
  <2>8. ASSUME NEW w \in Workers, FinishJobs(w) PROVE TypeOK'
    BY <2>8 DEF FinishJobs
  <2>9. ASSUME NEW w \in Workers, Crash(w) PROVE TypeOK'
    BY <2>9 DEF Crash
  <2>10. ASSUME NEW r \in Requests, CheckManualRun(r) PROVE TypeOK'
    BY <2>10 DEF CheckManualRun
  <2>11. ASSUME NEW s \in Schedules, OwnerStep(s) PROVE TypeOK'
    <3>1. CASE \/ CreateSchedule(s) \/ UpdateSchedule(s) \/ Activate(s)
               \/ Deactivate(s) \/ DeleteSchedule(s)
      <4>1. schedule' \in [Schedules -> Row]
        BY <3>1, OwnerWritesRow
      <4>2. billed' \in [Workers -> [Schedules -> Nat \cup {Never}]]
        BY <3>1 DEF CreateSchedule, UpdateSchedule, Activate, Deactivate,
                    DeleteSchedule, Forget
      <4> QED
        BY <3>1, <4>1, <4>2 DEF CreateSchedule, UpdateSchedule, Activate, Deactivate,
                                DeleteSchedule
    <3>2. CASE LinkInvoice(s) \/ DeleteLinkedInvoices(s) \/ RoomChanges(s)
      <4>1. template' \in [Schedules -> BOOLEAN]
        BY <3>2, Zenon DEF LinkInvoice, DeleteLinkedInvoices, RoomChanges
      <4>2. room' \in [Schedules -> BOOLEAN]
        BY <3>2, Zenon DEF LinkInvoice, DeleteLinkedInvoices, RoomChanges
      <4> QED
        BY <3>2, <4>1, <4>2 DEF LinkInvoice, DeleteLinkedInvoices, RoomChanges
    <3>3. CASE UpdateClientStatus(s) \/ DeleteClient(s) \/ RestoreClient(s)
      BY <3>3 DEF UpdateClientStatus, DeleteClient, RestoreClient
    <3> QED
      BY <2>11, <3>1, <3>2, <3>3 DEF OwnerStep
  <2>12. CASE TimePasses
    BY <2>12 DEF TimePasses
  <2>13. CASE UNCHANGED vars
    BY <2>13 DEF vars
  <2> QED
    BY <2>1, <2>2, <2>3, <2>4, <2>5, <2>6, <2>7, <2>8, <2>9, <2>10, <2>11, <2>12,
       <2>13 DEF Next, JobStep
<1> QED
  BY <1>1, <1>2, PTL DEF Spec

----------------------------------------------------------------------------
(* An active schedule has a client. *)

\* No order of handlers leaves an active schedule on a deleted client.
THEOREM ClientsOfActive == Spec => []ActiveHasClient
<1>1. Init => ActiveHasClient
  BY DEF Init, ActiveHasClient
<1>2. TypeOK /\ ActiveHasClient /\ [Next]_vars => ActiveHasClient'
  <2> SUFFICES ASSUME TypeOK, ActiveHasClient, [Next]_vars PROVE ActiveHasClient'
    OBVIOUS
  <2> USE DEF TypeOK, ActiveHasClient, jobVars, Row
  <2>1. ASSUME NEW w \in Workers,
               \/ StartJobs(w) \/ EarlierJobFails(w) \/ ListDue(w) \/ CheckRun(w)
               \/ RefuseRun(w) \/ FinishJobs(w) \/ Crash(w)
        PROVE  ActiveHasClient'
    BY <2>1 DEF StartJobs, EarlierJobFails, ListDue, CheckRun, RefuseRun, FinishJobs,
                Crash
  <2>2. ASSUME NEW a \in Actors, RunCommits(a) PROVE ActiveHasClient'
    <3>1. checked[a] \in Schedules
      BY <2>2 DEF RunCommits
    <3>2. \A s \in Schedules : schedule'[s].status = schedule[s].status
      BY <2>2, <3>1 DEF RunCommits, Marked
    <3> QED
      BY <2>2, <3>2 DEF RunCommits
  <2>3. ASSUME NEW a \in Actors, RunFails(a) \/ CheckManualRun(a)
        PROVE  ActiveHasClient'
    BY <2>3 DEF RunFails, CheckManualRun
  <2>4. ASSUME NEW s \in Schedules, OwnerStep(s) PROVE ActiveHasClient'
    <3>1. CASE CreateSchedule(s)
      BY <3>1 DEF CreateSchedule, NewRow
    <3>2. CASE UpdateSchedule(s)
      BY <3>2 DEF UpdateSchedule
    <3>3. CASE Activate(s) \/ Deactivate(s) \/ DeleteSchedule(s)
      BY <3>3 DEF Activate, Deactivate, DeleteSchedule
    <3>4. CASE LinkInvoice(s) \/ DeleteLinkedInvoices(s) \/ RoomChanges(s)
      BY <3>4 DEF LinkInvoice, DeleteLinkedInvoices, RoomChanges
    <3>5. CASE UpdateClientStatus(s) \/ DeleteClient(s) \/ RestoreClient(s)
      BY <3>5 DEF UpdateClientStatus, DeleteClient, RestoreClient
    <3> QED
      BY <2>4, <3>1, <3>2, <3>3, <3>4, <3>5 DEF OwnerStep
  <2>5. CASE TimePasses \/ UNCHANGED vars
    BY <2>5 DEF TimePasses, vars
  <2> QED
    BY <2>1, <2>2, <2>3, <2>4, <2>5 DEF Next, JobStep, Actors
<1> QED
  BY <1>1, <1>2, TypeCorrect, PTL DEF Spec

----------------------------------------------------------------------------
(* A worker bills a schedule once in a period.                             *)
(* Two facts carry the argument: after a worker's run an active schedule   *)
(* is due a period later at the earliest, for later runs by others only    *)
(* push it further; and what a worker has in its list was due, so that     *)
(* period was over when it listed it, and a schedule is in the list once.  *)

\* When the worker may bill s again.
Rested(w, s) == billed[w][s] + schedule[s].frequency

DueLater == \A w \in Workers, s \in Schedules :
              billed[w][s] # Never =>
                 /\ billed[w][s] <= now
                 /\ schedule[s].status # "absent"
                 /\ schedule[s].status = "active" => schedule[s].nextRunAt >= Rested(w, s)

ListedRested == \A w \in Workers, s \in Schedules :
                  (s \in batch[w] /\ billed[w][s] # Never) => now >= Rested(w, s)

\* What a worker has checked is in its list, and it has a list only in the loop.
Working == \A w \in Workers : /\ batch[w] # {} => phase[w] = "listed"
                              /\ checked[w] # None => checked[w] \in batch[w]

Spacing == DueLater /\ ListedRested /\ Working

LEMMA SpacingInitially == Init => Spacing
  BY NoneAssumption
  DEF Init, Spacing, DueLater, ListedRested, Working, Never, Actors

LEMMA JobsKeepSpacing ==
    ASSUME TypeOK, Spacing, NEW w \in Workers,
           \/ StartJobs(w) \/ EarlierJobFails(w) \/ CheckRun(w)
           \/ RefuseRun(w) \/ FinishJobs(w) \/ Crash(w)
    PROVE  Spacing'
<1> USE NoneAssumption DEF TypeOK, Spacing, DueLater, ListedRested, Working, Rested,
                           Actors
<1>1. CASE StartJobs(w) \/ EarlierJobFails(w) \/ FinishJobs(w)
  <2>1. UNCHANGED <<now, schedule, batch, checked, billed>>
    BY <1>1 DEF StartJobs, EarlierJobFails, FinishJobs
  <2>2. \A v \in Workers : batch[v] # {} => phase'[v] = phase[v]
    BY <1>1 DEF StartJobs, EarlierJobFails, FinishJobs
  <2> QED
    BY <2>1, <2>2
<1>2. CASE CheckRun(w)
  BY <1>2 DEF CheckRun
<1>3. CASE RefuseRun(w)
  BY <1>3 DEF RefuseRun
<1>4. CASE Crash(w)
  BY <1>4 DEF Crash
<1> QED
  BY <1>1, <1>2, <1>3, <1>4

\* A worker lists what is due, hence nothing it has billed within a period.
LEMMA ListingKeepsSpacing ==
    ASSUME TypeOK, Spacing, NEW w \in Workers, ListDue(w)
    PROVE  Spacing'
<1> USE NoneAssumption DEF TypeOK, Spacing, Row, Actors, Times
<1>1. PICK chosen \in SUBSET Due : batch' = [batch EXCEPT ![w] = chosen]
  BY DEF ListDue
<1>2. DueLater'
  BY DEF ListDue, DueLater, Rested
<1>3. \A s \in chosen : billed[w][s] # Never => now >= Rested(w, s)
  <2> SUFFICES ASSUME NEW s \in chosen, billed[w][s] # Never
               PROVE  now >= Rested(w, s)
    OBVIOUS
  <2>1. s \in Schedules /\ schedule[s].status = "active" /\ schedule[s].nextRunAt <= now
    BY <1>1 DEF Due
  <2>2. schedule[s].nextRunAt >= Rested(w, s)
    BY <2>1 DEF DueLater
  <2> QED
    BY <2>1, <2>2, Numbers DEF Rested
<1>4. ListedRested'
  BY <1>1, <1>3 DEF ListDue, ListedRested, Rested
<1>5. Working'
  BY <1>1 DEF ListDue, Working
<1> QED
  BY <1>2, <1>4, <1>5

\* A run puts the next one a period off, and takes the schedule off the list.
LEMMA RunKeepsSpacing ==
    ASSUME TypeOK, Spacing, NEW a \in Actors, RunCommits(a)
    PROVE  Spacing'
<1> DEFINE s == checked[a]
<1>1. s \in Schedules
  BY DEF RunCommits, TypeOK
<1>2. now \in Nat /\ \A t \in Schedules : schedule[t].frequency \in Nat
  BY Numbers
<1>3. \A t \in Schedules : /\ schedule'[t].frequency = schedule[t].frequency
                           /\ schedule'[t].status = schedule[t].status
                           /\ t # s => schedule'[t].nextRunAt = schedule[t].nextRunAt
  BY <1>1 DEF RunCommits, Marked, TypeOK, Row
<1>4. schedule[s].status = "active" =>
        schedule'[s].nextRunAt = now + schedule[s].frequency
  BY <1>1 DEF RunCommits, Marked, ComputeNextRunAt, TypeOK, Row
<1>5. now' = now /\ phase' = phase
  BY DEF RunCommits
<1>6. \A w \in Workers, t \in Schedules :
        billed'[w][t] = IF w = a /\ t = s THEN now ELSE billed[w][t]
  BY <1>1 DEF RunCommits, TypeOK
<1>7. DueLater'
  <2> SUFFICES ASSUME NEW w \in Workers, NEW t \in Schedules, billed'[w][t] # Never
               PROVE  /\ billed'[w][t] <= now
                      /\ schedule'[t].status # "absent"
                      /\ schedule'[t].status = "active" =>
                           schedule'[t].nextRunAt >= billed'[w][t] + schedule'[t].frequency
    BY <1>5 DEF DueLater, Rested, Never
  <2>1. billed[w][t] \in Int
    BY DEF TypeOK, Never
  <2>2. billed'[w][t] <= now /\ billed'[w][t] \in Int
    BY <1>2, <1>6, <2>1 DEF Spacing, DueLater
  <2>3. CASE t = s
    <3>1. schedule[s].status # "absent"
      BY DEF RunCommits, Exists
    <3> QED
      BY <1>2, <1>3, <1>4, <2>2, <2>3, <3>1
  <2>4. CASE t # s
    BY <1>2, <1>3, <1>6, <2>1, <2>2, <2>4 DEF Spacing, DueLater, Rested
  <2> QED
    BY <2>3, <2>4
<1>8. \A w \in Workers : batch'[w] = IF w = a THEN batch[w] \ {s} ELSE batch[w]
  BY DEF RunCommits, Leave
<1>9. ListedRested'
  BY <1>3, <1>5, <1>6, <1>8 DEF Spacing, ListedRested, Rested, TypeOK, Never
<1>10. Working'
  BY <1>5, <1>8 DEF Spacing, Working, RunCommits, Leave, TypeOK, Actors
<1> QED
  BY <1>7, <1>9, <1>10 DEF Spacing

LEMMA OthersKeepSpacing ==
    ASSUME TypeOK, Spacing,
           \/ \E a \in Actors : RunFails(a)
           \/ \E r \in Requests : CheckManualRun(r)
           \/ TimePasses
           \/ UNCHANGED vars
    PROVE  Spacing'
<1> USE NoneAssumption DEF TypeOK, Spacing, DueLater, ListedRested, Working, Rested,
                           Row, Actors, Times, jobVars
<1>1. ASSUME NEW a \in Actors, RunFails(a) PROVE Spacing'
  BY <1>1 DEF RunFails, Leave
<1>2. ASSUME NEW r \in Requests, CheckManualRun(r) PROVE Spacing'
  BY <1>2, WorkerAssumption DEF CheckManualRun
<1>3. CASE TimePasses
  <2>1. UNCHANGED <<schedule, batch, phase, checked, billed>> /\ now' = now + 1
    BY <1>3 DEF TimePasses
  <2> QED
    BY <2>1, Numbers
<1>4. CASE UNCHANGED vars
  BY <1>4 DEF vars
<1> QED
  BY <1>1, <1>2, <1>3, <1>4

LEMMA OwnersKeepSpacing ==
    ASSUME TypeOK, Spacing, NEW s \in Schedules, OwnerStep(s)
    PROVE  Spacing'
<1> USE DEF TypeOK, Spacing, DueLater, ListedRested, Working, Rested, Row, Actors,
            jobVars
<1>1. ASSUME UNCHANGED <<now, schedule, batch, phase, checked, billed>> PROVE Spacing'
  BY <1>1
<1>2. CASE CreateSchedule(s)
  <2>1. \A w \in Workers : billed[w][s] = Never
    BY <1>2 DEF CreateSchedule
  <2>2. PICK row \in Row : schedule' = [schedule EXCEPT ![s] = row]
    BY <1>2, OwnerWritesRow
  <2>3. \A t \in Schedules : t # s => schedule'[t] = schedule[t]
    BY <2>2
  <2>4. UNCHANGED <<now, batch, phase, checked, billed>>
    BY <1>2 DEF CreateSchedule
  <2> QED
    BY <2>1, <2>3, <2>4
<1>3. CASE UpdateSchedule(s) \/ Activate(s)
  <2>1. UNCHANGED <<now, batch, phase, checked>>
    BY <1>3 DEF UpdateSchedule, Activate
  <2>2. \A w \in Workers, t \in Schedules :
          billed'[w][t] = IF t = s THEN Never ELSE billed[w][t]
    BY <1>3 DEF UpdateSchedule, Activate, Forget
  <2>3. PICK row \in Row : schedule' = [schedule EXCEPT ![s] = row]
    BY <1>3, OwnerWritesRow
  <2>4. \A t \in Schedules : t # s => schedule'[t] = schedule[t]
    BY <2>3
  <2> QED
    BY <2>1, <2>2, <2>4 DEF Never
<1>4. CASE Deactivate(s) \/ DeleteSchedule(s)
  <2>1. UNCHANGED <<now, batch, phase, checked, billed>>
    BY <1>4 DEF Deactivate, DeleteSchedule
  <2>2. \A t \in Schedules : t # s => schedule'[t] = schedule[t]
    BY <1>4 DEF Deactivate, DeleteSchedule
  <2>3. /\ schedule'[s].frequency = schedule[s].frequency
        /\ schedule'[s].status \in {"inactive", "deleted"}
    BY <1>4 DEF Deactivate, DeleteSchedule
  <2> QED
    BY <2>1, <2>2, <2>3
<1>5. CASE LinkInvoice(s) \/ DeleteLinkedInvoices(s) \/ RoomChanges(s)
  BY <1>1, <1>5 DEF LinkInvoice, DeleteLinkedInvoices, RoomChanges
<1>6. CASE UpdateClientStatus(s) \/ DeleteClient(s) \/ RestoreClient(s)
  BY <1>1, <1>6 DEF UpdateClientStatus, DeleteClient, RestoreClient
<1> QED
  BY <1>2, <1>3, <1>4, <1>5, <1>6 DEF OwnerStep

\* The spacing invariant, for the two theorems that follow from it.
THEOREM SpacingHolds == Spec => []Spacing
<1>1. TypeOK /\ Spacing /\ [Next]_vars => Spacing'
  <2> SUFFICES ASSUME TypeOK, Spacing, [Next]_vars PROVE Spacing'
    OBVIOUS
  <2> QED
    BY JobsKeepSpacing, ListingKeepsSpacing, RunKeepsSpacing, OthersKeepSpacing,
       OwnersKeepSpacing DEF Next, JobStep, Actors
<1> QED
  BY <1>1, SpacingInitially, TypeCorrect, PTL DEF Spec

\* No worker bills a client twice within a period, whatever the other workers,
\* the manual runs and the clock do between its listing, its checks and its
\* transactions.
THEOREM BilledOncePerPeriod == Spec => OncePerPeriod
<1> DEFINE Paced == \A w \in Workers, s \in Schedules :
                      (RunCommits(w) /\ checked[w] = s /\ billed[w][s] # Never)
                        => now >= billed[w][s] + schedule[s].frequency
<1>1. TypeOK /\ Spacing /\ [Next]_vars => [Paced]_vars
  <2> SUFFICES ASSUME TypeOK, Spacing, NEW w \in Workers, NEW s \in Schedules,
                      RunCommits(w), checked[w] = s, billed[w][s] # Never
               PROVE  now >= billed[w][s] + schedule[s].frequency
    OBVIOUS
  <2>1. s \in batch[w]
    BY DEF Spacing, Working, RunCommits
  <2> QED
    BY <2>1 DEF Spacing, ListedRested, Rested
<1> QED
  BY <1>1, SpacingHolds, TypeCorrect, PTL DEF Spec, OncePerPeriod
=============================================================================
