------------------------- MODULE RecurringSchedules -------------------------
(***************************************************************************)
(* Recurring schedules and the job that turns due ones into invoices.      *)
(*                                                                         *)
(* A worker is whatever calls runScheduledJobs: the in-process interval    *)
(* (`Ticker`, which never overlaps itself), an administrator's inline      *)
(* trigger (which does not look at the interval's `running` flag), or a    *)
(* queue worker.  A worker runs the earlier jobs, lists the schedules      *)
(* longest due, at most Limit of them, and runs them one after another.    *)
(* Owners run schedules by hand through requests of their own.  A run is   *)
(* two steps, the checks and the transaction; everything else may happen   *)
(* between the two, and between listing a schedule and reaching it.        *)
(*                                                                         *)
(* Time is counted in units far longer than a transaction may last (5 s),  *)
(* so a transaction's runAt, taken just before it begins, is the time of   *)
(* its commit.  The other handlers of the owner run without interleaving.  *)
(***************************************************************************)
EXTENDS Integers, FiniteSets

CONSTANTS Schedules,    \* schedules that may ever be created, each of a client of its own
          Workers,      \* concurrent callers of runScheduledJobs
          Ticker,       \* the worker started again and again by setInterval
          Requests,     \* manual runs in flight
          Periods,      \* the frequencies, in units of time
          Limit,        \* schedules one job run handles at most (50 in the code)
          None,         \* "no schedule"
          MaxTime,      \* bound on the clock
          MaxEvents     \* bound on what owners do and what goes wrong, together

ASSUME WorkerAssumption == Ticker \in Workers /\ Workers \cap Requests = {}
ASSUME PeriodAssumption == Periods \subseteq Nat \ {0} /\ Periods # {}
ASSUME LimitAssumption == Limit \in Nat \ {0}
ASSUME NoneAssumption == None \notin Schedules
ASSUME ClockAssumption == MaxTime \in Nat /\ MaxEvents \in Nat
ASSUME SchedulesAssumption == IsFiniteSet(Schedules)

VARIABLES now,
          schedule,   \* the RecurringSchedule rows
          client,     \* the client of each schedule
          template,   \* some invoice linked to the schedule is not deleted
          room,       \* the plan of the schedule's owner leaves room for an invoice
          phase,      \* how far each worker is
          batch,      \* the schedules it has listed and not dealt with yet
          checked,    \* the schedule whose checks a worker or request has passed
          billed,     \* history: when a worker last billed a schedule, forgotten
                      \* when the owner edits or reactivates the schedule
          events      \* how many of them there have been

jobVars == <<phase, batch, checked>>
vars == <<now, schedule, client, template, room, jobVars, billed, events>>

Actors == Workers \cup Requests
Times == 0 .. MaxTime
Never == -1

Row == [status : {"absent", "active", "inactive", "deleted"},
        frequency : Periods, nextRunAt : Nat]

TypeOK == /\ now \in Times
          /\ schedule \in [Schedules -> Row]
          /\ client \in [Schedules -> {"active", "inactive", "deleted"}]
          /\ template \in [Schedules -> BOOLEAN]
          /\ room \in [Schedules -> BOOLEAN]
          /\ phase \in [Workers -> {"idle", "started", "listed"}]
          /\ batch \in [Workers -> SUBSET Schedules]
          /\ checked \in [Actors -> Schedules \cup {None}]
          /\ billed \in [Workers -> [Schedules -> Nat \cup {Never}]]
          /\ events \in 0 .. MaxEvents

Exists(s) == schedule[s].status \in {"active", "inactive"}

\* A row with its columns (lastRunAt is only ever displayed).
NewRow(status, frequency, start) ==
    [status |-> status, frequency |-> frequency, nextRunAt |-> start]

\* Each schedule is yet to be created, or has been, with an invoice to copy.
Init == /\ now = 0
        /\ \E frequency \in Periods :
              schedule \in [Schedules -> {NewRow(status, frequency, 0) :
                                           status \in {"absent", "active", "inactive"}}]
        /\ client = [s \in Schedules |-> "active"]
        /\ template = [s \in Schedules |-> Exists(s)]
        /\ room = [s \in Schedules |-> TRUE]
        /\ phase = [w \in Workers |-> "idle"]
        /\ batch = [w \in Workers |-> {}]
        /\ checked = [a \in Actors |-> None]
        /\ billed = [w \in Workers |-> [s \in Schedules |-> Never]]
        /\ events = 0

----------------------------------------------------------------------------
(* One run of a schedule: executeRecurringScheduleRun. *)

\* Something an owner does or that goes wrong.
Event == events < MaxEvents /\ events' = events + 1

\* What a run checks, in reads of its own.  Whether the schedule is due (still)
\* is not among it.
MayRun(s) == /\ schedule[s].status = "active"
             /\ client[s] = "active"
             /\ room[s]
             /\ template[s]

\* Faulty: a month subtracted where one is added.
ComputeNextBackwards(from, frequency) == from - frequency

ComputeNextRunAt(from, frequency) == from + frequency

\* Faulty: the next date counts from the date that was due.
MarkedFromDueDate(row, runAt) ==
    IF row.status # "active" THEN row
    ELSE [row EXCEPT !.nextRunAt = ComputeNextRunAt(row.nextRunAt, row.frequency)]

\* markScheduleRunInTransaction: a schedule deactivated since the checks keeps
\* its dates, though the run has created an invoice.
Marked(row, runAt) ==
    IF row.status # "active" THEN row
    ELSE [row EXCEPT !.nextRunAt = ComputeNextRunAt(runAt, row.frequency)]

\* The actor turns to the next schedule of its batch.
Leave(a) == /\ checked' = [checked EXCEPT ![a] = None]
            /\ batch' = [w \in Workers |-> IF w = a THEN batch[w] \ {checked[a]}
                                           ELSE batch[w]]

\* The transaction: the copied invoice, which is the newest template from now
\* on, and the schedule's dates.
RunCommits(a) ==
    /\ checked[a] # None
    /\ Exists(checked[a])
    /\ schedule' = [schedule EXCEPT ![checked[a]] = Marked(@, now)]
    /\ template' = [template EXCEPT ![checked[a]] = TRUE]
    /\ billed' = [w \in Workers |-> IF w = a
                    THEN [billed[w] EXCEPT ![checked[a]] = now] ELSE billed[w]]
    /\ Leave(a)
    /\ UNCHANGED <<now, client, room, phase, events>>

\* The transaction rolls back: the schedule is gone (the invoice would refer to
\* it), or a number is taken, a time limit is passed, the connection is lost.
RunFails(a) ==
    /\ checked[a] # None
    /\ \/ /\ ~Exists(checked[a])
          /\ UNCHANGED events
       \/ Event
    /\ Leave(a)
    /\ UNCHANGED <<now, schedule, client, template, room, phase, billed>>

----------------------------------------------------------------------------
(* The jobs. *)

\* The in-process interval skips a tick while the last one still runs; any
\* other worker is a different caller, with a batch of its own.
StartJobs(w) ==
    /\ phase[w] = "idle"
    /\ phase' = [phase EXCEPT ![w] = "started"]
    /\ UNCHANGED <<now, schedule, client, template, room, batch, checked, billed, events>>

\* A job that fails before the recurring one ends the whole run.
EarlierJobFails(w) ==
    /\ phase[w] = "started"
    /\ Event
    /\ phase' = [phase EXCEPT ![w] = "idle"]
    /\ UNCHANGED <<now, schedule, client, template, room, batch, checked, billed>>

\* Faulty: the clients of the schedules are not looked at.
DueAnyClient == {s \in Schedules : /\ schedule[s].status = "active"
                                   /\ schedule[s].nextRunAt <= now}

\* The schedules processDueRecurringSchedules looks for.
Due == {s \in Schedules : /\ schedule[s].status = "active"
                          /\ schedule[s].nextRunAt <= now
                          /\ client[s] = "active"}

\* The Limit longest due; among equal dates, any.
LongestDue(chosen) ==
    /\ chosen \subseteq Due
    /\ Cardinality(chosen) <= Limit
    /\ \A s \in Due \ chosen :
          /\ Cardinality(chosen) = Limit
          /\ \A t \in chosen : schedule[t].nextRunAt <= schedule[s].nextRunAt

ListDue(w) ==
    /\ phase[w] = "started"
    /\ \E chosen \in SUBSET Due :
          /\ LongestDue(chosen)
          /\ batch' = [batch EXCEPT ![w] = chosen]
    /\ phase' = [phase EXCEPT ![w] = "listed"]
    /\ UNCHANGED <<now, schedule, client, template, room, checked, billed, events>>

\* The worker passes the checks of one of its schedules (in any order here; the
\* code goes by their dates as they were) ...
CheckRun(w) ==
    /\ checked[w] = None
    /\ \E s \in batch[w] : /\ MayRun(s)
                           /\ checked' = [checked EXCEPT ![w] = s]
    /\ UNCHANGED <<now, schedule, client, template, room, phase, batch, billed, events>>

\* ... or the schedule is refused: the error is noted, the loop goes on, and the
\* schedule is as due as before.
RefuseRun(w) ==
    /\ checked[w] = None
    /\ \E s \in batch[w] : /\ ~MayRun(s)
                           /\ batch' = [batch EXCEPT ![w] = @ \ {s}]
    /\ UNCHANGED <<now, schedule, client, template, room, phase, checked, billed, events>>

FinishJobs(w) ==
    /\ phase[w] = "listed"
    /\ batch[w] = {}
    /\ phase' = [phase EXCEPT ![w] = "idle"]
    /\ UNCHANGED <<now, schedule, client, template, room, batch, checked, billed, events>>

\* The process dies: its list is gone and an open transaction rolls back.
Crash(w) ==
    /\ phase[w] # "idle"
    /\ Event
    /\ phase' = [phase EXCEPT ![w] = "idle"]
    /\ batch' = [batch EXCEPT ![w] = {}]
    /\ checked' = [checked EXCEPT ![w] = None]
    /\ UNCHANGED <<now, schedule, client, template, room, billed>>

JobStep(w) == \/ ListDue(w) \/ CheckRun(w) \/ RefuseRun(w) \/ RunCommits(w)
              \/ RunFails(w) \/ FinishJobs(w)

----------------------------------------------------------------------------
(* The owners. *)

\* What workers did to s before no longer says when it is due.
Forget(s) == billed' = [w \in Workers |-> [billed[w] EXCEPT ![s] = Never]]

\* runRecurringSchedule: the same run, at any time.
CheckManualRun(r) ==
    /\ checked[r] = None
    /\ \E s \in Schedules : /\ MayRun(s)
                            /\ checked' = [checked EXCEPT ![r] = s]
    /\ Event
    /\ UNCHANGED <<now, schedule, client, template, room, phase, batch, billed>>

\* How many schedules the plan allows is not modelled: the owner may have one more.
CreateSchedule(s) ==
    /\ schedule[s].status = "absent"
    /\ client[s] = "active"
    /\ \E status \in {"active", "inactive"}, frequency \in Periods, start \in Times :
          schedule' = [schedule EXCEPT ![s] = NewRow(status, frequency, start)]
    /\ Event
    /\ UNCHANGED <<now, client, template, room, jobVars, billed>>

UpdateSchedule(s) ==
    /\ Exists(s)
    /\ client[s] = "active"
    /\ \E frequency \in Periods, start \in Times \cup {schedule[s].nextRunAt} :
          schedule' = [schedule EXCEPT ![s] = NewRow(@.status, frequency, start)]
    /\ Forget(s)
    /\ Event
    /\ UNCHANGED <<now, client, template, room, jobVars>>

\* Faulty: no assertClientBillable.
ActivateUnchecked(s) ==
    /\ schedule[s].status = "inactive"
    /\ schedule' = [schedule EXCEPT ![s].status = "active"]
    /\ Forget(s)
    /\ Event
    /\ UNCHANGED <<now, client, template, room, jobVars>>

\* updateRecurringStatus to active; nextRunAt stays, in the past if it was.
Activate(s) ==
    /\ schedule[s].status = "inactive"
    /\ client[s] = "active"
    /\ schedule' = [schedule EXCEPT ![s].status = "active"]
    /\ Forget(s)
    /\ Event
    /\ UNCHANGED <<now, client, template, room, jobVars>>

Deactivate(s) ==
    /\ schedule[s].status = "active"
    /\ schedule' = [schedule EXCEPT ![s].status = "inactive"]
    /\ Event
    /\ UNCHANGED <<now, client, template, room, jobVars, billed>>

\* Only without linked invoices; a job may still have it in its list.
DeleteSchedule(s) ==
    /\ Exists(s)
    /\ ~template[s]
    /\ schedule' = [schedule EXCEPT ![s].status = "deleted"]
    /\ Event
    /\ UNCHANGED <<now, client, template, room, jobVars, billed>>

\* createInvoice with a recurringId, for the schedule's client.
LinkInvoice(s) ==
    /\ Exists(s)
    /\ client[s] = "active"
    /\ room[s]
    /\ template' = [template EXCEPT ![s] = TRUE]
    /\ Event
    /\ UNCHANGED <<now, schedule, client, room, jobVars, billed>>

\* deleteInvoice takes the last linked invoice away.
DeleteLinkedInvoices(s) ==
    /\ template[s]
    /\ template' = [template EXCEPT ![s] = FALSE]
    /\ Event
    /\ UNCHANGED <<now, schedule, client, room, jobVars, billed>>

\* updateClientStatus: schedules are not looked at.
UpdateClientStatus(s) ==
    /\ client[s] # "deleted"
    /\ client' = [client EXCEPT ![s] = IF @ = "active" THEN "inactive" ELSE "active"]
    /\ Event
    /\ UNCHANGED <<now, schedule, template, room, jobVars, billed>>

DeleteClient(s) ==
    /\ client[s] # "deleted"
    /\ schedule[s].status # "active"
    /\ client' = [client EXCEPT ![s] = "deleted"]
    /\ Event
    /\ UNCHANGED <<now, schedule, template, room, jobVars, billed>>

\* restoreClient, and createClient with a deleted client's e-mail address.
RestoreClient(s) ==
    /\ client[s] = "deleted"
    /\ client' = [client EXCEPT ![s] = "active"]
    /\ Event
    /\ UNCHANGED <<now, schedule, template, room, jobVars, billed>>

\* Invoices of the month used up, a new month, another plan.
RoomChanges(s) ==
    /\ room' = [room EXCEPT ![s] = ~@]
    /\ Event
    /\ UNCHANGED <<now, schedule, client, template, jobVars, billed>>

TimePasses ==
    /\ now < MaxTime
    /\ now' = now + 1
    /\ UNCHANGED <<schedule, client, template, room, jobVars, billed, events>>

----------------------------------------------------------------------------
OwnerStep(s) ==
    \/ CreateSchedule(s) \/ UpdateSchedule(s) \/ Activate(s) \/ Deactivate(s)
    \/ DeleteSchedule(s) \/ LinkInvoice(s) \/ DeleteLinkedInvoices(s)
    \/ UpdateClientStatus(s) \/ DeleteClient(s) \/ RestoreClient(s) \/ RoomChanges(s)

Next == \/ \E w \in Workers : StartJobs(w) \/ EarlierJobFails(w) \/ JobStep(w) \/ Crash(w)
        \/ \E r \in Requests : CheckManualRun(r) \/ RunCommits(r) \/ RunFails(r)
        \/ \E s \in Schedules : OwnerStep(s)
        \/ TimePasses

Spec == Init /\ [][Next]_vars

\* Time goes on, setInterval calls tick again and again, and Node runs what has
\* been started.  Nothing is asked of owners or of manual runs.
FairSpec == /\ Spec
            /\ WF_vars(TimePasses)
            /\ WF_vars(StartJobs(Ticker))
            /\ \A w \in Workers : WF_vars(JobStep(w))

----------------------------------------------------------------------------
(* Properties. *)

\* One job process never bills a client twice within a period: each of its runs
\* of a schedule comes a full period after its last one, whatever other workers
\* and manual runs did in between (they bill on their own account, see README),
\* unless the owner has edited or reactivated the schedule.  It rests on the due
\* query, on runAt being the moment of the run, and on dates and invoice being
\* written in one transaction (recurring.service.ts:246-263 and :332-341).
OncePerPeriod ==
    [][\A w \in Workers, s \in Schedules :
          (RunCommits(w) /\ checked[w] = s /\ billed[w][s] # Never)
             => now >= billed[w][s] + schedule[s].frequency]_vars

\* An active schedule's client is not deleted: what deleteClient refuses, and
\* what creation and activation of a schedule must not bring back by the other
\* door (client.service.ts:532-544, recurring.service.ts:71 and :457).
ActiveHasClient ==
    \A s \in Schedules : schedule[s].status = "active" => client[s] # "deleted"

\* Listed before s at every tick, and never run.
Stuck(s) == {t \in Schedules \ {s} : /\ schedule[t].status = "active"
                                     /\ client[t] = "active"
                                     /\ schedule[t].nextRunAt <= schedule[s].nextRunAt
                                     /\ ~(room[t] /\ template[t])}

ReadyAndDue(s) == MayRun(s) /\ schedule[s].nextRunAt <= now

\* A due schedule that could run is run, or stops being one, unless Limit others
\* that cannot are ahead of it in every list (recurring.service.ts:321-360).
ServedUnlessCrowdedOut ==
    \A s \in Schedules :
       []<>~(ReadyAndDue(s) /\ Cardinality(Stuck(s)) < Limit)

\* "Run all active schedules whose nextRunAt is due" (recurring.service.ts:320):
\* no schedule that could run stays due forever.
EveryDueIsRun == \A s \in Schedules : []<>~ReadyAndDue(s)
=============================================================================
