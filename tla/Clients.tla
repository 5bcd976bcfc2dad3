------------------------------- MODULE Clients -------------------------------
(***************************************************************************)
(* The clients of a user, their portal links, and the limit that the       *)
(* user's plan sets to their number; with the module Subscriptions, which  *)
(* changes the plan meanwhile.                                             *)
(*                                                                         *)
(* Each request reads, decides and writes in separate queries.  The        *)
(* database refuses two rows of one user with the same email, soft-deleted *)
(* ones included.                                                          *)
(***************************************************************************)
EXTENDS Subscriptions

CONSTANTS ClientIds,
          Emails,
          Limit      \* PLAN_LIMITS: maxClients of each plan

ASSUME ClientAssumption == None \notin ClientIds \cup Emails
ASSUME LimitAssumption == Limit \in [Plans -> Nat \ {0}]
ASSUME FiniteAssumption == IsFiniteSet(ClientIds) /\ IsFiniteSet(Requests) /\ Requests # {}

VARIABLES
    clients,   \* the Client rows; no email where there is none yet
    issued,    \* the portal tokens handed out so far
    work,      \* the requests in flight
    peak,      \* history: the highest limit the user's plan has set
    mixed      \* history: the clients that a request wrote which had read an older row

clientVars == <<clients, issued, work, mixed>>
vars == <<billingVars, clientVars, peak>>

\* Token 0 is none.
Rows == [email : Emails \cup {None}, active : BOOLEAN, deleted : BOOLEAN,
         enabled : BOOLEAN, token : Nat]
NoRow == [email |-> None, active |-> FALSE, deleted |-> FALSE, enabled |-> FALSE, token |-> 0]

\* portalEnabled of the input: true, false or not given.
Portal == {"on", "off", "keep"}

\* A request: its next step, the client it has read and whether that had a
\* token (or was active, for a change of status), the email, if given, and
\* portalEnabled of its input, and whether the row or the email was written since.
Work(step, client, had, email, portal) ==
    [step |-> step, client |-> client, had |-> had, email |-> email,
     portal |-> portal, stale |-> FALSE]
NoWork == Work("idle", None, FALSE, None, "keep")
WorkSteps == {"idle", "searching", "restoring", "comparing", "inserting", "renaming", "updating",
              "switching", "counting", "matching", "reviving", "renewing", "deleting"}
Works == [step : WorkSteps, client : ClientIds \cup {None}, had : BOOLEAN,
          email : Emails \cup {None}, portal : Portal, stale : BOOLEAN]

TypeOK ==
    /\ BillingTypes
    /\ clients \in [ClientIds -> Rows]
    /\ issued \in Nat
    /\ work \in [Requests -> Works]
    /\ peak \in Nat
    /\ mixed \subseteq ClientIds

-----------------------------------------------------------------------------

Doing(q, step) == work[q].step = step
Begin(q) == Spend("clients") /\ work[q] = NoWork
Continue(q, new) == work' = [work EXCEPT ![q] = new]
Leave(q) == Continue(q, NoWork)

Exists(c) == clients[c].email # None
Alive(c) == Exists(c) /\ ~clients[c].deleted

\* getUsageSnapshot and assertWithinPlanLimits; the two queries at once.
InUse == {c \in ClientIds : Alive(c)}
\* Faulty: one more.
WithinLimitAndOne == Cardinality(InUse) <= Limit[row.plan]
WithinLimit == Cardinality(InUse) < Limit[row.plan]

\* assertUniqueClientEmail: only rows that are not deleted.
Taken(email, except) == \E c \in ClientIds \ {except} : Alive(c) /\ clients[c].email = email

\* The row of c becomes `new` if the database lets it, which ends the request;
\* what the others have read of it is stale.
Write(q, c, new) ==
    IF \E d \in ClientIds \ {c} : clients[d].email = new.email
    THEN Leave(q) /\ UNCHANGED <<clients, issued, mixed>>
    ELSE /\ clients' = [clients EXCEPT ![c] = new]
         /\ issued' = IF new.token > issued THEN new.token ELSE issued
         /\ mixed' = IF work[q].stale /\ work[q].client = c THEN mixed \cup {c} ELSE mixed
         /\ work' = [p \in Requests |->
              IF p = q THEN NoWork
              ELSE IF work[p].client = c \/ work[p].email \in {clients[c].email, new.email} \ {None}
              THEN [work[p] EXCEPT !.stale = TRUE] ELSE work[p]]

\* Faulty: updating never makes a token.
WithPortalOfCreated(old, portal, had) ==
    [old EXCEPT !.enabled = IF portal = "keep" THEN @ ELSE portal = "on",
                !.token = IF portal = "off" THEN 0 ELSE IF had THEN @ ELSE 0]

\* portalEnabled and the token as updateClient and createClient write them.
WithPortal(old, portal, had) ==
    [old EXCEPT !.enabled = IF portal = "keep" THEN @ ELSE portal = "on",
                !.token = IF portal = "on" /\ ~had THEN issued + 1
                          ELSE IF portal = "off" THEN 0 ELSE @]

-----------------------------------------------------------------------------
(* Creation *)

\* createClient: the limit first ...
CreateClient(q) ==
    /\ Begin(q)
    /\ WithinLimit
    /\ \E email \in Emails, portal \in Portal :
        Continue(q, Work("searching", None, FALSE, email, portal))
    /\ UNCHANGED <<clients, issued, mixed>>

\* Faulty: a deleted client of that email is not looked for.
FindNothing(q) ==
    /\ Doing(q, "searching")
    /\ Continue(q, Work("comparing", None, FALSE, work[q].email, work[q].portal))
    /\ UNCHANGED <<clients, issued, mixed, left>>

\* ... a deleted client of that email is to be restored ...
FindSoftDeleted(q) ==
    /\ Doing(q, "searching")
    /\ LET email == work[q].email
           found == {c \in ClientIds : clients[c].deleted /\ clients[c].email = email}
       IN  \/ \E c \in found :
                Continue(q, Work("restoring", c, clients[c].token # 0, email, work[q].portal))
           \/ found = {} /\ Continue(q, Work("comparing", None, FALSE, email, work[q].portal))
    /\ UNCHANGED <<clients, issued, mixed, left>>

RestoreOnCreate(q) ==
    /\ Doing(q, "restoring")
    /\ LET w == work[q]
       IN  Write(q, w.client, [WithPortal(clients[w.client], w.portal, w.had)
                                 EXCEPT !.email = w.email, !.deleted = FALSE, !.active = TRUE])
    /\ UNCHANGED left

\* ... another one has it: refused ...
CompareEmail(q) ==
    /\ Doing(q, "comparing")
    /\ IF Taken(work[q].email, None) THEN Leave(q)
       ELSE Continue(q, [work[q] EXCEPT !.step = "inserting"])
    /\ UNCHANGED <<clients, issued, mixed, left>>

\* ... and the row.
InsertClient(q) ==
    /\ Doing(q, "inserting")
    /\ \E c \in ClientIds :
        /\ ~Exists(c)
        /\ LET new == [NoRow EXCEPT !.email = work[q].email, !.active = TRUE]
           IN  Write(q, c, WithPortal(new, work[q].portal, FALSE))
    /\ UNCHANGED left

-----------------------------------------------------------------------------
(* Changes of a client: each reads it and checks, then writes *)

ReadClient(q, c, new) ==
    /\ Begin(q)
    /\ Continue(q, new)
    /\ UNCHANGED <<clients, issued, mixed>>

\* updateClient: a new email is compared with the other clients'.
ReadForUpdate(q) == \E c \in ClientIds, email \in Emails \cup {None}, portal \in Portal :
    /\ Alive(c) /\ (email # None \/ portal # "keep")
    /\ LET step == IF email \in {None, clients[c].email} THEN "updating" ELSE "renaming"
       IN  ReadClient(q, c, Work(step, c, clients[c].token # 0, email, portal))

CompareNewEmail(q) ==
    /\ Doing(q, "renaming")
    /\ IF Taken(work[q].email, work[q].client) THEN Leave(q)
       ELSE Continue(q, [work[q] EXCEPT !.step = "updating"])
    /\ UNCHANGED <<clients, issued, mixed, left>>

UpdateClient(q) ==
    /\ Doing(q, "updating")
    /\ LET w == work[q]
       IN  Write(q, w.client, [WithPortal(clients[w.client], w.portal, w.had)
                                 EXCEPT !.email = IF w.email = None THEN @ ELSE w.email])
    /\ UNCHANGED left

\* updateClientStatus: portalEnabled and the token stay, whatever the status.
ReadForStatus(q) == \E c \in ClientIds :
    Alive(c) /\ ReadClient(q, c, Work("switching", c, clients[c].active, None, "keep"))

UpdateClientStatus(q) ==
    /\ Doing(q, "switching")
    /\ Write(q, work[q].client, [clients[work[q].client] EXCEPT !.active = ~work[q].had])
    /\ UNCHANGED left

\* restoreClient: the limit, the email, the row.
ReadForRestore(q) == \E c \in ClientIds :
    /\ Exists(c) /\ clients[c].deleted
    /\ ReadClient(q, c, Work("counting", c, FALSE, clients[c].email, "keep"))

CheckLimit(q) ==
    /\ Doing(q, "counting")
    /\ IF WithinLimit THEN Continue(q, [work[q] EXCEPT !.step = "matching"]) ELSE Leave(q)
    /\ UNCHANGED <<clients, issued, mixed, left>>

MatchEmail(q) ==
    /\ Doing(q, "matching")
    /\ IF Taken(work[q].email, work[q].client) THEN Leave(q)
       ELSE Continue(q, [work[q] EXCEPT !.step = "reviving"])
    /\ UNCHANGED <<clients, issued, mixed, left>>

RestoreClient(q) ==
    /\ Doing(q, "reviving")
    /\ Write(q, work[q].client,
             [clients[work[q].client] EXCEPT !.deleted = FALSE, !.active = TRUE])
    /\ UNCHANGED left

\* regeneratePortalToken
ReadForToken(q) == \E c \in ClientIds :
    /\ Alive(c) /\ clients[c].enabled
    /\ ReadClient(q, c, Work("renewing", c, FALSE, None, "keep"))

\* Faulty: the tokens of deleted clients are used again.
RegenerateFreeToken(q) ==
    /\ Doing(q, "renewing")
    /\ \E t \in 1 .. issued + 1 :
        /\ \A c \in ClientIds : clients[c].token # t
        /\ Write(q, work[q].client, [clients[work[q].client] EXCEPT !.token = t])
    /\ UNCHANGED left

RegeneratePortalToken(q) ==
    /\ Doing(q, "renewing")
    /\ Write(q, work[q].client, [clients[work[q].client] EXCEPT !.token = issued + 1])
    /\ UNCHANGED left

\* deleteClient; it refuses while the client has an active schedule.
ReadForDelete(q) == \E c \in ClientIds :
    Alive(c) /\ ReadClient(q, c, Work("deleting", c, FALSE, None, "keep"))

DeleteClient(q) ==
    /\ Doing(q, "deleting")
    /\ Write(q, work[q].client, [clients[work[q].client] EXCEPT !.deleted = TRUE,
                !.active = FALSE, !.enabled = FALSE, !.token = 0])
    /\ UNCHANGED left

\* A request is cut off.
BreakOff(q) ==
    /\ work[q] # NoWork
    /\ Leave(q)
    /\ UNCHANGED <<clients, issued, mixed, left>>

-----------------------------------------------------------------------------
(* What is shown *)

\* listClients
Listed(status) ==
    {c \in ClientIds : /\ Exists(c)
                       /\ clients[c].deleted <=> status = "deleted"
                       /\ status = "active" => clients[c].active
                       /\ status = "inactive" => ~clients[c].active}

\* getClientStats
Stats == [active |-> Cardinality(Listed("active")), inactive |-> Cardinality(Listed("inactive")),
          withPortal |-> Cardinality({c \in InUse : clients[c].enabled})]

\* getClientPortalLink, and resolvePortalClient of the link; no link is 0.
LinkOf(c) == IF Alive(c) /\ clients[c].active /\ clients[c].enabled THEN clients[c].token ELSE 0
Resolve(token) ==
    {c \in ClientIds : /\ token # 0 /\ clients[c].token = token
                       /\ clients[c].enabled /\ ~clients[c].deleted /\ clients[c].active}

-----------------------------------------------------------------------------

\* A user without clients, or with one that has its link or was deleted.
ClientsInit ==
    /\ \/ clients = [c \in ClientIds |-> NoRow] /\ issued = 0
       \/ \E c \in ClientIds, email \in Emails :
            LET linked == [email |-> email, active |-> TRUE, deleted |-> FALSE,
                           enabled |-> TRUE, token |-> 1]
                deleted == [NoRow EXCEPT !.email = email, !.deleted = TRUE]
            IN  /\ issued = 1
                /\ \E old \in {linked, deleted} :
                      clients = [d \in ClientIds |-> IF d = c THEN old ELSE NoRow]
    /\ work = [q \in Requests |-> NoWork]
    /\ mixed = {}

Init == BillingInit /\ ClientsInit /\ peak = Limit[row.plan]

Creation(q) ==
    CreateClient(q) \/ FindSoftDeleted(q) \/ RestoreOnCreate(q) \/ CompareEmail(q) \/ InsertClient(q)
Change(q) ==
    \/ ReadForUpdate(q) \/ CompareNewEmail(q) \/ UpdateClient(q)
    \/ ReadForStatus(q) \/ UpdateClientStatus(q)
    \/ ReadForRestore(q) \/ CheckLimit(q) \/ MatchEmail(q) \/ RestoreClient(q)
    \/ ReadForToken(q) \/ RegeneratePortalToken(q)
    \/ ReadForDelete(q) \/ DeleteClient(q)

ClientStep ==
    /\ \E q \in Requests : Creation(q) \/ Change(q) \/ BreakOff(q)
    /\ UNCHANGED <<row, stripeVars, historyVars, log, reminders, today, task, raced, byStaff, peak>>

BillingStep ==
    /\ BillingNext
    /\ peak' = IF Limit[row'.plan] > peak THEN Limit[row'.plan] ELSE peak
    /\ UNCHANGED clientVars

Next == BillingStep \/ ClientStep

Spec == Init /\ [][Next]_vars

-----------------------------------------------------------------------------
(* Properties *)

\* Requests that overlap exceed the limit of the plan (assertWithinPlanLimits
\* is not repeated), but never by more than the others that overlap with one;
\* clients kept after the plan was lowered count by the limit they had.
OverrunBounded == Stats.active + Stats.inactive <= peak + Cardinality(Requests) - 1

\* A portal token that a client has lost, by a new one, with its portal or by
\* its deletion, is never in force again, whatever overlaps and is restored:
\* a client's token changes only to none or to one that nobody has had.
RevokedLinksStayDead ==
    [][\A c \in ClientIds : clients'[c].token \notin {clients[c].token, 0} =>
          /\ clients'[c].token > issued
          /\ \A d \in ClientIds \ {c} : clients'[d].token # clients'[c].token]_vars

\* createClient meets the key of the database, (userId, email), only if that
\* email was written after it had looked for it: a deleted client is restored
\* and another one is refused before.
NoCollision ==
    \A q \in Requests, c \in ClientIds :
        Doing(q, "inserting") /\ clients[c].email = work[q].email => work[q].stale

\* The link given for an active client whose portal is on opens the portal of
\* that client and of no other, unless a request wrote the client that had
\* read it before the last write.
EnabledHasLink ==
    \A c \in Listed("active") \ mixed : clients[c].enabled => Resolve(LinkOf(c)) = {c}
=============================================================================
