------------------------------ MODULE Accounts ------------------------------
(***************************************************************************)
(* User accounts, their sessions, and what staff may do to them.           *)
(*                                                                         *)
(* A request of a signed-in user passes the gate (requireAuth,             *)
(* requireActiveUser, bootstrapUser, and requireRole on staff routes),     *)
(* then its handler checks the target, writes, and removes sessions; each  *)
(* of these is a query of its own, and the other requests run in between.  *)
(* A request may be cut off between any two steps.                         *)
(*                                                                         *)
(* Better Auth is external: it signs users in and out, and opens sessions  *)
(* of its own accord after a social sign-in or the verification of an      *)
(* address.  Its cookie cache makes getSession accept a cookie for a while *)
(* after the session's row is gone.                                        *)
(***************************************************************************)
EXTENDS Integers, FiniteSets

CONSTANTS Users,        \* people who may ever have an account
          Sessions,     \* session rows that may ever be created
          Registered,   \* those who have one at the start
          Requests,     \* requests in flight
          None,         \* "no user" and "no session"
          MaxRequests   \* bound on the requests and sign-ins that arrive

ASSUME NoneAssumption == None \notin Users \cup Sessions
ASSUME UsersAssumption == IsFiniteSet(Users) /\ Registered \subseteq Users
ASSUME BoundAssumption == MaxRequests \in Nat

VARIABLES
    known, active, deleted, verified,   \* the User rows: existing, isActive, deletedAt, isVerified
    role,
    profiles, subscribers,     \* users with a Business row, with a Subscription row
    owner, live,               \* the user of each session; sessions whose row exists
    cookies,                   \* sessions whose cookie is in a browser
    cached,                    \* of these, without a row but still accepted
    handed,                    \* history: cookies that loginUser has returned
    staffed,                   \* history: those returned to members of the staff
    resetLinks, verifyLinks,   \* users with a link in a mail they have not used
    job,                       \* the requests in flight
    raced,                     \* a write came after its checks had ceased to hold
    interrupted,               \* users whose sessions were to be removed by a request cut off
    arrived

userVars == <<known, active, deleted, verified, role>>
rowVars == <<profiles, subscribers>>
sessionVars == <<owner, live, cookies, cached, handed, staffed>>
linkVars == <<resetLinks, verifyLinks>>
requestVars == <<job, arrived>>
historyVars == <<raced, interrupted>>
vars == <<userVars, rowVars, sessionVars, linkVars, requestVars, historyVars>>

Roles == {"USER", "SUPPORT", "SUPER_ADMIN"}
Steps == {"idle", "bootstrap", "signup", "signedIn", "asked", "allowed", "checked", "revoking"}
Rows == {"business", "subscription"}

\* What a request may ask for.
Ask(op, target, newRole) == [op |-> op, target |-> target, role |-> newRole]
StaffAsks ==
    {Ask(op, u, "USER") : op \in {"activate", "deactivate", "setPlan", "deleteUser", "sendReset"},
                          u \in Users}
    \cup {Ask("setRole", u, newRole) : u \in Users, newRole \in Roles}
OwnAsks ==
    {Ask(op, None, "USER") : op \in {"logout", "revokeOthers", "changePassword", "deleteAccount"}}
    \cup {Ask("revokeSession", s, "USER") : s \in Sessions}
Entry == Ask("enter", None, "USER")        \* loginUser, registerUser
Asks == StaffAsks \cup OwnAsks \cup {Entry}

\* A request: its next step, what it asks, by whom and with what session, and
\* the rows bootstrapUser did not find.
Job(step, what, u, s, rows) ==
    [step |-> step, ask |-> what, actor |-> u, session |-> s, missing |-> rows]
Idle == Job("idle", Entry, None, None, {})
Jobs == [step : Steps, ask : Asks, actor : Users \cup {None},
         session : Sessions \cup {None}, missing : SUBSET Rows]

TypeOK ==
    /\ known \subseteq Users
    /\ active \subseteq known /\ deleted \subseteq known /\ verified \subseteq known
    /\ profiles \subseteq known /\ subscribers \subseteq known
    /\ role \in [Users -> Roles]
    /\ owner \in [Sessions -> Users \cup {None}]
    /\ live \subseteq Sessions /\ cookies \subseteq Sessions
    /\ cached \subseteq cookies \ live
    /\ \A s \in live \cup cookies : owner[s] \in known
    /\ handed \subseteq Sessions /\ staffed \subseteq handed
    /\ resetLinks \subseteq known /\ verifyLinks \subseteq known
    /\ job \in [Requests -> Jobs]
    /\ raced \in BOOLEAN /\ interrupted \subseteq Users
    /\ arrived \in 0 .. MaxRequests

-----------------------------------------------------------------------------
(* Sessions and rows *)

Working == active \ deleted
Staff == {u \in known : role[u] # "USER"}
ActiveAdmins == {u \in Working : role[u] = "SUPER_ADMIN"}
\* Faulty: the count forgets that a disabled or deleted admin cannot sign in.
OtherAdminsAnyStatus(u) == {v \in known \ {u} : role[v] = "SUPER_ADMIN"}
OtherAdmins(u) == ActiveAdmins \ {u}

Unused == {s \in Sessions : owner[s] = None}
LiveOf(u) == {s \in live : owner[s] = u}

\* Better Auth inserts a session; its cookie reaches a browser or not.
OpenSession(u, s, inBrowser) ==
    /\ s \in Unused
    /\ owner' = [owner EXCEPT ![s] = u]
    /\ live' = live \cup {s}
    /\ cookies' = cookies \cup {x \in {s} : inBrowser}

\* session.deleteMany: the rows go, cookies still cached are accepted for a while.
DropSessions(gone) ==
    /\ live' = live \ gone
    /\ cached' = cached \cup (gone \cap cookies)

Missing(u) == {row \in Rows : u \notin IF row = "business" THEN profiles ELSE subscribers}

Op(r) == job[r].ask.op
Target(r) == job[r].ask.target
Actor(r) == job[r].actor

Update(r, new) == job' = [job EXCEPT ![r] = new]
Finish(r) == Update(r, Idle)
Goto(r, step) ==
    Update(r, Job(step, job[r].ask, job[r].actor, job[r].session, job[r].missing))

Arrive == arrived < MaxRequests /\ arrived' = arrived + 1
Start(r) == Arrive /\ job[r] = Idle

-----------------------------------------------------------------------------
(* Signing up, in and out *)

\* registerUser: Better Auth inserts the user and calls the bootstrap hook.
RegisterUser(r) ==
    /\ Start(r)
    /\ \E u \in Users \ known :
        /\ known' = known \cup {u} /\ active' = active \cup {u}
        /\ verifyLinks' = verifyLinks \cup {u}
        /\ Update(r, Job("bootstrap", Entry, u, None, Missing(u)))
    /\ UNCHANGED <<deleted, verified, role, rowVars, sessionVars, resetLinks, historyVars>>

\* ... then it opens a session, and registerUser bootstraps once more.
SignUp(r) ==
    /\ job[r].step = "signup"
    /\ \E s \in Unused :
        /\ OpenSession(Actor(r), s, TRUE)
        /\ Update(r, Job("bootstrap", Entry, Actor(r), s, Missing(Actor(r))))
    /\ UNCHANGED <<userVars, rowVars, cached, handed, staffed, linkVars, arrived, historyVars>>

\* loginUser: Better Auth accepts the password, of disabled users too ...
SignIn(r) ==
    /\ Start(r)
    /\ \E u \in known, s \in Unused :
        /\ OpenSession(u, s, FALSE)
        /\ Update(r, Job("signedIn", Entry, u, s, {}))
    /\ UNCHANGED <<userVars, rowVars, cached, handed, staffed, linkVars, historyVars>>

\* ... and the user is read only now; a refusal leaves the session's row.
ReadUser(r) ==
    /\ job[r].step = "signedIn"
    /\ LET kept == {s \in {job[r].session} : Actor(r) \in Working}
       IN  /\ cookies' = cookies \cup kept
           /\ handed' = handed \cup kept
           /\ staffed' = staffed \cup {s \in kept : Actor(r) \in Staff}
           /\ cached' = cached \cup (kept \ live)
    /\ Finish(r)
    /\ UNCHANGED <<userVars, rowVars, owner, live, linkVars, arrived, historyVars>>

\* A sign-in by a provider or by verifying the address, which this code never sees.
EnterDirectly(u, s) ==
    /\ OpenSession(u, s, TRUE)
    /\ UNCHANGED <<cached, handed, staffed>>

SocialSignIn ==
    /\ Arrive
    /\ \E u \in known, s \in Unused : EnterDirectly(u, s)
    /\ UNCHANGED <<userVars, rowVars, linkVars, job, historyVars>>

VerifyEmail ==
    /\ Arrive
    /\ \E u \in verifyLinks, s \in Unused :
        /\ verified' = verified \cup {u}
        /\ verifyLinks' = verifyLinks \ {u}
        /\ EnterDirectly(u, s)
    /\ UNCHANGED <<known, active, deleted, role, rowVars, resetLinks, job, historyVars>>

ResendVerification ==
    /\ Arrive
    /\ \E u \in Working \ verified : verifyLinks' = verifyLinks \cup {u}
    /\ UNCHANGED <<userVars, rowVars, sessionVars, resetLinks, job, historyVars>>

RequestPasswordReset ==
    /\ Arrive
    /\ \E u \in Working : resetLinks' = resetLinks \cup {u}
    /\ UNCHANGED <<userVars, rowVars, sessionVars, verifyLinks, job, historyVars>>

\* The password is Better Auth's; no session is removed.
ResetPassword ==
    /\ Arrive
    /\ \E u \in resetLinks : resetLinks' = resetLinks \ {u}
    /\ UNCHANGED <<userVars, rowVars, sessionVars, verifyLinks, job, historyVars>>

CacheExpires ==
    /\ \E s \in cached : cached' = cached \ {s}
    /\ UNCHANGED <<userVars, rowVars, owner, live, cookies, handed, staffed, linkVars,
                   requestVars, historyVars>>

-----------------------------------------------------------------------------
(* The gate *)

\* requireAuth, requireActiveUser, and what bootstrapUser finds: both rows,
\* unless the user is new.
Gate(r) ==
    /\ Start(r)
    /\ \E s \in cookies \cap (live \cup cached), what \in StaffAsks \cup OwnAsks :
        LET u == owner[s]
        IN  /\ u \in Working
            /\ Update(r, Job(IF Missing(u) = {} THEN "asked" ELSE "bootstrap",
                              what, u, s, Missing(u)))
    /\ UNCHANGED <<userVars, rowVars, sessionVars, linkVars, historyVars>>

\* A registration goes on, any other request goes to its handler.
AfterBootstrap(r) ==
    IF Op(r) # "enter" THEN Goto(r, "asked")
    ELSE IF job[r].session = None THEN Goto(r, "signup")
    ELSE Finish(r)

\* The rows written by a request whose transaction commits.
AddRows(u, rows) ==
    /\ profiles' = profiles \cup {x \in {u} : "business" \in rows}
    /\ subscribers' = subscribers \cup {x \in {u} : "subscription" \in rows}

\* Faulty: two statements instead of one transaction, the second may be lost.
BootstrapInTwoStatements(r) ==
    /\ job[r].step = "bootstrap"
    /\ \E rows \in {job[r].missing, job[r].missing \ {"subscription"}} :
        AddRows(Actor(r), rows)
    /\ AfterBootstrap(r)
    /\ UNCHANGED <<userVars, sessionVars, linkVars, arrived, historyVars>>

\* Both rows in one transaction; if another request has inserted one of them
\* since, the UNIQUE key undoes it, which is tolerated.
Bootstrap(r) ==
    /\ job[r].step = "bootstrap"
    /\ AddRows(Actor(r), IF job[r].missing \subseteq Missing(Actor(r)) THEN job[r].missing ELSE {})
    /\ AfterBootstrap(r)
    /\ UNCHANGED <<userVars, sessionVars, linkVars, arrived, historyVars>>

\* requireRole and assertCapability: SUPPORT may only trigger a reset mail.
RequireRole(r) ==
    /\ job[r].step = "asked" /\ job[r].ask \in StaffAsks
    /\ IF /\ Actor(r) \in Working
          /\ \/ role[Actor(r)] = "SUPER_ADMIN"
             \/ role[Actor(r)] = "SUPPORT" /\ Op(r) = "sendReset"
       THEN Goto(r, "allowed") ELSE Finish(r)
    /\ UNCHANGED <<userVars, rowVars, sessionVars, linkVars, arrived, historyVars>>

-----------------------------------------------------------------------------
(* What the handlers check before they write *)

Exists(u) == u \in known \ deleted

\* updateUserStatus, deleteUser: super admins are protected.
\* Faulty: the check of deletedAt is forgotten.
StatusMayChangeIfKnown(u, on) ==
    u \in known /\ role[u] # "SUPER_ADMIN" /\ (u \in active <=> ~on)
StatusMayChange(u, on) ==
    Exists(u) /\ role[u] # "SUPER_ADMIN" /\ (u \in active <=> ~on)

\* updateUserRole: the last active super admin is never demoted.
RoleMayChange(u, newRole) ==
    /\ Exists(u) /\ role[u] # newRole
    /\ role[u] = "SUPER_ADMIN" => OtherAdmins(u) # {}

\* updateUserPlan.
\* Faulty: a plan is given to whatever id is asked for.
PlanMayChangeForAnyone(u) == u \notin deleted
PlanMayChange(u) == Exists(u)

\* deleteAccount: the last super admin stays.
MayLeave(u) == role[u] = "SUPER_ADMIN" => Cardinality(ActiveAdmins) > 1

Permitted(r) ==
    LET u == Target(r)
    IN  \/ Op(r) = "activate" /\ u # Actor(r) /\ StatusMayChange(u, TRUE)
        \/ Op(r) = "deactivate" /\ u # Actor(r) /\ StatusMayChange(u, FALSE)
        \/ Op(r) = "setRole" /\ u # Actor(r) /\ RoleMayChange(u, job[r].ask.role)
        \/ Op(r) = "deleteUser" /\ u # Actor(r) /\ Exists(u) /\ role[u] # "SUPER_ADMIN"
        \/ Op(r) = "setPlan" /\ PlanMayChange(u)
        \/ Op(r) = "deleteAccount" /\ MayLeave(Actor(r))

Checks(r) ==
    \/ job[r].step = "allowed" /\ Op(r) # "sendReset"
    \/ job[r].step = "asked" /\ Op(r) = "deleteAccount"

\* deleteAccount checks a password by signing in, and leaves the session behind.
Check(r) ==
    /\ Checks(r)
    /\ IF Permitted(r) THEN Goto(r, "checked") ELSE Finish(r)
    /\ \/ UNCHANGED <<owner, live, cookies>>
       \/ /\ Op(r) = "deleteAccount" /\ Permitted(r)
          /\ \E s \in Unused : OpenSession(Actor(r), s, FALSE)
    /\ UNCHANGED <<userVars, rowVars, cached, handed, staffed, linkVars, arrived, historyVars>>

-----------------------------------------------------------------------------
(* What they write *)

\* The write does not look again; `raced` notes that the checks no longer hold.
Writes(r, ops) ==
    /\ job[r].step = "checked" /\ Op(r) \in ops
    /\ raced' = (raced \/ ~Permitted(r))

Subject(r) == IF Op(r) = "deleteAccount" THEN Actor(r) ELSE Target(r)

UpdateStatus(r) ==
    /\ Writes(r, {"activate", "deactivate"})
    /\ active' = IF Op(r) = "activate" THEN active \cup {Target(r)}
                                            ELSE active \ {Target(r)}
    /\ IF Op(r) = "activate" THEN Finish(r) ELSE Goto(r, "revoking")
    /\ UNCHANGED <<known, deleted, verified, role, rowVars, sessionVars, linkVars, arrived, interrupted>>

\* Faulty: only a demoted super admin has to sign in again.
UpdateRoleRevokesAdmins(r) ==
    /\ Writes(r, {"setRole"})
    /\ role' = [role EXCEPT ![Target(r)] = job[r].ask.role]
    /\ IF role[Target(r)] = "SUPER_ADMIN" /\ job[r].ask.role = "USER"
       THEN Goto(r, "revoking") ELSE Finish(r)
    /\ UNCHANGED <<known, active, deleted, verified, rowVars, sessionVars, linkVars, arrived, interrupted>>

\* Sessions go when the new role is USER (the old one was not: no-ops are refused).
UpdateRole(r) ==
    /\ Writes(r, {"setRole"})
    /\ role' = [role EXCEPT ![Target(r)] = job[r].ask.role]
    /\ IF job[r].ask.role = "USER" THEN Goto(r, "revoking") ELSE Finish(r)
    /\ UNCHANGED <<known, active, deleted, verified, rowVars, sessionVars, linkVars, arrived, interrupted>>

\* The upsert creates a missing Subscription row, without the Business row.
UpdatePlan(r) ==
    /\ job[r].step = "checked" /\ Op(r) = "setPlan"
    /\ subscribers' = subscribers \cup {Target(r)}
    /\ Finish(r)
    /\ UNCHANGED <<userVars, profiles, sessionVars, linkVars, arrived, historyVars>>

\* The user and the sessions in one transaction.
DeleteUser(r) ==
    /\ Writes(r, {"deleteUser"})
    /\ active' = active \ {Target(r)} /\ deleted' = deleted \cup {Target(r)}
    /\ DropSessions(LiveOf(Target(r)))
    /\ interrupted' = interrupted \ {Target(r)}
    /\ Finish(r)
    /\ UNCHANGED <<known, verified, role, rowVars, owner, cookies, handed, staffed, linkVars, arrived>>

DeleteAccount(r) ==
    /\ Writes(r, {"deleteAccount"})
    /\ active' = active \ {Actor(r)} /\ deleted' = deleted \cup {Actor(r)}
    /\ Goto(r, "revoking")
    /\ UNCHANGED <<known, verified, role, rowVars, sessionVars, linkVars, arrived, interrupted>>

\* session.deleteMany after the user's row was written; whoever deletes their
\* own account also loses the cookie.
Revoke(r) ==
    /\ job[r].step = "revoking"
    /\ LET signedOut == {s \in {job[r].session} : Op(r) = "deleteAccount"}
       IN  /\ live' = live \ LiveOf(Subject(r))
           /\ cookies' = cookies \ signedOut
           /\ cached' = (cached \cup (LiveOf(Subject(r)) \cap cookies)) \ signedOut
    /\ interrupted' = interrupted \ {Subject(r)}
    /\ Finish(r)
    /\ UNCHANGED <<userVars, rowVars, owner, handed, staffed, linkVars, arrived, raced>>

TriggerPasswordReset(r) ==
    /\ job[r].step = "allowed" /\ Op(r) = "sendReset"
    /\ resetLinks' = resetLinks \cup ({Target(r)} \cap Working)
    /\ Finish(r)
    /\ UNCHANGED <<userVars, rowVars, sessionVars, verifyLinks, arrived, historyVars>>

\* Users end sessions of their own: one of them, or all but this one.
EndsSessions(r, op, gone) ==
    /\ job[r].step = "asked" /\ Op(r) = op
    /\ DropSessions(gone)
    /\ Finish(r)
    /\ UNCHANGED <<userVars, rowVars, owner, cookies, handed, staffed, linkVars,
                   arrived, historyVars>>

RevokeSessionById(r) ==
    EndsSessions(r, "revokeSession", LiveOf(Actor(r)) \cap {Target(r)})
RevokeOtherSessions(r) ==
    EndsSessions(r, "revokeOthers", LiveOf(Actor(r)) \ {job[r].session})
\* Better Auth ends the others unless the caller says not to.
ChangePassword(r) ==
    \E others \in {{}, LiveOf(Actor(r)) \ {job[r].session}} :
        EndsSessions(r, "changePassword", others)

\* The cookie goes with the session.
LogoutUser(r) ==
    /\ job[r].step = "asked" /\ Op(r) = "logout"
    /\ live' = live \ {job[r].session}
    /\ cookies' = cookies \ {job[r].session} /\ cached' = cached \ {job[r].session}
    /\ Finish(r)
    /\ UNCHANGED <<userVars, rowVars, owner, handed, staffed, linkVars, arrived, historyVars>>

\* A request is cut off: a lost connection, a failed query, a killed process.
CutOff(r) ==
    /\ job[r].step # "idle"
    /\ interrupted' = interrupted \cup {u \in {Subject(r)} : job[r].step = "revoking"}
    /\ Finish(r)
    /\ UNCHANGED <<userVars, rowVars, sessionVars, linkVars, arrived, raced>>

-----------------------------------------------------------------------------

\* Some users are registered, whoever of them is active has signed in, and one
\* is an active super admin (the seed script makes the first).
Init ==
    /\ known = Registered
    /\ active \in SUBSET known
    /\ deleted = {} /\ verified = {}
    /\ role \in [Users -> Roles]
    /\ \A u \in Users \ known : role[u] = "USER"
    /\ ActiveAdmins # {}
    /\ profiles = known /\ subscribers = known
    /\ owner \in [Sessions -> active \cup {None}]
    /\ \A u \in active : \E s \in Sessions : {x \in Sessions : owner[x] = u} = {s}
    /\ live = Sessions \ Unused /\ cookies = live /\ handed = live
    /\ staffed = {s \in live : role[owner[s]] # "USER"}
    /\ cached = {} /\ resetLinks = {} /\ verifyLinks = {}
    /\ job = [r \in Requests |-> Idle]
    /\ raced = FALSE /\ interrupted = {} /\ arrived = 0

UserStep(r) ==
    \/ RegisterUser(r) \/ SignUp(r) \/ SignIn(r) \/ ReadUser(r)
    \/ Gate(r) \/ Bootstrap(r)
    \/ RevokeSessionById(r) \/ RevokeOtherSessions(r) \/ ChangePassword(r) \/ LogoutUser(r)
StaffStep(r) ==
    \/ RequireRole(r) \/ Check(r)
    \/ UpdateStatus(r) \/ UpdateRole(r) \/ UpdatePlan(r)
    \/ DeleteUser(r) \/ DeleteAccount(r) \/ Revoke(r)
    \/ TriggerPasswordReset(r)
Outside ==
    \/ SocialSignIn \/ VerifyEmail \/ ResendVerification
    \/ RequestPasswordReset \/ ResetPassword \/ CacheExpires

Next ==
    \/ \E r \in Requests : UserStep(r) \/ StaffStep(r) \/ CutOff(r)
    \/ Outside

Spec == Init /\ [][Next]_vars

-----------------------------------------------------------------------------
(* What the admin pages show *)

Listed(status) ==
    CASE status = "active" -> active \ deleted
      [] status = "inactive" -> (known \ active) \ deleted
      [] status = "deleted" -> deleted

\* The figures of getPlatformStats about users.
Total == Cardinality(known)
Deleted == Cardinality(deleted)
\* Faulty: a deleted user who is still active counts as active.
ActiveByFlag == Cardinality(active)
Active == Cardinality(active \ deleted)
UsersByRole(x) == Cardinality({u \in known \ deleted : role[u] = x})

-----------------------------------------------------------------------------
(* Properties *)

\* There is always a super admin who can sign in, unless a write came after
\* its checks had ceased to hold (updateUserRole, updateUserStatus, deleteUser
\* and deleteAccount, in any order, with disabled users promoted in between).
AdminRemains == raced \/ ActiveAdmins # {}

\* A deleted user is inactive, with the same exception: an activation that
\* overlaps the deletion.
DeletedIsInactive == raced \/ active \cap deleted = {}

\* What a session's owner was when loginUser returned its cookie, and is no
\* longer: active, or a member of the staff.
Outranked(s) == \/ owner[s] \notin Working
                \/ s \in staffed /\ owner[s] \notin Staff
BeingRevoked(u) == \E r \in Requests : job[r].step = "revoking" /\ Subject(r) = u

\* However a sign-in overlaps with it, no session that loginUser returned
\* outlives its owner's deactivation, deletion or demotion to USER, unless the
\* request was cut off before it could remove them.
LostRightsEndSessions ==
    \A s \in live \cap handed :
        Outranked(s) => owner[s] \in interrupted \/ BeingRevoked(owner[s])

\* A profile never comes without a subscription, and whoever is past the gate
\* has a subscription, however several first requests and a change of plan
\* overlap (ensureUserBootstrapped tolerates the UNIQUE key).
WorkspaceWhole ==
    /\ profiles \subseteq subscribers
    /\ \A r \in Requests : job[r].step \in {"asked", "allowed", "checked"} => Actor(r) \in subscribers

\* The platform figures and the filters of the list of users agree, also for a
\* user left deleted and active by an overlap.
StatsAgree ==
    /\ Active = Cardinality(Listed("active"))
    /\ Total = Active + Cardinality(Listed("inactive")) + Deleted
    /\ UsersByRole("USER") + UsersByRole("SUPPORT") + UsersByRole("SUPER_ADMIN") = Total - Deleted
=============================================================================
