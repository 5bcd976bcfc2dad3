--------------------------- MODULE Accounts_proofs ---------------------------
(***************************************************************************)
(* Theorems about Accounts, for any users, sessions and requests in        *)
(* flight, and any number of requests.                                     *)
(***************************************************************************)
EXTENDS Accounts, FiniteSetTheorems, TLAPS

-----------------------------------------------------------------------------
(* What a step does to the requests in flight *)

\* A request made of proper parts is a proper request.
LEMMA JobParts ==
    ASSUME NEW step \in Steps, NEW what \in Asks, NEW u \in Users \cup {None},
           NEW s \in Sessions \cup {None}, NEW rows \in SUBSET Rows
    PROVE  Job(step, what, u, s, rows) \in Jobs
  BY DEF Job, Jobs

LEMMA IdleIsJob == Idle \in Jobs
<1>1. "idle" \in Steps /\ Entry \in Asks /\ {} \in SUBSET Rows
  BY DEF Steps, Asks
<1> QED
  BY <1>1, JobParts DEF Idle

\* Sending a request on, or ending it, writes one proper request.
LEMMA Progress ==
    ASSUME TypeOK, NEW r \in Requests,
           Finish(r) \/ \E step \in Steps : Goto(r, step)
    PROVE  \E j \in Jobs : Update(r, j)
<1>1. CASE Finish(r)
  BY <1>1, IdleIsJob DEF Finish
<1>2. ASSUME NEW step \in Steps, Goto(r, step)
      PROVE  \E j \in Jobs : Update(r, j)
  <2>1. job[r] \in Jobs
    BY DEF TypeOK
  <2>2. Job(step, job[r].ask, job[r].actor, job[r].session, job[r].missing) \in Jobs
    BY <2>1, JobParts DEF Jobs
  <2> QED
    BY <1>2, <2>2 DEF Goto
<1> QED
  BY <1>1, <1>2

\* The four actions that begin something write a proper request, too.
LEMMA Beginnings ==
    ASSUME TypeOK, NEW r \in Requests,
           RegisterUser(r) \/ SignUp(r) \/ SignIn(r) \/ Gate(r)
    PROVE  \E j \in Jobs : Update(r, j)
<1>1. /\ Entry \in Asks /\ StaffAsks \cup OwnAsks \subseteq Asks
      /\ \A u : Missing(u) \in SUBSET Rows
      /\ {} \in SUBSET Rows
      /\ {"bootstrap", "signedIn", "asked"} \subseteq Steps
  BY DEF Asks, Missing, Steps
<1>2. job[r] \in Jobs
  BY DEF TypeOK
<1>3. CASE RegisterUser(r)
  <2>1. PICK u \in Users : Update(r, Job("bootstrap", Entry, u, None, Missing(u)))
    BY <1>3 DEF RegisterUser
  <2> QED
    BY <1>1, <2>1, JobParts
<1>4. CASE SignUp(r)
  <2>1. PICK s \in Sessions :
          Update(r, Job("bootstrap", Entry, Actor(r), s, Missing(Actor(r))))
    BY <1>4 DEF SignUp, Unused
  <2>2. Actor(r) \in Users \cup {None}
    BY <1>2 DEF Actor, Jobs
  <2> QED
    BY <1>1, <2>1, <2>2, JobParts
<1>5. CASE SignIn(r)
  <2>1. PICK u \in Users, s \in Sessions : Update(r, Job("signedIn", Entry, u, s, {}))
    BY <1>5 DEF SignIn, Unused, TypeOK
  <2> QED
    BY <1>1, <2>1, JobParts
<1>6. CASE Gate(r)
  <2>1. PICK s \in Sessions, what \in StaffAsks \cup OwnAsks, step \in {"asked", "bootstrap"} :
          /\ owner[s] \in Working
          /\ Update(r, Job(step, what, owner[s], s, Missing(owner[s])))
    BY <1>6 DEF Gate, TypeOK
  <2>2. owner[s] \in Users
    BY <2>1 DEF Working, TypeOK
  <2> QED
    BY <1>1, <2>1, <2>2, JobParts
<1> QED
  BY <1>3, <1>4, <1>5, <1>6

\* A step of the system concerns one request, or none.
LEMMA OneRequest ==
    ASSUME TypeOK, [Next]_vars
    PROVE  (\E r \in Requests, j \in Jobs : Update(r, j)) \/ UNCHANGED job
<1>1. \A step \in {"bootstrap", "signup", "asked", "allowed", "checked", "revoking"} :
        step \in Steps
  BY DEF Steps
<1>2. ASSUME NEW r \in Requests, UserStep(r)
      PROVE  \E j \in Jobs : Update(r, j)
  <2>1. CASE RegisterUser(r) \/ SignUp(r) \/ SignIn(r) \/ Gate(r)
    BY <2>1, Beginnings
  <2>2. CASE ReadUser(r)
    BY <2>2, Progress DEF ReadUser
  <2>3. CASE Bootstrap(r)
    BY <1>1, <2>3, Progress DEF Bootstrap, AfterBootstrap
  <2>4. CASE RevokeSessionById(r) \/ RevokeOtherSessions(r) \/ ChangePassword(r)
    BY <2>4, Progress DEF RevokeSessionById, RevokeOtherSessions, ChangePassword, EndsSessions
  <2>5. CASE LogoutUser(r)
    BY <2>5, Progress DEF LogoutUser
  <2> QED
    BY <1>2, <2>1, <2>2, <2>3, <2>4, <2>5 DEF UserStep
<1>3. ASSUME NEW r \in Requests, StaffStep(r) \/ CutOff(r)
      PROVE  \E j \in Jobs : Update(r, j)
  <2>1. Finish(r) \/ \E step \in Steps : Goto(r, step)
    BY <1>1, <1>3 DEF StaffStep, RequireRole, Check, UpdateStatus, UpdateRole, UpdatePlan,
       DeleteUser, DeleteAccount, Revoke, TriggerPasswordReset, CutOff
  <2> QED
    BY <2>1, Progress
<1>4. CASE Outside
  BY <1>4 DEF Outside, SocialSignIn, VerifyEmail, ResendVerification, RequestPasswordReset,
     ResetPassword, CacheExpires, requestVars
<1> QED
  BY <1>2, <1>3, <1>4 DEF Next, vars, requestVars

-----------------------------------------------------------------------------
(* Types *)

\* What a request relies on between its steps: whoever it acts for exists, a
\* user checked exists, and the session of a sign-in is its user's.
JobSound(j) ==
    /\ j.step # "idle" => j.actor \in known
    /\ j.step = "signedIn" => j.session \in Sessions /\ owner[j.session] = j.actor
    /\ j.step \in {"checked", "revoking"} =>
          (IF j.ask.op = "deleteAccount" THEN j.actor ELSE j.ask.target) \in known
JobsSound == \A r \in Requests : JobSound(job[r])
TInv == TypeOK /\ JobsSound

LEMMA Started ==
    ASSUME Init PROVE TInv
<1> USE DEF Init
<1>1. job \in [Requests -> Jobs]
  BY IdleIsJob
<1>2. JobsSound
  BY DEF JobsSound, JobSound, Idle, Job
<1>3. known \subseteq Users /\ active \subseteq known
  BY UsersAssumption
<1>4. owner \in [Sessions -> Users \cup {None}]
  BY <1>3
<1>5. \A s \in live \cup cookies : owner[s] \in known
  BY <1>3, <1>4 DEF Unused
<1>6. arrived \in 0 .. MaxRequests
  BY BoundAssumption
<1>7. live \subseteq Sessions /\ staffed \subseteq handed /\ cached \subseteq cookies \ live
  OBVIOUS
<1> QED
  BY <1>1, <1>2, <1>3, <1>4, <1>5, <1>6, <1>7 DEF TInv, TypeOK

\* The user rows stay proper, and nobody disappears.
UsersProper ==
    /\ known \subseteq known' /\ known' \subseteq Users
    /\ active' \subseteq known' /\ deleted' \subseteq known' /\ verified' \subseteq known'
    /\ role' \in [Users -> Roles]
    /\ resetLinks' \subseteq known' /\ verifyLinks' \subseteq known'
    /\ profiles' \subseteq known' /\ subscribers' \subseteq known'

\* A handler that has checked, or is to remove sessions, has an existing subject.
LEMMA SubjectExists ==
    ASSUME TInv, NEW r \in Requests, job[r].step \in {"checked", "revoking"}
    PROVE  Subject(r) \in known
  BY DEF TInv, JobsSound, JobSound, Subject, Op, Target, Actor

LEMMA UsersKept ==
    ASSUME TInv, [Next]_vars PROVE UsersProper
<1> USE DEF TInv, TypeOK, userVars, rowVars, linkVars, UsersProper
<1>1. CASE UNCHANGED vars
  BY <1>1 DEF vars
<1>2. ASSUME NEW r \in Requests, UserStep(r)
      PROVE  UsersProper
  <2>1. CASE RegisterUser(r)
    BY <2>1 DEF RegisterUser
  <2>2. CASE Bootstrap(r)
    <3>1. Actor(r) \in known
      BY <2>2 DEF Bootstrap, JobsSound, JobSound, Actor
    <3> QED
      BY <2>2, <3>1 DEF Bootstrap, AddRows
  <2>3. CASE SignUp(r) \/ SignIn(r) \/ ReadUser(r) \/ Gate(r) \/ LogoutUser(r)
    BY <2>3 DEF SignUp, SignIn, ReadUser, Gate, LogoutUser
  <2>4. CASE RevokeSessionById(r) \/ RevokeOtherSessions(r) \/ ChangePassword(r)
    BY <2>4 DEF RevokeSessionById, RevokeOtherSessions, ChangePassword, EndsSessions
  <2> QED
    BY <1>2, <2>1, <2>2, <2>3, <2>4 DEF UserStep
<1>3. ASSUME NEW r \in Requests, StaffStep(r) \/ CutOff(r)
      PROVE  UsersProper
  <2>1. job[r] \in Jobs
    OBVIOUS
  <2>2. ASSUME job[r].step = "checked", Op(r) # "deleteAccount"
        PROVE  Target(r) \in known
    BY <2>2, SubjectExists DEF Subject
  <2>3. CASE UpdateStatus(r)
    <3>1. Target(r) \in known
      BY <2>2, <2>3 DEF UpdateStatus, Writes
    <3> QED
      BY <2>3, <3>1 DEF UpdateStatus
  <2>4. CASE UpdateRole(r)
    <3>1. job[r].ask.role \in Roles
      BY <2>1, <2>4 DEF UpdateRole, Writes, Jobs, Asks, StaffAsks, OwnAsks, Entry, Ask, Roles
    <3> QED
      BY <2>4, <3>1 DEF UpdateRole
  <2>5. CASE UpdatePlan(r)
    <3>1. Target(r) \in known
      BY <2>2, <2>5 DEF UpdatePlan
    <3> QED
      BY <2>5, <3>1 DEF UpdatePlan
  <2>6. CASE DeleteUser(r)
    <3>1. Target(r) \in known
      BY <2>2, <2>6 DEF DeleteUser, Writes
    <3> QED
      BY <2>6, <3>1 DEF DeleteUser
  <2>7. CASE DeleteAccount(r)
    <3>1. Actor(r) \in known
      BY <2>7 DEF DeleteAccount, Writes, JobsSound, JobSound, Actor
    <3> QED
      BY <2>7, <3>1 DEF DeleteAccount
  <2>8. CASE RequireRole(r) \/ Check(r) \/ Revoke(r) \/ CutOff(r)
    BY <2>8 DEF RequireRole, Check, Revoke, CutOff
  <2>9. CASE TriggerPasswordReset(r)
    BY <2>9 DEF TriggerPasswordReset, Working
  <2> QED
    BY <1>3, <2>3, <2>4, <2>5, <2>6, <2>7, <2>8, <2>9 DEF StaffStep
<1>4. CASE Outside
  BY <1>4 DEF Outside, SocialSignIn, VerifyEmail, ResendVerification, RequestPasswordReset,
     ResetPassword, CacheExpires, Working
<1> QED
  BY <1>1, <1>2, <1>3, <1>4 DEF Next

\* So do the sessions: a row or a cookie has an owner, and keeps it.
SessionsProper ==
    /\ owner' \in [Sessions -> Users \cup {None}]
    /\ \A s \in Sessions : owner[s] # None => owner'[s] = owner[s]
    /\ live' \subseteq Sessions /\ cookies' \subseteq Sessions
    /\ cached' \subseteq cookies' \ live'
    /\ \A s \in live' \cup cookies' : owner'[s] \in known
    /\ handed' \subseteq Sessions /\ staffed' \subseteq handed'

LEMMA Opened ==
    ASSUME TypeOK, NEW u \in known, NEW s \in Sessions, NEW inBrowser \in BOOLEAN,
           OpenSession(u, s, inBrowser), UNCHANGED <<cached, handed, staffed>>
    PROVE  SessionsProper
<1> USE DEF TypeOK, OpenSession, Unused
<1>1. s \notin live \cup cookies
  BY NoneAssumption
<1>2. owner' \in [Sessions -> Users \cup {None}]
  OBVIOUS
<1>3. \A t \in live' \cup cookies' : owner'[t] \in known
  BY <1>1
<1>4. \A t \in Sessions : owner[t] # None => owner'[t] = owner[t]
  OBVIOUS
<1>5. cached' \subseteq cookies' \ live'
  BY <1>1
<1> QED
  BY <1>2, <1>3, <1>4, <1>5 DEF SessionsProper

LEMMA SessionsKept ==
    ASSUME TInv, [Next]_vars PROVE SessionsProper
<1> USE DEF TInv, TypeOK, sessionVars
<1>0. TRUE \in BOOLEAN /\ FALSE \in BOOLEAN
  OBVIOUS
<1>1. ASSUME UNCHANGED sessionVars
      PROVE  SessionsProper
  BY <1>1 DEF SessionsProper
<1>2. ASSUME NEW r \in Requests, UserStep(r)
      PROVE  SessionsProper
  <2>1. CASE RegisterUser(r) \/ Gate(r) \/ Bootstrap(r)
    BY <1>1, <2>1 DEF RegisterUser, Gate, Bootstrap
  <2>2. CASE SignUp(r)
    <3>1. Actor(r) \in known
      BY <2>2 DEF SignUp, JobsSound, JobSound, Actor
    <3>2. PICK s \in Sessions : OpenSession(Actor(r), s, TRUE)
      BY <2>2 DEF SignUp, Unused
    <3> QED
      BY <1>0, <2>2, <3>1, <3>2, Opened DEF SignUp
  <2>3. CASE SignIn(r)
    <3>1. PICK u \in known, s \in Sessions : OpenSession(u, s, FALSE)
      BY <2>3 DEF SignIn, Unused
    <3> QED
      BY <1>0, <2>3, <3>1, Opened DEF SignIn
  <2>4. CASE ReadUser(r)
    <3>1. job[r].session \in Sessions /\ owner[job[r].session] \in known
      BY <2>4 DEF ReadUser, JobsSound, JobSound
    <3> QED
      BY <2>4, <3>1 DEF ReadUser, SessionsProper
  <2>5. CASE RevokeSessionById(r) \/ RevokeOtherSessions(r) \/ ChangePassword(r)
    BY <2>5 DEF RevokeSessionById, RevokeOtherSessions, ChangePassword, EndsSessions,
       DropSessions, LiveOf, SessionsProper
  <2>6. CASE LogoutUser(r)
    BY <2>6 DEF LogoutUser, SessionsProper
  <2> QED
    BY <1>2, <2>1, <2>2, <2>3, <2>4, <2>5, <2>6 DEF UserStep
<1>3. ASSUME NEW r \in Requests, StaffStep(r) \/ CutOff(r)
      PROVE  SessionsProper
  <2>1. CASE RequireRole(r) \/ UpdateStatus(r) \/ UpdateRole(r) \/ UpdatePlan(r)
             \/ DeleteAccount(r) \/ TriggerPasswordReset(r) \/ CutOff(r)
    BY <1>1, <2>1 DEF RequireRole, UpdateStatus, UpdateRole, UpdatePlan, DeleteAccount,
       TriggerPasswordReset, CutOff
  <2>2. CASE Check(r)
    <3>1. CASE UNCHANGED <<owner, live, cookies>>
      BY <1>1, <2>2, <3>1 DEF Check
    <3>2. ASSUME ~UNCHANGED <<owner, live, cookies>>
          PROVE  SessionsProper
      <4>1. PICK s \in Sessions : OpenSession(Actor(r), s, FALSE)
        BY <2>2, <3>2 DEF Check, Unused
      <4>2. Actor(r) \in known
        BY <2>2 DEF Check, Checks, JobsSound, JobSound, Actor
      <4> QED
        BY <1>0, <2>2, <4>1, <4>2, Opened DEF Check
    <3> QED
      BY <3>1, <3>2
  <2>3. CASE DeleteUser(r)
    BY <2>3 DEF DeleteUser, DropSessions, LiveOf, SessionsProper
  <2>4. CASE Revoke(r)
    BY <2>4 DEF Revoke, LiveOf, SessionsProper
  <2> QED
    BY <1>3, <2>1, <2>2, <2>3, <2>4 DEF StaffStep
<1>4. CASE Outside
  <2>1. CASE SocialSignIn \/ VerifyEmail
    <3>1. PICK u \in known, s \in Sessions : EnterDirectly(u, s)
      BY <2>1 DEF SocialSignIn, VerifyEmail, Unused
    <3> QED
      BY <1>0, <3>1, Opened DEF EnterDirectly
  <2>2. CASE ResendVerification \/ RequestPasswordReset \/ ResetPassword
    BY <1>1, <2>2 DEF ResendVerification, RequestPasswordReset, ResetPassword
  <2>3. CASE CacheExpires
    BY <2>3 DEF CacheExpires, SessionsProper
  <2> QED
    BY <1>4, <2>1, <2>2, <2>3 DEF Outside
<1> QED
  BY <1>1, <1>2, <1>3, <1>4 DEF Next, vars

\* A sound request stays sound whatever the others do.
LEMMA SoundStays ==
    ASSUME TInv, UsersProper, SessionsProper, NEW j \in Jobs, JobSound(j)
    PROVE  JobSound(j)'
<1>1. j.step = "signedIn" => owner[j.session] # None
  BY NoneAssumption DEF JobSound, TInv, TypeOK
<1> QED
  BY <1>1 DEF JobSound, UsersProper, SessionsProper

LEMMA IdleIsSound == JobSound(Idle)'
  BY DEF JobSound, Idle, Job

\* A request sent on keeps its actor; checked ones have an existing subject.
LEMMA SoundGoto ==
    ASSUME TInv, UsersProper, NEW r \in Requests, job[r].step # "idle",
           NEW step \in Steps \ {"signedIn"},
           step \in {"checked", "revoking"} => Subject(r) \in known,
           NEW j, j = Job(step, job[r].ask, job[r].actor, job[r].session, job[r].missing)
    PROVE  JobSound(j)'
<1>1. job[r].actor \in known'
  BY DEF TInv, JobsSound, JobSound, UsersProper
<1>2. j.step = step /\ j.ask = job[r].ask /\ j.actor = job[r].actor
  BY DEF Job
<1>3. step \in {"checked", "revoking"} =>
        (IF j.ask.op = "deleteAccount" THEN j.actor ELSE j.ask.target) \in known'
  BY <1>2 DEF Subject, Op, Target, Actor, UsersProper
<1> QED
  BY <1>1, <1>2, <1>3 DEF JobSound

LEMMA PermittedExists ==
    ASSUME TInv, NEW r \in Requests, job[r].step # "idle", Permitted(r)
    PROVE  Subject(r) \in known
<1>1. Actor(r) \in known
  BY DEF TInv, JobsSound, JobSound, Actor
<1>2. Op(r) \in {"activate", "deactivate", "setRole", "deleteUser", "setPlan", "deleteAccount"}
  BY DEF Permitted
<1>3. CASE Op(r) = "deleteAccount"
  BY <1>1, <1>3 DEF Subject
<1>4. CASE Op(r) # "deleteAccount"
  BY <1>2, <1>4 DEF Permitted, StatusMayChange, RoleMayChange, PlanMayChange, Exists, Subject
<1> QED
  BY <1>3, <1>4

LEMMA JobsKept ==
    ASSUME TInv, [Next]_vars, UsersProper, SessionsProper
    PROVE  JobsSound'
<1> DEFINE SoundUpdate == \E r \in Requests : \E j : Update(r, j) /\ JobSound(j)'
<1>0. TypeOK /\ JobsSound
  BY DEF TInv
<1>1. ASSUME UNCHANGED job
      PROVE  JobsSound'
  BY <1>0, <1>1, SoundStays DEF JobsSound, TypeOK
<1>2. ASSUME NEW r \in Requests, NEW j, Update(r, j), JobSound(j)'
      PROVE  JobsSound'
  <2>1. ASSUME NEW q \in Requests, q # r
        PROVE  JobSound(job[q])' /\ job'[q] = job[q]
    <3>1. JobSound(job[q]) /\ job[q] \in Jobs
      BY <1>0 DEF JobsSound, TypeOK
    <3>2. job'[q] = job[q]
      BY <1>2, <2>1, <1>0 DEF Update, TypeOK
    <3>3. \A k \in Jobs : JobSound(k) => JobSound(k)'
      BY SoundStays
    <3> QED
      BY <3>1, <3>2, <3>3
  <2>2. job'[r] = j
    BY <1>0, <1>2 DEF Update, TypeOK
  <2> QED
    BY <1>2, <2>1, <2>2 DEF JobsSound
<1>3. ASSUME NEW r \in Requests, Finish(r)
      PROVE  JobsSound'
  BY <1>2, <1>3, IdleIsSound DEF Finish
<1>4. ASSUME NEW r \in Requests, NEW step \in Steps \ {"signedIn"}, Goto(r, step),
             job[r].step # "idle", step \in {"checked", "revoking"} => Subject(r) \in known
      PROVE  JobsSound'
  <2>1. PICK j : j = Job(step, job[r].ask, job[r].actor, job[r].session, job[r].missing)
    OBVIOUS
  <2>2. JobSound(j)'
    BY <1>4, <2>1, SoundGoto
  <2> QED
    BY <1>2, <1>4, <2>1, <2>2 DEF Goto
<1>5. {"bootstrap", "signup", "asked", "allowed", "checked", "revoking"} \subseteq Steps \ {"signedIn"}
  BY DEF Steps
<1>6. ASSUME NEW r \in Requests, NEW j, Update(r, j), j.actor \in known',
             j.step \in {"bootstrap", "asked"}
      PROVE  JobsSound'
  <2>1. JobSound(j)'
    BY <1>6 DEF JobSound
  <2> QED
    BY <1>2, <1>6, <2>1
<1>7. ASSUME NEW r \in Requests, UserStep(r)
      PROVE  JobsSound'
  <2>1. CASE RegisterUser(r)
    <3>1. PICK u, j : u \in known' /\ j = Job("bootstrap", Entry, u, None, Missing(u)) /\ Update(r, j)
      BY <2>1 DEF RegisterUser
    <3> QED
      BY <1>6, <3>1 DEF Job
  <2>2. CASE SignUp(r)
    <3>1. Actor(r) \in known'
      BY <1>0, <2>2 DEF SignUp, JobsSound, JobSound, Actor, UsersProper
    <3>2. PICK s, j : /\ j = Job("bootstrap", Entry, Actor(r), s, Missing(Actor(r)))
                      /\ Update(r, j)
      BY <2>2 DEF SignUp
    <3> QED
      BY <1>6, <3>1, <3>2 DEF Job
  <2>3. CASE SignIn(r)
    <3>1. PICK u \in known, s \in Sessions :
            OpenSession(u, s, FALSE) /\ Update(r, Job("signedIn", Entry, u, s, {}))
      BY <2>3 DEF SignIn, Unused
    <3>2. owner'[s] = u /\ u \in known'
      BY <1>0, <3>1 DEF OpenSession, TypeOK, UsersProper
    <3>3. JobSound(Job("signedIn", Entry, u, s, {}))'
      BY <3>2 DEF JobSound, Job
    <3> QED
      BY <1>2, <3>1, <3>3
  <2>4. CASE Gate(r)
    <3>1. PICK u, s, what, step, j :
            /\ u \in active /\ step \in {"asked", "bootstrap"}
            /\ j = Job(step, what, u, s, Missing(u))
            /\ Update(r, j)
      BY <2>4 DEF Gate, Working
    <3>2. u \in known'
      BY <1>0, <3>1 DEF UsersProper, TypeOK
    <3> QED
      BY <1>6, <3>1, <3>2 DEF Job
  <2>5. CASE Bootstrap(r)
    BY <1>3, <1>4, <1>5, <2>5 DEF Bootstrap, AfterBootstrap
  <2>6. CASE ReadUser(r) \/ LogoutUser(r)
    BY <1>3, <2>6 DEF ReadUser, LogoutUser
  <2>7. CASE RevokeSessionById(r) \/ RevokeOtherSessions(r) \/ ChangePassword(r)
    BY <1>3, <2>7 DEF RevokeSessionById, RevokeOtherSessions, ChangePassword, EndsSessions
  <2> QED
    BY <1>7, <2>1, <2>2, <2>3, <2>4, <2>5, <2>6, <2>7 DEF UserStep
<1>8. ASSUME NEW r \in Requests, StaffStep(r) \/ CutOff(r)
      PROVE  JobsSound'
  <2>1. CASE RequireRole(r)
    BY <1>3, <1>4, <1>5, <2>1 DEF RequireRole
  <2>2. CASE Check(r)
    BY <1>3, <1>4, <1>5, <2>2, PermittedExists DEF Check, Checks
  <2>3. CASE UpdateStatus(r) \/ UpdateRole(r) \/ DeleteAccount(r)
    <3>1. job[r].step = "checked" /\ Subject(r) \in known
      BY <2>3, SubjectExists DEF UpdateStatus, UpdateRole, DeleteAccount, Writes
    <3> QED
      BY <1>3, <1>4, <1>5, <2>3, <3>1 DEF UpdateStatus, UpdateRole, DeleteAccount
  <2>4. CASE UpdatePlan(r) \/ DeleteUser(r) \/ Revoke(r) \/ TriggerPasswordReset(r) \/ CutOff(r)
    BY <1>3, <2>4 DEF UpdatePlan, DeleteUser, Revoke, TriggerPasswordReset, CutOff
  <2> QED
    BY <1>8, <2>1, <2>2, <2>3, <2>4 DEF StaffStep
<1>9. CASE Outside
  BY <1>1, <1>9 DEF Outside, SocialSignIn, VerifyEmail, ResendVerification,
     RequestPasswordReset, ResetPassword, CacheExpires, requestVars
<1> QED
  BY <1>1, <1>7, <1>8, <1>9 DEF Next, vars, requestVars

\* Only writes and removals of sessions touch the two history variables.
LEMMA HistoryKept ==
    ASSUME TInv, [Next]_vars
    PROVE  raced' \in BOOLEAN /\ interrupted' \subseteq Users
<1>0. raced \in BOOLEAN /\ interrupted \subseteq Users /\ known \subseteq Users
  BY DEF TInv, TypeOK
<1>1. CASE UNCHANGED historyVars
  BY <1>0, <1>1 DEF historyVars
<1>2. ASSUME NEW r \in Requests, UserStep(r)
      PROVE  UNCHANGED historyVars
  BY <1>2 DEF UserStep, RegisterUser, SignUp, SignIn, ReadUser, Gate, Bootstrap,
     RevokeSessionById, RevokeOtherSessions, ChangePassword, EndsSessions, LogoutUser
<1>3. ASSUME NEW r \in Requests, NEW ops, Writes(r, ops),
             UNCHANGED interrupted \/ interrupted' = interrupted \ {Target(r)}
      PROVE  raced' \in BOOLEAN /\ interrupted' \subseteq Users
  BY <1>0, <1>3 DEF Writes
<1>4. ASSUME NEW r \in Requests, StaffStep(r) \/ CutOff(r)
      PROVE  raced' \in BOOLEAN /\ interrupted' \subseteq Users
  <2>1. CASE RequireRole(r) \/ Check(r) \/ UpdatePlan(r) \/ TriggerPasswordReset(r)
    BY <1>1, <2>1 DEF RequireRole, Check, UpdatePlan, TriggerPasswordReset
  <2>2. CASE UpdateStatus(r) \/ UpdateRole(r) \/ DeleteAccount(r)
    BY <1>3, <2>2 DEF UpdateStatus, UpdateRole, DeleteAccount
  <2>3. CASE DeleteUser(r)
    BY <1>3, <2>3 DEF DeleteUser
  <2>4. CASE Revoke(r)
    BY <1>0, <2>4 DEF Revoke
  <2>5. CASE CutOff(r)
    <3>1. job[r].step = "revoking" => Subject(r) \in Users
      BY <1>0, SubjectExists
    <3> QED
      BY <1>0, <2>5, <3>1 DEF CutOff
  <2> QED
    BY <1>4, <2>1, <2>2, <2>3, <2>4, <2>5 DEF StaffStep
<1>5. CASE Outside
  BY <1>1, <1>5 DEF Outside, SocialSignIn, VerifyEmail, ResendVerification,
     RequestPasswordReset, ResetPassword, CacheExpires, historyVars
<1> QED
  BY <1>1, <1>2, <1>4, <1>5 DEF Next, vars

LEMMA TypesKept ==
    ASSUME TInv, [Next]_vars PROVE TInv'
<1>1. UsersProper /\ SessionsProper
  BY UsersKept, SessionsKept
<1>2. JobsSound'
  BY <1>1, JobsKept
<1>3. job' \in [Requests -> Jobs]
  <2>1. TypeOK
    BY DEF TInv
  <2> QED
    BY <2>1, OneRequest DEF Update, TypeOK
<1>4. raced' \in BOOLEAN /\ interrupted' \subseteq Users
  BY HistoryKept
<1>5. arrived' \in 0 .. MaxRequests
  <2>1. arrived \in 0 .. MaxRequests
    BY DEF TInv, TypeOK
  <2>2. CASE UNCHANGED arrived
    BY <2>1, <2>2
  <2>3. CASE Arrive
    BY <2>1, <2>3, BoundAssumption DEF Arrive
  <2> QED
    BY <2>2, <2>3 DEF Next, vars, UserStep, StaffStep, Outside, requestVars, Start,
       RegisterUser, SignUp, SignIn, ReadUser, Gate, Bootstrap, RevokeSessionById,
       RevokeOtherSessions, ChangePassword, EndsSessions, LogoutUser, RequireRole, Check,
       UpdateStatus, UpdateRole, UpdatePlan, DeleteUser, DeleteAccount, Revoke,
       TriggerPasswordReset, CutOff, SocialSignIn, VerifyEmail, ResendVerification,
       RequestPasswordReset, ResetPassword, CacheExpires
<1> QED
  BY <1>1, <1>2, <1>3, <1>4, <1>5 DEF TInv, TypeOK, UsersProper, SessionsProper

\* The state stays well typed: in particular no row, session or link ever
\* belongs to somebody who does not exist, and no cookie counts as cached
\* while its session is there.
THEOREM TypeCorrect == Spec => []TypeOK
<1>1. Init => TInv
  BY Started
<1>2. TInv /\ [Next]_vars => TInv'
  BY TypesKept
<1>3. TInv => TypeOK
  BY DEF TInv
<1> QED
  BY <1>1, <1>2, <1>3, PTL DEF Spec

-----------------------------------------------------------------------------
(* The last super admin, and deleted users *)

LEMMA AdminsFinite ==
    ASSUME TypeOK PROVE IsFiniteSet(known) /\ IsFiniteSet(ActiveAdmins)
<1>1. known \subseteq Users /\ ActiveAdmins \subseteq Users
  BY DEF TypeOK, ActiveAdmins, Working
<1> QED
  BY <1>1, UsersAssumption, FS_Subset

\* Whoever is not the only one of them leaves another behind.
LEMMA AnotherAdmin ==
    ASSUME TypeOK, NEW u, Cardinality(ActiveAdmins) > 1
    PROVE  ActiveAdmins \ {u} # {}
<1>1. IsFiniteSet(ActiveAdmins)
  BY AdminsFinite
<1>2. SUFFICES ASSUME ActiveAdmins \ {u} = {} PROVE FALSE
  OBVIOUS
<1>3. ActiveAdmins = {} \/ ActiveAdmins = {u}
  BY <1>2
<1>4. Cardinality({}) = 0 /\ Cardinality({u}) = 1
  BY FS_EmptySet, FS_Singleton
<1> QED
  BY <1>3, <1>4

AInv == AdminRemains /\ DeletedIsInactive

\* Writes whose checks still hold: one lemma for each.
LEMMA AdminsAfterStatus ==
    ASSUME TInv, AInv, NEW r \in Requests, UpdateStatus(r), ~raced' PROVE AInv'
<1>0. /\ ~raced /\ ActiveAdmins # {} /\ active \cap deleted = {}
      /\ Permitted(r) /\ Op(r) \in {"activate", "deactivate"}
  BY DEF UpdateStatus, Writes, AInv, AdminRemains, DeletedIsInactive
<1>1. Exists(Target(r)) /\ role[Target(r)] # "SUPER_ADMIN"
  BY <1>0 DEF Permitted, StatusMayChange
<1>2. ActiveAdmins \subseteq ActiveAdmins'
  BY <1>1 DEF UpdateStatus, ActiveAdmins, Working
<1>3. active' \cap deleted' = {}
  BY <1>0, <1>1 DEF UpdateStatus, Exists
<1> QED
  BY <1>0, <1>2, <1>3 DEF AInv, AdminRemains, DeletedIsInactive

LEMMA AdminsAfterRole ==
    ASSUME TInv, AInv, NEW r \in Requests, UpdateRole(r), ~raced' PROVE AInv'
<1>0. /\ ~raced /\ ActiveAdmins # {} /\ active \cap deleted = {}
      /\ Permitted(r) /\ Op(r) = "setRole"
  BY DEF UpdateRole, Writes, AInv, AdminRemains, DeletedIsInactive
<1>1. role[Target(r)] = "SUPER_ADMIN" => OtherAdmins(Target(r)) # {}
  BY <1>0 DEF Permitted, RoleMayChange
<1>2. ActiveAdmins \ {Target(r)} # {}
  BY <1>0, <1>1 DEF OtherAdmins, ActiveAdmins
<1>3. ActiveAdmins \ {Target(r)} \subseteq ActiveAdmins'
  BY DEF UpdateRole, ActiveAdmins, Working, TInv, TypeOK
<1>4. active' \cap deleted' = {}
  BY <1>0 DEF UpdateRole
<1> QED
  BY <1>2, <1>3, <1>4 DEF AInv, AdminRemains, DeletedIsInactive

LEMMA AdminsAfterDeletion ==
    ASSUME TInv, AInv, NEW r \in Requests, DeleteUser(r) \/ DeleteAccount(r), ~raced'
    PROVE  AInv'
<1>0. ~raced /\ ActiveAdmins # {} /\ active \cap deleted = {} /\ Permitted(r)
  BY DEF DeleteUser, DeleteAccount, Writes, AInv, AdminRemains, DeletedIsInactive
<1>1. PICK u : /\ active' = active \ {u} /\ deleted' = deleted \cup {u}
               /\ role' = role /\ ActiveAdmins \ {u} # {}
  <2>1. CASE DeleteUser(r)
    <3>1. role[Target(r)] # "SUPER_ADMIN"
      BY <1>0, <2>1 DEF DeleteUser, Writes, Permitted
    <3> QED
      BY <1>0, <2>1, <3>1 DEF DeleteUser, ActiveAdmins
  <2>2. CASE DeleteAccount(r)
    <3>1. MayLeave(Actor(r))
      BY <1>0, <2>2 DEF DeleteAccount, Writes, Permitted
    <3>2. CASE role[Actor(r)] = "SUPER_ADMIN"
      <4>1. ActiveAdmins \ {Actor(r)} # {}
        BY <3>1, <3>2, AnotherAdmin DEF MayLeave, TInv
      <4> QED
        BY <2>2, <4>1 DEF DeleteAccount
    <3>3. CASE role[Actor(r)] # "SUPER_ADMIN"
      BY <1>0, <2>2, <3>3 DEF DeleteAccount, ActiveAdmins
    <3> QED
      BY <3>2, <3>3
  <2> QED
    BY <2>1, <2>2
<1>2. ActiveAdmins \ {u} \subseteq ActiveAdmins'
  BY <1>1 DEF ActiveAdmins, Working
<1>3. active' \cap deleted' = {}
  BY <1>0, <1>1
<1> QED
  BY <1>1, <1>2, <1>3 DEF AInv, AdminRemains, DeletedIsInactive

LEMMA AdminsKept ==
    ASSUME TInv, AInv, [Next]_vars PROVE AInv'
<1>1. CASE UNCHANGED <<active, deleted, role, raced>>
  BY <1>1 DEF AInv, AdminRemains, DeletedIsInactive, ActiveAdmins, Working
<1>2. CASE raced'
  BY <1>2 DEF AInv, AdminRemains, DeletedIsInactive
<1>3. ASSUME NEW r \in Requests, UserStep(r)
      PROVE  AInv'
  <2>1. CASE RegisterUser(r)
    <3>1. ActiveAdmins \subseteq ActiveAdmins'
      BY <2>1 DEF RegisterUser, ActiveAdmins, Working
    <3>2. active' \cap deleted' \subseteq active \cap deleted
      BY <2>1 DEF RegisterUser, TInv, TypeOK
    <3>3. raced' = raced
      BY <2>1 DEF RegisterUser, historyVars
    <3> QED
      BY <3>1, <3>2, <3>3 DEF AInv, AdminRemains, DeletedIsInactive
  <2>2. CASE ~RegisterUser(r)
    BY <1>1, <1>3, <2>2 DEF UserStep, SignUp, SignIn, ReadUser, Gate, Bootstrap,
       RevokeSessionById, RevokeOtherSessions, ChangePassword, EndsSessions, LogoutUser,
       userVars, historyVars
  <2> QED
    BY <2>1, <2>2
<1>4. ASSUME NEW r \in Requests, StaffStep(r) \/ CutOff(r)
      PROVE  AInv'
  <2>1. CASE RequireRole(r) \/ Check(r) \/ UpdatePlan(r) \/ Revoke(r)
             \/ TriggerPasswordReset(r) \/ CutOff(r)
    BY <1>1, <2>1 DEF RequireRole, Check, UpdatePlan, Revoke, TriggerPasswordReset, CutOff,
       userVars, historyVars
  <2>2. CASE UpdateStatus(r) \/ UpdateRole(r) \/ DeleteUser(r) \/ DeleteAccount(r)
    BY <1>2, <2>2, AdminsAfterStatus, AdminsAfterRole, AdminsAfterDeletion
  <2> QED
    BY <1>4, <2>1, <2>2 DEF StaffStep
<1>5. CASE Outside
  BY <1>1, <1>5 DEF Outside, SocialSignIn, VerifyEmail, ResendVerification,
     RequestPasswordReset, ResetPassword, CacheExpires, userVars, historyVars
<1> QED
  BY <1>1, <1>3, <1>4, <1>5 DEF Next, vars, userVars, historyVars

LEMMA AdminsFirst == ASSUME Init PROVE AInv
  BY DEF Init, AInv, AdminRemains, DeletedIsInactive

\* Unless a write came after its checks had ceased to hold, a super admin who
\* can sign in is left: whatever users, requests and orders of them.
THEOREM AdminAlwaysRemains == Spec => []AdminRemains
<1>1. Init => TInv /\ AInv
  BY Started, AdminsFirst
<1>2. TInv /\ AInv /\ [Next]_vars => TInv' /\ AInv'
  BY TypesKept, AdminsKept
<1>3. AInv => AdminRemains
  BY DEF AInv
<1> QED
  BY <1>1, <1>2, <1>3, PTL DEF Spec

\* With the same exception a deleted user is inactive.
THEOREM DeletedStayInactive == Spec => []DeletedIsInactive
<1>1. Init => TInv /\ AInv
  BY Started, AdminsFirst
<1>2. TInv /\ AInv /\ [Next]_vars => TInv' /\ AInv'
  BY TypesKept, AdminsKept
<1>3. AInv => DeletedIsInactive
  BY DEF AInv
<1> QED
  BY <1>1, <1>2, <1>3, PTL DEF Spec

-----------------------------------------------------------------------------
(* Sessions end with the rights they came with *)

HandedAreOwned == \A s \in handed : owner[s] # None
SInv == HandedAreOwned /\ LostRightsEndSessions

LEMMA OwnedStays ==
    ASSUME TInv, SInv, SessionsProper, handed' \subseteq handed
    PROVE  HandedAreOwned'
  BY DEF TInv, TypeOK, SInv, HandedAreOwned, SessionsProper

\* A step is harmless that hands out nothing, takes no rights away, ends no
\* removal of sessions but by noting its subject as interrupted.
LEMMA Harmless ==
    ASSUME TInv, SInv, SessionsProper, handed' = handed, staffed' = staffed,
           \A s \in live' \cap handed : s \in live,
           \A s \in live \cap handed : Outranked(s)' => Outranked(s),
           interrupted \subseteq interrupted',
           \A q \in Requests : job[q].step = "revoking" =>
               job'[q] = job[q] \/ Subject(q) \in interrupted'
    PROVE  SInv'
<1>1. HandedAreOwned'
  BY OwnedStays
<1>2. ASSUME NEW s \in live' \cap handed', Outranked(s)'
      PROVE  owner'[s] \in interrupted' \/ BeingRevoked(owner[s])'
  <2>1. s \in live \cap handed /\ Outranked(s)
    BY <1>2
  <2>2. owner[s] \in interrupted \/ BeingRevoked(owner[s])
    BY <2>1 DEF SInv, LostRightsEndSessions
  <2>3. owner'[s] = owner[s]
    BY <2>1 DEF SInv, HandedAreOwned, SessionsProper, TInv, TypeOK
  <2>4. CASE owner[s] \in interrupted
    BY <2>3, <2>4
  <2>5. CASE owner[s] \notin interrupted
    <3>1. PICK q \in Requests : job[q].step = "revoking" /\ Subject(q) = owner[s]
      BY <2>2, <2>5 DEF BeingRevoked
    <3>2. CASE Subject(q) \in interrupted'
      BY <2>3, <3>1, <3>2
    <3>3. CASE job'[q] = job[q]
      <4>1. Subject(q)' = owner'[s] /\ job'[q].step = "revoking"
        BY <2>3, <3>1, <3>3 DEF Subject, Op, Target, Actor
      <4> QED
        BY <2>3, <4>1 DEF BeingRevoked
    <3> QED
      BY <3>1, <3>2, <3>3
  <2> QED
    BY <2>4, <2>5
<1>3. \A s \in live' \cap handed' : owner'[s] = owner[s]
  BY DEF SInv, HandedAreOwned, SessionsProper, TInv, TypeOK
<1>4. LostRightsEndSessions'
  BY <1>2, <1>3 DEF LostRightsEndSessions, BeingRevoked
<1> QED
  BY <1>1, <1>4 DEF SInv

\* A step that concerns the rights of one user is harmless to all others; that
\* user's sessions go, or are about to.
LEMMA OneUser ==
    ASSUME TInv, SInv, SessionsProper, handed' = handed, staffed' = staffed,
           live' \subseteq live, NEW u, interrupted \ {u} \subseteq interrupted',
           \A s \in live' \cap handed : owner[s] # u => (Outranked(s)' => Outranked(s)),
           \A q \in Requests : job[q].step = "revoking" /\ Subject(q) # u => job'[q] = job[q],
           \A s \in live' \cap handed : owner[s] = u /\ Outranked(s)' => BeingRevoked(u)'
    PROVE  SInv'
<1>1. HandedAreOwned'
  BY OwnedStays
<1>2. \A s \in live' \cap handed' : owner'[s] = owner[s]
  BY DEF SInv, HandedAreOwned, SessionsProper, TInv, TypeOK
<1>3. ASSUME NEW s \in live' \cap handed', Outranked(s)', NEW v, v = owner[s]
      PROVE  v \in interrupted' \/ BeingRevoked(v)'
  <2>1. CASE v = u
    BY <1>3, <2>1
  <2>2. CASE v # u
    <3>1. s \in live \cap handed /\ Outranked(s)
      BY <1>3, <2>2
    <3>2. CASE v \in interrupted
      BY <2>2, <3>2
    <3>3. CASE v \notin interrupted
      <4>1. PICK q \in Requests : job[q].step = "revoking" /\ Subject(q) = v
        BY <1>3, <3>1, <3>3 DEF SInv, LostRightsEndSessions, BeingRevoked
      <4>2. job'[q] = job[q]
        BY <2>2, <4>1
      <4>3. Subject(q)' = v /\ job'[q].step = "revoking"
        BY <4>1, <4>2 DEF Subject, Op, Target, Actor
      <4> QED
        BY <4>3 DEF BeingRevoked
    <3> QED
      BY <3>2, <3>3
  <2> QED
    BY <2>1, <2>2
<1>4. ASSUME NEW s \in live' \cap handed', Outranked(s)'
      PROVE  owner'[s] \in interrupted' \/ BeingRevoked(owner[s])'
  <2>1. PICK v : v = owner[s] /\ v = owner'[s]
    BY <1>2
  <2>2. v \in interrupted' \/ BeingRevoked(v)'
    BY <1>3, <1>4, <2>1
  <2> QED
    BY <2>1, <2>2 DEF BeingRevoked
<1> QED
  BY <1>1, <1>4 DEF SInv, LostRightsEndSessions

\* What stays of a request that goes on to remove sessions.
LEMMA GoesOnRevoking ==
    ASSUME TypeOK, NEW r \in Requests, Goto(r, "revoking")
    PROVE  \A u : u = Subject(r) => BeingRevoked(u)'
<1>1. job'[r] = Job("revoking", job[r].ask, job[r].actor, job[r].session, job[r].missing)
  BY DEF TypeOK, Goto, Update
<1>2. job'[r].step = "revoking" /\ Subject(r)' = Subject(r)
  BY <1>1 DEF Job, Subject, Op, Target, Actor
<1> QED
  BY <1>2 DEF BeingRevoked

\* The writes that take rights away.
LEMMA SessionsAfterWrite ==
    ASSUME TInv, SInv, SessionsProper, NEW r \in Requests,
           \/ Goto(r, "revoking") /\ (UpdateStatus(r) \/ UpdateRole(r) \/ DeleteAccount(r))
           \/ DeleteUser(r) \/ Revoke(r)
    PROVE  SInv'
<1> USE DEF sessionVars, userVars
<1>0. TypeOK
  BY DEF TInv
<1>1. PICK u : u = Subject(r)
  OBVIOUS
<1>2. /\ handed' = handed /\ staffed' = staffed /\ live' \subseteq live /\ owner' = owner
      /\ interrupted \ {u} \subseteq interrupted'
  BY <1>1 DEF UpdateStatus, UpdateRole, DeleteUser, DeleteAccount, Revoke, DropSessions,
     Subject, Writes
<1>3. \A s \in Sessions : owner[s] # u => (Outranked(s)' <=> Outranked(s))
  <2>1. CASE UpdateStatus(r)
    BY <1>1, <2>1 DEF UpdateStatus, Writes, Subject, Outranked, Working, Staff
  <2>2. CASE UpdateRole(r)
    BY <1>0, <1>1, <2>2 DEF UpdateRole, Writes, Subject, Outranked, Working, Staff, TypeOK
  <2>3. CASE DeleteUser(r)
    BY <1>1, <2>3 DEF DeleteUser, Writes, Subject, Outranked, Working, Staff
  <2>4. CASE DeleteAccount(r)
    BY <1>1, <2>4 DEF DeleteAccount, Writes, Subject, Outranked, Working, Staff
  <2>5. CASE Revoke(r)
    BY <2>5 DEF Revoke, Outranked, Working, Staff
  <2> QED
    BY <2>1, <2>2, <2>3, <2>4, <2>5
<1>4. \A q \in Requests : job[q].step = "revoking" /\ Subject(q) # u => job'[q] = job[q]
  BY <1>0, <1>1 DEF UpdateStatus, UpdateRole, DeleteUser, DeleteAccount, Revoke,
     Writes, Goto, Finish, Update, TypeOK
<1>5. ASSUME NEW s \in live' \cap handed, owner[s] = u, Outranked(s)'
      PROVE  BeingRevoked(u)'
  <2>1. s \in Sessions
    BY <1>0, <1>5 DEF TypeOK
  <2>2. CASE DeleteUser(r)
    BY <1>1, <1>5, <2>2 DEF DeleteUser, Writes, DropSessions, LiveOf, Subject
  <2>3. CASE Revoke(r)
    BY <1>1, <1>5, <2>3 DEF Revoke, LiveOf
  <2>4. CASE Goto(r, "revoking")
    BY <1>0, <1>1, <2>4, GoesOnRevoking
  <2> QED
    BY <2>2, <2>3, <2>4
<1> QED
  BY <1>1, <1>2, <1>3, <1>4, <1>5, OneUser DEF SInv, HandedAreOwned, TInv, TypeOK

\* The writes that give rights.
LEMMA SessionsAfterGrant ==
    ASSUME TInv, SInv, SessionsProper, NEW r \in Requests, Finish(r),
           UpdateStatus(r) \/ UpdateRole(r)
    PROVE  SInv'
<1> USE DEF sessionVars, userVars
<1>0. TypeOK /\ job[r].step = "checked"
  BY DEF TInv, UpdateStatus, UpdateRole, Writes
<1>1. /\ handed' = handed /\ staffed' = staffed /\ live' = live /\ owner' = owner
      /\ interrupted' = interrupted
  BY DEF UpdateStatus, UpdateRole
<1>2. \A q \in Requests : job[q].step = "revoking" => job'[q] = job[q]
  BY <1>0 DEF Finish, Update, TypeOK
<1>3. ASSUME NEW s \in Sessions, Outranked(s)'
      PROVE  Outranked(s)
  <2>1. job'[r] = Idle
    BY <1>0 DEF Finish, Update, TypeOK
  <2>2. ~Goto(r, "revoking")
    <3>1. Idle.step # "revoking"
      BY DEF Idle, Job
    <3> QED
      BY <1>0, <2>1, <3>1 DEF Goto, Update, TypeOK, Job
  <2>3. CASE UpdateStatus(r)
    <3>1. active \subseteq active' /\ UNCHANGED <<deleted, role, known>>
      BY <2>2, <2>3 DEF UpdateStatus
    <3> QED
      BY <1>1, <1>3, <3>1 DEF Outranked, Working, Staff
  <2>4. CASE UpdateRole(r)
    <3>1. job[r].ask.role # "USER" /\ UNCHANGED <<active, deleted, known>>
      BY <2>2, <2>4 DEF UpdateRole
    <3>2. Staff \subseteq Staff'
      BY <1>0, <2>4, <3>1 DEF UpdateRole, Staff, TypeOK
    <3> QED
      BY <1>1, <1>3, <3>1, <3>2 DEF Outranked, Working
  <2> QED
    BY <2>3, <2>4
<1> QED
  BY <1>0, <1>1, <1>2, <1>3, Harmless DEF TypeOK

\* What sign-in hands out, it hands to a user who has the rights it notes.
LEMMA SessionsAfterReading ==
    ASSUME TInv, SInv, SessionsProper, NEW r \in Requests, ReadUser(r)
    PROVE  SInv'
<1> USE DEF sessionVars, userVars
<1>0. /\ TypeOK /\ job[r].step = "signedIn"
      /\ job[r].session \in Sessions /\ owner[job[r].session] = Actor(r)
      /\ Actor(r) \in known
  BY DEF TInv, ReadUser, JobsSound, JobSound, Actor
<1>1. /\ owner' = owner /\ live' = live /\ interrupted' = interrupted
      /\ UNCHANGED <<known, active, deleted, role>>
  BY DEF ReadUser, historyVars
<1>2. PICK kept : /\ kept \subseteq {job[r].session} /\ handed' = handed \cup kept
                  /\ kept # {} => Actor(r) \in Working
                  /\ staffed' = staffed \cup {s \in kept : Actor(r) \in Staff}
  BY DEF ReadUser
<1>3. HandedAreOwned'
  BY <1>0, <1>1, <1>2, NoneAssumption DEF SInv, HandedAreOwned, TypeOK
<1>4. ASSUME NEW u, BeingRevoked(u)
      PROVE  BeingRevoked(u)'
  <2>1. PICK q \in Requests : job[q].step = "revoking" /\ Subject(q) = u
    BY <1>4 DEF BeingRevoked
  <2>2. job'[q] = job[q]
    BY <1>0, <2>1 DEF ReadUser, Finish, Update, TypeOK
  <2>3. Subject(q)' = u /\ job'[q].step = "revoking"
    BY <2>1, <2>2 DEF Subject, Op, Target, Actor
  <2> QED
    BY <2>3 DEF BeingRevoked
<1>5. ASSUME NEW s \in live' \cap handed', Outranked(s)', NEW v, v = owner[s]
      PROVE  v \in interrupted' \/ BeingRevoked(v)'
  <2>1. s \in handed /\ Outranked(s)
    <3>1. Working' = Working /\ Staff' = Staff
      BY <1>1 DEF Working, Staff
    <3>2. s \in kept => owner[s] \in Working /\ (s \in staffed' => s \in staffed \/ owner[s] \in Staff)
      BY <1>0, <1>2
    <3>3. CASE s \in kept
      <4>1. s \in staffed' /\ owner[s] \notin Staff
        BY <1>1, <1>5, <3>1, <3>2, <3>3 DEF Outranked
      <4>2. s \in staffed /\ owner[s] \notin Staff
        BY <3>2, <3>3, <4>1
      <4> QED
        BY <1>0, <4>2 DEF Outranked, TypeOK
    <3>4. CASE s \notin kept
      <4>1. s \in handed /\ (s \in staffed' => s \in staffed)
        BY <1>2, <1>5, <3>4
      <4> QED
        BY <1>1, <1>5, <3>1, <4>1 DEF Outranked
    <3> QED
      BY <3>3, <3>4
  <2>2. v \in interrupted \/ BeingRevoked(v)
    BY <1>1, <1>5, <2>1 DEF SInv, LostRightsEndSessions
  <2> QED
    BY <1>1, <1>4, <2>2
<1>6. LostRightsEndSessions'
  <2>1. ASSUME NEW s \in live' \cap handed', Outranked(s)'
        PROVE  owner'[s] \in interrupted' \/ BeingRevoked(owner[s])'
    <3>1. PICK v : v = owner[s] /\ v = owner'[s]
      BY <1>1
    <3>2. v \in interrupted' \/ BeingRevoked(v)'
      BY <1>5, <2>1, <3>1
    <3> QED
      BY <3>1, <3>2 DEF BeingRevoked
  <2> QED
    BY <2>1 DEF LostRightsEndSessions
<1> QED
  BY <1>3, <1>6 DEF SInv

LEMMA SessionsEndKept ==
    ASSUME TInv, SInv, [Next]_vars, SessionsProper
    PROVE  SInv'
<1> USE DEF sessionVars, userVars, historyVars, requestVars
<1>0. TypeOK
  BY DEF TInv
<1> DEFINE SameRights == UNCHANGED <<known, active, deleted, role, handed, staffed, interrupted>>
           NewSession == \E u, s, b : OpenSession(u, s, b)
<1>1. ASSUME SameRights, live' \subseteq live \/ NewSession,
             \A q \in Requests : job[q].step = "revoking" => job'[q] = job[q]
      PROVE  SInv'
  <2>1. \A s \in live \cap handed : Outranked(s)' => Outranked(s)
    BY <1>0, <1>1 DEF Outranked, Working, Staff, SInv, HandedAreOwned, SessionsProper, TypeOK
  <2>2. \A s \in live' \cap handed : s \in live
    BY <1>1 DEF OpenSession, Unused, SInv, HandedAreOwned
  <2> QED
    BY <1>1, <2>1, <2>2, Harmless
<1>2. ASSUME NEW r \in Requests, job[r].step # "revoking", \E j : Update(r, j)
      PROVE  \A q \in Requests : job[q].step = "revoking" => job'[q] = job[q]
  BY <1>0, <1>2 DEF Update, TypeOK
<1>3. ASSUME NEW r \in Requests, UserStep(r)
      PROVE  SInv'
  <2>1. CASE RegisterUser(r)
    <3>1. \A s \in live \cap handed : Outranked(s)' => Outranked(s)
      BY <1>0, <2>1 DEF RegisterUser, Outranked, Working, Staff, TypeOK
    <3>2. job[r].step # "revoking"
      BY <2>1 DEF RegisterUser, Start, Idle, Job
    <3>3. \A q \in Requests : job[q].step = "revoking" => job'[q] = job[q]
      BY <1>2, <2>1, <3>2 DEF RegisterUser
    <3> QED
      BY <2>1, <3>1, <3>3, Harmless DEF RegisterUser
  <2>2. CASE ReadUser(r)
    BY <2>2, SessionsAfterReading
  <2>3. CASE SignIn(r) \/ Gate(r)
    <3>1. job[r].step # "revoking"
      <4>1. job[r] = Idle
        BY <2>3 DEF SignIn, Gate, Start
      <4> QED
        BY <4>1 DEF Idle, Job
    <3>2. \A q \in Requests : job[q].step = "revoking" => job'[q] = job[q]
      BY <1>2, <2>3, <3>1 DEF SignIn, Gate
    <3>3. SameRights /\ (live' \subseteq live \/ NewSession)
      BY <2>3 DEF SignIn, Gate
    <3> QED
      BY <1>1, <3>2, <3>3
  <2>4. CASE SignUp(r) \/ Bootstrap(r)
    <3>1. \A q \in Requests : job[q].step = "revoking" => job'[q] = job[q]
      BY <1>2, <2>4 DEF SignUp, Bootstrap, AfterBootstrap, Goto, Finish
    <3> QED
      BY <1>1, <2>4, <3>1 DEF SignUp, Bootstrap
  <2>5. CASE \/ RevokeSessionById(r) \/ RevokeOtherSessions(r) \/ ChangePassword(r)
             \/ LogoutUser(r)
    <3>1. job[r].step = "asked" /\ Finish(r)
      BY <2>5 DEF RevokeSessionById, RevokeOtherSessions, ChangePassword, EndsSessions,
         LogoutUser
    <3>2. \A q \in Requests : job[q].step = "revoking" => job'[q] = job[q]
      BY <1>2, <3>1 DEF Finish
    <3> QED
      BY <1>1, <2>5, <3>2 DEF RevokeSessionById, RevokeOtherSessions, ChangePassword,
         EndsSessions, LogoutUser, DropSessions
  <2> QED
    BY <1>3, <2>1, <2>2, <2>3, <2>4, <2>5 DEF UserStep
<1>4. ASSUME NEW r \in Requests, StaffStep(r) \/ CutOff(r)
      PROVE  SInv'
  <2>1. CASE RequireRole(r) \/ Check(r) \/ UpdatePlan(r) \/ TriggerPasswordReset(r)
    <3>1. \A q \in Requests : job[q].step = "revoking" => job'[q] = job[q]
      BY <1>2, <2>1 DEF RequireRole, Check, Checks, UpdatePlan, TriggerPasswordReset,
         Goto, Finish
    <3> QED
      BY <1>1, <2>1, <3>1 DEF RequireRole, Check, UpdatePlan, TriggerPasswordReset
  <2>2. CASE UpdateStatus(r) \/ UpdateRole(r) \/ DeleteAccount(r)
    <3>1. Finish(r) \/ Goto(r, "revoking")
      BY <2>2 DEF UpdateStatus, UpdateRole, DeleteAccount
    <3>2. DeleteAccount(r) => Goto(r, "revoking")
      BY DEF DeleteAccount
    <3> QED
      BY <2>2, <3>1, <3>2, SessionsAfterWrite, SessionsAfterGrant
  <2>3. CASE DeleteUser(r) \/ Revoke(r)
    BY <2>3, SessionsAfterWrite
  <2>4. CASE CutOff(r)
    <3>1. \A q \in Requests : job[q].step = "revoking" =>
              job'[q] = job[q] \/ Subject(q) \in interrupted'
      BY <1>0, <2>4 DEF CutOff, Finish, Update, TypeOK
    <3>2. \A s \in live \cap handed : Outranked(s)' => Outranked(s)
      BY <2>4 DEF CutOff, Outranked, Working, Staff
    <3> QED
      BY <2>4, <3>1, <3>2, Harmless DEF CutOff
  <2> QED
    BY <1>4, <2>1, <2>2, <2>3, <2>4 DEF StaffStep
<1>5. CASE Outside
  <2>1. SameRights /\ UNCHANGED job
    BY <1>5 DEF Outside, SocialSignIn, VerifyEmail, ResendVerification, EnterDirectly,
       RequestPasswordReset, ResetPassword, CacheExpires
  <2>2. live' \subseteq live \/ NewSession
    BY <1>5 DEF Outside, SocialSignIn, VerifyEmail, ResendVerification, EnterDirectly,
       RequestPasswordReset, ResetPassword, CacheExpires
  <2> QED
    BY <1>1, <2>1, <2>2
<1>6. CASE UNCHANGED vars
  BY <1>1, <1>6 DEF vars
<1> QED
  BY <1>3, <1>4, <1>5, <1>6 DEF Next

LEMMA SessionsFirst == ASSUME Init PROVE SInv
<1>1. \A s \in handed : owner[s] # None
  BY DEF Init, Unused
<1>2. \A s \in handed : owner[s] \in active
  BY <1>1 DEF Init, Unused
<1>3. \A s \in handed : ~Outranked(s)
  BY <1>2 DEF Init, Outranked, Working, Staff
<1> QED
  BY <1>1, <1>3 DEF SInv, HandedAreOwned, LostRightsEndSessions

\* However sign-ins, deactivations, demotions and deletions overlap, a session
\* loginUser returned does not outlive the rights it came with, unless the
\* request that was to remove it was cut off.
THEOREM SessionsEndWithRights == Spec => []LostRightsEndSessions
<1>1. Init => TInv /\ SInv
  BY Started, SessionsFirst
<1>2. TInv /\ SInv /\ [Next]_vars => TInv' /\ SInv'
  BY TypesKept, SessionsKept, SessionsEndKept
<1>3. SInv => LostRightsEndSessions
  BY DEF SInv
<1> QED
  BY <1>1, <1>2, <1>3, PTL DEF Spec
-----------------------------------------------------------------------------
(* Rows come in pairs *)

\* A request past the gate, or about to write a profile alone, has an actor
\* whose subscription is there.
RowsSound(j, subs) ==
    (\/ j.step \in {"asked", "allowed", "checked"}
     \/ j.step = "bootstrap" /\ "subscription" \notin j.missing) => j.actor \in subs
WInv ==
    /\ profiles \subseteq subscribers
    /\ \A r \in Requests : RowsSound(job[r], subscribers)

LEMMA MissingRow == ASSUME NEW u PROVE "subscription" \notin Missing(u) <=> u \in subscribers
  BY DEF Missing, Rows

\* The transaction writes both rows, or the one that was missing.
LEMMA RowsAfterBootstrap ==
    ASSUME TypeOK, WInv, NEW r \in Requests, Bootstrap(r)
    PROVE  /\ profiles' \subseteq subscribers' /\ subscribers \subseteq subscribers'
           /\ Actor(r) \in subscribers'
<1> DEFINE u == Actor(r)
           missing == job[r].missing
<1>0. profiles \subseteq subscribers
  BY DEF WInv
<1>1. PICK rows : /\ rows = (IF missing \subseteq Missing(u) THEN missing ELSE {})
                  /\ profiles' = profiles \cup {x \in {u} : "business" \in rows}
                  /\ subscribers' = subscribers \cup {x \in {u} : "subscription" \in rows}
  BY DEF Bootstrap, AddRows
<1>2. "subscription" \notin missing => u \in subscribers
  BY DEF WInv, RowsSound, Bootstrap, Actor
<1>3. CASE missing \subseteq Missing(u)
  BY <1>0, <1>1, <1>2, <1>3
<1>4. CASE ~(missing \subseteq Missing(u))
  <2>1. PICK row \in missing : row \notin Missing(u)
    BY <1>4
  <2>2. missing \subseteq Rows
    BY DEF TypeOK, Jobs
  <2>3. u \in profiles \/ u \in subscribers
    BY <2>1, <2>2 DEF Missing
  <2> QED
    BY <1>0, <1>1, <1>4, <2>3
<1> QED
  BY <1>3, <1>4

LEMMA WholeKept ==
    ASSUME TypeOK, WInv, [Next]_vars
    PROVE  WInv'
<1> DEFINE Grown == profiles' \subseteq subscribers' /\ subscribers \subseteq subscribers'
<1>0. UNCHANGED rowVars => Grown
  BY DEF WInv, rowVars
<1>1. ASSUME Grown, UNCHANGED job
      PROVE  WInv'
  BY <1>1 DEF WInv, RowsSound
<1>2. ASSUME Grown, NEW r \in Requests, NEW j, Update(r, j), RowsSound(j, subscribers')
      PROVE  WInv'
  <2>1. \A q \in Requests : job'[q] = j \/ job'[q] = job[q]
    BY <1>2 DEF Update, TypeOK
  <2>2. ASSUME NEW q \in Requests
        PROVE  RowsSound(job'[q], subscribers')
    <3>1. RowsSound(job[q], subscribers')
      BY <1>2 DEF WInv, RowsSound
    <3> QED
      BY <1>2, <2>1, <3>1
  <2> QED
    BY <1>2, <2>2 DEF WInv
<1>3. ASSUME Grown, NEW r \in Requests, Finish(r)
      PROVE  WInv'
  <2>1. RowsSound(Idle, subscribers')
    BY DEF RowsSound, Idle, Job
  <2> QED
    BY <1>2, <1>3, <2>1 DEF Finish
<1>4. ASSUME Grown, NEW r \in Requests, NEW step \in Steps \ {"bootstrap"}, Goto(r, step),
             step \in {"asked", "allowed", "checked"} => Actor(r) \in subscribers'
      PROVE  WInv'
  <2>1. RowsSound(Job(step, job[r].ask, job[r].actor, job[r].session, job[r].missing),
                  subscribers')
    BY <1>4 DEF RowsSound, Job, Actor
  <2> QED
    BY <1>2, <1>4, <2>1 DEF Goto
<1>5. {"signup", "asked", "allowed", "checked", "revoking"} \subseteq Steps \ {"bootstrap"}
  BY DEF Steps
<1>6. ASSUME NEW r \in Requests, job[r].step \in {"asked", "allowed", "checked"}
      PROVE  Actor(r) \in subscribers
  BY <1>6 DEF WInv, RowsSound, Actor
<1>7. ASSUME NEW r \in Requests, UserStep(r)
      PROVE  WInv'
  <2>1. CASE RegisterUser(r) \/ SignUp(r)
    <3>1. PICK u, s : Update(r, Job("bootstrap", Entry, u, s, Missing(u)))
      BY <2>1 DEF RegisterUser, SignUp
    <3>2. Grown /\ subscribers' = subscribers
      BY <1>0, <2>1 DEF RegisterUser, SignUp, rowVars
    <3>3. RowsSound(Job("bootstrap", Entry, u, s, Missing(u)), subscribers')
      BY <3>2, MissingRow DEF RowsSound, Job
    <3> QED
      BY <1>2, <3>1, <3>2, <3>3
  <2>2. CASE SignIn(r)
    <3>1. PICK u, s : Update(r, Job("signedIn", Entry, u, s, {}))
      BY <2>2 DEF SignIn
    <3>2. RowsSound(Job("signedIn", Entry, u, s, {}), subscribers')
      BY DEF RowsSound, Job
    <3> QED
      BY <1>0, <1>2, <2>2, <3>1, <3>2 DEF SignIn
  <2>3. CASE Gate(r)
    <3>1. PICK u, s, what, step :
            /\ step = IF Missing(u) = {} THEN "asked" ELSE "bootstrap"
            /\ Update(r, Job(step, what, u, s, Missing(u)))
      BY <2>3 DEF Gate
    <3>2. Grown /\ subscribers' = subscribers
      BY <1>0, <2>3 DEF Gate, rowVars
    <3>3. "subscription" \notin Missing(u) => u \in subscribers
      BY MissingRow
    <3>4. RowsSound(Job(step, what, u, s, Missing(u)), subscribers')
      BY <3>1, <3>2, <3>3 DEF RowsSound, Job
    <3> QED
      BY <1>2, <3>1, <3>2, <3>4
  <2>4. CASE Bootstrap(r)
    <3>1. Grown /\ Actor(r) \in subscribers'
      BY <2>4, RowsAfterBootstrap
    <3> QED
      BY <1>3, <1>4, <1>5, <2>4, <3>1 DEF Bootstrap, AfterBootstrap
  <2>5. CASE ReadUser(r) \/ LogoutUser(r) \/ RevokeSessionById(r) \/ RevokeOtherSessions(r)
             \/ ChangePassword(r)
    BY <1>0, <1>3, <2>5 DEF ReadUser, LogoutUser, RevokeSessionById, RevokeOtherSessions,
       ChangePassword, EndsSessions
  <2> QED
    BY <1>7, <2>1, <2>2, <2>3, <2>4, <2>5 DEF UserStep
<1>8. ASSUME NEW r \in Requests, StaffStep(r) \/ CutOff(r)
      PROVE  WInv'
  <2>1. CASE RequireRole(r) \/ Check(r)
    <3>1. Grown /\ subscribers' = subscribers
      BY <1>0, <2>1 DEF RequireRole, Check, rowVars
    <3>2. Actor(r) \in subscribers'
      BY <1>6, <2>1, <3>1 DEF RequireRole, Check, Checks
    <3> QED
      BY <1>3, <1>4, <1>5, <2>1, <3>1, <3>2 DEF RequireRole, Check
  <2>2. CASE UpdatePlan(r)
    <3>1. Grown
      BY <2>2 DEF UpdatePlan, WInv
    <3> QED
      BY <1>3, <2>2, <3>1 DEF UpdatePlan
  <2>3. CASE UpdateStatus(r) \/ UpdateRole(r) \/ DeleteAccount(r)
    BY <1>0, <1>3, <1>4, <1>5, <2>3 DEF UpdateStatus, UpdateRole, DeleteAccount
  <2>4. CASE DeleteUser(r) \/ Revoke(r) \/ TriggerPasswordReset(r) \/ CutOff(r)
    BY <1>0, <1>3, <2>4 DEF DeleteUser, Revoke, TriggerPasswordReset, CutOff
  <2> QED
    BY <1>8, <2>1, <2>2, <2>3, <2>4 DEF StaffStep
<1>9. CASE Outside
  BY <1>0, <1>1, <1>9 DEF Outside, SocialSignIn, VerifyEmail, ResendVerification,
     RequestPasswordReset, ResetPassword, CacheExpires, requestVars
<1> QED
  BY <1>0, <1>1, <1>7, <1>8, <1>9 DEF Next, vars, requestVars

\* However first requests, registrations and changes of plan overlap, no
\* profile is without a subscription, nor is any request past the gate.
THEOREM RowsComeInPairs == Spec => []WorkspaceWhole
<1>1. Init => TInv /\ WInv
  <2>1. Init => WInv
    BY DEF Init, WInv, RowsSound, Idle, Job
  <2> QED
    BY <2>1, Started
<1>2. TInv /\ WInv /\ [Next]_vars => TInv' /\ WInv'
  BY TypesKept, WholeKept DEF TInv
<1>3. WInv => WorkspaceWhole
  BY DEF WInv, WorkspaceWhole, RowsSound, Actor
<1> QED
  BY <1>1, <1>2, <1>3, PTL DEF Spec

-----------------------------------------------------------------------------
(* The figures of the admin pages *)

LEMMA Split ==
    ASSUME NEW S, IsFiniteSet(S), NEW A, NEW B, S = A \cup B, A \cap B = {}
    PROVE  /\ Cardinality(S) = Cardinality(A) + Cardinality(B)
           /\ Cardinality(A) \in Nat /\ Cardinality(B) \in Nat
           /\ IsFiniteSet(A) /\ IsFiniteSet(B)
<1>1. A \in SUBSET S /\ B \in SUBSET S
  OBVIOUS
<1>2. IsFiniteSet(A) /\ IsFiniteSet(B)
  BY <1>1, FS_Subset
<1>3. Cardinality(A) \in Nat /\ Cardinality(B) \in Nat
  BY <1>2, FS_CardinalityType
<1>4. Cardinality(A \cup B) = Cardinality(A) + Cardinality(B) - Cardinality(A \cap B)
  BY <1>2, FS_Union
<1>5. Cardinality(A \cap B) = 0
  BY FS_EmptySet
<1> QED
  BY <1>2, <1>3, <1>4, <1>5

\* The filters of the user list partition the users counted by the platform
\* figures, and so do the roles.
THEOREM FiguresAgree == Spec => []StatsAgree
<1>1. TypeOK => StatsAgree
  <2> SUFFICES ASSUME TypeOK PROVE StatsAgree
    OBVIOUS
  <2>0. IsFiniteSet(known)
    BY AdminsFinite
  <2>1. PICK on, off, kept, users, support, admins, staff :
          /\ on = active \ deleted /\ off = (known \ active) \ deleted /\ kept = known \ deleted
          /\ users = {u \in known \ deleted : role[u] = "USER"}
          /\ support = {u \in known \ deleted : role[u] = "SUPPORT"}
          /\ admins = {u \in known \ deleted : role[u] = "SUPER_ADMIN"}
          /\ staff = support \cup admins
    OBVIOUS
  <2>2. /\ known = kept \cup deleted /\ kept \cap deleted = {}
        /\ kept = on \cup off /\ on \cap off = {}
    BY <2>1 DEF TypeOK
  <2>3. /\ kept = users \cup staff /\ users \cap staff = {}
        /\ staff = support \cup admins /\ support \cap admins = {}
    BY <2>1 DEF TypeOK, Roles
  <2>4. /\ Cardinality(known) = Cardinality(kept) + Cardinality(deleted)
        /\ Cardinality(kept) \in Nat /\ Cardinality(deleted) \in Nat /\ IsFiniteSet(kept)
    BY <2>0, <2>2, Split
  <2>5. /\ Cardinality(kept) = Cardinality(on) + Cardinality(off)
        /\ Cardinality(on) \in Nat /\ Cardinality(off) \in Nat
    <3>1. IsFiniteSet(kept) /\ kept = on \cup off /\ on \cap off = {}
      BY <2>2, <2>4
    <3> QED
      BY <3>1, Split
  <2>6. /\ Cardinality(kept) = Cardinality(users) + Cardinality(staff)
        /\ Cardinality(users) \in Nat /\ IsFiniteSet(staff)
    <3>1. IsFiniteSet(kept) /\ kept = users \cup staff /\ users \cap staff = {}
      BY <2>3, <2>4
    <3>2. Cardinality(kept) = Cardinality(users) + Cardinality(staff)
      BY <3>1, Split
    <3>3. Cardinality(users) \in Nat /\ IsFiniteSet(staff)
      BY <3>1, Split
    <3> QED
      BY <3>2, <3>3
  <2>7. /\ Cardinality(staff) = Cardinality(support) + Cardinality(admins)
        /\ Cardinality(support) \in Nat /\ Cardinality(admins) \in Nat
    <3>1. IsFiniteSet(staff) /\ staff = support \cup admins /\ support \cap admins = {}
      BY <2>3, <2>6
    <3> QED
      BY <3>1, Split
  <2>8. /\ Active = Cardinality(on) /\ Listed("active") = on /\ Listed("inactive") = off
        /\ Total = Cardinality(known) /\ Deleted = Cardinality(deleted)
    BY <2>1 DEF Active, Listed, Total, Deleted
  <2>9. /\ UsersByRole("USER") = Cardinality(users)
        /\ UsersByRole("SUPPORT") = Cardinality(support)
        /\ UsersByRole("SUPER_ADMIN") = Cardinality(admins)
    BY <2>1 DEF UsersByRole
  <2> QED
    BY <2>4, <2>5, <2>6, <2>7, <2>8, <2>9 DEF StatsAgree
<1> QED
  BY <1>1, TypeCorrect, PTL
=============================================================================
