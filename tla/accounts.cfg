\* Three requests and sign-ins of two users and a newcomer, any two at a time;
\* u1 and u2 may be users, support or super admins, one of them disabled.
SPECIFICATION Spec
CONSTANTS
    Users = {u1, u2, u3}
    Registered = {u1, u2}
    Sessions = {s1, s2, s3}
    Requests = {r1, r2}
    None = None
    MaxRequests = 3
SYMMETRY AccountSymmetry
INVARIANTS
    TypeOK AdminRemains DeletedIsInactive LostRightsEndSessions
    WorkspaceWhole
\* When no further request comes, nothing more happens.
CHECK_DEADLOCK FALSE
