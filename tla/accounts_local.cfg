\* Administrators update each other and accounts; OIDC is off and nobody is deleted.
SPECIFICATION Spec
CONSTANTS
    a1 = a1
    a2 = a2
    u1 = u1
    Users = {a1, a2}
    SessionIds = {s1, s2}
    Codes = {}
    Requests = {c1, c2}
    InitUsers <- TwoAdmins
    Roles = {"admin", "user"}
    ClaimRoles = {}
    AdminOps = {"create", "update", "token", "revoke"}
    Keep = Keep
    NoUser = NoUser
    NoSession = NoSession
    NoCode = NoCode
    Idle = Idle
    MaxPassword = 2
SYMMETRY Sym
INVARIANTS
    TypeOK
    AdminRemains
PROPERTIES
    PasswordChangeEndsSessions
