\* Logins through OIDC next to every other operation.
SPECIFICATION Spec
CONSTANTS
    a1 = a1
    a2 = a2
    u1 = u1
    Users = {a1, a2}
    SessionIds = {s1, s2}
    Codes = {k1}
    Requests = {c1, c2}
    InitUsers <- OneAdmin
    Roles = {"admin", "user"}
    ClaimRoles = {"user", "admin"}
    AdminOps = {"create", "update", "delete", "revoke"}
    Keep = Keep
    NoUser = NoUser
    NoSession = NoSession
    NoCode = NoCode
    Idle = Idle
    MaxPassword = 1
SYMMETRY Sym
INVARIANTS
    CodeSpentOnce
