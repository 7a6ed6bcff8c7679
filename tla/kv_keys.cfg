\* Key rotation and permission changes around the writes of an account, whose
\* transactions may all abort.
SPECIFICATION FairSpec
CONSTANTS
    u1 = u1
    p1 = p1
    d1 = d1
    Users = {u1}
    Paths = {p1}
    Ids = {i1}
    Data = {d1}
    Labels = {blank}
    Blank = blank
    Wiped = Wiped
    NoSecret = NoSecret
    NoVersion = NoVersion
    NoKey = NoKey
    MaxVersion = 2
    MaxKeyVersion = 3
    Requests = {c1}
    Grants <- AllGrants
    PermissionSets <- SomePerms
    CasValues = {}
    NoCas = NoCas
    Idle = Idle
    PutAttempts = 5
INVARIANTS
    LiveReadable
PROPERTIES
    RequestsEnd
