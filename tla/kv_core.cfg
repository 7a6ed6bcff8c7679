\* Two concurrent requests on one path: versions, CAS, deletes, purge, keys.
SPECIFICATION Spec
CONSTANTS
    u1 = u1
    p1 = p1
    d1 = d1
    Users = {u1}
    Paths = {p1}
    Ids = {i1, i2}
    Data = {d1}
    Labels = {blank, l1}
    Blank = blank
    Wiped = Wiped
    NoSecret = NoSecret
    NoVersion = NoVersion
    NoKey = NoKey
    MaxVersion = 2
    MaxKeyVersion = 1
    Requests = {c1, c2}
    Grants <- AllGrants
    PermissionSets = {}
    CasValues = {0, 1}
    NoCas = NoCas
    Idle = Idle
    PutAttempts = 2
SYMMETRY Sym
INVARIANTS
    HistoryComplete
    IInv
PROPERTIES
    HistoryImmutable
    CASExact
    LabelsKept
    FrozenWhileDeleted
    ImplementsVersionedKV
