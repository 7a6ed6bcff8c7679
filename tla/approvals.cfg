\* Review is switched on and off, /v1 writes, accounts and policies change.
SPECIFICATION Spec
CONSTANTS
    u1 = u1
    m1 = m1
    p1 = p1
    slash_p1 = slash_p1
    Users = {u1, m1}
    Paths = {p1}
    Ids = {i1, i2}
    Data = {d1}
    Labels = {blank, l1}
    Blank = blank
    Wiped = Wiped
    NoSecret = NoSecret
    NoVersion = NoVersion
    NoKey = NoKey
    MaxVersion = 2
    MaxKeyVersion = 1
    MaxUnreviewed = 1
    Norm <- Spellings
    Admins = {}
    Managers = {m1}
    GrantSets <- GrantOrNot
    Workflows <- Changing
    V1Users = {u1}
    Requests = {c1}
    Approvals = {a1, a2}
    NoApproval = NoApproval
    Idle = Idle
    Nobody = Nobody
SYMMETRY Sym
INVARIANTS
    IInv
    ReviewedWrites
PROPERTIES
    AppliedAsReviewed
    DecidedOnce
