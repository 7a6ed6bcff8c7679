\* A client of the Admin API writes a path with a leading slash.
SPECIFICATION Spec
CONSTANTS
    u1 = u1
    m1 = m1
    p1 = p1
    slash_p1 = slash_p1
    Users = {u1, m1}
    Paths = {p1, slash_p1}
    Ids = {i1, i2}
    Data = {d1}
    Labels = {blank}
    Blank = blank
    Wiped = Wiped
    NoSecret = NoSecret
    NoVersion = NoVersion
    NoKey = NoKey
    MaxVersion = 2
    MaxKeyVersion = 1
    MaxUnreviewed = 2
    Norm <- Spellings
    Admins = {}
    Managers = {m1}
    GrantSets <- Granted
    Workflows <- AlwaysOn
    V1Users = {}
    Requests = {c1, c2}
    Approvals = {a1, a2}
    NoApproval = NoApproval
    Idle = Idle
    Nobody = Nobody
SYMMETRY Sym
PROPERTIES
    AppliedAsReviewed
