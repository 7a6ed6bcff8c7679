CONSTANTS
    i1 = i1
    i2 = i2
    u1 = u1
    u2 = u2
    client = client
    Urls = {i1, i2}
    Insecure = {i2}
    NoUrl = NoUrl
    Scopes <- MCScopes
    Clients = {client}
    Admins = {a1, a2}
    Inputs <- MCInputs
    Accounts <- MCAccounts
    Tokens <- MCTokens
    Calls = {c1}
    Here = Here
    Absent = Absent
    NoRow = NoRow
    Idle = Idle
    NoProvider = NoProvider
    NoCall = NoCall
SYMMETRY Symmetry
SPECIFICATION Spec
INVARIANTS
    RowsValid
    SigningKeyKept
    AccountOfToken
    CeilingHeld
CHECK_DEADLOCK FALSE
