CONSTANTS
    p1 = p1
    reader = reader
    auditor = auditor
    Users = {reader, auditor}
    Paths = {p1}
    Ids = {i1, i2}
    Data = {d1}
    Labels = {blank}
    Blank = blank
    Wiped = Wiped
    NoSecret = NoSecret
    NoVersion = NoVersion
    NoKey = NoKey
    MaxVersion = 2
    MaxKeyVersion = 1
    Text <- MCText
    Probes <- MCProbes
    Alphabet <- MCAlphabet
    MaxText = 4
    Role <- MCRole
    ActiveUsers = {reader}
    PolicyIds = {pol1}
    PolicyInputs <- MCPolicyInputs
    NoPolicy = NoPolicy
    Calls = {c1}
    NoCall = NoCall
    NoValue = NoValue
    NoLog = NoLog
SYMMETRY Symmetry
SPECIFICATION Spec
INVARIANTS
    TypeOK
    EvaluatorsAgree
    ValueAudited
    MetadataWhole
    AnswerCoherent
PROPERTIES
    FreshPolicyUnassigned
CHECK_DEADLOCK FALSE
