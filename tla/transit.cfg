CONSTANTS
    admin = admin
    manager = manager
    Names = {n1}
    Requests = {r1, r2, r3}
    Callers = {admin, manager}
    Role <- MCRole
    Grants <- MCGrants
    Inputs <- MCInputs
    Plaintexts = {p1}
    MaxVersion = 2
    MaxBatch = 2
    NoRow = NoRow
    Bad = Bad
SYMMETRY Symmetry
SPECIFICATION Spec
INVARIANTS
    IInv
    CiphertextsOpen
    DisclosureAudited
PROPERTIES
    PermissionsStable
    ImplementsKeyRing
CHECK_DEADLOCK FALSE
