\* A full table, two logins in flight and windows that run out.
SPECIFICATION LimiterSpec
CONSTANTS
    Keys = {k1, k2, k3, k4}
    Logins = {c1, c2}
    Limit = 2
    Window = 3
    Capacity = 3
    MaxTime = 6
    NoEntry = NoEntry
    NoLogin = NoLogin
SYMMETRY Sym
INVARIANTS
    WithinCapacity
    GuessesBounded
PROPERTIES
    LockoutKept
