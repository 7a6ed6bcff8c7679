\* One slot, two events, retries, and one restart or failed statement.
SPECIFICATION FairSpec
CONSTANTS
    Deliveries = {i1, i2}
    Handlers = {h1, h2}
    Workers = {w1, w2}
    Slots = 1
    MaxAttempts = 2
    MaxFaults = 1
    NoRow = NoRow
    Idle = Idle
INVARIANTS
    TypeOK
    DeliveredIsTrue
    SlotsBalanced
PROPERTIES
    HistoryGrows
    PendingCloses
CHECK_DEADLOCK FALSE
