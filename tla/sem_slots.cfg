SPECIFICATION FairSpec
CONSTANTS
    Calls = {c1, c2, c3, c4}
    CanCancel = {c1, c2, c3, c4}
    InitialLimit = 1
    NewLimits = {0, 2, 3}
INVARIANTS
    TypeOK
    InflightExact
    WakeupsCoverFreeSlots
PROPERTIES
    ImplementsLimiter
    EventuallyServed
    CancelUnblocks
CHECK_DEADLOCK FALSE
