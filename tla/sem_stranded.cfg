SPECIFICATION FairSpec
CONSTANTS
    Calls = {c1, c2, c3}
    CanCancel = {c2}
    InitialLimit = 1
    NewLimits = {}
PROPERTIES
    NotBlockedBesideFreeSlot
CHECK_DEADLOCK FALSE
