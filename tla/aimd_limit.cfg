SPECIFICATION Spec
CONSTANTS
    InitialLimit = 4
    MinLimit = 2
    MaxLimit = 9
    AdditiveStep = 3
    LowerPct = 20
    UpperPct = 40
    CriticalPct = 60
    MinSamples = 2
    MaxQueries = 6
    Env = {"read_error"}
INVARIANTS
    LimitInRange
    WindowsAreReal
PROPERTIES
    CutOnlyByNewTimeouts
