SPECIFICATION FairSpec
CONSTANTS
    NoCaller = NoCaller
    NoDomain = NoDomain
    Callers = {c1, c2}
    Domains = {d1, d2}
    Limit = 1
    MaxRetries = 1
    Faults = {"timeout", "servfail", "truncated"}
    Env = {"cancel", "l2_error", "expire", "evict", "clear"}
INVARIANTS
    TypeOK
    OneLeaderPerFlight
    AnswersSound
    SlotsExact
    OnlyCancelPoisons
PROPERTIES
    EveryLookupReturns
CHECK_DEADLOCK FALSE
