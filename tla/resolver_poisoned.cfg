SPECIFICATION Spec
CONSTANTS
    NoCaller = NoCaller
    NoDomain = NoDomain
    Callers = {c1, c2}
    Domains = {d1}
    Limit = 1
    MaxRetries = 1
    Faults = {}
    Env = {"cancel"}
INVARIANTS
    CachedIsDefinitive
CHECK_DEADLOCK FALSE
