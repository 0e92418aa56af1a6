SPECIFICATION FairSpec
CONSTANTS
    NoDomain = NoDomain
    Garbled = Garbled
    good = good
    near = near
    badtld = badtld
    spaced = spaced
    Emails = {e1, e2}
    Domains = {good, near, badtld, spaced}
    Trim <- MCTrim
    KnownTLD = {good, near, spaced}
    Free = {good}
    Shapes <- MCShapes
    Spelling <- MCSpelling
    CommonDomains <- MCCommonDomains
    NoSuggestion = NoSuggestion
    Letters = {1, 2, 3}
    MaxDist = 2
    Words <- MCWords
    Modes = {"job", "sync"}
    Embedded = {good}
    Bodies <- MCBodies
    Tables <- MCTables
    SeedChunks <- MCSeedChunks
    Lookups = {"ok_mx", "ok_a", "no_mx", "nxdomain", "timeout"}
    Concurrency = 2
    Weights <- MCWeights
    ValidMin = 80
    RiskyMin = 40
    Env = {"cancel", "update", "reload", "seed"}
INVARIANTS
    TypeOK
    VerdictExplained
    RowsAndCountersAgree
    
    OwnCancelNotStored
    CommonDomainsCaught
    DistanceIsAlignment
    
PROPERTIES
    EveryBatchEnds
CHECK_DEADLOCK FALSE
