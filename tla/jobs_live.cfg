SPECIFICATION FairSpec
CONSTANTS
    NoJob = NoJob
    e1 = e1
    e2 = e2
    e3 = e3
    Jobs = {j1, j2}
    Workers = {w1}
    Emails = {e1, e2}
    Norm <- MCNorm
    BatchSize = 1
    QueueCap = 1
    MaxUpload = 2
    Env = {"write_error", "deadline"}
INVARIANTS
    RequeueCopies
PROPERTIES
    EveryJobTerminates
CHECK_DEADLOCK FALSE
