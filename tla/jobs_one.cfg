SPECIFICATION Spec
CONSTANTS
    NoJob = NoJob
    e1 = e1
    e2 = e2
    e3 = e3
    Jobs = {j1}
    Workers = {w1, w2}
    Emails = {e1, e2, e3}
    Norm <- MCNorm
    BatchSize = 2
    QueueCap = 2
    MaxUpload = 3
    Env = {"admin", "request_abort", "write_error", "tracker_error", "recovery_error", "deadline", "crash", "sigterm", "peer_boot", "idle_5min"}
INVARIANTS
    TypeOK
    InFlightOnce
    ProgressNeverOverstates
    CompletedMeansPersisted
PROPERTIES
    ImplementsContract
    CancelBeforeStartHolds
CHECK_DEADLOCK FALSE
