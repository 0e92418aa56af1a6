SPECIFICATION Spec
CONSTANTS
    NoJob = NoJob
    e1 = e1
    e2 = e2
    e3 = e3
    Jobs = {j1}
    Workers = {w1}
    Emails = {e1, e2, e3}
    Norm <- MCNorm
    BatchSize = 2
    QueueCap = 1
    MaxUpload = 3
    Env = {"sigterm", "idle_5min"}
PROPERTIES
    BootClearsOrphans
CHECK_DEADLOCK FALSE
