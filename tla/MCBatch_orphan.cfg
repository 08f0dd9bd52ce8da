SPECIFICATION Spec
CONSTANTS
    a1 = a1
    a2 = a2
    Jobs = {"a"}
    Items <- OneItem
    JobOf <- OneJobOf
    MaxAttempts = 2
    ReadCount = 2
    Workers = {w1, w2}
    Concurrency = 1
    OutboxBatch = 1
    Patient = FALSE
    NoJob = NoJob
    NoItem = NoItem
    MaxStream = 1
    MaxFaults = 0
    MaxCrashes = 1
    MaxMoot = 0
    MaxTroubles = 2
INVARIANT NoOrphan
CHECK_DEADLOCK FALSE
