SPECIFICATION FairSpec
CONSTANTS
    a1 = a1
    a2 = a2
    Jobs = {"a"}
    Items <- OneItem
    JobOf <- OneJobOf
    MaxAttempts = 2
    ReadCount = 2
    Workers = {w1}
    Concurrency = 1
    OutboxBatch = 1
    Patient = TRUE
    NoJob = NoJob
    NoItem = NoItem
    MaxStream = 4
    MaxFaults = 1
    MaxCrashes = 1
    MaxMoot = 1
    MaxTroubles = 2
INVARIANT
    MootLeavesRecord
PROPERTY
    PipelineDrains
CHECK_DEADLOCK FALSE
