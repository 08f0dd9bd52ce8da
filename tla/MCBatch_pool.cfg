SPECIFICATION Spec
CONSTANTS
    a1 = a1
    a2 = a2
    Jobs = {"a"}
    Items <- TwoItems
    JobOf <- TwoJobOf
    MaxAttempts = 2
    ReadCount = 2
    Workers = {w1}
    Concurrency = 2
    OutboxBatch = 1
    Patient = FALSE
    NoJob = NoJob
    NoItem = NoItem
    MaxStream = 2
    MaxFaults = 1
    MaxCrashes = 1
    MaxMoot = 1
    MaxTroubles = 1
SYMMETRY Symmetry
INVARIANTS
    OneHolder
    TerminalJobTruthful
PROPERTIES
    StoreSpec
CHECK_DEADLOCK FALSE
