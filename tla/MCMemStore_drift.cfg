SPECIFICATION MemStoreFairSpec
CONSTANTS
    Jobs = {"a"}
    Items <- MemItems
    JobOf <- MemJobOf
    MaxAttempts = 2
    Rank <- MemRank
    Callers = {c1, c2}
    NoCaller = NoCaller
    NoItem = NoItem
    NoTally = NoTally
    Overlapping = TRUE
PROPERTIES
    CannotDrift
CHECK_DEADLOCK FALSE
