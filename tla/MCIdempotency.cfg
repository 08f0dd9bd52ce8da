SPECIFICATION Spec
CONSTANTS
    Requests = {1, 2, 3}
    Body <- MCBody
    Skew <- MCSkew
    TTLs = {1, 3}
    LockTTL = 2
    Limit = 2
    Window = 1
    NoRecord = NoRecord
    MaxTime = 4
    MaxFaults = 1
    MaxCrashes = 1
    MaxPanics = 1
CHECK_DEADLOCK FALSE
INVARIANTS
    KeyFreed
    OneAtWork
    OneEffect
    ReplayFaithful
PROPERTY
    Fenced
