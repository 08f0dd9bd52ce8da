SPECIFICATION Spec
CONSTANTS
    Jobs = {"a"}
    Items <- MemItems
    JobOf <- MemJobOf
    MaxAttempts = 2
    Rank <- MemRank
    Callers = {c1, c2}
    NoCaller = NoCaller
    NoItem = NoItem
    NoTally = NoTally
    Overlapping = FALSE
    Payloads = {"a"}
    MaxLen = 3
    BatchCount = 2
    ScanCount = 3
    MinIdle = 2
    MaxPublished = 5
    JobIds = {"a", "b"}
    MaxNextID = 3
    Slots = {q1, q2}
    Keys = {k1}
    Limit = 2
    Window = 2
    NoKey = NoKey
    CustomIds = {"x", "y"}
    BatchModels = {"m1", "m2"}
    MaxRequests = 2
    Rows = {r1, r2, r3}
    Workers = {w1, w2}
    Buffer = 2
    NoRow = NoRow
INVARIANTS
    NoneDropped
    ChargedOnce
    WindowBound
    DecodesExactly
    DrainedOnClose
PROPERTIES
    ImplementsStore
    StreamImplementsQueue
    Reclaimed
    MemQueueImplementsQueue
    LimitLifts
    RowsSettle
    ShutdownEnds
CHECK_DEADLOCK FALSE
