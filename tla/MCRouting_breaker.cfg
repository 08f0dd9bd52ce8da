SPECIFICATION BusySpec
CONSTANTS
    Backends = {b1}
    Callers = {c1, c2, c3}
    Priority <- SamePriority
    Capacities = {1, 3}
    Threshold = 2
    NoBackend = NoBackend
    MaxChanges = 0
INVARIANTS
    ProbeOwned
PROPERTIES
    OpenUntilCooled
    ProbeEnds
    OpenEnds
