SPECIFICATION Spec
CONSTANTS
    Backends = {"b1", "b2"}
    Callers = {c1, c2}
    Priority <- Fallback
    Capacities = {1, 2}
    Threshold = 1
    NoBackend = NoBackend
    MaxChanges = 1
INVARIANTS
    SlotsAccounted
