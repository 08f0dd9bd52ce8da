SPECIFICATION Spec
CONSTANTS
    Handlers = {h1, h2}
    Scopes = {s1, s2}
    Prompts = {p1}
    Temperatures = {2, 3, 21}
    Words = {x, y, empty}
    Blank = empty
    MaxEntries = 1
    Timeouts = {1, 2, 3}
    Attempts = {1, 2, 3, 4, 6}
    Bases = {1, 2, 5}
    Maxes = {1, 2, 5, 7}
    Budget = 12
    Candidates = 2
    Width = 5
INVARIANTS
    HitFaithful
    SharesEntry
    HonestVerdict
    BackoffWithinBound
CHECK_DEADLOCK FALSE
