SPECIFICATION Spec
CONSTANTS
    n1 = n1
    m1 = m1
    u1 = u1
    Handlers = {a1, a2}
    Names = {n1}
    Models = {m1}
    URLs = {u1, u2}
    AbsoluteURLs = {u1}
    SeedURLs = {u1, u2}
    Configs = {c1, c3}
    Objects = {c1}
    Empty = c1
    Priorities <- SomePriorities
    Weights <- SomeWeights
    MaxInteger = 1
    Declared <- SeedRows
    NoRow = NoRow
SYMMETRY Symmetry
CHECK_DEADLOCK FALSE
INVARIANTS
    RowsValid
    ChecksMirrored
PROPERTY
    PatchTouchesOnlySent
