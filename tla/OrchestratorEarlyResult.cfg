SPECIFICATION Spec
CONSTANTS
    Workers = {w1}
    Requests = {r1, r2}
    SendCap = 3
    Empty = Empty
    None = None
    TaskId <- UniqueIds
SYMMETRY Interchangeable
INVARIANTS
    NoResultDropped
CHECK_DEADLOCK FALSE
