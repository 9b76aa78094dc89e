SPECIFICATION DSpec
CONSTANTS
    Workers = {w1, w2}
    Requests <- OneLaunch
    SendCap = 2
    Empty = Empty
    None = None
    TaskId <- UniqueIds
INVARIANTS
    MergeKeepsSlices
CHECK_DEADLOCK FALSE
