SPECIFICATION DFairSpec
CONSTANTS
    Workers = {w1, w2}
    Requests <- OneLaunch
    SendCap = 2
    Empty = Empty
    None = None
    TaskId <- UniqueIds
PROPERTIES
    LaunchAnswered
    GoroutineEnds
CHECK_DEADLOCK FALSE
