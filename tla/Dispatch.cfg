SPECIFICATION DSpec
CONSTANTS
    Workers = {w1}
    Requests <- TwoLaunches
    SendCap = 3
    Empty = Empty
    None = None
    TaskId <- UniqueIds
INVARIANTS
    PendingTasksAccounted
    ResultIsOwn
    InputsPrecedeTask
PROPERTIES
    SuccessIsReal
CHECK_DEADLOCK FALSE
