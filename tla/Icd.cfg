SPECIFICATION Spec
CONSTANTS
    Threads = {t1}
    Buffers = {b1, b2}
    Long = {b2}
    Huge = {b2}
    Launches <- OneLaunch
    MaxRequests = 6
    MaxStamp = 3
    MaxSkipped = 2
    None = None
INVARIANTS
    LagBounded
    AnswerIsOwn
    StatusIsTrue
    ReadSeesContents
    LaunchSeesTruth
CHECK_DEADLOCK FALSE
