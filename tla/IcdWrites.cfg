SPECIFICATION Spec
CONSTANTS
    Threads = {t1}
    Buffers = {b1}
    Long = {}
    Huge = {}
    Launches <- AnyLaunch
    MaxRequests = 6
    MaxStamp = 3
    MaxSkipped = 0
    None = None
INVARIANTS
    LaunchSeesWrites
CHECK_DEADLOCK FALSE
