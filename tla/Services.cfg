SPECIFICATION ServicesSpec
CONSTANTS
    p1 = p1
    p2 = p2
    p3 = p3
    pc = pc
    laptop = laptop
    phone = phone
    tablet = tablet
    Procs <- Three
    Layouts <- Pairs
    None = None
    MaxAttempts = 1
    Watching = {s1, s2}
    Devices = {phone}
    StreamCap = 1
    HubCap = 1
    MaxChanges = 1
    Commands = {cmd}
    Nodes = {phone, tablet}
    InfoOf <- MCInfoOf
    Ranking <- MCRanking
    Wishes = {40}
    MaxCommands = 2
    MaxMoves = 2
INVARIANT LocalIsOwn
PROPERTIES
    FullStackServes
    FallbackConnects
    StopEnds
    EveryoneCatchesUp
    DeviceRecovers
CHECK_DEADLOCK FALSE
