SPECIFICATION PartsSpec
CONSTANTS
    Launches <- MCLaunches
    c1 = c1
    c2 = c2
    x = x
    y = y
    Conns <- Connections
    Ids = {x, y}
    Amounts = {1, 7}
    Totals = {0}
    ArgLists <- Separate
    InlineLists <- OneInline
    Clusters <- OnePhone
    DefaultTotal = 2
    Width = 8
    MaxCopies = 2
    Layers = {l1, l2}
    MaxSeqLen = 2
    HeadDim = 1
    Readers = {g1}
    MaxStores = 3
    Jobs = {j1, j2}
    MaxRuns = 3
    NumWorkers = 3
    WorkDim = 2
    Scores <- SmallScores
    Sizes <- SmallSizes
    Locals <- SmallLocals
INVARIANTS
    PartsTypeOK
    LocalIsDocumented
    PortionIsRight
    GpuAgrees
    WorkerIsCore
    RunIsOwn
    Accounted
    LimitHolds
    NoLeftovers
    VendorKept
    Contiguous
    GroupAligned
    RestDisjoint
    SizesAddUp
PROPERTY ReadIsCurrent
SYMMETRY Symmetry
CHECK_DEADLOCK FALSE
