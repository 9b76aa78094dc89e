SPECIFICATION Spec
CONSTANTS
    NumWorkers = 3
    WorkDim = 2
    Scores <- SmallScores
    Sizes <- SmallSizes
    Locals <- SmallLocals
INVARIANTS
    CoveredOnce
CHECK_DEADLOCK FALSE
