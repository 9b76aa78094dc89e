SPECIFICATION FairSpec
CONSTANTS
    Workers = {w1, w2}
INVARIANTS
    GoneIsForgotten
PROPERTIES
    OfflineIsFinal
    SilentLeaves
CHECK_DEADLOCK FALSE
