SPECIFICATION Spec
CONSTANTS
    Workers = {w1, w2}
SYMMETRY Interchangeable
INVARIANTS
    OnlineIsScheduled
CHECK_DEADLOCK FALSE
