SPECIFICATION FairSpec
CONSTANTS
    Conns = {c1, c2, c3}
    Queues = {q1, q2}
    Cmds = {k1, k2, k3}
    None = None
    IdOf <- SharedIds
    Namesakes = {k1, k2}
INVARIANTS
    TypeOK
    SignalIffDrained
    FinishIsBarrier
PROPERTIES
    Barrier
    FinishReturns
CHECK_DEADLOCK FALSE
