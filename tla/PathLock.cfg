CONSTANTS
    NoCall = NoCall
    Calls = {c1, c2, c3, c4}
    Paths = {p1, p2}
SPECIFICATION FairSpec
INVARIANTS TypeOK FifoMutex TailInv
PROPERTY EveryCallRuns
CHECK_DEADLOCK FALSE
