CONSTANTS
    Buffer = 2
    MaxEvents = 6
SPECIFICATION FairStreamSpec
INVARIANTS NoSilentDrops NoLostWakeup ClosedIsClean
PROPERTY LoopTerminates
CHECK_DEADLOCK FALSE
