CONSTANTS
    NoCall = NoCall
    Kinds <- AllKinds
    Calls = {c1, c2, c3}
    Writers = {}
    Paths = {p1}
    Fields = {f1}
SPECIFICATION FairSpec
INVARIANT KindPropagation
PROPERTY EveryCallSettles
CHECK_DEADLOCK FALSE
