CONSTANTS
    NoCall = NoCall
    Kinds <- WriteOnly
    Calls = {c1, c2, c3}
    Writers = {w1}
    Paths = {p1}
    Fields = {f1, f2}
SPECIFICATION Spec
INVARIANT ActionEffectsKept
PROPERTIES LockSpec WriterLostOnlyToSameField
CHECK_DEADLOCK FALSE
