CONSTANTS
    NoOp = NoOp
    Ops = {o1, o2, o3}
    OpKinds = {"get", "list", "set", "patch", "remove"}
    Paths = {p1, p2}
    Capacity = 1
    MaxExternal = 1
SPECIFICATION Spec
INVARIANTS CacheShape  GetsAreFresh CacheAgrees
PROPERTY FillsRespectInvalidation
SYMMETRY Symmetry
CHECK_DEADLOCK FALSE
