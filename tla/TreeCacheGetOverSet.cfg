CONSTANTS
    NoOp = NoOp
    Ops = {o1, o2, o3}
    OpKinds = {"get", "set"}
    Paths = {p1}
    Capacity = 1
    MaxExternal = 0
SPECIFICATION Spec
INVARIANT SetsAreVisible
CHECK_DEADLOCK FALSE
