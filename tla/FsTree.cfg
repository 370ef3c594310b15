CONSTANTS
    a = a
    b = b
    c = c
    Paths = {a, b, c}
    Above <- Chain
    Root = Root
    None = None
    MaxCalls = 4
    MaxInterrupts = 1
SPECIFICATION Spec
INVARIANTS StoredAsAsked OneForm ReadsWhatWasThere
CHECK_DEADLOCK FALSE
