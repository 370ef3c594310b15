CONSTANTS
    u1 = u1
    u2 = u2
    n1 = n1
    n2 = n2
    Users = {u1, u2}
    Nodes = {n1, n2}
    Nothing = Nothing
    CacheMax = 1
    MaxChanges = 2
    MaxConfigs = 2
    MaxWatches = 2
    MaxOpens = 2
SPECIFICATION Spec
SYMMETRY Sym
INVARIANTS TypeOK WatchIffMounted  
CHECK_DEADLOCK FALSE
