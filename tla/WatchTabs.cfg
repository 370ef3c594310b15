CONSTANTS
    NoPath = NoPath
    d = d
    a = a
    q = q
    u1 = u1
    u2 = u2
    t1 = t1
    t2 = t2
    c1 = c1
    c2 = c2
    Users = {u1, u2}
    Conns = {t1, c1, c2}
    Tabs = {t1}
    Owner <- Owners
    Paths = {d, a, q}
    Parent <- WithQuery
    QueryMounts = {q}
    MaxPerUser = 2
    MaxTotal = 3
    LateRequests = FALSE
    RepeatedPaths = FALSE
SPECIFICATION FairTabSpec
INVARIANTS IndexInv TimerInv  LimitInv  
PROPERTY IdleUsersForgotten
CHECK_DEADLOCK FALSE
