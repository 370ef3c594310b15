CONSTANTS
    a1 = a1
    a2 = a2
    t1 = t1
    None = None
    Agents = {a1, a2}
    Tasks = {t1}
    Offices <- SmallOffices
    MaxCrashes = 1
    MaxTells = 1
SPECIFICATION Spec
SYMMETRY Sym
INVARIANTS TypeOK RunsBounded OneRunPerAgent NoMissedWork
CHECK_DEADLOCK FALSE
