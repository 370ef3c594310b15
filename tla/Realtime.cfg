CONSTANTS
    a1 = a1
    a2 = a2
    w1 = w1
    w2 = w2
    x = x
    y = y
    Own = {a1, a2}
    Foreign = {w1, w2}
    Fields = {x, y}
    Target <- Targets
    Listed <- Odd
    NoNode = NoNode
    MaxAway = 1
    Races <- OneRace
SPECIFICATION Spec
INVARIANTS TypeOK Convergence RevMatchesContent
 
CHECK_DEADLOCK FALSE
