SPECIFICATION FairSpec
CONSTANTS
    a = a
    b = b
    m = m
    n = n
    Nodes = {m, n}
    Clients = {a, b}
    ReplicationFactor = 2
    Chain <- MCChain
    Worlds <- MCWorlds
    NoTouchInSweep = TRUE
    None = None
INVARIANTS TypeOK RefIsComplete NoFalseMissing
PROPERTIES ReachableIsKept ReachesEveryNode
CHECK_DEADLOCK FALSE
