SPECIFICATION Spec
CONSTANTS
    a = a
    b = b
    m = m
    n = n
    Nodes = {m, n}
    Clients = {a, b}
    ReplicationFactor = 2
    Chain <- MCChain
    Worlds <- MCWorlds
    NoTouchInSweep = FALSE
    None = None
INVARIANT RefIsComplete
CHECK_DEADLOCK FALSE
