SPECIFICATION Spec
CONSTANTS
    w1 = w1
    w2 = w2
    c1 = c1
    first = first
    second = second
    Workers = {w1, w2}
    NoWorker = NoWorker
    MaxAttempts = 2
    MaxAbandons = 0
    Landings = {first}
    PinnedTo <- MCPinnedOne
    Conflicting <- MCConflicting
    Clients = {c1}
    MaxPushes = 1
    NoLanding = NoLanding
    NoCommit = NoCommit
    NoPlan = NoPlan
    NoClaim = NoClaim
SYMMETRY Symmetry
INVARIANT RecoveryPushAccepted
CHECK_DEADLOCK FALSE
