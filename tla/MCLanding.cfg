SPECIFICATION FairSpec
CONSTANTS
    w1 = w1
    w2 = w2
    c1 = c1
    first = first
    second = second
    Workers = {w1, w2}
    NoWorker = NoWorker
    MaxAttempts = 2
    MaxAbandons = 1
    Landings = {first}
    PinnedTo <- MCUnpinned
    Conflicting = {}
    Clients = {c1}
    MaxPushes = 1
    NoLanding = NoLanding
    NoCommit = NoCommit
    NoPlan = NoPlan
    NoClaim = NoClaim
INVARIANTS LandedIffReceipt LandedOnce
PROPERTIES HistoryIsAppendOnly BlockingIsReported ImplementsQueue
    EveryLandingJobEnds
CHECK_DEADLOCK FALSE
