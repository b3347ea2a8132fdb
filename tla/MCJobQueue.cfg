SPECIFICATION CoordFairSpec
CONSTANTS
    w1 = w1
    w2 = w2
    w3 = w3
    old = old
    new = new
    final = final
    preview = preview
    Coordinators = {old, new}
    CoordinatorOf <- MCCoordinatorOf
    Survivor = new
    NoCoordinator = NoCoordinator
    Workers <- MCWorkers
    NoWorker = NoWorker
    NoClaim = NoClaim
    MaxAttempts = 2
    MaxAbandons = 1
    Jobs <- MCJobs
    Kind <- MCKind
    Kinds <- MCKinds
    Priority <- MCPriority
INVARIANTS CoordTypeOK OneHolder NoDeadRow SurvivorKeepsSlot
PROPERTIES StaleClaimChangesNothing TerminalIsFinal EveryJobEnds
CHECK_DEADLOCK FALSE
