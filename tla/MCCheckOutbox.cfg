SPECIFICATION FairSpec
CONSTANTS
    w1 = w1
    planning = planning
    ready = ready
    Workers = {w1}
    NoWorker = NoWorker
    MaxAttempts = 2
    MaxAbandons = 0
    Contents = {planning, ready}
    Superseded = Superseded
    MaxVersion = 3
    MaxTrouble = 3
    MaxRestored = 2
INVARIANTS ShownIsDesired NoDuplicateLeft
PROPERTIES EveryStateIsPublished
CHECK_DEADLOCK FALSE
