SPECIFICATION Spec
CONSTANTS
    w1 = w1
    w2 = w2
    Workers = {w1, w2}
    NoWorker = NoWorker
    MaxAttempts = 2
    MaxAbandons = 1
    MaxRestarts = 1
    Backends = {"adoptable", "local"}
INVARIANTS OneOpenAttempt OpenIsNotCleaned
PROPERTIES OutcomeIsFinal
CHECK_DEADLOCK FALSE
