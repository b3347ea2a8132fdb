SPECIFICATION Spec
CONSTANTS
    control = control
    planner = planner
    r1 = r1
    r2 = r2
    h = h
    x = x
    p = p
    old = old
    moved = moved
    Workers = {control, planner}
    NoWorker = NoWorker
    MaxAttempts = 2
    MaxAbandons = 0
    Revisions = {r1, r2}
    Heads = {h}
    HeadOf <- MCHead
    Candidates = {x}
    NoCandidate = NoCandidate
    NoPlan = NoPlan
    NoRevision = NoRevision
    Kinds <- MCKinds
    Publishers = {p}
    MaxEvents = 2
    MaxVersion = 3
    Contexts = {old, moved}
    MaxTrouble = 2
INVARIANTS PlanIsCurrent PlannedByItsJob CheckShowsPlan LastEventWins
    IntentNamesItsPreview
SYMMETRY Symmetry
CHECK_DEADLOCK FALSE
