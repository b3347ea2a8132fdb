SPECIFICATION Spec
CONSTANTS
    s1 = s1
    s2 = s2
    s3 = s3
    f = f
    g = g
    m = m
    n1 = n1
    n2 = n2
    h1 = h1
    h2 = h2
    h3 = h3
    t1 = t1
    t2 = t2
    Sources = {s1, s2, s3}
    Keys = {f, g, m}
    Tree <- MCTree
    NoteIds = {n1, n2}
    Histories <- MCHistories
    Foreign <- MCForeign
    Terminals = {t1, t2}
    Authored <- MCAuthored
    Unindexed = {s2}
    None = None
    MaxRevs = 4
    MaxObjects = 4
SYMMETRY MCSymmetry
INVARIANTS NothingIsLost  
PROPERTY ResolutionsAreKept
CHECK_DEADLOCK FALSE
