SPECIFICATION Spec
CONSTANTS
    s1 = s1
    s2 = s2
    f = f
    g = g
    n1 = n1
    n2 = n2
    d1 = d1
    h1 = h1
    h2 = h2
    Sources = {s1, s2}
    Keys = {f, g}
    Tree <- MCTree
    NoteIds = {n1, n2}
    Drafts = {d1}
    DraftOf <- MCDraftOf
    Envelopes <- MCEnvelopes
    NoSource = NoSource
    None = None
    Worlds <- MCWedged
SYMMETRY Symmetry
INVARIANT CommittedIsReadable
CHECK_DEADLOCK FALSE
