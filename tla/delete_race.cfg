SPECIFICATION Spec
CONSTANTS
    c1 = c1
    c2 = c2
    c3 = c3
    w1 = w1
    w2 = w2
    u1 = u1
    u2 = u2
    None = None
    Callers = {c1, c2}
    Owners = {c1, c2}
    Workers = {}
    URLs = {u1, u2}
    MaxPatches = 1
    MaxCrashes = 0
    StoreMayFail = FALSE
SYMMETRY Symmetry
INVARIANT DeletedIsSilent
CHECK_DEADLOCK FALSE
