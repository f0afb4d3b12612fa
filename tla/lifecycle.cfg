SPECIFICATION Spec
CONSTANTS
    c1 = c1
    c2 = c2
    c3 = c3
    w1 = w1
    w2 = w2
    u1 = u1
    u2 = u2
    None = None
    Callers = {c1, c2, c3}
    Owners = {c1, c2}
    Workers = {w1}
    URLs = {u1, u2}
    MaxPatches = 2
    MaxCrashes = 1
    StoreMayFail = TRUE
SYMMETRY Symmetry
INVARIANTS
    DeletedStaysDeleted
    CacheWasStored
    CacheMatchesStore
CHECK_DEADLOCK FALSE
