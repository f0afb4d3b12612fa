SPECIFICATION Spec
CONSTANTS
    a1 = a1
    a2 = a2
    x1 = x1
    Operators = {a1, a2}
    Others = {x1}
    MaxActions = 3
    MaxCrashes = 2
    StoreMayFail = TRUE
SYMMETRY Symmetry
INVARIANTS
    AckedPauseHolds
    PausesAgree
    SuccessIsVisible
CHECK_DEADLOCK FALSE
