SPECIFICATION FairSpec
CONSTANTS
    c1 = c1
    c2 = c2
    r1 = r1
    None = None
    Conns = {c1, c2}
    Inbounds = {r1}
    Depth = 2
    MaxMsgs = 2
    StoreMayFail = TRUE
INVARIANTS
    EveryMessageAccounted
    SenderOrderKept
    ServeLeavesNobody
PROPERTIES
    ServeReturns
    IsLossyLog
CHECK_DEADLOCK FALSE
