SPECIFICATION ElectionFairSpec
CONSTANTS
    p1 = p1
    p2 = p2
    Nil = Nil
    Nodes = {p1, p2}
    MaxSessions = 3
INVARIANTS
    LeaderHoldsLock
PROPERTIES
    LostLeaderStepsDown
    StandbyTakesOver
CHECK_DEADLOCK FALSE
