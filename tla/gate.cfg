SPECIFICATION Spec
CONSTANTS
    s1 = s1
    b1 = b1
    o1 = o1
    o2 = o2
    n1 = n1
    n2 = n2
    w1 = w1
    w2 = w2
    None = None
    Subs = {s1}
    Accounts = {b1}
    Owner <- OneOwner
    Configs <- GateConfigs
    Objs = {o1, o2}
    Notifiers = {n1, n2}
    Workers = {}
    QueueDepth = 1
    MaxRetries = 1
    AutoDisable4xx = 1
    RingDepth = 1
    DayLength = 10
    MaxMsgs = 3
    MaxTime = 3
    StoreMayFail = FALSE
SYMMETRY Symmetry
CONSTRAINT NoPauseNoShutdown
INVARIANTS
    WindowHasTimer
PROPERTIES
    FiresOfObjectSpaced
CHECK_DEADLOCK FALSE
