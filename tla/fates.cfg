SPECIFICATION FairSpec
CONSTANTS
    s1 = s1
    b1 = b1
    o1 = o1
    o2 = o2
    n1 = n1
    n2 = n2
    w1 = w1
    w2 = w2
    None = None
    Subs = {s1}
    Accounts = {b1}
    Owner <- OneOwner
    Configs <- MixedConfigs
    Objs = {o1, o2}
    Notifiers = {n1}
    Workers = {w1}
    QueueDepth = 1
    MaxRetries = 2
    AutoDisable4xx = 1
    RingDepth = 1
    DayLength = 10
    MaxMsgs = 2
    MaxTime = 1
    StoreMayFail = TRUE
INVARIANTS
    OneFatePerMatch
PROPERTIES
    EveryMatchSettles
    IsMatchFates
CHECK_DEADLOCK FALSE
