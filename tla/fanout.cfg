SPECIFICATION Spec
CONSTANTS
    c1 = c1
    c2 = c2
    r1 = r1
    o1 = o1
    o2 = o2
    None = None
    Conns = {c1, c2}
    Visibility = "private"
    Role <- MembersOnly
    Inbounds = {r1}
    Objs = {o1, o2}
    RingDepth = 2
    MaxCalls = 4
SYMMETRY Symmetry
INVARIANTS
    MembershipAgrees
    HeardOnce
    RingKeepsTheLast
    ContextPrecedes
CHECK_DEADLOCK FALSE
