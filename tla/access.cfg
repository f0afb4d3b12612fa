SPECIFICATION Spec
CONSTANTS
    t1 = t1
    t2 = t2
    ann = ann
    ops = ops
    a1 = a1
    a2 = a2
    h1 = h1
    h2 = h2
    k1 = k1
    i1 = i1
    c1 = c1
    r1 = r1
    None = None
    Tenants = {t1, t2}
    Names = {ann}
    ChanNames = {ops}
    AccountIds = {a1, a2}
    ChannelIds = {h1, h2}
    TokenIds = {k1}
    IntegIds = {i1}
    Conns = {c1}
    Reqs = {r1}
    MaxCommands = 5
    Seed <- SeedTables
INVARIANTS
    IdentityIsProved
    TenantsApart
    InvitedOnly
    BarredStaysOut
CHECK_DEADLOCK FALSE
