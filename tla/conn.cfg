SPECIFICATION FairSpec
CONSTANTS
    OutboundQueueSize = 2
    LaggingThreshold = 0
    PongChCap = 1
    BufFrames = 2
    MaxPings = 2
    MaxData = 1
    MaxSends = 2
INVARIANTS
    TypeOK
    NoGhosts
    HonestClientNeverMismatched
PROPERTIES
    ServeEnds
CHECK_DEADLOCK FALSE
