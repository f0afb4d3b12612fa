SPECIFICATION ClientFairSpec
CONSTANTS
    OpMode = TRUE
    Accounts = {1, 2}
    Bots = {2}
    MaxFrameSize = 65536
    FrameSizes <- SizesAround
    OutboundQueueSize = 2
    MaxFaults = 2
    MaxChanges = 1
    MaxVerbs = 1
INVARIANTS
    ClientTypeOK
    OneDriver
PROPERTIES
    
    RosterCatchesUp
CHECK_DEADLOCK FALSE
