SPECIFICATION FairSpec
CONSTANTS
    s1 = s1
    s2 = s2
    rabbit = rabbit
    mosquitto = mosquitto
    None = None
    Senders = {s1, s2}
    Brokers = {rabbit, mosquitto}
    Amqp = {rabbit}
    Targets <- MixedTargets
    MaxSends = 3
INVARIANTS
    OpenIsPooled
    EnoughConfirmations
    OwnAck
PROPERTIES
    SendReturns
CHECK_DEADLOCK FALSE
