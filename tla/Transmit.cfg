SPECIFICATION MCSpec
CONSTANTS
    Tids <- MCTids
    Mgmt = "mgmt"
    HwqOf <- MCHwqOf
    Uapsd = {"t7"}
    Credits = 2
    FlowStop = 2
    Eapol = {1}
    MaxMade = 3
    MaxRetry = 1
    Allows <- MCAllows
    p1 = p1
    c1 = c1
    c2 = c2
    Fired = Fired
    None = None
    Settings <- AllSettings
CHECK_DEADLOCK FALSE
INVARIANTS QueuesConsistent HeldConsistent
PROPERTIES QueuesServed NewestAckSent
