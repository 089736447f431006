SPECIFICATION MCSpec
CONSTANTS
    Tids <- MCTids
    Mgmt = "mgmt"
    HwqOf <- MCHwqOf
    Uapsd = {}
    Credits = 64
    FlowStop = 64
    Eapol = {1}
    MaxMade = 1
    MaxRetry = 64
    Allows = {{"chan", "retry"}}
    p1 = p1
    c1 = c1
    c2 = c2
    Fired = Fired
    None = None
    Settings = {"asleep"}
CHECK_DEADLOCK FALSE
INVARIANTS ListedHasWork
