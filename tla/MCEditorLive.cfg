SPECIFICATION FairSpec
CONSTANTS
    e1 = e1
    e2 = e2
    d1 = d1
    d2 = d2
    ByHand = ByHand
    None = None
    MayUseHand = FALSE
    Clients <- TwoClients
    Processes <- TwoProcesses
CHECK_DEADLOCK FALSE
PROPERTIES
    DoomedDaemonEnds
    LoneClientServed
