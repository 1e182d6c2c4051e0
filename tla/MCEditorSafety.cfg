SPECIFICATION Spec
CONSTANTS
    e1 = e1
    e2 = e2
    d1 = d1
    d2 = d2
    ByHand = ByHand
    None = None
    MayUseHand = TRUE
    Clients <- TwoClients
    Processes <- TwoProcesses
CHECK_DEADLOCK FALSE
SYMMETRY Symmetry
INVARIANT TypeOK
PROPERTY StoppedByOwner
