SPECIFICATION FairSpec
CONSTANTS
    x1 = x1
    x2 = x2
    c1 = c1
    c2 = c2
    None = None
    Daemon = Daemon
    Conns <- OneConn
    Calls <- TwoCalls
    MayStop = TRUE
    WireCap = 1
CHECK_DEADLOCK FALSE
INVARIANTS
    PendingIsUnanswered
    SharedErrorId
PROPERTIES
    ImplementsToolCall
    StopCompletes
    EveryCallReturns
    DisconnectNoticed
