SPECIFICATION Spec
CONSTANTS
    x1 = x1
    x2 = x2
    c1 = c1
    c2 = c2
    None = None
    Daemon = Daemon
    Conns <- TwoConns
    Calls <- TwoCalls
    MayStop = FALSE
    WireCap = 1
CHECK_DEADLOCK FALSE
SYMMETRY Symmetry
INVARIANTS
    TypeOK
    PendingIsUnanswered
    PendingCountAccurate
    StatusTrueUntilTakeover
    SharedErrorId
PROPERTY
    ImplementsToolCall
