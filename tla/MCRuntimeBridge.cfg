SPECIFICATION Spec
CONSTANTS
    g1 = g1
    g2 = g2
    g3 = g3
    s1 = s1
    s2 = s2
    None = None
    Games <- ThreeGames
    Sessions <- TwoSessions
    Instances = 2
    InboxCap = 2
CHECK_DEADLOCK FALSE
INVARIANTS
    TypeOK
    AttachedIsLive
    TreeIsAttachedGames
    LoneBridgeAttached
