SPECIFICATION MCFairSpec
CONSTANTS
    Full = 1
    Unit = 1
    Monitors = {m1, m2}
    m1 = m1
    m2 = m2
    e1 = e1
    s1 = s1
    s2 = s2
    Sockets = {s1, s2}
    Connectors = {s1, s2}
    Buses = {1, 2, 3}
    Edids = {e1, e2}
    Direct <- MCDirect
    Legacy <- MCLegacy
    Behind <- MCBehind
    VcpMax <- MCVcpMax
    Attempts = 2
    MaxMoves = 2
INVARIANTS
    TypeOK
    NoIdNeedsCounter
    Identified
PROPERTIES
    FailedCallAskedAll
    ImplementsDdcControl
    CallsEnd
