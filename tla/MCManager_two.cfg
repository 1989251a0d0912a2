SPECIFICATION MCSpec
CONSTANTS
    Full = 2
    Unit = 1
    Outputs = {o1, o2}
    Monitors = {o1, o2}
    DdcOutputs = {o1, o2}
    Located = {o1}
    VcpTop = 3
    VcpMax <- MCVcpMax
    Floor = 2
    MaxLate = 1
    MaxRequests = 2
    MaxFailures = 1
    MaxMoves = 0
INVARIANTS
    SnapshotTruth
    Reconciled
    PlanMeetsTarget
    VcpRoundTrip
    GammaTableShape
