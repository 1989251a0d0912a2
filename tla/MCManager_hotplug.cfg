SPECIFICATION MCFairSpec
CONSTANTS
    Full = 2
    Unit = 2
    Outputs = {o1}
    Monitors = {}
    DdcOutputs = {}
    Located = {}
    VcpTop = 3
    VcpMax <- MCVcpMax
    Floor = 2
    MaxLate = 1
    MaxRequests = 1
    MaxFailures = 0
    MaxMoves = 2
PROPERTIES
    ProfileReturns
