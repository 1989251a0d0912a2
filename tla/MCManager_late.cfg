SPECIFICATION MCSpec
CONSTANTS
    Full = 2
    Unit = 2
    Outputs = {o1}
    Monitors = {o1}
    DdcOutputs = {o1}
    Located = {o1}
    VcpTop = 3
    VcpMax <- MCVcpMax
    Floor = 2
    MaxLate = 1
    MaxRequests = 2
    MaxFailures = 1
    MaxMoves = 0
INVARIANTS
    LateAnswerNeverBrightens
