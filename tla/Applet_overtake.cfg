SPECIFICATION Spec
CONSTANTS
    Displays = {d1}
    WriteKinds = {unified, ddc}
    Capacity = 1
    Debounce = 2
    Retry = 1
    MaxRequests = 4
INVARIANTS
    AgreesWhenQuiet
CHECK_DEADLOCK FALSE
