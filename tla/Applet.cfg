SPECIFICATION FairSpec
CONSTANTS
    Displays = {d1, d2}
    WriteKinds = {unified, ddc}
    Capacity = 2
    Debounce = 2
    Retry = 1
    MaxRequests = 3
INVARIANTS
    TypeOK
    BusyIsTrue
    AgreesUnlessPutBack
PROPERTIES
    InputKept
    Settles
    NoInputLost
CHECK_DEADLOCK FALSE
