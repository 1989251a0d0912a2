SPECIFICATION FairSpec
CONSTANTS
    Calls <- MCCalls
    Kind <- MCKind
    Quit = quit
    Listings = {l1}
    Mutations = {m1, m2}
    BadCalls = {b1}
INVARIANTS
    TypeOK
    ListOfWholeOperations
PROPERTIES
    ImplementsDisplayService
    NothingAfterPanic
    EveryCallEnds
    StopEnds
CHECK_DEADLOCK FALSE
