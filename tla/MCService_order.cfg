SPECIFICATION Spec
CONSTANTS
    Calls <- MCCalls
    Kind <- MCKind
    Quit = quit
    Listings = {}
    Mutations = {m1, m2}
    BadCalls = {}
INVARIANTS
    ArrivalOrder
CHECK_DEADLOCK FALSE
