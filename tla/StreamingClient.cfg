SPECIFICATION FairSpec
CONSTANTS
    Contexts = {}
    NoContext = NoContext
    Keys = {flag}
    MaxCalls = 3
    MaxMessages = 2
    MaxCuts = 1
INVARIANTS
    NoConnectionOutlivesItsCall
    InitializingEndsWithPayload
    WatchersAreCurrent
PROPERTIES
    NewerValuesStay
    ContextsAdoptedInOrder
    LatestCallReturns
CHECK_DEADLOCK FALSE
