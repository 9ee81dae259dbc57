SPECIFICATION FairSpec
CONSTANTS
    Contexts = {}
    NoContext = NoContext
    Keys = {flag}
    MaxCalls = 2
    MaxPolls = 1
    MaxCuts = 1
INVARIANTS
    PollsUnlessFatal
PROPERTIES
    LatestCallReturns
CHECK_DEADLOCK FALSE
