SPECIFICATION FairSpec
CONSTANTS
    Keys = {flag}
    Segments = {beta}
    MaxCalls = 2
    MaxBundles = 2
    MaxPolls = 1
    MaxCuts = 1
INVARIANTS
    WatchersAreCurrent
    OneConnectionOneHeartbeat
    PollsUnlessFatal
    DisposedIsNotReady
PROPERTIES
    InitializeReturns
CHECK_DEADLOCK FALSE
