SPECIFICATION FairSpec
CONSTANTS
    Sdks = {"client", "server"}
    Keys = {"a", "b"}
    Watchers = {"w1", "w2", "w3"}
    Watched <- MCWatched
    Throws = TRUE
    MaxCalls = 4
INVARIANTS
    WatchersAreTold
    ConnectedMeansWanted
PROPERTIES
    AttemptsSettle
CHECK_DEADLOCK FALSE
