SPECIFICATION FairSpec
CONSTANTS
    QueueLimit = 1
    BatchLimit = 1
    MaxEvents = 3
    MaxCalls = 3
    MaxFlushes = 4
INVARIANTS
    OneFlushLoop
    EventsAccountedFor
PROPERTIES
    FatalErrorIsFinal
    QueuesAreFlushed
CHECK_DEADLOCK FALSE
