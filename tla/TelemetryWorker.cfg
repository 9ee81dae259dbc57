SPECIFICATION FairWorkerSpec
CONSTANTS
    QueueLimit = 1
    BatchLimit = 1
    MaxEvents = 2
    MaxCalls = 3
    MaxFlushes = 4
INVARIANTS
    ContextsKeepTheirEvents
    ClosedMeansFlushed
PROPERTIES
    CloseEnds
CHECK_DEADLOCK FALSE
