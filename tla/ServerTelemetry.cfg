SPECIFICATION FairTelemetrySpec
CONSTANTS
    Identified = {"c1", "c2"}
    Samples = {"s1", "s2"}
    QueueLimit = 1
    ContextLimit = 1
    SampleLimit = 1
    BatchLimit = 1
    MaxRecords = 4
    MaxCloses = 1
    MaxFlushes = 2
INVARIANTS
    CountsAreConserved
    ContextsFollowEvaluations
PROPERTIES
    RecordsAreSent
CHECK_DEADLOCK FALSE
