SPECIFICATION Spec
CONSTANTS
    MaxAttempts = 3
    MaxText = 6
    MaxChunk = 3
INVARIANTS
    AttemptsMatchReadyState
    ChunksDoNotMatter
PROPERTIES
    ImplementsContract
CHECK_DEADLOCK FALSE
