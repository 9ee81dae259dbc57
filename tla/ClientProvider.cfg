CONSTANTS
    Contexts = {a, b}
    None = none
    MaxClients = 2
    MaxCalls = 3
    Kinds = {"react", "react-native", "nextjs", "withProvider", "vue", "nuxt", "openfeature"}
    MaxMounts = 2
    MaxInputs = 2
SYMMETRY MCSymmetry
SPECIFICATION Spec
INVARIANTS
    StatusFollowsClient
    
    LatestContextWins
PROPERTIES
    OneAttempt
CHECK_DEADLOCK FALSE
