SPECIFICATION Spec
CONSTANTS
    Contexts = {alice, bob}
    NoContext = NoContext
    Keys = {flag}
    MaxCalls = 3
    MaxMessages = 1
    MaxCuts = 1
PROPERTIES
    ResumeKeepsLastContext
CHECK_DEADLOCK FALSE
