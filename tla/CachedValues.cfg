SPECIFICATION Spec
CONSTANTS
    Contexts = {alice}
    NoContext = NoContext
    MaxSets = 3
    MaxLaunches = 2
INVARIANTS
    DeviceIsUpToDate
PROPERTIES
    InstanceIdsAreKept
    ValuesOnlyGetNewer
CHECK_DEADLOCK FALSE
