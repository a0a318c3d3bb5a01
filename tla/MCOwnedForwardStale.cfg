SPECIFICATION ForwardSpec
CONSTANTS
    MaxActive = 2
    MaxHistory = 2
    MaxLaunches = 2
    Reports = {"stopped", "failed"}
    MaxEnding = 0
INVARIANTS
    MappingIsOwned
CHECK_DEADLOCK FALSE
