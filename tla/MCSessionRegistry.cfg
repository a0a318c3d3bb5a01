SPECIFICATION Spec
CONSTANTS
    MaxActive = 2
    MaxHistory = 1
    MaxLaunches = 3
    Reports = {"completed", "running"}
INVARIANTS
    OwnedUntilFinished
PROPERTIES
    ImplementsContract
    ShutdownSettles
CHECK_DEADLOCK FALSE
