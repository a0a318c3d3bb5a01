SPECIFICATION MCSpec
CONSTANTS
    MaxActive = 2
    MaxHistory = 2
    MaxLaunches = 2
    Reports = {"stopped", "failed"}
    MaxEnding = 1
    Namespaces = {"a", "b"}
    Selectors = {"all", "app"}
    Everything = "all"
    MaxGenerations = 3
    MaxSessions = 2
    MaxChoices = 1
    MaxFailures = 1
INVARIANTS
    RegistrationFollowsStream
PROPERTIES
    LeftLaunchNeverRegisters
    OldSessionStaysAway
    
CHECK_DEADLOCK FALSE
