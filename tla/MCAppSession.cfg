SPECIFICATION MCSpec
CONSTANTS
    MaxActive = 1
    MaxHistory = 1
    MaxLaunches = 1
    Reports = {"stopped", "failed"}
    MaxEnding = 1
    MaxAttempts = 2
    MaxVisits = 4
    MaxChoices = 2
INVARIANTS
    ConnectionsAreHeld
PROPERTIES
    ForwardsSettle
    InstalledIsWished
    RefreshSettles
CHECK_DEADLOCK FALSE
