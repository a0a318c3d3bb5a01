SPECIFICATION MCSpec
CONSTANTS
    MaxActive = 2
    MaxHistory = 2
    MaxSteps = 2
    Targets = 2
    Writers = {w1, w2, w3}
    MaxTasks = 3
INVARIANTS
    ReceiptIsComplete
    CancelIsHonest
PROPERTIES
    CancelStopsRemaining
    EveryTargetSettles
CHECK_DEADLOCK FALSE
