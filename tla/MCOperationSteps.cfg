SPECIFICATION Spec
CONSTANTS
    MaxActive = 1
    MaxHistory = 1
    MaxSteps = 2
    Targets = 2
    Writers = {w1, w2, w3}
    MaxTasks = 1
PROPERTIES
    AcceptedStepsStay
CHECK_DEADLOCK FALSE
