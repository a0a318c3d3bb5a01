SPECIFICATION Spec
CONSTANTS
    Records <- FewRecords
    TicksPerSecond = 2
    CountLimit = 2
    RetryCount = 1
    TailLines = 2
    MaxLog = 3
    MaxOut = 5
    MaxRestarts = 1
INVARIANTS
    CompletedSourceIsWhole
CHECK_DEADLOCK FALSE
