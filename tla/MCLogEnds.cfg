SPECIFICATION MCSpec
CONSTANTS
    Records <- FewRecords
    TicksPerSecond = 2
    CountLimit = 2
    RetryCount = 2
    TailLines = 2
    MaxLog = 3
    MaxOut = 10
    MaxRestarts = 1
    Pods = 2
    MaxLogPods = 2
    MaxLogSources = 2
    MaxKnown = 4
    MaxGeneration = 2
    MaxChanges = 2
    MaxRequests = 4
INVARIANTS
    CompletedReadIsWhole
    SourcesAreAccounted
    OnlyLatestStreams
PROPERTIES
    
    FollowSettles
    LogPageSettles
CHECK_DEADLOCK FALSE
