SPECIFICATION MCSpec
CONSTANTS
    Records <- KeyRecords
    TicksPerSecond = 2
    CountLimit = 1
    RetryCount = 1
    TailLines = 2
    MaxLog = 3
    MaxOut = 5
    MaxRestarts = 1
    LogSources = {s1, s2}
    Capacity = 2
    MaxSources = 1
    MaxGroupLines = 2
    MaxReorder = 1
    GroupIdle = 2
    ReorderWindow = 1
    MaxLines = 3
    MaxTime = 1
    MaxClock = 2
    Kinds = {"line", "frame", "marker"}
INVARIANTS
    NothingSkipped
    DuplicatesAreAnnounced
    KeyLinesStayMasked
    LinesAreKept
CHECK_DEADLOCK FALSE
