SPECIFICATION MCSpec
CONSTANTS
    Sources = {a, b}
    KeyLimit = 1
    MaxBytes = 4
    SegmentBytes = 2
    MaxSegments = 3
    MaxBatch = 2
    MaxId = 3
    MaxOpens = 3
    a = a
    b = b
    QueueLimit = 2
    QueueBytes = 3
    BatchLimit = 2
    MaxOffers = 5
    Processes = {p1, p2, p3}
    MaxSessions = 2
SYMMETRY Alike
INVARIANTS
    SecretsAreMasked
    AckedSurvive
    CheckpointIsTrue
    RecordingIsABeginning
    SessionsStayOwned
    SessionCap
CHECK_DEADLOCK FALSE
