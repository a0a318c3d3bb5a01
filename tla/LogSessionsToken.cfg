SPECIFICATION SessionsSpec
CONSTANTS
    Processes = {p1, p2}
    MaxSessions = 2
PROPERTIES
    TokenGoesLast
CHECK_DEADLOCK FALSE
