SPECIFICATION Spec
CONSTANTS
    c1 = c1
    c2 = c2
    s1 = s1
    s2 = s2
    Callers <- MCCallers
    Sources <- OneSource
    MaxRetries = 1
    Reconnect = TRUE
    Ping = FALSE
    Deadlines <- MCCallers
    MayClose = TRUE
    MaxConns = 2
    MaxCalls = 2
    Nobody = Nobody
CHECK_DEADLOCK FALSE
INVARIANTS NoPanic
