SPECIFICATION FairSpec
CONSTANTS
    c1 = c1
    c2 = c2
    s1 = s1
    s2 = s2
    Callers <- MCCallers
    Sources <- OneSource
    MaxRetries = 1
    Reconnect = TRUE
    Ping = TRUE
    Deadlines <- OneCaller
    MayClose = TRUE
    MaxConns = 1
    MaxCalls = 1
    Nobody = Nobody
CHECK_DEADLOCK FALSE
INVARIANTS NoConnectionAfterClose
PROPERTIES DeadLinkReleases CallsEnd 
