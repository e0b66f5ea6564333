SPECIFICATION MCSpec
CONSTANTS
    u1 = u1
    u2 = u2
    Users <- MCUsers
    Listener = Listener
    Nobody = Nobody
    MaxInterval = 3
    MaxConns = 3
    g1 = g1
    g2 = g2
CHECK_DEADLOCK FALSE
INVARIANTS CloseSound
PROPERTIES ListenStops Reconnects LossIsTold
