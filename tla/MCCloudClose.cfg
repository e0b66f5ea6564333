SPECIFICATION FairSpec
CONSTANTS
    u1 = u1
    u2 = u2
    Users <- MCUsers
    Listener = Listener
    Nobody = Nobody
    MaxInterval = 3
    MaxConns = 2
PROPERTIES NoDialAfterClose
