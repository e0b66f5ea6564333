SPECIFICATION Spec
CONSTANTS
    u1 = u1
    u2 = u2
    d1 = d1
    d2 = d2
    h1 = h1
    h2 = h2
    Users = {u1, u2}
    Devices = {d1, d2}
    Hosts = {h1, h2}
    AccountDevice <- MCAccountDevice
    Holders = {s1}
    Callers = {c1, c2}
    Nobody = Nobody
    MaxDevices = 2
    MaxChanges = 3
    MaxDials = 1
SYMMETRY Symmetry
CHECK_DEADLOCK FALSE
INVARIANTS DecidesOnTheDevice
