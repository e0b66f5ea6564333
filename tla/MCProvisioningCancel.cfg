SPECIFICATION Spec
CONSTANTS
    Ids = {i1, i2}
    Templates = {t1}
    Devices = {d1, d2}
    MaxDevices = 2
    Executors = {e1, e2}
    MaxTasks = 1
SYMMETRY Symmetry
CHECK_DEADLOCK FALSE
PROPERTY CanceledStays
