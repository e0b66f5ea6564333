SPECIFICATION MCSpec
CONSTANTS
    Ids = {i1, i2}
    Templates = {t1}
    Devices = {d1, d2}
    MaxDevices = 2
    Executors = {e1, e2}
    MaxTasks = 2
    Programs = {p}
    MaxEdits = 1
    MaxWrites = 2
    Users = {u1, u2}
    MaxQueries = 2
    MaxVersions = 3
    OwnProfiles <- MCOwn
SYMMETRY Symmetry
CHECK_DEADLOCK FALSE
INVARIANTS TasksSound ExactlyTheEdits  TablesSound
PROPERTY EndedStays
