SPECIFICATION MCSpec
CONSTANTS
    t1 = t1
    t2 = t2
    d1 = d1
    d2 = d2
    d3 = d3
    d4 = d4
    Starters <- MCStarters
    Devices <- MCDevices
    BatchSize = 2
    Percentages <- MCPercentages
    w1 = w1
    w2 = w2
CHECK_DEADLOCK FALSE
INVARIANTS RolloutSound
PROPERTIES Advances  BulkEnds
