SPECIFICATION MCSpec
CONSTANTS
    t1 = t1
    t2 = t2
    k1 = k1
    k2 = k2
    Threads <- MCThreads
    Kinds <- MCKinds
    Filters <- MCFilters
    HistorySize = 2
    MaxSubs = 3
    MaxPubs = 3
    BusSubs = 2
    RegistryPubs = 1
SYMMETRY MCSymmetry
CHECK_DEADLOCK FALSE
INVARIANTS HistoryWindow DeliverySound HandlersTracked
PROPERTY KeepsPromise
