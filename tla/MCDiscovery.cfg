SPECIFICATION MCSpec
CONSTANTS
    Addresses <- MCAddresses
    Generation <- MCGeneration
    Limit = 2
    MaxLost = 1
    MaxStarts = 2
    MaxDatagrams = 2
    MaxHandlers = 1
    Devices = {"a", "b"}
    Capacity = 1
    MaxSessions = 3
    Home = "home"
    APs <- MCAPs
    MaxFaults = 2
CHECK_DEADLOCK FALSE
INVARIANTS ScanSound NeverOlder 
PROPERTIES ScanEnds LoopsEnd 
