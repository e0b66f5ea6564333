SPECIFICATION MCSpec
CONSTANTS
    c1 = c1
    c2 = c2
    s1 = s1
    s2 = s2
    Callers <- MCCallers
    Sources <- OneSource
    MaxRetries = 1
    Reconnect = TRUE
    Ping = FALSE
    Deadlines <- MCCallers
    MayClose = FALSE
    MaxConns = 2
    MaxCalls = 2
    Nobody = Nobody
    MqttReconnect = TRUE
    MqttClients = 2
    MqttRequests = 2
    MqttLosses = 1
    HttpRetries = 2
    HttpBatch = 2
    HttpFaults = 2
    HttpCalls = 2
    CloudInterval = 2
    CloudTime = 5
    CloudCalls = 3
    CloudAccounts = {"a", "b"}
    Backers = {"c1", "c2"}
    Jobs = {"j1"}
    Hooks = {"h1"}
    Scripts = {"s1", "s2"}
    Enabled = {"s1"}
    StoreKeys = {"k1"}
    Passwords = {"pw"}
    BackupParts <- MCBackupParts
    BackupRuns = 3
    BackupFaults = 1
    BulkTargets <- MCTargets
    BulkAddresses <- MCAddresses
    BulkWorkers = {"w1", "w2"}
    BulkRetries = 1
    BulkFaults = 1
    BleProvisioners = {"a", "b", "c"}
    BleCommands = 2
SYMMETRY MCSymmetry
CHECK_DEADLOCK FALSE
INVARIANTS ConnectionsSound PendingInUse HttpSound    
PROPERTIES WsCorrelates MCorrelates
