CONSTANTS
    Nodes = {1, 2}
    Sockets = {"control"}
    Capabilities <- OneCapability
    Reports = {"m1", "m2"}
    Inbound = {TRUE}
    MaxClients = 2
    RelayPorts = 0
    MaxAttempt = 2
    MaxStale = 0
    Kinds = {}
    Target <- OneCalls
    Limit <- TwoAttempts
SPECIFICATION PatientSpec
CHECK_DEADLOCK FALSE
PROPERTY RetryReachesPunch
PROPERTY BarrierOpens
