CONSTANTS
    Nodes = {1, 2}
    Sockets = {"s1", "s2"}
    Capabilities <- OneCapability
    Reports = {"m1", "m2"}
    Inbound = {TRUE, FALSE}
    MaxClients = 2
    RelayPorts = 1
    MaxAttempt = 2
    MaxStale = 1
    Kinds <- PairKinds
SPECIFICATION Spec
VIEW ServerState
CHECK_DEADLOCK FALSE
INVARIANT ReusedPairAgrees
INVARIANT ArmedAfterBothReports
PROPERTY ReportChangeDisarms
PROPERTY AttemptAdvancesTogether
PROPERTY StartReachesBoth
