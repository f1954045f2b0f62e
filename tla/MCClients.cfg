CONSTANTS
    Nodes = {1, 2, 3}
    Sockets = {"control"}
    Capabilities <- OneCapability
    Reports = {"m"}
    Inbound = {TRUE}
    MaxClients = 3
    RelayPorts = 1
    MaxAttempt = 1
    MaxStale = 1
    Kinds <- ClientKinds
SPECIFICATION Spec
VIEW ServerState
CHECK_DEADLOCK FALSE
INVARIANT TypeOK
INVARIANT SessionAgreement
INVARIANT PartnerPresent
PROPERTY PairIsolation
