CONSTANTS
    Nodes = {1, 2, 3}
    Sockets = {"control"}
    Capabilities <- OneCapability
    Reports = {"m"}
    Inbound = {TRUE}
    MaxClients = 2
    RelayPorts = 0
    MaxAttempt = 1
    MaxStale = 3
    Kinds <- FairKinds
SPECIFICATION FairSpec
INVARIANT CapacityKept
PROPERTY PartnerReleased
PROPERTY SlotReleased
CHECK_DEADLOCK FALSE
