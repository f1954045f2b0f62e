CONSTANTS
    NoIpv4 = "no IPv4"
    FirstRandomPort = 1024
    RandomPortCount = 6
    Mappings <- MCMappings
    Policy <- MCPolicy
    Draws <- MCDraws
    Deadline = 5
    BarrierTimeout = 3
    SenderDelay = 2
    StunAttempts = 2
SPECIFICATION FairSpec
INVARIANT PlansMeet
INVARIANT WavesWhole
INVARIANT Quiet
INVARIANT SocketsSettled
PROPERTY NoBurst
PROPERTY Ends
CHECK_DEADLOCK FALSE
