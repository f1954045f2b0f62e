CONSTANTS
    Keepalive <- MCKeepalive
    PeerTimeout <- MCPeerTimeout
    MaxLives <- MCLives
    Accepts <- MCAccepts
SPECIFICATION FairSpec
INVARIANT AimedAt
PROPERTY AliveKept
PROPERTY LoneTunnelEnds
CHECK_DEADLOCK FALSE
