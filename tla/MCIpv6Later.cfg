CONSTANTS
    Keepalive <- MCKeepalive
    PeerTimeout <- MCPeerTimeout
    MaxLives <- MCLives
    Accepts <- MCAccepts
SPECIFICATION Spec
INVARIANT LaterModeServed
CHECK_DEADLOCK FALSE
