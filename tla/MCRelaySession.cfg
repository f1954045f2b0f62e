CONSTANTS
    Nodes = {1, 2}
    Wishes <- MCWishes
    Ports = {1}
    Ids = {1, 2, 3, 4, 5, 6, 7}
    MaxLives <- MCLives
    MaxFaults = 1
SPECIFICATION FairSpec
INVARIANT Isolation
PROPERTY Meets
PROPERTY SessionEnds
CHECK_DEADLOCK FALSE
