CONSTANTS
    Paths = {"p", "q"}
    NoPath = "no path"
    MaxLives <- SomeLives
SPECIFICATION BoundedSpec
CHECK_DEADLOCK FALSE
INVARIANT PathAgreement
INVARIANT SenderFirst
PROPERTY SelectsPath
PROPERTY ReceiverFollows
PROPERTY Succeeds
