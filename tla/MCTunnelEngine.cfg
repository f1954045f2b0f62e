CONSTANTS
    Fronts = {"gui", "tui"}
    MaxTries = 2
    MaxClicks = 4
SPECIFICATION FairSpec
CHECK_DEADLOCK FALSE
INVARIANT TypeOK
INVARIANT AtRest
INVARIANT EndExplained
PROPERTY NoRevival
PROPERTY NobodyWaits
PROPERTY TuiRetries
