CONSTANTS
    Fronts = {"gui"}
    MaxTries = 1
    MaxClicks = 1
SPECIFICATION FairSpec
CHECK_DEADLOCK FALSE
PROPERTY GuiRetries
