CONSTANTS
    Last = 1
    Pages <- TwoChapters
    MaxQueue = 2
    MaxRetries = 3
    MaxPresses = 3
    MaxFaults = 0
    RenameMayFail = FALSE
    None = None
SPECIFICATION FairSpec
PROPERTIES JumpLandsOnItsPage
CHECK_DEADLOCK FALSE
