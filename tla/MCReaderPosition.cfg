CONSTANTS
    Last = 1
    Pages <- TwoChapters
    MaxQueue = 2
    MaxRetries = 3
    MaxPresses = 2
    MaxFaults = 1
    RenameMayFail = FALSE
    None = None
SPECIFICATION FairSpec
INVARIANTS TurnsStayInReach RestIsShownAndSaved
PROPERTIES TurnsAddUp PlaceIsShown
CHECK_DEADLOCK FALSE
