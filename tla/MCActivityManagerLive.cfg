CONSTANTS
    Writes = {w1}
    Slots = 1
    MaxDepth = 2
    SleepMayTimeOut = FALSE
SPECIFICATION FairSpec
INVARIANTS HomeOnlyAfterItsInput
PROPERTIES ResultReachesItsRequester RequestsAreServed TransitionCompletes
