CONSTANTS
    Writes = {w1, w2, w3}
    Slots = 2
    MaxDepth = 2
    SleepMayTimeOut = TRUE
SPECIFICATION Spec
INVARIANTS TypeOK SleepScreenKept TransitionHasItsScreen NothingDeferredAtPowerOff WritesWaitForNextFrame NoLostWakeUp WaitShowsLockedChange RadioOffWhileEntering
PROPERTIES ScreensHoldStillDuringPaint ImplementsScreenPile
