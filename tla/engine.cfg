SPECIFICATION FairSpec
CONSTANTS
    Ids = {e1, e2}
    BusyWindow = 1
    MaxTime = 5
INVARIANTS NothingLost NoLostWakeup
PROPERTIES EventuallyFired StopReturnsIfPending
\* The engine may stay asleep for ever, or be stopped.
CHECK_DEADLOCK FALSE
