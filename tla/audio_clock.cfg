SPECIFICATION FairSpec
CONSTANTS
    Names = {p}
    NoTag = NoTag
    Dts = {1}
    Firsts = {0}
    MaxSubs = 2
    MaxTime = 4
    MaxPauses = 1
PROPERTIES TicksInTime ImplementsTickSource StopReturns DueIsCalled
\* The clock is bounded and can be stopped.
CHECK_DEADLOCK FALSE
