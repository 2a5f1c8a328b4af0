SPECIFICATION Spec
CONSTANTS
    Bindings <- MCBindings
    StopAt <- MCStopAt
    HasInit <- MCHasInit
    Durations = {0, 3, 8}
    Interval <- MCInterval
    MaxTime = 9
    MaxInsts = 14
INVARIANTS EachReadsItsOwn AgeIsElapsed StopIsQuiet
\* Time is bounded.
CHECK_DEADLOCK FALSE
