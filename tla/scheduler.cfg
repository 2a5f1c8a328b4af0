SPECIFICATION Spec
CONSTANTS
    Names = {p}
    NoTag = NoTag
    Dts = {1, 2}
    Firsts = {0}
    MaxSubs = 2
    MaxTime = 3
    MaxPauses = 1
INVARIANTS OneLiveChain ActiveIsArmed
PROPERTIES NoTickTwice ImplementsTickSource
\* The clock and the subscriptions are bounded, and the engine sleeps at the end.
CHECK_DEADLOCK FALSE
