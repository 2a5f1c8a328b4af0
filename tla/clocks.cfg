SPECIFICATION Spec
CONSTANTS
    Beat = 8
    Bpm0 = 8
    Tempi = {4, 8}
    Lengths = {1}
    MaxClocks = 3
    MaxInsts = 2
    MaxTempos = 2
    MaxTime = 2
INVARIANTS TempoReachesAll SyncsAlign PhasorsAgree
\* Time and the calls are bounded.
CHECK_DEADLOCK FALSE
