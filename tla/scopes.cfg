SPECIFICATION Spec
CONSTANTS
    p = p
    q = q
    x = x
    Names <- MCNames
    Vars <- MCVars
    StartsFrom <- FromBlocks
    MaxRuns = 3
    MaxFrames = 4
    MaxNesting = 3
    MaxSubs = 2
SYMMETRY Sym
ACTION_CONSTRAINT NoSelfStart
INVARIANTS FrameInPlace OwnFrame
PROPERTY BuriedIsPrivate
\* Everything may be stopped, or the runs be used up.
CHECK_DEADLOCK FALSE
