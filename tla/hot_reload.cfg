SPECIFICATION HotReloadSpec
CONSTANTS
    NoVar = NoVar
    a = a
    b = b
    x = x
    Blocks <- MCBlocks
    WithArg = {"lfo"}
    Timed = TRUE
    MaxInstances = 8
    MaxEdits = 3
    ReloadStates = {"none", "running", "paused", "stopped"}
INVARIANTS LikeRestart IntervalSticks NothingLeftBehind
PROPERTY SurvivorsUntouched
\* Everything may have stopped.
CHECK_DEADLOCK FALSE
