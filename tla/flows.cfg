SPECIFICATION FlowsSpec
CONSTANTS
    Vars <- MCVars
    Texts <- MCTexts
    Static = {"n"}
    Parametric = {"f", "g"}
    Inner <- MCInner
    NoFlow = ""
    Args = {1, 2}
    Length <- MCLength
    Stale = {1}
    MaxCache = 2
    MaxTexts = 2
    MaxDefs = 1
INVARIANT CacheAgrees
PROPERTY CursorsContinue
\* Everything may be used up.
CHECK_DEADLOCK FALSE
