SPECIFICATION FairSpec
CONSTANTS
    p = p
    q = q
    Names <- MCNames
    NoName = NoName
    Body <- MCBody
    MaxSubs = 5
INVARIANT TablesAgree
PROPERTIES NoStaleReaction EpochCompletes
\* Everything may be stopped, or the subscriptions be used up.
CHECK_DEADLOCK FALSE
