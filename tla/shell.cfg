SPECIFICATION FairSpec
CONSTANTS
    s1 = s1
    s2 = s2
    h = h
    c = c
    SubIds <- MCSubIds
    Conns <- MCConns
    Csounds <- MCCsounds
    NoTag = NoTag
    MaxCmds = 2
    MaxOps = 1
    MaxSetup = 2
INVARIANTS InOrder UsesAreLive CleanExit
PROPERTIES Ends CommandsServed
\* main() returns.
CHECK_DEADLOCK FALSE
