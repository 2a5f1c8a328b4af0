------------------------------ MODULE MCScopes ------------------------------
(***************************************************************************)
(* Process blocks that bind the same name, for TLC.                        *)
(***************************************************************************)
EXTENDS Scopes, TLC

CONSTANTS p, q, x

MCNames == {p, q}
MCVars  == {x}

\* Blocks are started by commands, by the callbacks of segments and of @-blocks,
\* and by other blocks.
FromBlocks == {"segment", "at", "block"}

\* Bound: no process is started while its own block is executed.  It is not in
\* live_processes_ yet, so that it would be started again without end.
NoSelfStart == Len(runs') > Len(runs) =>
    \A r \in Blocks : runs[r].proc # Last(runs').proc

Sym == Permutations({p, q})
=============================================================================
