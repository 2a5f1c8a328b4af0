----------------------------- MODULE MCProcess -----------------------------
(***************************************************************************)
(* Two process blocks for TLC: p has a duration and a flow literal, q a    *)
(* binding with a temporal argument.                                       *)
(***************************************************************************)
EXTENDS Process, TLC

CONSTANTS p, q

MCNames == {p, q}
MCBody == (p :> [segs |-> 1, args |-> 0, flows |-> 1, ats |-> 1, timed |-> TRUE])
            @@ (q :> [segs |-> 1, args |-> 1, flows |-> 0, ats |-> 0, timed |-> FALSE])
=============================================================================
