------------------------------ MODULE MCShell ------------------------------
(***************************************************************************)
(* Two subscriptions, one connection and one Csound instance, for TLC.     *)
(***************************************************************************)
EXTENDS Shell

CONSTANTS s1, s2, h, c

MCSubIds  == {s1, s2}
MCConns   == {h}
MCCsounds == {c}
=============================================================================
