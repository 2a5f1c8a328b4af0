---------------------------- MODULE MCHotReload -----------------------------
(***************************************************************************)
(* Texts of one process for TLC.                                           *)
(***************************************************************************)
EXTENDS HotReload

CONSTANTS a, b, x

\* Bindings a and b and a driver between them; a reaction of a and one of both.
Base == <<Bind(a, "metro", 1), React(NoVar, {a}), Drive("metro", 2), Bind(b, "counter", 2), React(x, {a, b})>>

\* a has another interval and drives x alone, the driver is an on-block with
\* another interval; b is gone.
Edited == <<Bind(a, "metro", 2), React(x, {a}), On("metro", 1), React(NoVar, {x})>>

\* b has another function, with a temporal argument, and stands first; so has the
\* driver.
Moved == <<Bind(b, "lfo", 1), React(x, {b}), Drive("euclid", 1), Bind(a, "metro", 1), React(NoVar, {x, a})>>

\* b is assigned something that is not temporal; a states no interval, and the
\* driver another one.
Demoted == <<Defaulted(Bind(a, "metro", 1)), React(NoVar, {a}), Drive("metro", 3), React(b, {a}), React(x, {b})>>

MCBlocks == {Base, Edited, Moved, Demoted}

=============================================================================
