---------------------------- MODULE TickSource ----------------------------
(***************************************************************************)
(* What idyl_scheduler (src/src/time/scheduler.hpp) promises the evaluator, *)
(* whichever clock drives it: at most one callback runs at a time, a        *)
(* callback begins only for a subscription that is neither cancelled nor    *)
(* paused, a pause and a resume take all the subscriptions of a process     *)
(* together, and nothing is left after stop().                              *)
(*                                                                          *)
(* sys_clock_scheduler (module Scheduler) and audio_clock_scheduler (module *)
(* AudioClock) are two implementations of it.                               *)
(***************************************************************************)
CONSTANTS
    SubIds,   \* the subscriptions that can be made
    Names,    \* the process names used as tags
    NoTag     \* the empty tag

VARIABLES
    state,    \* per subscription: "none", "live", "paused", "cancelled", "gone"
    tag,      \* per subscription: its process_tag
    held,     \* the processes between a pause and its resume
    busy      \* the subscriptions whose callback runs: none or one

vars == <<state, tag, held, busy>>

Init ==
    /\ state = [s \in SubIds |-> "none"]
    /\ tag = [s \in SubIds |-> NoTag]
    /\ held = {}
    /\ busy = {}

Subscribe(s, n) ==
    /\ state[s] = "none"
    /\ state' = [state EXCEPT ![s] = "live"]
    /\ tag' = [tag EXCEPT ![s] = n]
    /\ UNCHANGED <<held, busy>>

Unsubscribe(s) ==
    /\ state[s] \in {"live", "paused"}
    /\ state' = [state EXCEPT ![s] = "cancelled"]
    /\ UNCHANGED <<tag, held, busy>>

PauseProcess(n) ==
    /\ held' = held \cup {n}
    /\ state' = [s \in SubIds |->
                   IF tag[s] = n /\ state[s] = "live" THEN "paused" ELSE state[s]]
    /\ UNCHANGED <<tag, busy>>

ResumeProcess(n) ==
    /\ n \in held
    /\ held' = held \ {n}
    /\ state' = [s \in SubIds |->
                   IF tag[s] = n /\ state[s] = "paused" THEN "live" ELSE state[s]]
    /\ UNCHANGED <<tag, busy>>

Begin(s) ==
    /\ busy = {}
    /\ state[s] = "live"
    /\ busy' = {s}
    /\ UNCHANGED <<state, tag, held>>

\* The callback asked to be kept.
Keep ==
    /\ busy # {}
    /\ busy' = {}
    /\ UNCHANGED <<state, tag, held>>

\* The callback asked to be removed.
Drop(s) ==
    /\ busy = {s}
    /\ busy' = {}
    /\ state' = [state EXCEPT ![s] = "gone"]
    /\ tag' = [tag EXCEPT ![s] = NoTag]
    /\ UNCHANGED held

Stop ==
    /\ busy = {}
    /\ state' = [s \in SubIds |-> "gone"]
    /\ tag' = [s \in SubIds |-> NoTag]
    /\ UNCHANGED <<held, busy>>

Next ==
    \/ \E s \in SubIds :
         \/ \E n \in Names \cup {NoTag} : Subscribe(s, n)
         \/ Unsubscribe(s) \/ Begin(s) \/ Drop(s)
    \/ \E n \in Names : PauseProcess(n) \/ ResumeProcess(n)
    \/ Keep \/ Stop

Spec == Init /\ [][Next]_vars

=============================================================================
