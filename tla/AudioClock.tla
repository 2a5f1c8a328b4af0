----------------------------- MODULE AudioClock -----------------------------
(***************************************************************************)
(* audio_clock_scheduler (src/src/time/audio_clock_scheduler.hpp): a worker *)
(* thread woken at the audio buffer rate collects the subscriptions that    *)
(* are due and calls them one after the other.  There are no events: each   *)
(* subscription holds its next deadline, and a pause shifts it.             *)
(*                                                                          *)
(* subs_mutex_ is held for each critical section and released around the    *)
(* callback, so the table can change between the collection of the due      *)
(* subscriptions, the copy of one of them, its callback, and the deadline   *)
(* that is stored after it.  Callers are as in module Scheduler.            *)
(***************************************************************************)
EXTENDS Integers, FiniteSets

CONSTANTS
    Names,      \* the process names used as tags
    NoTag,      \* the empty tag
    Dts,        \* the tick intervals
    Firsts,     \* the first_fire_ms arguments; 0 is "no phase lock"
    MaxSubs,    \* bound: subscriptions ever made
    MaxTime,    \* bound: the last instant of the clock
    MaxPauses   \* bound: pause_process calls

ASSUME AudioClockAssumption ==
    /\ NoTag \notin Names
    /\ Dts \subseteq Nat \ {0}
    /\ Firsts \subseteq Nat
    /\ MaxSubs \in Nat
    /\ MaxTime \in Nat \ {0}
    /\ MaxPauses \in Nat

Threads == {"main", "worker"}
Tags    == Names \cup {NoTag}
SubIds  == 1..MaxSubs

\* now_ms() counts from start(); the model's clock starts at 1 so that 0 is
\* "no entry in paused_at_".
NotPaused == 0

SubsEntry == [dt: Nat, active: BOOLEAN, tag: Tags, paused: BOOLEAN, next: Nat]
Blank == [dt |-> 0, active |-> FALSE, tag |-> NoTag, paused |-> FALSE, next |-> 0]

VARIABLES
    now,        \* now_ms()
    phase,      \* "setup", "running", "joining" (stop() waits), "stopped"
    owner,      \* the holder of eval_mutex_
    subs,       \* the entries; Blank where there is none
    present,    \* the keys of subscriptions_
    nextId,     \* next_id_
    pausedAt,   \* paused_at_
    pc,         \* where the worker thread is
    at,         \* fire_due_()'s now, read once for the whole batch
    batch,      \* fire_due_()'s due ids that are still to be called
    cur,        \* the id being called
    prev,       \* its prev_fire_ms
    pauses,     \* pause_process calls so far
    begun       \* history: the last deadline each callback was called for

workerVars == <<pc, at, batch, cur, prev>>
vars == <<now, phase, owner, subs, present, nextId, pausedAt, workerVars, pauses, begun>>

Init ==
    /\ now = 1
    /\ phase = "setup"
    /\ owner = "none"
    /\ subs = [s \in SubIds |-> Blank]
    /\ present = {}
    /\ nextId = 1
    /\ pausedAt = [n \in Names |-> NotPaused]
    /\ pc = "poll"
    /\ at = 0
    /\ batch = {}
    /\ cur = 0
    /\ prev = 0
    /\ pauses = 0
    /\ begun = [s \in SubIds |-> 0]

(***************************************************************************)
(* Calls                                                                   *)
(***************************************************************************)
MayCall(t) == owner = t

Subscribe(t, dt, tag, first) ==
    /\ MayCall(t) \/ (t = "main" /\ phase = "setup")
    /\ nextId <= MaxSubs
    /\ nextId' = nextId + 1
    /\ present' = present \cup {nextId}
    /\ subs' = [subs EXCEPT ![nextId] =
                  [dt |-> dt, active |-> TRUE, tag |-> tag, paused |-> FALSE,
                   next |-> IF first > 0 THEN first ELSE now + dt]]
    /\ UNCHANGED <<now, phase, owner, pausedAt, workerVars, pauses, begun>>

Unsubscribe(t, s) ==
    /\ MayCall(t)
    /\ s \in present
    /\ subs' = [subs EXCEPT ![s].active = FALSE]
    /\ UNCHANGED <<now, phase, owner, present, nextId, pausedAt, workerVars, pauses, begun>>

UpdateDt(t, s, dt) ==
    /\ MayCall(t)
    /\ s \in present
    /\ subs' = [subs EXCEPT ![s].dt = dt]
    /\ UNCHANGED <<now, phase, owner, present, nextId, pausedAt, workerVars, pauses, begun>>

PauseMarks(n) == {s \in present : subs[s].tag = n /\ subs[s].active /\ ~subs[s].paused}

PauseProcess(t, n) ==
    /\ MayCall(t)
    /\ pauses < MaxPauses
    /\ pauses' = pauses + 1
    /\ subs' = [s \in SubIds |->
                  IF s \in PauseMarks(n) THEN [subs[s] EXCEPT !.paused = TRUE] ELSE subs[s]]
    /\ pausedAt' = [pausedAt EXCEPT ![n] = now]
    /\ UNCHANGED <<now, phase, owner, present, nextId, workerVars, begun>>

ResumeMarks(n) == {s \in present : subs[s].tag = n /\ subs[s].active /\ subs[s].paused}

\* "shift next_fire_ms_ by pause duration"
Shifted(e, pauseDur) == [[e EXCEPT !.paused = FALSE] EXCEPT !.next = @ + pauseDur]

ResumeProcess(t, n) ==
    /\ MayCall(t)
    /\ pausedAt[n] # NotPaused
    /\ subs' = [s \in SubIds |->
                  IF s \in ResumeMarks(n) THEN Shifted(subs[s], now - pausedAt[n]) ELSE subs[s]]
    /\ pausedAt' = [pausedAt EXCEPT ![n] = NotPaused]
    /\ UNCHANGED <<now, phase, owner, present, nextId, workerVars, pauses, begun>>

Call(t) ==
    \/ \E dt \in Dts, tag \in Tags, first \in Firsts : Subscribe(t, dt, tag, first)
    \/ \E s \in SubIds : Unsubscribe(t, s)
    \/ \E s \in SubIds, dt \in Dts : UpdateDt(t, s, dt)
    \/ \E n \in Names : PauseProcess(t, n)
    \/ \E n \in Names : ResumeProcess(t, n)

(***************************************************************************)
(* The main thread                                                         *)
(***************************************************************************)
MainLock ==
    /\ owner = "none" /\ phase \in {"setup", "running"}
    /\ owner' = "main"
    /\ UNCHANGED <<now, phase, subs, present, nextId, pausedAt, workerVars, pauses, begun>>

MainUnlock ==
    /\ owner = "main"
    /\ owner' = "none"
    /\ UNCHANGED <<now, phase, subs, present, nextId, pausedAt, workerVars, pauses, begun>>

SetUpDone ==
    /\ phase = "setup" /\ owner # "main"
    /\ phase' = "running"
    /\ UNCHANGED <<now, owner, subs, present, nextId, pausedAt, workerVars, pauses, begun>>

\* stop(): running_ is cleared ...
Stop ==
    /\ phase = "running" /\ owner # "main"
    /\ phase' = "joining"
    /\ UNCHANGED <<now, owner, subs, present, nextId, pausedAt, workerVars, pauses, begun>>

\* ... the worker joined, and then the table cleared.
StopClear ==
    /\ phase = "joining" /\ pc = "exited"
    /\ phase' = "stopped"
    /\ present' = {}
    /\ subs' = [s \in SubIds |-> Blank]
    /\ UNCHANGED <<now, owner, nextId, pausedAt, workerVars, pauses, begun>>

(***************************************************************************)
(* The worker thread: worker_loop_() and fire_due_()                       *)
(***************************************************************************)
Running == phase \in {"setup", "running"}

Due == {s \in present : subs[s].active /\ ~subs[s].paused /\ now >= subs[s].next}

\* Bug: a deadline has to be met exactly.
CollectExact ==
    /\ pc = "poll" /\ Running
    /\ Due # {}
    /\ at' = now
    /\ batch' = {s \in Due : subs[s].next = now}
    /\ pc' = "batch"
    /\ UNCHANGED <<now, phase, owner, subs, present, nextId, pausedAt, cur, prev, pauses, begun>>

\* The timer ticks and running_ is still set: collect what is due.
Collect ==
    /\ pc = "poll" /\ Running
    /\ Due # {}
    /\ at' = now
    /\ batch' = Due
    /\ pc' = "batch"
    /\ UNCHANGED <<now, phase, owner, subs, present, nextId, pausedAt, cur, prev, pauses, begun>>

\* Bug: the worker leaves only when nothing is subscribed.
ExitWhenUnused ==
    /\ pc = "poll" /\ ~Running /\ ~\E s \in present : subs[s].active
    /\ pc' = "exited"
    /\ UNCHANGED <<now, phase, owner, subs, present, nextId, pausedAt, at, batch, cur, prev,
                   pauses, begun>>

\* The poll times out after a few milliseconds at most, so running_ is read
\* again whether or not the timer ticks.
WorkerExit ==
    /\ pc = "poll" /\ ~Running
    /\ pc' = "exited"
    /\ UNCHANGED <<now, phase, owner, subs, present, nextId, pausedAt, at, batch, cur, prev,
                   pauses, begun>>

\* Bug: a subscription paused since the batch was collected is called.
CallablePaused(s) == s \in present /\ subs[s].active

Callable(s) == s \in present /\ subs[s].active /\ ~subs[s].paused

\* The next of the batch is gone, cancelled or paused since it was collected.
Skip ==
    /\ pc = "batch"
    /\ \E s \in batch : ~Callable(s) /\ batch' = batch \ {s}
    /\ UNCHANGED <<now, phase, owner, subs, present, nextId, pausedAt, pc, at, cur, prev,
                   pauses, begun>>

\* It is still callable: copy it and release subs_mutex_.  The order of the
\* batch is that of an unordered_map.
Begin ==
    /\ pc = "batch"
    /\ \E s \in batch :
         /\ Callable(s)
         /\ batch' = batch \ {s}
         /\ cur' = s
         /\ prev' = subs[s].next
         /\ begun' = [begun EXCEPT ![s] = subs[s].next]
    /\ pc' = "callback"
    /\ UNCHANGED <<now, phase, owner, subs, present, nextId, pausedAt, at, pauses>>

BatchEnds ==
    /\ pc = "batch" /\ batch = {}
    /\ pc' = "poll"
    /\ at' = 0
    /\ UNCHANGED <<now, phase, owner, subs, present, nextId, pausedAt, batch, cur, prev,
                   pauses, begun>>

CallbackLock ==
    /\ pc = "callback" /\ owner = "none"
    /\ owner' = "worker"
    /\ pc' = "body"
    /\ UNCHANGED <<now, phase, subs, present, nextId, pausedAt, at, batch, cur, prev,
                   pauses, begun>>

CallbackReturn(keep) ==
    /\ pc = "body"
    /\ owner' = "none"
    /\ pc' = IF keep THEN "store" ELSE "erase"
    /\ UNCHANGED <<now, phase, subs, present, nextId, pausedAt, at, batch, cur, prev,
                   pauses, begun>>

Erase ==
    /\ pc = "erase"
    /\ present' = present \ {cur}
    /\ subs' = [subs EXCEPT ![cur] = Blank]
    /\ pc' = "batch"
    /\ cur' = 0 /\ prev' = 0
    /\ UNCHANGED <<now, phase, owner, nextId, pausedAt, at, batch, pauses, begun>>

\* Bug: a period short.
NextFireShort(p, dt, t) == p + dt * ((t - p) \div dt)

\* prev_fire_ms + dt, then by whole periods until it is later than the batch's
\* time: the clock is not read again, and next_fire_ms_ is overwritten.
NextFire(p, dt, t) == IF p + dt > t THEN p + dt ELSE p + dt * ((t - p) \div dt + 1)

Store ==
    /\ pc = "store"
    /\ subs' = [subs EXCEPT ![cur].next = NextFire(prev, subs[cur].dt, at)]
    /\ pc' = "batch"
    /\ cur' = 0 /\ prev' = 0
    /\ UNCHANGED <<now, phase, owner, present, nextId, pausedAt, at, batch, pauses, begun>>

WorkerStep ==
    \/ Collect \/ WorkerExit \/ Skip \/ Begin \/ BatchEnds \/ CallbackLock
    \/ (\E keep \in BOOLEAN : CallbackReturn(keep)) \/ Erase \/ Store

Time ==
    /\ now < MaxTime
    /\ now' = now + 1
    /\ UNCHANGED <<phase, owner, subs, present, nextId, pausedAt, workerVars, pauses, begun>>

Next ==
    \/ \E t \in Threads : Call(t)
    \/ MainLock \/ MainUnlock \/ SetUpDone \/ Stop \/ StopClear
    \/ WorkerStep
    \/ Time

Spec == Init /\ [][Next]_vars

\* The worker runs, the main thread gives eval_mutex_ back and finishes stop();
\* a thread that waits for the mutex again and again gets it in the end.
FairSpec ==
    /\ Spec
    /\ WF_vars(WorkerStep) /\ WF_vars(MainUnlock) /\ WF_vars(StopClear)
    /\ SF_vars(CallbackLock)

-----------------------------------------------------------------------------
(***************************************************************************)
(* Properties                                                              *)
(***************************************************************************)
\* The variables keep their types; what was erased is blank.
TypeOK ==
    /\ now \in 1..MaxTime
    /\ phase \in {"setup", "running", "joining", "stopped"}
    /\ owner \in Threads \cup {"none"}
    /\ subs \in [SubIds -> SubsEntry]
    /\ present \subseteq SubIds /\ \A s \in SubIds \ present : subs[s] = Blank
    /\ nextId \in 1..(MaxSubs + 1) /\ \A s \in present : s < nextId
    /\ pausedAt \in [Names -> Nat]
    /\ pc \in {"poll", "batch", "callback", "body", "erase", "store", "exited"}
    /\ at \in Nat /\ prev \in Nat
    /\ batch \subseteq SubIds
    /\ cur \in SubIds \cup {0}
    /\ pauses \in 0..MaxPauses
    /\ begun \in [SubIds -> Nat]

\* The promise of idyl_scheduler: module TickSource.
StateOf(s) ==
    IF s \notin present
    THEN IF s < nextId \/ phase = "stopped" THEN "gone" ELSE "none"
    ELSE IF ~subs[s].active THEN "cancelled"
         ELSE IF subs[s].paused THEN "paused" ELSE "live"

Interface == INSTANCE TickSource WITH
    state <- [s \in SubIds |-> StateOf(s)],
    tag   <- [s \in SubIds |-> subs[s].tag],
    held  <- {n \in Names : pausedAt[n] # NotPaused},
    busy  <- IF pc \in {"callback", "body", "erase", "store"} THEN {cur} ELSE {}

ImplementsTickSource == Interface!Spec

\* A tick is neither repeated nor early, although a batch is collected before the
\* callbacks of those before it pause, resume, cancel or reschedule a subscription and
\* fire_due_() does not look at its deadline again: deadlines strictly increase, and
\* none is called before it has come.
TicksInTime ==
    /\ []TypeOK
    /\ [][\A s \in SubIds : pc = "batch" /\ pc' = "callback" /\ cur' = s =>
             prev' > begun[s] /\ prev' <= now']_vars

\* stop() always returns.
StopReturns == phase = "joining" ~> phase = "stopped"

\* A subscription that is due is called, unless it is paused, cancelled or
\* removed, or the clock is stopped.
DueIsCalled ==
    \A s \in SubIds :
        (s \in Due /\ Running) ~> (cur = s \/ ~Callable(s) \/ ~Running)

=============================================================================
