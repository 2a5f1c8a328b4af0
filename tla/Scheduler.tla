----------------------------- MODULE Scheduler -----------------------------
(***************************************************************************)
(* sys_clock_scheduler (src/src/time/scheduler.hpp): the subscriptions of  *)
(* the time language, driven by the engine thread of sys_clock_engine.hpp. *)
(*                                                                         *)
(* A subscription is fired by a chain of self-rescheduling closures.  An   *)
(* arm makes a new closure and pushes it as an event of the engine queue;  *)
(* the engine thread pops the event when it is due, checks that the        *)
(* closure is still the one the subscription waits for, runs the callback  *)
(* without holding subs_mutex_, and pushes the closure again at its next   *)
(* deadline.  A pause leaves the event in the queue; a resume arms anew,   *)
(* and the generation number makes the old closure die when it is popped.  *)
(*                                                                         *)
(* Two threads call the scheduler: "main" and, from inside a callback, the *)
(* engine thread.  The evaluator serialises their calls with eval_mutex_   *)
(* (owner), except that the program's first run subscribes from the main   *)
(* thread without it (phase = "setup") while the engine already ticks.     *)
(*                                                                         *)
(* The engine is its queue here; its mutex, condition variable and busy    *)
(* wait are the subject of module Engine.                                  *)
(***************************************************************************)
EXTENDS Integers, FiniteSets

CONSTANTS
    Names,      \* the process names used as tags
    NoTag,      \* the empty tag of an unowned subscription
    Dts,        \* the tick intervals, in units of the model's clock
    Firsts,     \* the first_fire_ms arguments; 0 is "no phase lock"
    MaxSubs,    \* bound: subscriptions ever made
    MaxTime,    \* bound: the last instant of the clock
    MaxPauses   \* bound: pause_process calls

ASSUME SchedulerAssumption ==
    /\ NoTag \notin Names
    /\ Dts \subseteq Nat \ {0}
    /\ Firsts \subseteq Nat
    /\ MaxSubs \in Nat
    /\ MaxTime \in Nat \ {0}
    /\ MaxPauses \in Nat

Threads == {"main", "engine"}
Tags    == Names \cup {NoTag}
SubIds  == 1..MaxSubs

Origin    == 1   \* origin_, and the clock's first reading
Never     == 0   \* time_point{}: last_fire_at_ before the first tick
NotPaused == 0   \* no entry in paused_at_

Subscription ==
    [dt: Nat, active: BOOLEAN, tag: Tags, paused: BOOLEAN, lastFire: Int, gen: Nat]

Blank == [dt |-> 0, active |-> FALSE, tag |-> NoTag, paused |-> FALSE,
          lastFire |-> Never, gen |-> 0]

\* An event of the engine queue.  id is the identity of the closure, a number
\* for each arm of the subscription: two arms make two closures even if all the
\* rest agrees.
Event == [id: Nat, sub: SubIds, gen: Nat, at: Int]

\* A subscription a call still has to arm, with the baseline it will use.
ArmRequest == [sub: SubIds, base: Int]

VARIABLES
    now,       \* the steady clock
    phase,     \* "setup", "running", "joining" (stop() waits), "stopped"
    owner,     \* the holder of eval_mutex_
    subs,      \* the subscription records; Blank where there is none
    present,   \* the keys of subscriptions_
    nextId,    \* next_id_
    pausedAt,  \* paused_at_
    queue,     \* the engine's queue
    arms,      \* how many closures each subscription was given
    pc,        \* where the engine thread is
    firing,    \* the event it has popped: no event or one
    toArm,     \* per calling thread: arms its call has still to do
    arming,    \* per calling thread: the event built but not yet pushed
    pauses     \* pause_process calls so far

vars == <<now, phase, owner, subs, present, nextId, pausedAt, queue, arms,
          pc, firing, toArm, arming, pauses>>

engineVars == <<queue, arms, pc, firing>>

-----------------------------------------------------------------------------
Init ==
    /\ now = Origin
    /\ phase = "setup"
    /\ owner = "none"
    /\ subs = [s \in SubIds |-> Blank]
    /\ present = {}
    /\ nextId = 1
    /\ pausedAt = [n \in Names |-> NotPaused]
    /\ queue = {}
    /\ arms = [s \in SubIds |-> 0]
    /\ pc = "wait"
    /\ firing = {}
    /\ toArm = [t \in Threads |-> {}]
    /\ arming = [t \in Threads |-> {}]
    /\ pauses = 0

\* Every event that exists: queued, popped, or built and not yet pushed.
Events == queue \cup firing \cup arming["main"] \cup arming["engine"]

\* Subscriptions that a call of some thread has still to arm.
PendingSubs == {s \in SubIds : \E t \in Threads : \E a \in toArm[t] : a.sub = s}

Idle(t) == toArm[t] = {} /\ arming[t] = {}

\* The callers of the scheduler: the holder of eval_mutex_ (the engine thread
\* holds it only inside a callback), with no call of its own under way.
MayCall(t) == owner = t /\ Idle(t)

(***************************************************************************)
(* Calls                                                                   *)
(***************************************************************************)

\* subscribe(): insert the record, choose the baseline, then arm.
Subscribe(t, dt, tag, first) ==
    /\ MayCall(t) \/ (t = "main" /\ phase = "setup" /\ Idle(t))
    /\ nextId <= MaxSubs
    /\ nextId' = nextId + 1
    /\ subs' = [subs EXCEPT ![nextId] =
                  [dt |-> dt, active |-> TRUE, tag |-> tag, paused |-> FALSE,
                   lastFire |-> Never, gen |-> 0]]
    /\ present' = present \cup {nextId}
    /\ toArm' = [toArm EXCEPT ![t] =
                  {[sub |-> nextId,
                    base |-> IF first > 0 THEN Origin + first - dt ELSE now]}]
    /\ UNCHANGED <<now, phase, owner, pausedAt, engineVars, arming, pauses>>

\* unsubscribe(): only marks; the record is never erased here.  A caller can
\* name a subscription once subscribe() has returned its id.
Unsubscribe(t, s) ==
    /\ MayCall(t)
    /\ s \in present \ PendingSubs
    /\ subs' = [subs EXCEPT ![s].active = FALSE]
    /\ UNCHANGED <<now, phase, owner, present, nextId, pausedAt, engineVars,
                   toArm, arming, pauses>>

\* update_dt()
UpdateDt(t, s, dt) ==
    /\ MayCall(t)
    /\ s \in present \ PendingSubs
    /\ subs' = [subs EXCEPT ![s].dt = dt]
    /\ UNCHANGED <<now, phase, owner, present, nextId, pausedAt, engineVars,
                   toArm, arming, pauses>>

\* The evaluator pauses and resumes only a process whose set-up is over.
SetUp(n) == \A s \in PendingSubs : subs[s].tag # n

PauseMarks(n) == {s \in present : subs[s].tag = n /\ subs[s].active /\ ~subs[s].paused}

\* pause_process(): the events stay queued.
PauseProcess(t, n) ==
    /\ MayCall(t)
    /\ SetUp(n)
    /\ pauses < MaxPauses
    /\ pauses' = pauses + 1
    /\ subs' = [s \in SubIds |->
                  IF s \in PauseMarks(n) THEN [subs[s] EXCEPT !.paused = TRUE] ELSE subs[s]]
    /\ pausedAt' = [pausedAt EXCEPT ![n] = now]
    /\ UNCHANGED <<now, phase, owner, present, nextId, engineVars, toArm, arming>>

ResumeMarks(n) == {s \in present : subs[s].tag = n /\ subs[s].active /\ subs[s].paused}

\* resume_process(): the baseline from which a resumed subscription is armed.
ResumeBase(s, pauseDur) ==
    IF subs[s].lastFire # Never THEN subs[s].lastFire + pauseDur ELSE now - subs[s].dt

\* The record of a resumed subscription: the closure still queued is now stale.
Unpaused(r) == [[r EXCEPT !.paused = FALSE] EXCEPT !.gen = @ + 1]

\* resume_process(), its critical section: unpause, invalidate the closure
\* that is still queued, and collect what to arm.
ResumeProcess(t, n) ==
    /\ MayCall(t)
    /\ SetUp(n)
    /\ pausedAt[n] # NotPaused
    /\ pausedAt' = [pausedAt EXCEPT ![n] = NotPaused]
    /\ subs' = [s \in SubIds |->
                  IF s \in ResumeMarks(n)
                  THEN Unpaused(subs[s]) ELSE subs[s]]
    /\ toArm' = [toArm EXCEPT ![t] =
                  {[sub |-> s, base |-> ResumeBase(s, now - pausedAt[n])] :
                      s \in ResumeMarks(n)}]
    /\ UNCHANGED <<now, phase, owner, present, nextId, engineVars, arming, pauses>>

\* arm_subscription_(), under subs_mutex_: the subscription is gone.
ArmSkip(t) ==
    \E a \in toArm[t] :
        /\ arming[t] = {}
        /\ a.sub \notin present \/ ~subs[a.sub].active
        /\ toArm' = [toArm EXCEPT ![t] = @ \ {a}]
        /\ UNCHANGED <<now, phase, owner, subs, present, nextId, pausedAt,
                       engineVars, arming, pauses>>

\* Bug: the closure captures the generation before it is advanced.
ArmOldGeneration(t) ==
    \E a \in toArm[t] :
        LET s == a.sub IN
        /\ arming[t] = {}
        /\ s \in present /\ subs[s].active
        /\ subs' = [subs EXCEPT ![s].gen = @ + 1]
        /\ arming' = [arming EXCEPT ![t] =
                        {[id |-> arms[s], sub |-> s, gen |-> subs[s].gen,
                          at |-> a.base + subs[s].dt]}]
        /\ arms' = [arms EXCEPT ![s] = @ + 1]
        /\ toArm' = [toArm EXCEPT ![t] = @ \ {a}]
        /\ UNCHANGED <<now, phase, owner, present, nextId, pausedAt, queue, pc,
                       firing, pauses>>

\* arm_subscription_(), under subs_mutex_: take a new generation and build the
\* closure for it.
Arm(t) ==
    \E a \in toArm[t] :
        LET s == a.sub
            at == a.base + subs[s].dt
        IN
        /\ arming[t] = {}
        /\ s \in present /\ subs[s].active
        /\ subs' = [subs EXCEPT ![s].gen = @ + 1]
        /\ arming' = [arming EXCEPT ![t] =
                        {[id |-> arms[s], sub |-> s, gen |-> subs[s].gen + 1, at |-> at]}]
        /\ arms' = [arms EXCEPT ![s] = @ + 1]
        /\ toArm' = [toArm EXCEPT ![t] = @ \ {a}]
        /\ UNCHANGED <<now, phase, owner, present, nextId, pausedAt, queue, pc,
                       firing, pauses>>

\* arm_subscription_(), its last statement: engine_.add_event(ev).
AddEvent(t) ==
    /\ arming[t] # {}
    /\ queue' = queue \cup arming[t]
    /\ arming' = [arming EXCEPT ![t] = {}]
    /\ UNCHANGED <<now, phase, owner, subs, present, nextId, pausedAt, arms,
                   pc, firing, toArm, pauses>>

Call(t) ==
    \/ \E dt \in Dts, tag \in Tags, first \in Firsts : Subscribe(t, dt, tag, first)
    \/ \E s \in SubIds : Unsubscribe(t, s)
    \/ \E s \in SubIds, dt \in Dts : UpdateDt(t, s, dt)
    \/ \E n \in Names : PauseProcess(t, n)
    \/ \E n \in Names : ResumeProcess(t, n)
    \/ ArmSkip(t)
    \/ Arm(t)
    \/ AddEvent(t)

(***************************************************************************)
(* The main thread: eval_mutex_, the end of the first run, stop()          *)
(***************************************************************************)
MainLock ==
    /\ owner = "none" /\ Idle("main") /\ phase \in {"setup", "running"}
    /\ owner' = "main"
    /\ UNCHANGED <<now, phase, subs, present, nextId, pausedAt, engineVars,
                   toArm, arming, pauses>>

MainUnlock ==
    /\ MayCall("main")
    /\ owner' = "none"
    /\ UNCHANGED <<now, phase, subs, present, nextId, pausedAt, engineVars,
                   toArm, arming, pauses>>

SetUpDone ==
    /\ phase = "setup" /\ owner # "main" /\ Idle("main")
    /\ phase' = "running"
    /\ UNCHANGED <<now, owner, subs, present, nextId, pausedAt, engineVars,
                   toArm, arming, pauses>>

\* stop(): engine_.stop() clears _running and joins the engine thread ...
Stop ==
    /\ phase = "running" /\ owner # "main"
    /\ phase' = "joining"
    /\ UNCHANGED <<now, owner, subs, present, nextId, pausedAt, engineVars,
                   toArm, arming, pauses>>

\* ... and only then is the table cleared.
StopClear ==
    /\ phase = "joining" /\ pc = "exited"
    /\ phase' = "stopped"
    /\ present' = {}
    /\ subs' = [s \in SubIds |-> Blank]
    /\ UNCHANGED <<now, owner, nextId, pausedAt, engineVars, toArm, arming,
                   pauses>>

(***************************************************************************)
(* The engine thread                                                       *)
(***************************************************************************)
Running == phase \in {"setup", "running"}

DueEvents == {e \in queue : e.at <= now}

\* The wait is over: some event is due.
EngineWake ==
    /\ pc = "wait" /\ Running /\ DueEvents # {}
    /\ pc' = "fire"
    /\ UNCHANGED <<now, phase, owner, subs, present, nextId, pausedAt, queue,
                   arms, firing, toArm, arming, pauses>>

\* Bug: the event is fired and left in the queue.
PopKeeps ==
    /\ pc = "fire"
    /\ \E e \in DueEvents :
         /\ \A f \in queue : e.at <= f.at
         /\ firing' = {e}
    /\ pc' = "check"
    /\ UNCHANGED <<now, phase, owner, subs, present, nextId, pausedAt, queue, arms,
                   toArm, arming, pauses>>

\* The earliest due event is popped; _running is not read in this loop.
Pop ==
    /\ pc = "fire"
    /\ \E e \in DueEvents :
         /\ \A f \in queue : e.at <= f.at
         /\ firing' = {e}
         /\ queue' = queue \ {e}
    /\ pc' = "check"
    /\ UNCHANGED <<now, phase, owner, subs, present, nextId, pausedAt, arms,
                   toArm, arming, pauses>>

FireLoopEnds ==
    /\ pc = "fire" /\ DueEvents = {}
    /\ pc' = "wait"
    /\ UNCHANGED <<now, phase, owner, subs, present, nextId, pausedAt, queue,
                   arms, firing, toArm, arming, pauses>>

EngineExit ==
    /\ pc = "wait" /\ ~Running
    /\ pc' = "exited"
    /\ UNCHANGED <<now, phase, owner, subs, present, nextId, pausedAt, queue,
                   arms, firing, toArm, arming, pauses>>

\* Bug: a paused subscription is not held back.
FireablePaused(e) == e.sub \in present /\ subs[e.sub].active /\ subs[e.sub].gen = e.gen

\* The closure still speaks for its subscription.
Fireable(e) ==
    /\ e.sub \in present
    /\ subs[e.sub].active
    /\ subs[e.sub].gen = e.gen
    /\ ~subs[e.sub].paused

\* The closure's first critical section returns nullopt: the event is dropped.
Drop ==
    /\ pc = "check" /\ \E e \in firing : ~Fireable(e)
    /\ firing' = {}
    /\ pc' = "fire"
    /\ UNCHANGED <<now, phase, owner, subs, present, nextId, pausedAt, queue,
                   arms, toArm, arming, pauses>>

\* It passes: the deadline is recorded and subs_mutex_ released.
Begin ==
    /\ pc = "check"
    /\ \E e \in firing :
         /\ Fireable(e)
         /\ subs' = [subs EXCEPT ![e.sub].lastFire = e.at]
    /\ pc' = "callback"
    /\ UNCHANGED <<now, phase, owner, present, nextId, pausedAt, queue, arms,
                   firing, toArm, arming, pauses>>

\* The callback's first statement: lock eval_mutex_.
CallbackLock ==
    /\ pc = "callback" /\ owner = "none"
    /\ owner' = "engine"
    /\ pc' = "body"
    /\ UNCHANGED <<now, phase, subs, present, nextId, pausedAt, queue, arms,
                   firing, toArm, arming, pauses>>

\* The callback returns, true to keep the subscription.
CallbackReturn(keep) ==
    /\ pc = "body" /\ MayCall("engine")
    /\ owner' = "none"
    /\ pc' = IF keep THEN "reschedule" ELSE "erase"
    /\ UNCHANGED <<now, phase, subs, present, nextId, pausedAt, queue, arms,
                   firing, toArm, arming, pauses>>

Erase ==
    /\ pc = "erase"
    /\ present' = present \ {e.sub : e \in firing}
    /\ subs' = [s \in SubIds |-> IF s \in present' THEN subs[s] ELSE Blank]
    /\ firing' = {}
    /\ pc' = "fire"
    /\ UNCHANGED <<now, phase, owner, nextId, pausedAt, queue, arms, toArm, arming,
                   pauses>>

\* Bug: a period short, so that a tick that is not late is scheduled again.
NextDeadlineShort(at, dt, t) == at + dt * ((t - at) \div dt)

\* fire_at += dt, then by whole periods until it is in the future.
NextDeadline(at, dt, t) ==
    IF at + dt > t THEN at + dt ELSE at + dt * ((t - at) \div dt + 1)

\* dt is read again, the next deadline computed, the closure pushed again.
Reschedule ==
    /\ pc = "reschedule"
    /\ \E e \in firing :
         LET at == NextDeadline(e.at, subs[e.sub].dt, now) IN
         /\ queue' = queue \cup {[e EXCEPT !.at = at]}
    /\ firing' = {}
    /\ pc' = "fire"
    /\ UNCHANGED <<now, phase, owner, subs, present, nextId, pausedAt, arms,
                   toArm, arming, pauses>>

EngineStep ==
    \/ EngineWake \/ Pop \/ FireLoopEnds \/ EngineExit \/ Drop \/ Begin
    \/ CallbackLock \/ (\E keep \in BOOLEAN : CallbackReturn(keep))
    \/ Erase \/ Reschedule

Time ==
    /\ now < MaxTime
    /\ now' = now + 1
    /\ UNCHANGED <<phase, owner, subs, present, nextId, pausedAt, engineVars,
                   toArm, arming, pauses>>

Next ==
    \/ \E t \in Threads : Call(t)
    \/ MainLock \/ MainUnlock \/ SetUpDone \/ Stop \/ StopClear
    \/ EngineStep
    \/ Time

Spec == Init /\ [][Next]_vars

-----------------------------------------------------------------------------
(***************************************************************************)
(* Properties                                                              *)
(***************************************************************************)

\* The types of the variables; the popped event and the event under
\* construction are at most one each.
TypeOK ==
    /\ now \in Nat /\ now >= Origin
    /\ phase \in {"setup", "running", "joining", "stopped"}
    /\ owner \in Threads \cup {"none"}
    /\ subs \in [SubIds -> Subscription]
    /\ present \subseteq SubIds
    /\ nextId \in Nat \ {0} /\ \A s \in present : s < nextId
    /\ \A s \in SubIds \ present : subs[s] = Blank
    /\ pausedAt \in [Names -> Nat] /\ \A n \in Names : pausedAt[n] <= now
    /\ queue \subseteq Event
    /\ arms \in [SubIds -> Nat]
    /\ pc \in {"wait", "fire", "check", "callback", "body", "erase", "reschedule", "exited"}
    /\ firing \subseteq Event /\ \A e, f \in firing : e = f
    /\ toArm \in [Threads -> SUBSET ArmRequest]
    /\ arming \in [Threads -> SUBSET Event]
    /\ \A t \in Threads : \A e, f \in arming[t] : e = f
    /\ pauses \in Nat

\* No two closures speak for one subscription in one generation, and a closure
\* is in one place: however pauses, resumes and callbacks interleave, the
\* generation check of the closure admits one chain of ticks per subscription.
OneLiveChain ==
    /\ \A e, f \in Events : e.sub = f.sub /\ e.gen = f.gen => e = f
    /\ queue \cap firing = {}
    /\ \A t \in Threads : arming[t] \cap (queue \cup firing) = {}
    /\ arming["main"] \cap arming["engine"] = {}

LiveEvents(s) == {e \in Events : e.sub = s /\ e.gen = subs[s].gen}

\* A subscription that is neither cancelled nor paused never goes silent: its
\* live closure is queued, being fired, or about to be armed by a call.
ActiveIsArmed ==
    \A s \in present :
        subs[s].active /\ ~subs[s].paused => s \in PendingSubs \/ LiveEvents(s) # {}

\* The promise of idyl_scheduler: module TickSource.
StateOf(s) ==
    IF s \notin present
    THEN IF s < nextId \/ phase = "stopped" THEN "gone" ELSE "none"
    ELSE IF ~subs[s].active THEN "cancelled"
         ELSE IF subs[s].paused THEN "paused" ELSE "live"

InCallback == pc \in {"callback", "body", "erase", "reschedule"}

Interface == INSTANCE TickSource WITH
    state <- [s \in SubIds |-> StateOf(s)],
    tag   <- [s \in SubIds |-> subs[s].tag],
    held  <- {n \in Names : pausedAt[n] # NotPaused},
    busy  <- IF InCallback THEN {e.sub : e \in firing} ELSE {}

\* The scheduler implements it, with its events, generations and threads: a
\* stale or late closure never reaches a callback of a subscription that was
\* cancelled, paused or cleared meanwhile.
ImplementsTickSource == Interface!Spec

\* A paused subscription can be resumed: its process has an entry in
\* paused_at_, without which resume_process() returns at once.
PausedIsResumable ==
    \A s \in present :
        subs[s].active /\ subs[s].paused =>
            /\ subs[s].tag \in Names
            /\ pausedAt[subs[s].tag] # NotPaused

\* When stop() has returned no callback runs or will run, and the table the
\* callbacks use is empty.
StoppedIsQuiet ==
    phase = "stopped" => present = {} /\ pc = "exited" /\ firing = {} /\ owner # "engine"

\* The ticks of a subscription have strictly increasing deadlines, over
\* rescheduling, catching up, pause and resume: no tick is delivered twice.
NoTickTwice ==
    [][pc = "check" /\ pc' = "callback" =>
         \A e \in firing : e.at > subs[e.sub].lastFire]_vars

=============================================================================
