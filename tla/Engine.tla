------------------------------- MODULE Engine -------------------------------
(***************************************************************************)
(* scheduler<T> of src/src/time/sys_clock_engine.hpp: the thread that       *)
(* sleeps until the earliest event of a priority queue is due and fires it. *)
(*                                                                          *)
(* The model is at the grain of the mutex and the condition variable: the   *)
(* timing thread evaluates a predicate under _mutex, then releases it and   *)
(* blocks in one step; a notification that arrives between the evaluation   *)
(* and the block wakes nobody.  add_event() changes the queue under the     *)
(* mutex and then notifies; stop() clears _running without the mutex and    *)
(* then notifies.                                                           *)
(***************************************************************************)
EXTENDS Integers, FiniteSets

CONSTANTS
    Ids,          \* the events that client threads add
    BusyWindow,   \* _busy_window
    MaxTime       \* bound: the last instant of the clock, and the last deadline

ASSUME EngineAssumption ==
    /\ BusyWindow \in Nat
    /\ MaxTime \in Nat \ {0}

Event == [id: Ids, at: 1..MaxTime]

VARIABLES
    now,        \* the steady clock
    running,    \* _running
    queue,      \* _queue
    holds,      \* the timing thread holds _mutex
    pc,         \* where the timing thread is
    deadline,   \* its local variable
    hand,       \* the event it has popped: none or one
    notifying,  \* client threads between their push and their notify_one
    finished,   \* events that were fired and not rescheduled
    mainPc      \* the thread that calls start() and stop()

vars == <<now, running, queue, holds, pc, deadline, hand, notifying, finished, mainPc>>

Init ==
    /\ now = 1
    /\ running = FALSE
    /\ queue = {}
    /\ holds = FALSE
    /\ pc = "none"
    /\ deadline = 0
    /\ hand = {}
    /\ notifying = {}
    /\ finished = {}
    /\ mainPc = "new"

Top == {e \in queue : \A f \in queue : e.at <= f.at}
TopTime == (CHOOSE e \in Top : TRUE).at
IdsIn(S) == {e.id : e \in S}
Added == IdsIn(queue) \cup IdsIn(hand) \cup finished

Asleep == pc \in {"asleepEmpty", "asleepTimed"}

\* notify_one() and notify_all(): the timing thread is the only waiter.  It has
\* to take _mutex again before it goes on.
Notified == IF pc = "asleepEmpty" THEN "relockEmpty"
            ELSE IF pc = "asleepTimed" THEN "relockTimed" ELSE pc

(***************************************************************************)
(* The callers                                                             *)
(***************************************************************************)
Start ==
    /\ mainPc = "new"
    /\ running' = TRUE
    /\ pc' = "loop"
    /\ mainPc' = "started"
    /\ UNCHANGED <<now, queue, holds, deadline, hand, notifying, finished>>

\* Bug: the event is pushed and nobody notified.
AddEventSilent(i, at) ==
    /\ ~holds
    /\ i \notin Added
    /\ queue' = queue \cup {[id |-> i, at |-> at]}
    /\ UNCHANGED <<now, running, holds, pc, deadline, hand, notifying, finished, mainPc>>

\* add_event() from a client thread: push under the mutex ...
AddEvent(i, at) ==
    /\ ~holds
    /\ i \notin Added
    /\ queue' = queue \cup {[id |-> i, at |-> at]}
    /\ notifying' = notifying \cup {i}
    /\ UNCHANGED <<now, running, holds, pc, deadline, hand, finished, mainPc>>

\* ... and notify after it was released.
Notify(i) ==
    /\ i \in notifying
    /\ notifying' = notifying \ {i}
    /\ pc' = Notified
    /\ UNCHANGED <<now, running, queue, holds, deadline, hand, finished, mainPc>>

\* Bug: _running is left set.
StopStoreLost ==
    /\ mainPc = "started"
    /\ mainPc' = "notify"
    /\ UNCHANGED <<now, running, queue, holds, pc, deadline, hand, notifying, finished>>

\* stop(): the compare-and-swap; _mutex is not taken ...
StopStore ==
    /\ mainPc = "started"
    /\ running' = FALSE
    /\ mainPc' = "notify"
    /\ UNCHANGED <<now, queue, holds, pc, deadline, hand, notifying, finished>>

StopNotify ==
    /\ mainPc = "notify"
    /\ pc' = Notified
    /\ mainPc' = "join"
    /\ UNCHANGED <<now, running, queue, holds, deadline, hand, notifying, finished>>

StopJoin ==
    /\ mainPc = "join" /\ pc = "exited"
    /\ mainPc' = "stopped"
    /\ UNCHANGED <<now, running, queue, holds, pc, deadline, hand, notifying, finished>>

(***************************************************************************)
(* The timing thread: _loop()                                              *)
(***************************************************************************)
Move(from, to) == pc = from /\ pc' = to

\* while (_running), then lock.
LoopTest ==
    /\ IF running THEN Move("loop", "lock") ELSE Move("loop", "exited")
    /\ UNCHANGED <<now, running, queue, holds, deadline, hand, notifying, finished, mainPc>>

LoopLock ==
    /\ Move("lock", "testEmpty")
    /\ ~holds /\ holds' = TRUE
    /\ UNCHANGED <<now, running, queue, deadline, hand, notifying, finished, mainPc>>

\* Bug: the predicate does not look at the queue.
TestStopped ==
    /\ IF ~running THEN Move("testEmpty", "peek") ELSE Move("testEmpty", "blockEmpty")
    /\ UNCHANGED <<now, running, queue, holds, deadline, hand, notifying, finished, mainPc>>

\* The first wait: its predicate, evaluated with the mutex held.
TestEmpty ==
    /\ IF queue # {} \/ ~running THEN Move("testEmpty", "peek")
                                 ELSE Move("testEmpty", "blockEmpty")
    /\ UNCHANGED <<now, running, queue, holds, deadline, hand, notifying, finished, mainPc>>

\* The wait releases the mutex and blocks.
BlockEmpty ==
    /\ Move("blockEmpty", "asleepEmpty")
    /\ holds' = FALSE
    /\ UNCHANGED <<now, running, queue, deadline, hand, notifying, finished, mainPc>>

RelockEmpty ==
    /\ Move("relockEmpty", "testEmpty")
    /\ ~holds /\ holds' = TRUE
    /\ UNCHANGED <<now, running, queue, deadline, hand, notifying, finished, mainPc>>

\* _running is read again: leave, or look at the nearest event.
Peek ==
    /\ IF running
       THEN Move("peek", "testTimed") /\ deadline' = TopTime /\ UNCHANGED holds
       ELSE Move("peek", "exited") /\ holds' = FALSE /\ UNCHANGED deadline
    /\ UNCHANGED <<now, running, queue, hand, notifying, finished, mainPc>>

\* The timed wait: "wake early if a closer event was added".
Early == ~running \/ (queue # {} /\ TopTime < deadline)

TestTimed ==
    /\ IF Early \/ now >= deadline - BusyWindow THEN Move("testTimed", "aim")
                                                ELSE Move("testTimed", "blockTimed")
    /\ UNCHANGED <<now, running, queue, holds, deadline, hand, notifying, finished, mainPc>>

BlockTimed ==
    /\ Move("blockTimed", "asleepTimed")
    /\ holds' = FALSE
    /\ UNCHANGED <<now, running, queue, deadline, hand, notifying, finished, mainPc>>

TimedOut ==
    /\ Move("asleepTimed", "relockTimed")
    /\ now >= deadline - BusyWindow
    /\ UNCHANGED <<now, running, queue, holds, deadline, hand, notifying, finished, mainPc>>

RelockTimed ==
    /\ Move("relockTimed", "testTimed")
    /\ ~holds /\ holds' = TRUE
    /\ UNCHANGED <<now, running, queue, deadline, hand, notifying, finished, mainPc>>

\* _running again; then take the nearest deadline and unlock.
Aim ==
    /\ IF running THEN Move("aim", "busy") /\ deadline' = TopTime
                  ELSE Move("aim", "exited") /\ UNCHANGED deadline
    /\ holds' = FALSE
    /\ UNCHANGED <<now, running, queue, hand, notifying, finished, mainPc>>

\* The busy wait reads neither the queue nor _running.
BusyEnd ==
    /\ Move("busy", "relock")
    /\ now >= deadline
    /\ UNCHANGED <<now, running, queue, holds, deadline, hand, notifying, finished, mainPc>>

Relock ==
    /\ Move("relock", "fire")
    /\ ~holds /\ holds' = TRUE
    /\ UNCHANGED <<now, running, queue, deadline, hand, notifying, finished, mainPc>>

\* Bug: the top is copied and not popped.
FirePeek ==
    /\ Move("fire", "callback")
    /\ \E e \in Top : e.at <= now /\ hand' = {e}
    /\ holds' = FALSE
    /\ UNCHANGED <<now, running, queue, deadline, notifying, finished, mainPc>>

\* Copy the top, pop it, unlock.
FirePop ==
    /\ Move("fire", "callback")
    /\ \E e \in Top :
         /\ e.at <= now
         /\ hand' = {e}
         /\ queue' = queue \ {e}
    /\ holds' = FALSE
    /\ UNCHANGED <<now, running, deadline, notifying, finished, mainPc>>

FireEnd ==
    /\ Move("fire", "loop")
    /\ queue # {} => TopTime > now
    /\ holds' = FALSE
    /\ UNCHANGED <<now, running, queue, deadline, hand, notifying, finished, mainPc>>

\* The callback returned nullopt.
OneShot ==
    /\ Move("callback", "relock")
    /\ finished' = finished \cup IdsIn(hand)
    /\ hand' = {}
    /\ UNCHANGED <<now, running, queue, holds, deadline, notifying, mainPc>>

\* It returned a time: add_event() by the timing thread itself, which notifies
\* nobody but itself.
Again ==
    /\ Move("callback", "relock")
    /\ ~holds
    /\ \E at \in (now + 1)..MaxTime, e \in hand : queue' = queue \cup {[e EXCEPT !.at = at]}
    /\ hand' = {}
    /\ UNCHANGED <<now, running, holds, deadline, notifying, finished, mainPc>>

\* A condition variable may wake a thread for no reason.
Spurious ==
    /\ Asleep
    /\ pc' = Notified
    /\ UNCHANGED <<now, running, queue, holds, deadline, hand, notifying, finished, mainPc>>

LoopStep ==
    \/ LoopTest \/ LoopLock \/ TestEmpty \/ BlockEmpty \/ RelockEmpty \/ Peek
    \/ TestTimed \/ BlockTimed \/ TimedOut \/ RelockTimed \/ Aim \/ BusyEnd
    \/ Relock \/ FirePop \/ FireEnd \/ OneShot \/ Again

Time ==
    /\ now < MaxTime
    /\ now' = now + 1
    /\ UNCHANGED <<running, queue, holds, pc, deadline, hand, notifying, finished, mainPc>>

Next ==
    \/ Start \/ StopStore \/ StopNotify \/ StopJoin
    \/ \E i \in Ids : (\E at \in 1..MaxTime : AddEvent(i, at)) \/ Notify(i)
    \/ LoopStep \/ Spurious \/ Time

Spec == Init /\ [][Next]_vars

\* Time passes, the timing thread runs, and a call once begun goes on.  Nothing
\* obliges anybody to add an event or to stop, or a spurious wakeup to come.
FairSpec ==
    /\ Spec
    /\ WF_vars(Time)
    /\ WF_vars(LoopStep)
    /\ WF_vars(StopNotify) /\ WF_vars(StopJoin)
    /\ \A i \in Ids : WF_vars(Notify(i))

-----------------------------------------------------------------------------
(***************************************************************************)
(* Properties                                                              *)
(***************************************************************************)
\* The variables keep their types: at most one event is in hand.
TypeOK ==
    /\ now \in 1..MaxTime
    /\ running \in BOOLEAN /\ holds \in BOOLEAN
    /\ queue \subseteq Event /\ hand \subseteq Event /\ Cardinality(hand) <= 1
    /\ notifying \subseteq Ids /\ finished \subseteq Ids
    /\ deadline \in 0..MaxTime
    /\ pc \in {"none", "loop", "lock", "testEmpty", "blockEmpty", "asleepEmpty",
               "relockEmpty", "peek", "testTimed", "blockTimed", "asleepTimed",
               "relockTimed", "aim", "busy", "relock", "fire", "callback", "exited"}
    /\ mainPc \in {"new", "started", "notify", "join", "stopped"}

\* An event that was added is in one place: queued, being fired, or finished.
\* add_event() from other threads while a callback runs unlocked neither loses
\* the event nor has it popped in place of another.
NothingLost ==
    /\ TypeOK
    /\ IdsIn(queue) \cap IdsIn(hand) = {}
    /\ finished \cap (IdsIn(queue) \cup IdsIn(hand)) = {}
    /\ Cardinality(IdsIn(queue)) = Cardinality(queue)
    /\ notifying \subseteq Added
    /\ pc = "callback" <=> hand # {}

\* The timing thread never sleeps without a deadline while events wait, unless
\* the notification that will wake it is still to come.
NoLostWakeup ==
    pc = "asleepEmpty" /\ queue # {} => IdsIn(queue) \cap notifying # {}

\* Every event is fired unless the engine is stopped first, whatever is added
\* before or after it.
EventuallyFired ==
    \A i \in Ids : i \in IdsIn(queue) ~> (i \in IdsIn(hand) \/ ~running)

\* stop() returns when an event is pending: the timed wait runs out.
StopReturnsIfPending == mainPc = "notify" /\ queue # {} ~> mainPc = "stopped"

=============================================================================
