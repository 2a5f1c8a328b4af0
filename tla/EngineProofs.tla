---------------------------- MODULE EngineProofs ----------------------------
(***************************************************************************)
(* Theorems about module Engine, for every value of its constants.          *)
(***************************************************************************)
EXTENDS Engine, FiniteSetTheorems, WellFoundedInduction, TLAPS

-----------------------------------------------------------------------------
(***************************************************************************)
(* The inductive invariant                                                  *)
(***************************************************************************)

\* The places of the timing thread that are inside the critical section, and
\* those it reaches only with an event queued.
Inside == {"testEmpty", "blockEmpty", "peek", "testTimed", "blockTimed", "aim", "fire"}
Aimed == {"testTimed", "blockTimed", "asleepTimed", "relockTimed", "aim"}

\* Where the two threads can be.
Control ==
    /\ pc \in Inside <=> holds
    /\ mainPc = "new" <=> pc = "none"
    /\ mainPc = "new" => ~running
    /\ pc = "callback" <=> hand # {}

\* What the timing thread knows of the queue it has looked at.
Looked ==
    /\ pc \in Aimed => queue # {}
    /\ pc = "peek" /\ running => queue # {}
    /\ pc = "blockEmpty" => queue = {}

\* Every id is in one place, and once.
OnePlace ==
    /\ IsFiniteSet(queue)
    /\ \A e, f \in queue \cup hand : e.id = f.id => e = f
    /\ queue \cap hand = {}
    /\ \A e \in queue \cup hand : e.id \notin finished
    /\ notifying \subseteq Added

Types ==
    /\ now \in 1..MaxTime
    /\ running \in BOOLEAN /\ holds \in BOOLEAN
    /\ queue \subseteq Event /\ hand \subseteq Event
    /\ notifying \subseteq Ids /\ finished \subseteq Ids
    /\ deadline \in 0..MaxTime
    /\ pc \in {"none", "loop", "lock", "testEmpty", "blockEmpty", "asleepEmpty",
               "relockEmpty", "peek", "testTimed", "blockTimed", "asleepTimed",
               "relockTimed", "aim", "busy", "relock", "fire", "callback", "exited"}
    /\ mainPc \in {"new", "started", "notify", "join", "stopped"}

Inv ==
    /\ Types /\ Control /\ Looked /\ OnePlace /\ NoLostWakeup
    /\ hand = {} \/ \E e \in Event : hand = {e}

-----------------------------------------------------------------------------
(***************************************************************************)
(* The queue                                                                *)
(***************************************************************************)

\* A queue that is not empty has an event nearest in time, and its deadline is
\* one of the clock's instants.
LEMMA TopExists ==
  ASSUME queue \subseteq Event, queue # {}
  PROVE  Top # {} /\ TopTime \in 1..MaxTime
<1> DEFINE R == {ss \in Nat \X Nat : ss[1] < ss[2]}
           T == {e.at : e \in queue}
<1>1. IsWellFoundedOn(R, Nat)
  BY NatLessThanWellFounded DEF OpToRel
<1>2. T \subseteq Nat /\ T # {}
  BY EngineAssumption DEF Event
<1>3. PICK x \in T : \A y \in T : ~(<<y, x>> \in R)
  BY <1>1, <1>2, WFMin
<1>4. PICK e \in queue : e.at = x
  BY <1>3
<1>5. \A f \in queue : e.at <= f.at
  <2> SUFFICES ASSUME NEW f \in queue PROVE e.at <= f.at
    OBVIOUS
  <2>1. f.at \in T /\ f.at \in Nat /\ e.at \in Nat
    BY <1>2
  <2>2. ~(f.at < e.at)
    BY <1>3, <1>4, <2>1
  <2> QED BY <2>1, <2>2
<1>6. e \in Top
  BY <1>5 DEF Top
<1>7. (CHOOSE f \in Top : TRUE) \in Top
  BY <1>6
<1> QED BY <1>6, <1>7 DEF Top, TopTime, Event

-----------------------------------------------------------------------------
(***************************************************************************)
(* Each step preserves the invariant                                        *)
(***************************************************************************)

\* A step that moves no event leaves every event in its one place.
LEMMA NothingMoves ==
  ASSUME Inv, UNCHANGED <<queue, hand, finished, notifying>>
  PROVE  OnePlace' /\ (hand = {} \/ \E e \in Event : hand = {e})'
BY DEF Inv, OnePlace, Added, IdsIn

\* The steps of the timing thread that only move it, and take or release the
\* mutex.
LEMMA ControlStepInv ==
  ASSUME Inv,
         \/ LoopTest \/ LoopLock \/ TestEmpty \/ BlockEmpty \/ RelockEmpty
         \/ TestTimed \/ BlockTimed \/ TimedOut \/ RelockTimed
         \/ BusyEnd \/ Relock \/ FireEnd \/ Spurious
  PROVE  Inv'
<1> USE DEF Inv, Move
<1>1. UNCHANGED <<now, running, queue, deadline, hand, notifying, finished, mainPc>>
  BY DEF LoopTest, LoopLock, TestEmpty, BlockEmpty, RelockEmpty, TestTimed, BlockTimed,
     TimedOut, RelockTimed, BusyEnd, Relock, FireEnd, Spurious
<1>2. Types' /\ Control'
  <2>1. CASE LoopTest \/ LoopLock \/ TestEmpty \/ BlockEmpty \/ RelockEmpty
    <3>1. Types'
      BY <1>1, <2>1 DEF Types, LoopTest, LoopLock, TestEmpty, BlockEmpty, RelockEmpty
    <3>2. Control'
      BY <1>1, <2>1 DEF Control, Inside, LoopTest, LoopLock, TestEmpty, BlockEmpty, RelockEmpty
    <3> QED BY <3>1, <3>2
  <2>2. CASE TestTimed \/ BlockTimed \/ TimedOut \/ RelockTimed
    <3>1. Types'
      BY <1>1, <2>2 DEF Types, TestTimed, BlockTimed, TimedOut, RelockTimed
    <3>2. Control'
      BY <1>1, <2>2 DEF Control, Inside, TestTimed, BlockTimed, TimedOut, RelockTimed
    <3> QED BY <3>1, <3>2
  <2>3. CASE BusyEnd \/ Relock \/ FireEnd \/ Spurious
    <3>1. Types'
      BY <1>1, <2>3 DEF Types, Asleep, Notified, BusyEnd, Relock, FireEnd, Spurious
    <3>2. Control'
      BY <1>1, <2>3 DEF Control, Inside, Asleep, Notified, BusyEnd, Relock, FireEnd, Spurious
    <3> QED BY <3>1, <3>2
  <2> QED BY <2>1, <2>2, <2>3
<1>3. Looked'
  BY <1>1 DEF Looked, Aimed, Asleep, Notified,
     LoopTest, LoopLock, TestEmpty, BlockEmpty, RelockEmpty, TestTimed, BlockTimed,
     TimedOut, RelockTimed, BusyEnd, Relock, FireEnd, Spurious
<1>4. NoLostWakeup'
  BY <1>1 DEF NoLostWakeup, Looked, IdsIn, Asleep, Notified,
     LoopTest, LoopLock, TestEmpty, BlockEmpty, RelockEmpty, TestTimed, BlockTimed,
     TimedOut, RelockTimed, BusyEnd, Relock, FireEnd, Spurious
<1> QED BY <1>1, <1>2, <1>3, <1>4, NothingMoves

\* The steps that take a deadline from the top of the queue: the queue is not
\* empty then, so there is one.
LEMMA DeadlineInv ==
  ASSUME Inv, Peek \/ Aim
  PROVE  Inv'
<1>1. UNCHANGED <<now, running, queue, hand, notifying, finished, mainPc>>
  BY DEF Peek, Aim
<1>2. running => queue # {}
  BY DEF Inv, Looked, Aimed, Peek, Aim, Move
<1>3. deadline' \in 0..MaxTime
  BY <1>2, TopExists, EngineAssumption DEF Inv, Types, Peek, Aim
<1>4. Types' /\ Control'
  BY <1>1, <1>3 DEF Inv, Types, Control, Inside, Peek, Aim, Move
<1>5. Looked' /\ NoLostWakeup'
  BY <1>1, <1>2 DEF Inv, Looked, Aimed, NoLostWakeup, IdsIn, Peek, Aim, Move
<1> QED BY <1>1, <1>4, <1>5, NothingMoves DEF Inv

\* start() and stop(), and time.
LEMMA MainInv ==
  ASSUME Inv, Start \/ StopStore \/ StopNotify \/ StopJoin \/ Time
  PROVE  Inv'
<1>1. UNCHANGED <<queue, hand, notifying, finished, deadline, holds>>
  BY DEF Start, StopStore, StopNotify, StopJoin, Time
<1>2. Types'
  <2>1. CASE Start \/ StopStore \/ StopNotify \/ StopJoin
    BY <1>1, <2>1 DEF Inv, Types, Notified, Start, StopStore, StopNotify, StopJoin
  <2>2. CASE Time
    BY <1>1, <2>2, EngineAssumption DEF Inv, Types, Time
  <2> QED BY <2>1, <2>2
<1>3. Control'
  BY <1>1 DEF Inv, Types, Control, Inside, Notified, Start, StopStore, StopNotify, StopJoin, Time
<1>4. Looked' /\ NoLostWakeup'
  BY <1>1 DEF Inv, Control, Looked, Aimed, NoLostWakeup, IdsIn, Notified,
     Start, StopStore, StopNotify, StopJoin, Time
<1> QED BY <1>1, <1>2, <1>3, <1>4, NothingMoves DEF Inv

\* An event is added under an id that is nowhere yet, with the mutex free: the
\* timing thread is not in the middle of a look at the queue.
LEMMA AddEventInv ==
  ASSUME Inv, NEW i \in Ids, NEW at \in 1..MaxTime, AddEvent(i, at)
  PROVE  Inv'
<1> DEFINE new == [id |-> i, at |-> at]
<1>1. /\ new \in Event /\ new.id = i /\ i \notin Added /\ ~holds
      /\ queue' = queue \cup {new} /\ notifying' = notifying \cup {i}
      /\ UNCHANGED <<now, running, holds, pc, deadline, hand, finished, mainPc>>
  BY DEF AddEvent, Event
<1>2. Types' /\ Control'
  BY <1>1 DEF Inv, Types, Control
<1>3. Looked' /\ NoLostWakeup'
  BY <1>1 DEF Inv, Control, Inside, Looked, NoLostWakeup, IdsIn
<1>4. OnePlace'
  <2>1. IsFiniteSet(queue')
    BY <1>1, FS_AddElement DEF Inv, OnePlace
  <2>2. \A e \in queue \cup hand : e.id # i
    BY <1>1 DEF Added, IdsIn
  <2>3. i \notin finished
    BY <1>1 DEF Added
  <2> QED BY <1>1, <2>1, <2>2, <2>3 DEF Inv, OnePlace, Added, IdsIn
<1> QED BY <1>1, <1>2, <1>3, <1>4 DEF Inv

\* The notification of an event that was added: it wakes the thread, asleep
\* without a deadline or not.
LEMMA NotifyInv ==
  ASSUME Inv, NEW i \in Ids, Notify(i)
  PROVE  Inv'
<1>1. /\ notifying' = notifying \ {i} /\ pc' = Notified
      /\ UNCHANGED <<now, running, queue, holds, deadline, hand, finished, mainPc>>
  BY DEF Notify
<1>2. Types' /\ Control'
  BY <1>1 DEF Inv, Types, Control, Inside, Notified
<1>3. Looked' /\ NoLostWakeup'
  BY <1>1 DEF Inv, Looked, Aimed, NoLostWakeup, IdsIn, Notified
<1>4. OnePlace'
  BY <1>1 DEF Inv, OnePlace, Added, IdsIn
<1> QED BY <1>1, <1>2, <1>3, <1>4 DEF Inv

\* The top is taken out of the queue into the thread's hand, which was empty.
LEMMA FirePopInv ==
  ASSUME Inv, FirePop
  PROVE  Inv'
<1>1. PICK e \in queue : hand' = {e} /\ queue' = queue \ {e}
  BY DEF FirePop, Top
<1>2. /\ hand = {} /\ pc' = "callback" /\ pc = "fire" /\ holds' = FALSE
      /\ UNCHANGED <<now, running, deadline, notifying, finished, mainPc>>
  BY DEF FirePop, Move, Inv, Control
<1>3. Types' /\ Control'
  BY <1>1, <1>2 DEF Inv, Types, Control, Inside
<1>4. Looked' /\ NoLostWakeup'
  BY <1>2 DEF Looked, Aimed, NoLostWakeup
<1>5. OnePlace'
  <2>1. IsFiniteSet(queue')
    BY <1>1, FS_RemoveElement DEF Inv, OnePlace
  <2>2. queue' \cup hand' = queue \cup hand /\ queue' \cap hand' = {}
    BY <1>1, <1>2
  <2>3. Added' = Added
    BY <1>1, <1>2 DEF Added, IdsIn
  <2> QED BY <1>1, <1>2, <2>1, <2>2, <2>3 DEF Inv, OnePlace
<1>6. \E f \in Event : hand' = {f}
  BY <1>1 DEF Inv, Types
<1> QED BY <1>3, <1>4, <1>5, <1>6 DEF Inv

\* A callback that returned nothing: its event is finished.
LEMMA OneShotInv ==
  ASSUME Inv, OneShot
  PROVE  Inv'
<1>1. /\ finished' = finished \cup IdsIn(hand) /\ hand' = {}
      /\ pc = "callback" /\ pc' = "relock"
      /\ UNCHANGED <<now, running, queue, holds, deadline, notifying, mainPc>>
  BY DEF OneShot, Move
<1>2. Types' /\ Control'
  BY <1>1 DEF Inv, Types, Control, Inside, IdsIn, Event
<1>3. Looked' /\ NoLostWakeup'
  BY <1>1 DEF Looked, Aimed, NoLostWakeup
<1>4. OnePlace'
  BY <1>1 DEF Inv, OnePlace, Added, IdsIn
<1> QED BY <1>1, <1>2, <1>3, <1>4 DEF Inv

\* A callback that returned a time: the event goes back under its id.
LEMMA AgainInv ==
  ASSUME Inv, Again
  PROVE  Inv'
<1>1. PICK at \in (now + 1)..MaxTime, e \in hand : queue' = queue \cup {[e EXCEPT !.at = at]}
  BY DEF Again
<1> DEFINE new == [e EXCEPT !.at = at]
<1>2. /\ hand' = {} /\ pc = "callback" /\ pc' = "relock"
      /\ UNCHANGED <<now, running, holds, deadline, notifying, finished, mainPc>>
  BY DEF Again, Move
<1>3. hand = {e} /\ new \in Event /\ new.id = e.id
  BY <1>1 DEF Inv, Types, Event
<1>4. Types' /\ Control'
  BY <1>1, <1>2, <1>3 DEF Inv, Types, Control, Inside
<1>5. Looked' /\ NoLostWakeup'
  BY <1>2 DEF Looked, Aimed, NoLostWakeup
<1>6. OnePlace'
  <2>1. IsFiniteSet(queue')
    BY <1>1, FS_AddElement DEF Inv, OnePlace
  <2>2. \A f \in queue : f.id # e.id
    BY <1>3 DEF Inv, OnePlace
  <2>3. Added' = Added
    BY <1>1, <1>2, <1>3 DEF Added, IdsIn
  <2> QED BY <1>1, <1>2, <1>3, <2>1, <2>2, <2>3 DEF Inv, OnePlace
<1> QED BY <1>2, <1>4, <1>5, <1>6 DEF Inv

-----------------------------------------------------------------------------
(***************************************************************************)
(* The theorems                                                             *)
(***************************************************************************)

\* Nothing has been sent or is waited for at the start.
LEMMA InitInv == Init => Inv
<1> SUFFICES ASSUME Init PROVE Inv
  OBVIOUS
<1>1. Types
  <2>1. now \in 1..MaxTime /\ deadline \in 0..MaxTime
    BY EngineAssumption DEF Init
  <2>2. running \in BOOLEAN /\ holds \in BOOLEAN
    BY DEF Init
  <2> QED BY <2>1, <2>2 DEF Init, Types
<1>2. Control
  BY DEF Init, Control, Inside
<1>3. Looked /\ OnePlace /\ NoLostWakeup
  BY FS_EmptySet DEF Init, Looked, Aimed, OnePlace, NoLostWakeup
<1> QED BY <1>1, <1>2, <1>3 DEF Init, Inv

\* Every step keeps the invariant.
LEMMA NextInv == Inv /\ [Next]_vars => Inv'
<1> SUFFICES ASSUME Inv, [Next]_vars PROVE Inv'
  OBVIOUS
<1>1. CASE Start \/ StopStore \/ StopNotify \/ StopJoin \/ Time
  BY <1>1, MainInv
<1>2. CASE \E i \in Ids : (\E at \in 1..MaxTime : AddEvent(i, at)) \/ Notify(i)
  BY <1>2, AddEventInv, NotifyInv
<1>3. CASE LoopStep \/ Spurious
  BY <1>3, ControlStepInv, DeadlineInv, FirePopInv, OneShotInv, AgainInv DEF LoopStep
<1>4. CASE UNCHANGED vars
  BY <1>4 DEF vars, Inv, Types, Control, Looked, OnePlace, Added, IdsIn, NoLostWakeup
<1> QED BY <1>1, <1>2, <1>3, <1>4 DEF Next

\* The inductive invariant holds: who waits, who holds the mutex and what is
\* in the queue agree.
THEOREM Invariance == Spec => []Inv
<1>1. Init => Inv
  BY InitInv
<1>2. Inv /\ [Next]_vars => Inv'
  BY NextInv
<1> QED BY <1>1, <1>2, PTL DEF Spec

\* No two queued events share an id, so there are as many ids as events.
LEMMA AsManyIds ==
  ASSUME NEW S, IsFiniteSet(S), \A e, f \in S : e.id = f.id => e = f
  PROVE  Cardinality({e.id : e \in S}) = Cardinality(S)
<1> DEFINE T == {e.id : e \in S}
           g == [e \in S |-> e.id]
<1>1. g \in Bijection(S, T)
  BY DEF Bijection, Injection, Surjection, IsInjective
<1> QED BY <1>1, FS_Bijection DEF ExistsBijection

\* An event that was added is in one place, with any number of clients adding
\* while callbacks run unlocked: it is queued, in hand, or finished, it is there
\* once, and a notification under way is for an event that is somewhere.
THEOREM EngineLosesNothing == Spec => []NothingLost
<1>1. Inv => NothingLost
  <2> SUFFICES ASSUME Inv PROVE NothingLost
    OBVIOUS
  <2>1. Cardinality(hand) <= 1
    <3>1. Cardinality({}) = 0 /\ \A e : Cardinality({e}) = 1
      BY FS_Singleton, FS_EmptySet
    <3>2. CASE hand = {}
      BY <3>1, <3>2
    <3>3. CASE \E e \in Event : hand = {e}
      <4>1. Cardinality(hand) = 1
        BY <3>1, <3>3
      <4> QED BY <4>1
    <3> QED BY <3>2, <3>3 DEF Inv
  <2>2. Cardinality(IdsIn(queue)) = Cardinality(queue)
    BY AsManyIds DEF Inv, OnePlace, IdsIn
  <2>3. IdsIn(queue) \cap IdsIn(hand) = {} /\ finished \cap (IdsIn(queue) \cup IdsIn(hand)) = {}
    BY DEF Inv, OnePlace, IdsIn
  <2> QED BY <2>1, <2>2, <2>3 DEF NothingLost, TypeOK, Inv, Types, Control, OnePlace
<1> QED BY <1>1, Invariance, PTL

\* Whatever the interleaving of add_event(), notify_one() and the evaluation of
\* the wait's predicate, the timing thread is not asleep without a deadline
\* while an event waits, unless the notification that wakes it is still to come.
THEOREM NoWakeupIsLost == Spec => []NoLostWakeup
<1>1. Inv => NoLostWakeup
  BY DEF Inv
<1> QED BY <1>1, Invariance, PTL

=============================================================================
