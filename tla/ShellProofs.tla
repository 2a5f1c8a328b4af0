---------------------------- MODULE ShellProofs ----------------------------
(***************************************************************************)
(* Theorems about module Shell, for every value of its constants.           *)
(***************************************************************************)
EXTENDS Shell, SequenceTheorems, TLAPS

-----------------------------------------------------------------------------
(***************************************************************************)
(* The inductive invariant                                                  *)
(***************************************************************************)

\* Where the threads are: the clock thread is in a callback while the scheduler
\* says so, one of the two evaluates, and the threads that were joined are gone.
Phases ==
    /\ main \in {"setup", "test", "swap", "dispatch", "command", "poll",
                 "leave", "join", "stop", "cleanup", "done"}
    /\ listener \in {"none", "open", "poll", "recv", "push", "ended"}
    /\ clock \in {"idle", "send", "wait", "body"}
    /\ clock = "idle" <=> busy = {}
    /\ main = "command" <=> lock = "main"
    /\ clock = "body" <=> lock = "clock"
    /\ main = "setup" => listener = "none"
    /\ main \in {"stop", "cleanup", "done"} => listener \in {"none", "ended"}
    /\ main \in {"cleanup", "done"} => busy = {} /\ \A s \in SubIds : state[s] = "gone"

\* Main takes the queue with an empty batch in its hands only.
Commands ==
    /\ received \in 0..MaxCmds
    /\ queue \in Seq(Nat) /\ batch \in Seq(Nat) /\ done \in Seq(Nat)
    /\ main \notin {"dispatch", "command"} => batch = <<>>
    /\ main = "command" => batch # <<>>
    /\ InOrder

\* A connection that a repeated send goes to is open or was closed by name.
Sends ==
    /\ conns \subseteq Conns /\ listed \cup DOMAIN target \subseteq SubIds
    /\ \A s \in DOMAIN target : target[s] \in conns \cup closed
    /\ main = "done" => conns = {}

\* A thread has Csound instances in its hands while it evaluates, or cleans up:
\* those it uses or the one it destroys.  An instance that is being closed is in
\* the hands of one thread, and the other uses it no more unless both evaluated
\* when it was closed.
Works(t) == Evaluates(t) \/ (t = "main" /\ main = "cleanup")

InstanceType == [st: {"none", "open", "closing", "destroyed"}, running: BOOLEAN,
              perf: {"none", "test", "perform", "ended"}]

HandleTypes ==
    /\ cs \in [Csounds -> InstanceType]
    /\ uses \in [Threads -> SUBSET Csounds] /\ closing \in [Threads -> SUBSET Csounds]

Hands ==
    /\ \A t \in Threads :
         /\ ~AtRest(t) => Works(t)
         /\ uses[t] = {} \/ closing[t] = {}
         /\ \A c, d \in closing[t] : c = d
         /\ \A c \in closing[t] : cs[c].st = "closing"
         /\ \A c \in uses[t] : cs[c].st = "open" \/ (cs[c].st \in {"closing", "destroyed"} /\ c \in exposed)
    /\ \A t, u \in Threads : t = u \/ closing[t] \cap closing[u] = {}

Csound ==
    \A c \in Csounds :
        /\ cs[c].st = "none" => cs[c].perf = "none"
        /\ cs[c].st = "closing" => \E t \in Threads : c \in closing[t]
        /\ cs[c].st = "destroyed" => cs[c].perf = "ended"
        /\ main = "done" => cs[c].st \in {"none", "destroyed"}

Handles == HandleTypes /\ Hands /\ Csound

Inv == Phases /\ Commands /\ Sends /\ Handles

-----------------------------------------------------------------------------
(***************************************************************************)
(* The threads                                                              *)
(***************************************************************************)

\* Nothing is evaluated once the scheduler was stopped, and an operation moves
\* no thread.
LEMMA EvaluateFrame ==
  ASSUME Phases, NEW t \in Threads, Evaluate(t)
  PROVE  /\ Evaluates(t) /\ AtRest(t)
         /\ main \notin {"cleanup", "done"}
         /\ UNCHANGED <<shell, lock, clock, busy>>
<1>1. Op(t)
  BY DEF Evaluate, Subscribe, Unsubscribe, OscOut, OscSendEvery, OscStop, OscClose, CsOpen, CsUse, CsClose
<1>2. busy' = busy
  BY DEF Evaluate, Subscribe, Unsubscribe, OscOut, OscSendEvery, OscStop, OscClose, CsOpen, CsUse, CsClose,
     ticks, Ticks!Subscribe, Ticks!Unsubscribe
<1>3. main \notin {"cleanup", "done"}
  BY <1>1 DEF Op, Evaluates, Phases, Threads
<1> QED BY <1>1, <1>2, <1>3 DEF Op

\* The steps of main, one by one.
LEMMA MainPhases == ASSUME Phases, MainStep PROVE Phases'
<1>1. CASE SetupEnd
  BY <1>1 DEF SetupEnd, Finished, Phases, ticks
<1>2. CASE Test
  BY <1>2 DEF Test, Goto, Phases, ticks, evals
<1>3. CASE Swap
  BY <1>3 DEF Swap, Goto, Phases, ticks, evals
<1>4. CASE Dispatch
  BY <1>4 DEF Dispatch, Goto, Phases, ticks
<1>5. CASE CommandEnd
  BY <1>5 DEF CommandEnd, Goto, Finished, Phases, ticks
<1>6. CASE BatchEnd
  BY <1>6 DEF BatchEnd, Goto, Phases, ticks, evals
<1>7. CASE Poll
  BY <1>7 DEF Poll, Goto, Phases, ticks, evals
<1>8. CASE Leave
  BY <1>8 DEF Leave, Goto, Phases, ticks, evals
<1>9. CASE Join
  BY <1>9 DEF Join, Goto, Phases, ticks, evals
<1>10. CASE StopScheduler
  BY <1>10 DEF StopScheduler, Goto, Phases, Ticks!Stop, evals
<1>11. CASE CleanupOsc
  BY <1>11 DEF CleanupOsc, Cancelled, Phases, shell, evals
<1>12. CASE CleanupCs
  BY <1>12 DEF CleanupCs, Phases, ticks, shell, evals
<1>13. CASE Exit
  BY <1>13 DEF Exit, Goto, Phases, ticks, evals
<1>14. CASE CsUsed("main") \/ Destroy("main")
  BY <1>14 DEF CsUsed, Destroy, Phases, ticks, shell, evals
<1> QED BY <1>1, <1>2, <1>3, <1>4, <1>5, <1>6, <1>7, <1>8, <1>9, <1>10, <1>11, <1>12, <1>13, <1>14
        DEF MainStep

\* Every step keeps the phases of start and exit.
LEMMA PhasesNext == ASSUME Phases, [Next]_vars PROVE Phases'
<1>1. CASE MainStep
  BY <1>1, MainPhases
<1>2. CASE ListenerStep \/ ListenerReceive
  BY <1>2 DEF ListenerStep, ListenerOpen, ListenerPoll, ListenerNone, ListenerPush, ListenerReceive,
     Phases, ticks, evals
<1>3. CASE ClockStep
  <2>1. CASE Sent
    BY <2>1 DEF Sent, Ticks!Keep, Phases, shell
  <2>2. CASE Lock
    BY <2>2 DEF Lock, Phases, shell, ticks
  <2>3. CASE CallbackEnd
    BY <2>3 DEF CallbackEnd, Finished, Ticks!Keep, Ticks!Drop, Phases, shell
  <2>4. CASE CsUsed("clock") \/ Destroy("clock")
    BY <2>4 DEF CsUsed, Destroy, Phases, ticks, shell, evals
  <2> QED BY <1>3, <2>1, <2>2, <2>3, <2>4 DEF ClockStep
<1>4. ASSUME NEW t \in Threads, Evaluate(t) PROVE Phases'
  BY <1>4, EvaluateFrame DEF Phases, shell
<1>5. ASSUME NEW s \in SubIds, Begin(s) PROVE Phases'
  BY <1>5 DEF Begin, Ticks!Begin, Phases, shell
<1>6. ASSUME NEW c \in Csounds, PerfTest(c) \/ Perform(c) PROVE Phases'
  BY <1>6 DEF PerfTest, Perform, Phases, ticks, shell, evals
<1>7. CASE Signal
  BY <1>7 DEF Signal, Phases, ticks, evals
<1>8. CASE UNCHANGED vars
  BY <1>8 DEF vars, Phases, ticks, shell, evals
<1> QED BY <1>1, <1>2, <1>3, <1>4, <1>5, <1>6, <1>7, <1>8 DEF Next

-----------------------------------------------------------------------------
(***************************************************************************)
(* The OSC module                                                           *)
(***************************************************************************)

\* Evaluating a command, a repeated send goes to a connection it has opened.
LEMMA SendsEvaluate ==
  ASSUME Phases, Sends, NEW t \in Threads, Evaluate(t)
  PROVE  Sends'
<1>1. main \notin {"cleanup", "done"} /\ main' = main
  BY EvaluateFrame DEF shell
<1>2. CASE Subscribe(t) \/ Unsubscribe(t) \/ CsOpen(t) \/ CsUse(t) \/ CsClose(t)
  BY <1>1, <1>2 DEF Subscribe, Unsubscribe, CsOpen, CsUse, CsClose, Sends, osc
<1>3. CASE OscOut(t)
  BY <1>1, <1>3 DEF OscOut, Sends
<1>4. CASE OscSendEvery(t)
  <2>1. PICK h \in conns, s \in SubIds :
          target' = [x \in DOMAIN target \cup {s} |-> IF x = s THEN h ELSE target[x]]
    BY <1>4 DEF OscSendEvery
  <2>2. conns' = conns /\ closed' = closed /\ listed' \subseteq listed \cup SubIds
    BY <1>4 DEF OscSendEvery
  <2> QED BY <1>1, <2>1, <2>2 DEF Sends
<1>5. CASE OscStop(t)
  <2>1. PICK S \in SUBSET listed : target' = [s \in DOMAIN target \ (S \ busy) |-> target[s]]
    BY <1>5 DEF OscStop
  <2>2. conns' = conns /\ closed' = closed /\ listed' = {}
    BY <1>5 DEF OscStop
  <2> QED BY <1>1, <2>1, <2>2 DEF Sends
<1>6. CASE OscClose(t)
  BY <1>1, <1>6 DEF OscClose, Sends
<1> QED BY <1>2, <1>3, <1>4, <1>5, <1>6 DEF Evaluate

\* Every step does.
LEMMA SendsNext == ASSUME Phases, Sends, [Next]_vars PROVE Sends'
<1>1. CASE MainStep
  <2>1. CASE CleanupOsc
    BY <2>1 DEF CleanupOsc, Sends, shell
  <2>2. CASE Exit
    BY <2>2 DEF Exit, Goto, Sends, osc
  <2>3. CASE SetupEnd
    BY <2>3 DEF SetupEnd, Sends, osc
  <2>4. CASE Test \/ Swap \/ Dispatch \/ CommandEnd \/ BatchEnd \/ Poll \/ Leave \/ Join \/ StopScheduler
    BY <2>4 DEF Test, Swap, Dispatch, CommandEnd, BatchEnd, Poll, Leave, Join, StopScheduler, Goto, Sends, osc
  <2>5. CASE CleanupCs \/ CsUsed("main") \/ Destroy("main")
    BY <2>5 DEF CleanupCs, CsUsed, Destroy, Sends, osc, shell
  <2> QED BY <1>1, <2>1, <2>2, <2>3, <2>4, <2>5 DEF MainStep
<1>2. CASE ListenerStep \/ ListenerReceive
  BY <1>2 DEF ListenerStep, ListenerOpen, ListenerPoll, ListenerNone, ListenerPush, ListenerReceive,
     Sends, osc
<1>3. CASE Sent
  <2>1. target' = [s \in {x \in DOMAIN target : state[x] # "cancelled"} |-> target[s]]
        /\ conns' = conns /\ closed' = closed /\ listed' = listed /\ main' = main
    BY <1>3 DEF Sent, shell
  <2> QED BY <2>1 DEF Sends
<1>4. CASE Lock \/ CallbackEnd \/ CsUsed("clock") \/ Destroy("clock")
  BY <1>4 DEF Lock, CallbackEnd, CsUsed, Destroy, Sends, osc, shell
<1>5. ASSUME NEW t \in Threads, Evaluate(t) PROVE Sends'
  BY <1>5, SendsEvaluate
<1>6. ASSUME NEW s \in SubIds, Begin(s) PROVE Sends'
  BY <1>6 DEF Begin, Sends, osc, shell
<1>7. ASSUME NEW c \in Csounds, PerfTest(c) \/ Perform(c) PROVE Sends'
  BY <1>7 DEF PerfTest, Perform, Sends, osc, shell
<1>8. CASE Signal \/ UNCHANGED vars
  BY <1>8 DEF Signal, vars, Sends, osc, shell
<1> QED BY <1>1, <1>2, <1>3, <1>4, <1>5, <1>6, <1>7, <1>8 DEF Next, ClockStep

-----------------------------------------------------------------------------
(***************************************************************************)
(* The Csound module                                                        *)
(***************************************************************************)

\* Nobody else works while main cleans up.
LEMMA CleansAlone ==
  ASSUME Phases, Handles, main \in {"cleanup", "done"}
  PROVE  lock # "clock" /\ AtRest("clock") /\ (main = "done" => AtRest("main"))
BY DEF Phases, Handles, Hands, Works, Evaluates, Threads

\* Nothing in anybody's hands changes, and a thread that stops working has
\* nothing in them.
LEMMA HandsAtRest ==
  ASSUME Phases, Handles, UNCHANGED <<cs, uses, closing, exposed>>,
         main' = "done" => main = "done" \/ (main = "cleanup" /\ AtRest("main")
                              /\ \A c \in Csounds : cs[c].st # "open"),
         \A t \in Threads : Works(t) => Works(t)' \/ AtRest(t)
  PROVE  Handles'
<1>1. HandleTypes'
  BY DEF Handles, HandleTypes
<1>2. Hands'
  BY DEF Handles, Hands, AtRest
<1>3. ASSUME main' = "done", NEW c \in Csounds PROVE cs[c].st \in {"none", "destroyed"}
  <2>1. CASE main = "done"
    BY <2>1 DEF Handles, Csound
  <2>2. CASE main = "cleanup" /\ AtRest("main") /\ \A d \in Csounds : cs[d].st # "open"
    <3>1. \A t \in Threads : closing[t] = {}
      BY <2>2, CleansAlone DEF AtRest, Threads
    <3>2. cs[c].st # "closing"
      BY <3>1 DEF Handles, Csound
    <3>3. cs[c].st \in {"none", "open", "closing", "destroyed"}
      BY DEF Handles, HandleTypes, InstanceType
    <3> QED BY <2>2, <3>2, <3>3
  <2> QED BY <1>3, <2>1, <2>2
<1>4. Csound'
  BY <1>3 DEF Handles, Csound
<1> QED BY <1>1, <1>2, <1>4 DEF Handles

\* The instance changes its state, its thread or both; what holds of each state
\* is up to the step.
LEMMA Instance ==
  ASSUME HandleTypes, NEW c \in Csounds, NEW st \in {"none", "open", "closing", "destroyed"},
         \/ cs' = [cs EXCEPT ![c].st = st]
         \/ cs' = [cs EXCEPT ![c].st = st, ![c].running = FALSE]
  PROVE  /\ cs' \in [Csounds -> InstanceType]
         /\ cs'[c].st = st /\ cs'[c].perf = cs[c].perf
         /\ \A d \in Csounds : d # c => cs'[d] = cs[d]
BY DEF HandleTypes, InstanceType

\* Finding an instance that is open.
LEMMA UsesHandle ==
  ASSUME Handles, NEW t \in Threads, NEW c \in Csounds, AtRest(t), Works(t),
         cs[c].st = "open", uses' = [uses EXCEPT ![t] = {c}],
         UNCHANGED <<cs, closing, exposed, main, lock>>
  PROVE  Handles'
<1>1. /\ uses' \in [Threads -> SUBSET Csounds] /\ uses'[t] = {c}
      /\ \A u \in Threads : u # t => uses'[u] = uses[u]
  BY DEF Handles, HandleTypes
<1>2. \A u \in Threads : Works(u)' = Works(u)
  BY DEF Works, Evaluates
<1>3. Hands'
  BY <1>1, <1>2 DEF Handles, Hands, AtRest
<1> QED BY <1>1, <1>3 DEF Handles, HandleTypes, Csound

\* Taking an instance out of the map: whoever uses it evaluates as well.
LEMMA ClosesHandle ==
  ASSUME Phases, Handles, NEW t \in Threads, NEW c \in Csounds, AtRest(t), Works(t),
         main # "done", Erase(t, c), UNCHANGED <<uses, main, lock>>
  PROVE  Handles'
<1>1. /\ cs' \in [Csounds -> InstanceType]
      /\ cs'[c].st = "closing" /\ cs'[c].perf = cs[c].perf
      /\ \A d \in Csounds : d # c => cs'[d] = cs[d]
  BY Instance DEF Erase, Handles
<1>2. /\ closing' \in [Threads -> SUBSET Csounds] /\ closing'[t] = {c}
      /\ \A u \in Threads : u # t => closing'[u] = closing[u]
  BY DEF Erase, Handles, HandleTypes
<1>3. \A u \in Threads : Works(u)' = Works(u)
  BY DEF Works, Evaluates
<1>4. \A u \in Threads : c \notin closing[u]
  BY DEF Erase, Handles, Hands
<1>5. ASSUME NEW u \in Threads, c \in uses[u] PROVE c \in exposed'
  <2>1. u # t /\ Works(u)
    BY <1>5 DEF AtRest, Handles, Hands
  <2>2. main # "cleanup"
    BY <2>1, CleansAlone DEF Works, Evaluates, Threads
  <2>3. Overlap
    BY <2>1, <2>2 DEF Works, Overlap, Threads
  <2> QED BY <2>3 DEF Erase
<1>6. exposed \subseteq exposed'
  BY DEF Erase
<1>7. Hands'
  <2>1. ASSUME NEW u \in Threads
        PROVE  /\ ~AtRest(u)' => Works(u)'
               /\ uses'[u] = {} \/ closing'[u] = {}
               /\ \A d, e \in closing'[u] : d = e
               /\ \A d \in closing'[u] : cs'[d].st = "closing"
    <3>1. CASE u = t
      BY <1>1, <1>2, <1>3, <3>1 DEF AtRest
    <3>2. CASE u # t
      BY <1>1, <1>2, <1>3, <1>4, <3>2 DEF AtRest, Handles, Hands, HandleTypes
    <3> QED BY <3>1, <3>2
  <2>2. ASSUME NEW u \in Threads, NEW d \in uses'[u]
        PROVE  cs'[d].st = "open" \/ (cs'[d].st \in {"closing", "destroyed"} /\ d \in exposed')
    <3>1. d \in Csounds /\ d \in uses[u]
      BY <2>2 DEF Handles, HandleTypes
    <3>2. CASE d = c
      BY <1>1, <1>5, <3>1, <3>2
    <3>3. CASE d # c
      BY <1>1, <1>6, <3>1, <3>3 DEF Handles, Hands
    <3> QED BY <3>2, <3>3
  <2>3. \A u, v \in Threads : u = v \/ closing'[u] \cap closing'[v] = {}
    BY <1>2, <1>4 DEF Handles, Hands
  <2> QED BY <2>1, <2>2, <2>3 DEF Hands
<1>8. Csound'
  <2> SUFFICES ASSUME NEW d \in Csounds
               PROVE  /\ cs'[d].st = "none" => cs'[d].perf = "none"
                      /\ cs'[d].st = "closing" => \E u \in Threads : d \in closing'[u]
                      /\ cs'[d].st = "destroyed" => cs'[d].perf = "ended"
    BY DEF Csound
  <2>1. CASE d = c
    BY <1>1, <1>2, <2>1
  <2>2. CASE d # c
    <3>1. /\ cs'[d] = cs[d]
          /\ \A u \in Threads : d \in closing[u] => d \in closing'[u]
      BY <1>1, <1>2, <2>2 DEF AtRest
    <3> QED BY <3>1 DEF Handles, Csound
  <2> QED BY <2>1, <2>2
<1> QED BY <1>1, <1>2, <1>7, <1>8 DEF Handles, HandleTypes

\* Evaluating a command, a thread takes only Csound instances that are there.
LEMMA HandlesEvaluate ==
  ASSUME Phases, Handles, NEW t \in Threads, Evaluate(t)
  PROVE  Handles'
<1>1. /\ Evaluates(t) /\ AtRest(t) /\ main \notin {"cleanup", "done"} /\ main' = main /\ lock' = lock
      /\ Works(t) /\ \A u \in Threads : Works(u)' = Works(u)
  BY EvaluateFrame DEF shell, Works, Evaluates
<1>2. CASE Subscribe(t) \/ Unsubscribe(t) \/ OscOut(t) \/ OscSendEvery(t) \/ OscStop(t) \/ OscClose(t)
  <2>1. UNCHANGED <<cs, uses, closing, exposed>>
    BY <1>2 DEF Subscribe, Unsubscribe, OscOut, OscSendEvery, OscStop, OscClose, csound
  <2> QED BY <1>1, <2>1, HandsAtRest
<1>3. CASE CsOpen(t)
  <2>1. PICK c \in Csounds :
          /\ cs[c].st = "none"
          /\ cs' = [cs EXCEPT ![c] = [st |-> "open", running |-> TRUE, perf |-> "test"]]
    BY <1>3 DEF CsOpen
  <2>2. UNCHANGED <<uses, closing, exposed>>
    BY <1>3 DEF CsOpen
  <2>3. HandleTypes'
    BY <2>1, <2>2 DEF Handles, HandleTypes, InstanceType
  <2>4. /\ cs'[c].st = "open" /\ \A d \in Csounds : d # c => cs'[d] = cs[d]
        /\ \A u \in Threads : c \notin uses[u] /\ c \notin closing[u]
    BY <2>1 DEF Handles, HandleTypes, Hands
  <2>5. Hands'
    BY <1>1, <2>2, <2>4 DEF Handles, HandleTypes, Hands, AtRest
  <2>6. Csound'
    BY <1>1, <2>2, <2>4 DEF Handles, Csound
  <2> QED BY <2>3, <2>5, <2>6 DEF Handles
<1>4. CASE CsUse(t)
  <2>1. PICK c \in Csounds : cs[c].st = "open" /\ uses' = [uses EXCEPT ![t] = {c}]
    BY <1>4 DEF CsUse
  <2>2. UNCHANGED <<cs, closing, exposed>>
    BY <1>4 DEF CsUse
  <2> QED BY <1>1, <2>1, <2>2, UsesHandle
<1>5. CASE CsClose(t)
  BY <1>1, <1>5, ClosesHandle DEF CsClose
<1> QED BY <1>2, <1>3, <1>4, <1>5 DEF Evaluate

\* A use ends, or a close: of an instance whose thread was joined.
LEMMA HandlesRelease ==
  ASSUME Phases, Handles, NEW t \in Threads, CsUsed(t) \/ Destroy(t)
  PROVE  Handles'
<1>1. main' = main /\ lock' = lock /\ \A u \in Threads : Works(u)' = Works(u)
  BY DEF CsUsed, Destroy, shell, evals, Works, Evaluates
<1>2. CASE CsUsed(t)
  <2>1. uses' = [uses EXCEPT ![t] = {}] /\ UNCHANGED <<cs, closing, exposed>>
    BY <1>2 DEF CsUsed
  <2>2. /\ uses' \in [Threads -> SUBSET Csounds]
        /\ \A u \in Threads : uses'[u] = {} \/ uses'[u] = uses[u]
    BY <2>1 DEF Handles, HandleTypes
  <2>3. Hands'
    BY <1>1, <2>1, <2>2 DEF Handles, Hands, AtRest
  <2> QED BY <1>1, <2>1, <2>2, <2>3 DEF Handles, HandleTypes, Csound
<1>3. CASE Destroy(t)
  <2>1. PICK c \in closing[t] :
          /\ cs[c].perf = "ended"
          /\ cs' = [cs EXCEPT ![c].st = "destroyed"]
    BY <1>3 DEF Destroy
  <2>2. closing' = [closing EXCEPT ![t] = {}] /\ UNCHANGED <<uses, exposed>>
    BY <1>3 DEF Destroy
  <2>3. c \in Csounds /\ cs[c].st = "closing"
    BY DEF Handles, HandleTypes, Hands
  <2>4. /\ cs' \in [Csounds -> InstanceType]
        /\ cs'[c].st = "destroyed" /\ cs'[c].perf = "ended"
        /\ \A d \in Csounds : d # c => cs'[d] = cs[d]
    BY <2>1, <2>3, Instance DEF Handles
  <2>5. /\ closing' \in [Threads -> SUBSET Csounds] /\ closing'[t] = {} /\ closing[t] = {c}
        /\ \A u \in Threads : u # t => closing'[u] = closing[u] /\ c \notin closing[u]
    BY <2>2 DEF Handles, HandleTypes, Hands
  <2>6. Hands'
    <3>1. ASSUME NEW u \in Threads, NEW d \in uses'[u]
          PROVE  cs'[d].st = "open" \/ (cs'[d].st \in {"closing", "destroyed"} /\ d \in exposed')
      <4>1. d \in Csounds /\ d \in uses[u] /\ exposed' = exposed
        BY <2>2, <3>1 DEF Handles, HandleTypes
      <4>2. CASE d = c
        BY <2>3, <2>4, <4>1, <4>2 DEF Handles, Hands
      <4>3. CASE d # c
        BY <2>4, <4>1, <4>3 DEF Handles, Hands
      <4> QED BY <4>2, <4>3
    <3>2. ASSUME NEW u \in Threads, NEW d \in closing'[u] PROVE cs'[d].st = "closing"
      <4>1. u # t /\ d \in closing[u] /\ d # c /\ d \in Csounds
        BY <2>5, <3>2 DEF Handles, HandleTypes
      <4> QED BY <2>4, <4>1 DEF Handles, Hands
    <3>3. \A u \in Threads : closing'[u] = {} \/ closing'[u] = closing[u]
      BY <2>5
    <3>4. ASSUME NEW u \in Threads
          PROVE  /\ ~AtRest(u)' => Works(u)'
                 /\ uses'[u] = {} \/ closing'[u] = {}
                 /\ \A d, e \in closing'[u] : d = e
      BY <1>1, <2>2, <3>3 DEF Handles, Hands, AtRest
    <3>5. \A u, v \in Threads : u = v \/ closing'[u] \cap closing'[v] = {}
      BY <3>3 DEF Handles, Hands
    <3> QED BY <3>1, <3>2, <3>4, <3>5 DEF Hands
  <2>7. Csound'
    <3> SUFFICES ASSUME NEW d \in Csounds
                 PROVE  /\ cs'[d].st = "none" => cs'[d].perf = "none"
                        /\ cs'[d].st = "closing" => \E u \in Threads : d \in closing'[u]
                        /\ cs'[d].st = "destroyed" => cs'[d].perf = "ended"
                        /\ main' = "done" => cs'[d].st \in {"none", "destroyed"}
      BY DEF Csound
    <3>1. CASE d = c
      BY <2>4, <3>1
    <3>2. CASE d # c
      <4>1. \A u \in Threads : d \in closing[u] => d \in closing'[u]
        BY <2>5, <3>2
      <4> QED BY <1>1, <2>4, <3>2, <4>1 DEF Handles, Csound
    <3> QED BY <3>1, <3>2
  <2> QED BY <2>2, <2>4, <2>5, <2>6, <2>7 DEF Handles, HandleTypes
<1> QED BY <1>2, <1>3

\* A performing thread only ends, and never an instance that is not open or
\* being closed.
LEMMA HandlesPerform ==
  ASSUME Handles, NEW c \in Csounds, PerfTest(c) \/ Perform(c)
  PROVE  Handles'
<1>1. PICK p \in {"test", "perform", "ended"} :
        \/ cs' = [cs EXCEPT ![c].perf = p]
        \/ cs' = [cs EXCEPT ![c].perf = p, ![c].running = FALSE]
  <2>1. CASE PerfTest(c) /\ cs[c].running
    <3>1. cs' = [cs EXCEPT ![c].perf = "perform"]
      BY <2>1 DEF PerfTest
    <3> QED BY <3>1
  <2>2. CASE PerfTest(c) /\ ~cs[c].running
    <3>1. cs' = [cs EXCEPT ![c].perf = "ended"]
      BY <2>2 DEF PerfTest
    <3> QED BY <3>1
  <2>3. CASE Perform(c)
    BY <2>3 DEF Perform
  <2> QED BY <2>1, <2>2, <2>3
<1>2. cs[c].perf \in {"test", "perform"}
  BY DEF PerfTest, Perform
<1>3. UNCHANGED <<uses, closing, exposed>> /\ main' = main /\ \A t \in Threads : Works(t)' = Works(t)
  BY DEF PerfTest, Perform, shell, evals, Works, Evaluates
<1>4. /\ cs' \in [Csounds -> InstanceType]
      /\ cs'[c].st = cs[c].st
      /\ \A d \in Csounds : d # c => cs'[d] = cs[d]
  BY <1>1 DEF Handles, HandleTypes, InstanceType
<1>5. cs[c].st \notin {"none", "destroyed"}
  BY <1>2 DEF Handles, Csound
<1>6. \A d \in Csounds : cs'[d].st = cs[d].st
  BY <1>4
<1>7. Hands'
  BY <1>3, <1>6 DEF Handles, HandleTypes, Hands, AtRest
<1>8. Csound'
  BY <1>3, <1>4, <1>5, <1>6 DEF Handles, Csound
<1> QED BY <1>3, <1>4, <1>7, <1>8 DEF Handles, HandleTypes

\* Every step does.
LEMMA HandlesNext == ASSUME Phases, Handles, [Next]_vars PROVE Handles'
<1>1. CASE MainStep
  <2>1. CASE SetupEnd
    BY <2>1, HandsAtRest DEF SetupEnd, Finished, csound, Phases, Threads, Works, Evaluates
  <2>2. CASE CommandEnd
    BY <2>2, HandsAtRest DEF CommandEnd, Goto, Finished, csound, Phases, Threads, Works, Evaluates
  <2>3. CASE Dispatch
    BY <2>3, HandsAtRest DEF Dispatch, Goto, csound, Phases, Threads, Works, Evaluates
  <2>4. CASE Test \/ Swap \/ BatchEnd \/ Poll \/ Leave \/ Join \/ StopScheduler
    <3>1. UNCHANGED <<cs, uses, closing, exposed, lock>> /\ main \notin {"setup", "cleanup"} /\ main' # "done"
      BY <2>4 DEF Test, Swap, BatchEnd, Poll, Leave, Join, StopScheduler, Goto, csound, evals
    <3> QED BY <3>1, HandsAtRest DEF Works, Evaluates
  <2>5. CASE CleanupOsc
    BY <2>5, HandsAtRest DEF CleanupOsc, csound, evals, shell, Works, Evaluates
  <2>6. CASE Exit
    BY <2>6, HandsAtRest DEF Exit, Goto, csound, evals, Phases, Threads, Works, Evaluates
  <2>7. CASE CleanupCs
    <3>1. PICK c \in Csounds : Erase("main", c)
      BY <2>7 DEF CleanupCs
    <3>2. main = "cleanup" /\ AtRest("main") /\ UNCHANGED <<uses, main, lock>>
      BY <2>7 DEF CleanupCs, shell, evals
    <3>3. "main" \in Threads
      BY DEF Threads
    <3> QED BY <3>1, <3>2, <3>3, ClosesHandle DEF Works
  <2>8. CASE CsUsed("main") \/ Destroy("main")
    BY <2>8, HandlesRelease DEF Threads
  <2> QED BY <1>1, <2>1, <2>2, <2>3, <2>4, <2>5, <2>6, <2>7, <2>8 DEF MainStep
<1>2. CASE ListenerStep \/ ListenerReceive \/ Signal \/ UNCHANGED vars
  <2>1. UNCHANGED <<cs, uses, closing, exposed, lock, main>>
    BY <1>2 DEF ListenerStep, ListenerOpen, ListenerPoll, ListenerNone, ListenerPush, ListenerReceive,
       Signal, vars, csound, evals, shell
  <2> QED BY <2>1, HandsAtRest DEF Works, Evaluates
<1>3. CASE Sent
  BY <1>3, HandsAtRest DEF Sent, csound, shell, Works, Evaluates
<1>4. CASE Lock
  BY <1>4, HandsAtRest DEF Lock, csound, shell, Threads, Works, Evaluates
<1>5. CASE CallbackEnd
  BY <1>5, HandsAtRest DEF CallbackEnd, Finished, csound, shell, Threads, Phases, Works, Evaluates
<1>6. CASE CsUsed("clock") \/ Destroy("clock")
  BY <1>6, HandlesRelease DEF Threads
<1>7. ASSUME NEW t \in Threads, Evaluate(t) PROVE Handles'
  BY <1>7, HandlesEvaluate
<1>8. ASSUME NEW s \in SubIds, Begin(s) PROVE Handles'
  BY <1>8, HandsAtRest DEF Begin, csound, shell, Works, Evaluates
<1>9. ASSUME NEW c \in Csounds, PerfTest(c) \/ Perform(c) PROVE Handles'
  BY <1>9, HandlesPerform
<1> QED BY <1>1, <1>2, <1>3, <1>4, <1>5, <1>6, <1>7, <1>8, <1>9 DEF Next, ClockStep

-----------------------------------------------------------------------------
(***************************************************************************)
(* The commands                                                             *)
(***************************************************************************)
UpTo(n)  == [i \in 1..n |-> i]
InHand   == IF listener = "push" THEN <<received>> ELSE <<>>

\* The commands 1 to n and the next.
LEMMA UpToGrows == ASSUME NEW n \in Nat PROVE UpTo(n) \o <<n + 1>> = UpTo(n + 1)
<1>1. /\ UpTo(n) \in Seq(Nat) /\ Len(UpTo(n)) = n
      /\ UpTo(n + 1) \in Seq(Nat) /\ Len(UpTo(n + 1)) = n + 1
  <2>1. ASSUME NEW k \in Nat PROVE UpTo(k) \in Seq(Nat) /\ Len(UpTo(k)) = k
    <3>1. UpTo(k) \in [1..k -> Nat]
      BY DEF UpTo
    <3>2. UpTo(k) \in Seq(Nat)
      BY <3>1, SeqDef
    <3>3. DOMAIN UpTo(k) = 1..k
      BY DEF UpTo
    <3> QED BY <3>2, <3>3, LenProperties
  <2>2. n + 1 \in Nat
    OBVIOUS
  <2> QED BY <2>1, <2>2
<1>2. <<n + 1>> \in Seq(Nat) /\ Len(<<n + 1>>) = 1 /\ <<n + 1>>[1] = n + 1
  OBVIOUS
<1> DEFINE s == UpTo(n) \o <<n + 1>>
<1>3. /\ s \in Seq(Nat) /\ Len(s) = n + 1
      /\ \A i \in 1..(n + 1) : s[i] = IF i <= n THEN UpTo(n)[i] ELSE <<n + 1>>[i - n]
  <2>1. /\ s \in Seq(Nat) /\ Len(s) = Len(UpTo(n)) + Len(<<n + 1>>)
        /\ \A i \in 1..(Len(UpTo(n)) + Len(<<n + 1>>)) :
             s[i] = IF i <= Len(UpTo(n)) THEN UpTo(n)[i] ELSE <<n + 1>>[i - Len(UpTo(n))]
    BY <1>1, <1>2, ConcatProperties
  <2> QED BY <1>1, <1>2, <2>1
<1>4. ASSUME NEW i \in 1..(n + 1) PROVE s[i] = UpTo(n + 1)[i]
  <2>1. UpTo(n + 1)[i] = i
    BY DEF UpTo
  <2>2. CASE i <= n
    BY <1>3, <2>1, <2>2 DEF UpTo
  <2>3. CASE i = n + 1
    BY <1>2, <1>3, <2>1, <2>3
  <2>4. i <= n \/ i = n + 1
    OBVIOUS
  <2> QED BY <2>2, <2>3, <2>4
<1> HIDE DEF s
<1>5. s = UpTo(n + 1)
  BY <1>1, <1>3, <1>4, SeqEqual
<1> QED BY <1>5 DEF s

\* What is done, then the head of the queue, then its tail, stays in order.
LEMMA HeadThenTail ==
  ASSUME NEW s \in Seq(Nat), s # <<>>
  PROVE  s = <<Head(s)>> \o Tail(s)
<1>1. Len(s) \in Nat /\ Len(s) >= 1
  BY EmptySeq
<1>2. SubSeq(s, 1, Len(s)) = <<s[1]>> \o SubSeq(s, 2, Len(s))
  BY <1>1, SubSeqRecursiveFirst
<1>3. SubSeq(s, 1, Len(s)) = s /\ Tail(s) = SubSeq(s, 2, Len(s))
  BY SubSeqFull, TailIsSubSeq
<1>4. Head(s) = s[1]
  BY <1>1, <1>3, HeadTailOfSubSeq
<1> QED BY <1>2, <1>3, <1>4

\* The order of what was received, with the concatenations spelled out.
LEMMA OrderOf ==
  /\ InOrder <=> ((done \o batch) \o queue) \o InHand = UpTo(received)
  /\ InOrder' <=> ((done' \o batch') \o queue') \o InHand' = UpTo(received')
BY DEF InOrder, InHand, UpTo

\* A step that moves no command.
LEMMA CommandsRest ==
  ASSUME Commands, UNCHANGED <<received, queue, batch, done>>, InHand' = InHand,
         main' \notin {"dispatch", "command"} => batch = <<>>,
         main' = "command" => batch # <<>>
  PROVE  Commands'
<1>1. InOrder'
  BY OrderOf DEF Commands
<1> QED BY <1>1 DEF Commands

\* The steps of the main thread keep the order of the commands.
LEMMA CommandsMain ==
  ASSUME Phases, Commands, MainStep
  PROVE  Commands'
<1>1. CASE Swap
  <2>1. /\ main' = "dispatch" /\ batch' = queue /\ queue' = batch /\ batch = <<>>
        /\ UNCHANGED <<received, done>> /\ InHand' = InHand
    BY <1>1 DEF Swap, Goto, Commands, InHand
  <2>2. (done' \o batch') \o queue' = (done \o batch) \o queue
    <3>1. queue \in Seq(Nat) /\ done \in Seq(Nat) /\ done \o queue \in Seq(Nat)
      BY ConcatProperties DEF Commands
    <3>2. done \o <<>> = done /\ (done \o queue) \o <<>> = done \o queue
      BY <3>1, ConcatEmptySeq
    <3> QED BY <2>1, <3>2
  <2>3. InOrder'
    BY <2>1, <2>2, OrderOf DEF Commands
  <2> QED BY <2>1, <2>3 DEF Commands
<1>2. CASE CommandEnd
  <2>1. /\ main' = "dispatch" /\ done' = Append(done, Head(batch)) /\ batch' = Tail(batch)
        /\ UNCHANGED <<received, queue>> /\ InHand' = InHand
        /\ batch # <<>> /\ batch \in Seq(Nat) /\ done \in Seq(Nat)
    BY <1>2 DEF CommandEnd, Goto, Commands, InHand
  <2>2. Head(batch) \in Nat /\ Tail(batch) \in Seq(Nat) /\ Len(Tail(batch)) = Len(batch) - 1
        /\ \A i \in 1..Len(Tail(batch)) : Tail(batch)[i] = batch[i + 1]
    BY <2>1, HeadTailProperties
  <2>3. done' \in Seq(Nat) /\ done' = done \o <<Head(batch)>>
    BY <2>1, <2>2, AppendProperties, AppendIsConcat
  <2>4. batch = <<Head(batch)>> \o Tail(batch)
    BY <2>1, <2>2, HeadThenTail
  <2>5. <<Head(batch)>> \in Seq(Nat)
    BY <2>2
  <2>6. (done \o <<Head(batch)>>) \o Tail(batch) = done \o (<<Head(batch)>> \o Tail(batch))
    BY <2>1, <2>2, <2>5, ConcatAssociative, SMTT(30)
  <2>7. done' \o batch' = done \o batch
    BY <2>1, <2>3, <2>4, <2>6
  <2>8. InOrder'
    BY <2>1, <2>7, OrderOf DEF Commands
  <2> QED BY <2>1, <2>2, <2>3, <2>8 DEF Commands
<1>3. CASE SetupEnd
  BY <1>3, CommandsRest DEF SetupEnd, InHand, Phases, Commands
<1>4. CASE Test \/ Dispatch \/ BatchEnd \/ Poll \/ Leave \/ Join \/ StopScheduler \/ Exit
  <2>1. /\ UNCHANGED <<received, queue, batch, done, listener>>
        /\ main' \notin {"dispatch", "command"} => batch = <<>>
        /\ main' = "command" => batch # <<>>
    BY <1>4 DEF Test, Dispatch, BatchEnd, Poll, Leave, Join, StopScheduler, Exit, Goto, Commands
  <2> QED BY <2>1, CommandsRest DEF InHand
<1>5. CASE CleanupOsc \/ CleanupCs \/ CsUsed("main") \/ Destroy("main")
  <2>1. UNCHANGED <<received, queue, batch, done, listener, main>>
    BY <1>5 DEF CleanupOsc, CleanupCs, CsUsed, Destroy, shell
  <2> QED BY <2>1, CommandsRest DEF InHand, Commands
<1> QED BY <1>1, <1>2, <1>3, <1>4, <1>5 DEF MainStep

\* Those of the listener do.
LEMMA CommandsListener ==
  ASSUME Commands, ListenerStep \/ ListenerReceive
  PROVE  Commands'
<1> DEFINE all == (done \o batch) \o queue
<1>1. /\ done \in Seq(Nat) /\ batch \in Seq(Nat) /\ queue \in Seq(Nat)
      /\ done \o batch \in Seq(Nat) /\ all \in Seq(Nat) /\ all \o <<>> = all
      /\ received \in Nat /\ <<received>> \in Seq(Nat)
  <2>1. done \in Seq(Nat) /\ batch \in Seq(Nat) /\ queue \in Seq(Nat)
    BY DEF Commands
  <2>2. done \o batch \in Seq(Nat)
    BY <2>1, ConcatProperties
  <2>3. all \in Seq(Nat)
    BY <2>1, <2>2, ConcatProperties
  <2> HIDE DEF all
  <2>4. all \o <<>> = all
    BY <2>3, ConcatEmptySeq
  <2>5. received \in Nat /\ <<received>> \in Seq(Nat)
    BY ShellAssumption DEF Commands
  <2> QED BY <2>1, <2>2, <2>3, <2>4, <2>5 DEF all
<1>2. CASE ListenerReceive
  <2>1. /\ listener = "recv" /\ listener' = "push" /\ received' = received + 1
        /\ received < MaxCmds /\ UNCHANGED <<queue, batch, done, main>>
    BY <1>2 DEF ListenerReceive
  <2>2. InHand = <<>> /\ InHand' = <<received + 1>>
    BY <2>1 DEF InHand
  <2>3. all = UpTo(received)
    BY <1>1, <2>2, OrderOf DEF Commands
  <2>4. all \o <<received + 1>> = UpTo(received + 1)
    BY <1>1, <2>3, UpToGrows
  <2>5. InOrder'
    BY <2>1, <2>2, <2>4, OrderOf
  <2>6. received' \in 0..MaxCmds
    BY <2>1, ShellAssumption DEF Commands
  <2> QED BY <2>1, <2>5, <2>6 DEF Commands
<1>3. CASE ListenerPush
  <2>1. /\ listener = "push" /\ listener' = "poll" /\ queue' = Append(queue, received)
        /\ UNCHANGED <<received, batch, done, main>>
    BY <1>3 DEF ListenerPush
  <2>2. InHand = <<received>> /\ InHand' = <<>>
    BY <2>1 DEF InHand
  <2>3. queue' \in Seq(Nat) /\ queue' = queue \o <<received>>
    BY <1>1, <2>1, AppendProperties, AppendIsConcat
  <2>4. (done \o batch) \o (queue \o <<received>>) = all \o <<received>>
    BY <1>1, ConcatAssociative, SMTT(30)
  <2>5. ((done' \o batch') \o queue') \o <<>> = (done \o batch) \o queue'
    <3>1. (done \o batch) \o queue' \in Seq(Nat)
      BY <1>1, <2>3, ConcatProperties
    <3>2. ((done \o batch) \o queue') \o <<>> = (done \o batch) \o queue'
      BY <3>1, ConcatEmptySeq
    <3> QED BY <2>1, <3>2
  <2>6. InOrder'
    BY <2>1, <2>2, <2>3, <2>4, <2>5, OrderOf DEF Commands
  <2> QED BY <2>1, <2>3, <2>6 DEF Commands
<1>4. CASE ListenerOpen \/ ListenerPoll \/ ListenerNone
  <2>1. UNCHANGED <<received, queue, batch, done, main>> /\ listener # "push" /\ listener' # "push"
    BY <1>4 DEF ListenerOpen, ListenerPoll, ListenerNone
  <2> QED BY <2>1, CommandsRest DEF InHand, Commands
<1> QED BY <1>2, <1>3, <1>4 DEF ListenerStep

\* Every step does.
LEMMA CommandsNext == ASSUME Phases, Commands, [Next]_vars PROVE Commands'
<1>1. CASE MainStep
  BY <1>1, CommandsMain
<1>2. CASE ListenerStep \/ ListenerReceive
  BY <1>2, CommandsListener
<1>3. CASE ~MainStep /\ ~ListenerStep /\ ~ListenerReceive
  <2>1. UNCHANGED <<received, queue, batch, done, listener, main>>
    <3>1. CASE ClockStep
      BY <3>1 DEF ClockStep, Sent, Lock, CallbackEnd, CsUsed, Destroy, shell
    <3>2. ASSUME NEW t \in Threads, Evaluate(t) PROVE UNCHANGED shell
      BY <3>2, EvaluateFrame
    <3>3. CASE \E s \in SubIds : Begin(s)
      BY <3>3 DEF Begin, shell
    <3>4. CASE \E c \in Csounds : PerfTest(c) \/ Perform(c)
      BY <3>4 DEF PerfTest, Perform, shell
    <3>5. CASE Signal \/ UNCHANGED vars
      BY <3>5 DEF Signal, vars, shell
    <3> QED BY <1>3, <3>1, <3>2, <3>3, <3>4, <3>5 DEF Next, shell
  <2> QED BY <2>1, CommandsRest DEF InHand, Commands
<1> QED BY <1>1, <1>2, <1>3

-----------------------------------------------------------------------------
(***************************************************************************)
(* The theorems                                                             *)
(***************************************************************************)

\* Nothing was created at the start.
LEMMA InitInv == Init => Inv
<1> SUFFICES ASSUME Init PROVE Inv
  OBVIOUS
<1>1. Phases
  BY DEF Init, Ticks!Init, Phases
<1>2. Commands
  <2>1. received = 0 /\ queue = <<>> /\ batch = <<>> /\ done = <<>> /\ listener = "none" /\ main = "setup"
    BY DEF Init
  <2>2. <<>> \in Seq(Nat) /\ <<>> \o <<>> = <<>>
    BY ConcatEmptySeq
  <2>3. UpTo(0) = <<>>
    <3>1. UpTo(0) \in [1..0 -> Nat] /\ DOMAIN UpTo(0) = 1..0
      BY DEF UpTo
    <3>2. UpTo(0) \in Seq(Nat)
      BY <3>1, SeqDef
    <3>3. Len(UpTo(0)) = 0
      BY <3>1, <3>2, LenProperties
    <3> QED BY <3>2, <3>3, EmptySeq
  <2>4. InOrder
    BY <2>1, <2>2, <2>3, OrderOf DEF InHand
  <2> QED BY <2>1, <2>2, <2>4, ShellAssumption DEF Commands
<1>3. Sends
  BY DEF Init, Sends
<1>4. Handles
  BY DEF Init, Handles, HandleTypes, Hands, Csound, InstanceType, AtRest, Closed
<1> QED BY <1>1, <1>2, <1>3, <1>4 DEF Inv

\* Every step keeps the invariant.
LEMMA NextInv == Inv /\ [Next]_vars => Inv'
BY PhasesNext, CommandsNext, SendsNext, HandlesNext DEF Inv

\* The inductive invariant holds in every state of the program.
THEOREM Invariance == Spec => []Inv
BY InitInv, NextInv, PTL DEF Spec

\* However the listener, a batch and the callbacks interleave, no command is
\* lost, carried out twice or overtaken (idyl.cpp:349).
THEOREM CommandsInOrder == Spec => []InOrder
<1>1. Inv => InOrder
  BY DEF Inv, Commands
<1> QED BY <1>1, Invariance, PTL

\* No thread ever uses a destroyed Csound instance, unless it was closed while the
\* set-up and a callback evaluated at the same time; its own thread was joined
\* before it was destroyed; and a repeated send goes to a connection that is open
\* or was closed by its name.
THEOREM NoUseAfterDestroy == Spec => []UsesAreLive
<1>1. Inv => UsesAreLive
  <2> SUFFICES ASSUME Inv PROVE UsesAreLive
    OBVIOUS
  <2>1. TypeOK
    BY DEF Inv, Phases, Commands, Sends, Handles, HandleTypes, InstanceType, TypeOK
  <2>2. \A c \in Csounds :
         /\ \A t \in Threads : c \in uses[t] => cs[c].st # "destroyed" \/ c \in exposed
         /\ cs[c].st = "destroyed" => cs[c].perf = "ended"
    BY DEF Inv, Handles, Hands, Csound
  <2>3. busy \subseteq DOMAIN target => \A s \in busy : target[s] \in conns \cup closed
    BY DEF Inv, Sends
  <2> QED BY <2>1, <2>2, <2>3 DEF UsesAreLive
<1> QED BY <1>1, Invariance, PTL

\* When main() returns nothing of the program runs or is left open.
THEOREM NothingLeftAtExit == Spec => []CleanExit
<1>1. Inv => CleanExit
  <2> SUFFICES ASSUME Inv, main = "done" PROVE CleanExit
    BY DEF CleanExit
  <2>1. busy = {} /\ Active = {} /\ listener \in {"none", "ended"}
    BY DEF Inv, Phases, Active
  <2>2. conns = {}
    BY DEF Inv, Sends
  <2>3. \A c \in Csounds : cs[c].st \in {"none", "destroyed"} /\ cs[c].perf \in {"none", "ended"}
    BY DEF Inv, Handles, Csound
  <2> QED BY <2>1, <2>2, <2>3 DEF CleanExit
<1> QED BY <1>1, Invariance, PTL

=============================================================================
