------------------------------- MODULE Shell -------------------------------
(***************************************************************************)
(* The program around the evaluator (src/src/idyl.cpp) and the resources    *)
(* modules keep in it: main thread, OSC listener, clock thread and the      *)
(* performance threads of Csound, from start-up to the end of main().       *)
(*                                                                          *)
(* The scheduler is the one module TickSource specifies; its actions are    *)
(* steps of the threads here.  What the evaluator does for a command or in  *)
(* a callback is any few of the operations below: which statements lead to  *)
(* them, and what processes are, is the matter of module Process.           *)
(*                                                                          *)
(* Of the modules there are the OSC connections (osc_module.hpp), whose     *)
(* repeated sends are subscriptions of their own, without eval_mutex_, and  *)
(* the Csound instances (csound_module.hpp), each with a thread.  The       *)
(* libraries under them are external.                                       *)
(***************************************************************************)
EXTENDS Integers, Sequences, SequencesExt, FiniteSets

CONSTANTS
    SubIds,     \* subscriptions that can be made
    Conns,      \* OSC connections that can be opened
    Csounds,    \* Csound instances that can be opened
    NoTag,      \* the empty process tag
    MaxCmds,    \* bound: commands received
    MaxOps,     \* bound: operations in one command or callback
    MaxSetup    \* bound: operations in the set-up

ASSUME ShellAssumption == MaxCmds \in Nat /\ MaxOps \in Nat /\ MaxSetup \in Nat

Threads == {"main", "clock"}
Closed  == [st |-> "none", running |-> FALSE, perf |-> "none"]

VARIABLES
    state, tag, held, busy,  \* the scheduler, as TickSource has it
    listen,    \* --listen
    running,   \* g_running
    main,      \* where the main thread is
    listener,  \* where the listener thread is
    received,  \* commands that were sent and parse, in order
    queue,     \* cmd_queue
    batch,     \* the commands main took from it
    done,      \* commands carried out
    lock,      \* who holds eval_mutex_
    clock,     \* where the clock thread is in a callback
    ops,       \* per thread: operations it may still do
    conns,     \* connections_ of the OSC module
    target,    \* repeated sends, and the connection the callback of each sends to
    listed,    \* active_subs_
    closed,    \* connections osc_close() erased
    cs,        \* per Csound instance: in instances_ or not, its thread
    uses,      \* per thread: Csound instances it found and uses the pointer of
    closing,   \* per thread: Csound instances it destroys
    exposed    \* history: instances that were closed while both threads evaluated

ticks  == <<state, tag, held, busy>>
shell  == <<listen, running, main, listener, received, queue, batch, done>>
evals  == <<lock, clock, ops>>
osc    == <<conns, target, listed, closed>>
csound == <<cs, uses, closing, exposed>>
vars   == <<ticks, shell, evals, osc, csound>>

Ticks == INSTANCE TickSource WITH Names <- {}

Init ==
    /\ Ticks!Init
    /\ listen \in BOOLEAN /\ running = TRUE
    /\ main = "setup" /\ listener = "none"
    /\ received = 0 /\ queue = <<>> /\ batch = <<>> /\ done = <<>>
    /\ lock = "free" /\ clock = "idle"
    /\ ops = [t \in Threads |-> IF t = "main" THEN MaxSetup ELSE MaxOps]
    /\ conns = {} /\ target = [s \in {} |-> NoTag] /\ listed = {} /\ closed = {}
    /\ cs = [c \in Csounds |-> Closed]
    /\ uses = [t \in Threads |-> {}] /\ closing = [t \in Threads |-> {}] /\ exposed = {}

\* active_count(): a paused subscription counts, one whose callback runs too.
Active == {s \in SubIds : state[s] \in {"live", "paused"}}

-----------------------------------------------------------------------------
(***************************************************************************)
(* What evaluating does to the scheduler and to the modules                *)
(***************************************************************************)

\* The evaluator runs on a thread that holds eval_mutex_, and on the main
\* thread without it while the program is set up.
Evaluates(t) == lock = t \/ (t = "main" /\ main = "setup")

\* Both do, which happens in the set-up only: callbacks come as soon as the first
\* statement has subscribed.
Overlap == \A t \in Threads : Evaluates(t)

\* Nothing of the thread's is in progress.
AtRest(t) == uses[t] = {} /\ closing[t] = {}

\* One operation.
Op(t) ==
    /\ Evaluates(t) /\ AtRest(t) /\ ops[t] > 0
    /\ ops' = [ops EXCEPT ![t] = @ - 1]
    /\ UNCHANGED <<shell, lock, clock>>

\* A segment, an @-block, an each loop.
Subscribe(t) ==
    /\ Op(t)
    /\ \E s \in SubIds : Ticks!Subscribe(s, NoTag)
    /\ UNCHANGED <<osc, csound>>

\* stop_process() of what is not a repeated send.
Unsubscribe(t) ==
    /\ Op(t)
    /\ \E s \in SubIds \ DOMAIN target : Ticks!Unsubscribe(s)
    /\ UNCHANGED <<osc, csound>>

OscOut(t) ==
    /\ Op(t)
    /\ \E h \in Conns \ (conns \cup closed) : conns' = conns \cup {h}
    /\ UNCHANGED <<ticks, target, listed, closed, csound>>

\* osc_send() with a dt, under the module's mutex.
OscSendEvery(t) ==
    /\ Op(t)
    /\ \E h \in conns, s \in SubIds :
         /\ Ticks!Subscribe(s, NoTag)
         /\ target' = [x \in DOMAIN target \cup {s} |-> IF x = s THEN h ELSE target[x]]
         /\ listed' = listed \cup {s}
    /\ UNCHANGED <<conns, closed, csound>>

Cancelled(S) ==
    state' = [s \in SubIds |-> IF s \in S /\ state[s] \in {"live", "paused"}
                               THEN "cancelled" ELSE state[s]]

\* osc_stop(): the list is emptied, a callback that runs goes on.  Nothing guards
\* the list here, so what the other thread puts into it meanwhile may be missed.
OscStop(t) ==
    /\ Op(t)
    /\ \E S \in SUBSET listed :
         /\ S = listed \/ Overlap
         /\ Cancelled(S)
         /\ target' = [s \in DOMAIN target \ (S \ busy) |-> target[s]]
    /\ listed' = {}
    /\ UNCHANGED <<tag, held, busy, conns, closed, csound>>

OscClose(t) ==
    /\ Op(t)
    /\ \E h \in conns : conns' = conns \ {h} /\ closed' = closed \cup {h}
    /\ UNCHANGED <<ticks, target, listed, csound>>

\* cs_open(): the instance, and its thread.
CsOpen(t) ==
    /\ Op(t)
    /\ \E c \in Csounds :
         /\ cs[c].st = "none"
         /\ cs' = [cs EXCEPT ![c] = [st |-> "open", running |-> TRUE, perf |-> "test"]]
    /\ UNCHANGED <<ticks, osc, uses, closing, exposed>>

\* cs_note(), cs_chnset() and cs_chnget() find the instance, read its pointer
\* under ptr_mutex and use it after they have released that.
CsUse(t) ==
    /\ Op(t)
    /\ \E c \in Csounds : cs[c].st = "open" /\ uses' = [uses EXCEPT ![t] = {c}]
    /\ UNCHANGED <<ticks, osc, cs, closing, exposed>>

CsUsed(t) ==
    /\ uses[t] # {}
    /\ uses' = [uses EXCEPT ![t] = {}]
    /\ UNCHANGED <<ticks, shell, evals, osc, cs, closing, exposed>>

\* cs_close(), and cleanup() for each instance: out of the map, told to end,
\* joined, destroyed.
Erase(t, c) ==
    /\ cs[c].st = "open"
    /\ cs' = [cs EXCEPT ![c].st = "closing", ![c].running = FALSE]
    /\ closing' = [closing EXCEPT ![t] = {c}]
    /\ exposed' = IF Overlap THEN exposed \cup {c} ELSE exposed

CsClose(t) ==
    /\ Op(t)
    /\ \E c \in Csounds : Erase(t, c)
    /\ UNCHANGED <<ticks, osc, uses>>

\* Bug: the thread is not joined.
DestroyUnjoined(t) ==
    \E c \in closing[t] :
        /\ cs' = [cs EXCEPT ![c].st = "destroyed"]
        /\ closing' = [closing EXCEPT ![t] = {}]
        /\ UNCHANGED <<ticks, shell, evals, osc, uses, exposed>>

Destroy(t) ==
    \E c \in closing[t] :
        /\ cs[c].perf = "ended"
        /\ cs' = [cs EXCEPT ![c].st = "destroyed"]
        /\ closing' = [closing EXCEPT ![t] = {}]
        /\ UNCHANGED <<ticks, shell, evals, osc, uses, exposed>>

Evaluate(t) ==
    \/ Subscribe(t) \/ Unsubscribe(t)
    \/ OscOut(t) \/ OscSendEvery(t) \/ OscStop(t) \/ OscClose(t)
    \/ CsOpen(t) \/ CsUse(t) \/ CsClose(t)

-----------------------------------------------------------------------------
(***************************************************************************)
(* Main thread                                                             *)
(***************************************************************************)
Goto(from, to) == main = from /\ main' = to

\* Evaluating is done and the lock, if it was taken, is given back.
Finished(t) ==
    /\ AtRest(t)
    /\ lock' = IF lock = t THEN "free" ELSE lock
    /\ ops' = [ops EXCEPT ![t] = MaxOps]

\* eval.run() returns; the listener is started; main stays if it listens, or if
\* the text has a process and something is subscribed.
SetupEnd ==
    /\ main = "setup"
    /\ main' \in (IF listen \/ Active # {} THEN {"test"} ELSE {})
                 \cup (IF listen THEN {} ELSE {"leave"})
    /\ Finished("main")
    /\ listener' = IF listen THEN "open" ELSE "none"
    /\ UNCHANGED <<listen, running, received, queue, batch, done, ticks, clock, osc, csound>>

\* Bug: the queue is served only while something ticks.
TestTicking ==
    /\ Goto("test", IF ~running THEN "leave"
                     ELSE IF listen /\ Active # {} THEN "swap" ELSE "poll")
    /\ UNCHANGED <<listen, running, listener, received, queue, batch, done, ticks, evals, osc, csound>>

\* The head of the loop.
Test ==
    /\ Goto("test", IF ~running THEN "leave" ELSE IF listen THEN "swap" ELSE "poll")
    /\ UNCHANGED <<listen, running, listener, received, queue, batch, done, ticks, evals, osc, csound>>

\* The whole queue is taken, under cmd_mutex.
Swap ==
    /\ Goto("swap", "dispatch")
    /\ batch' = queue /\ queue' = batch
    /\ UNCHANGED <<listen, running, listener, received, done, ticks, evals, osc, csound>>

\* The next command of the batch: start_process(), hot_reload() and the others
\* take eval_mutex_.
Dispatch ==
    /\ batch # <<>> /\ lock = "free"
    /\ Goto("dispatch", "command")
    /\ lock' = "main"
    /\ UNCHANGED <<listen, running, listener, received, queue, batch, done, ticks, clock, ops, osc, csound>>

CommandEnd ==
    /\ Goto("command", "dispatch")
    /\ Finished("main")
    /\ done' = Append(done, Head(batch))
    /\ batch' = Tail(batch)
    /\ UNCHANGED <<listen, running, listener, received, queue, ticks, clock, osc, csound>>

\* Bug: what has arrived meanwhile is cleared with the batch.
BatchEndClears ==
    /\ batch = <<>>
    /\ Goto("dispatch", "poll")
    /\ queue' = <<>>
    /\ UNCHANGED <<listen, running, listener, received, batch, done, ticks, evals, osc, csound>>

BatchEnd ==
    /\ batch = <<>>
    /\ Goto("dispatch", "poll")
    /\ UNCHANGED <<listen, running, listener, received, queue, batch, done, ticks, evals, osc, csound>>

\* Without --listen the program ends when nothing is subscribed any more.
Poll ==
    /\ Goto("poll", IF ~listen /\ Active = {} THEN "leave" ELSE "test")
    /\ UNCHANGED <<listen, running, listener, received, queue, batch, done, ticks, evals, osc, csound>>

Leave ==
    /\ Goto("leave", "join")
    /\ running' = IF listener # "none" THEN FALSE ELSE running
    /\ UNCHANGED <<listen, listener, received, queue, batch, done, ticks, evals, osc, csound>>

\* Bug: the listener is not waited for.
JoinNobody ==
    /\ Goto("join", "stop")
    /\ UNCHANGED <<listen, running, listener, received, queue, batch, done, ticks, evals, osc, csound>>

Join ==
    /\ listener \in {"none", "ended"}
    /\ Goto("join", "stop")
    /\ UNCHANGED <<listen, running, listener, received, queue, batch, done, ticks, evals, osc, csound>>

\* scheduler->stop() joins the clock thread, which begins no callback any more.
StopScheduler ==
    /\ Goto("stop", "cleanup")
    /\ Ticks!Stop
    /\ UNCHANGED <<listen, running, listener, received, queue, batch, done, evals, osc, csound>>

\* cleanup_all(): the modules in reverse order of their loading, which is the
\* program's.
CleanupOsc ==
    /\ main = "cleanup" /\ AtRest("main") /\ conns # {}
    /\ Cancelled(listed)
    /\ target' = [s \in {} |-> NoTag] /\ listed' = {}
    /\ conns' = {}
    /\ UNCHANGED <<tag, held, busy, shell, evals, closed, csound>>

CleanupCs ==
    /\ main = "cleanup" /\ AtRest("main")
    /\ \E c \in Csounds : Erase("main", c)
    /\ UNCHANGED <<ticks, shell, evals, osc, uses>>

Exit ==
    /\ conns = {} /\ AtRest("main") /\ \A c \in Csounds : cs[c].st # "open"
    /\ Goto("cleanup", "done")
    /\ UNCHANGED <<listen, running, listener, received, queue, batch, done, ticks, evals, osc, csound>>

MainStep ==
    \/ SetupEnd \/ Test \/ Swap \/ Dispatch \/ CommandEnd \/ BatchEnd \/ Poll
    \/ Leave \/ Join \/ StopScheduler \/ CleanupOsc \/ CleanupCs \/ Exit
    \/ CsUsed("main") \/ Destroy("main")

-----------------------------------------------------------------------------
(***************************************************************************)
(* The other threads                                                       *)
(***************************************************************************)

\* The socket may not open, which ends the thread.
ListenerOpen ==
    /\ listener = "open" /\ listener' \in {"poll", "ended"}
    /\ UNCHANGED <<listen, running, main, received, queue, batch, done, ticks, evals, osc, csound>>

\* Bug: the flag is not looked at.
ListenerPollOn ==
    /\ listener = "poll" /\ listener' = "recv"
    /\ UNCHANGED <<listen, running, main, received, queue, batch, done, ticks, evals, osc, csound>>

\* After each packet, and after 100 ms without one.
ListenerPoll ==
    /\ listener = "poll" /\ listener' = IF running THEN "recv" ELSE "ended"
    /\ UNCHANGED <<listen, running, main, received, queue, batch, done, ticks, evals, osc, csound>>

\* Nothing came, or nothing that parses.
ListenerNone ==
    /\ listener = "recv" /\ listener' = "poll"
    /\ UNCHANGED <<listen, running, main, received, queue, batch, done, ticks, evals, osc, csound>>

ListenerReceive ==
    /\ listener = "recv" /\ received < MaxCmds
    /\ listener' = "push" /\ received' = received + 1
    /\ UNCHANGED <<listen, running, main, queue, batch, done, ticks, evals, osc, csound>>

ListenerPush ==
    /\ listener = "push" /\ listener' = "poll"
    /\ queue' = Append(queue, received)
    /\ UNCHANGED <<listen, running, main, received, batch, done, ticks, evals, osc, csound>>

ListenerStep == ListenerOpen \/ ListenerPoll \/ ListenerNone \/ ListenerPush

\* The callback of a repeated send takes the module's mutex only, any other
\* waits for eval_mutex_.
Begin(s) ==
    /\ main # "stop"
    /\ Ticks!Begin(s)
    /\ clock' = IF s \in DOMAIN target THEN "send" ELSE "wait"
    /\ UNCHANGED <<shell, lock, ops, osc, csound>>

Sent ==
    /\ clock = "send" /\ clock' = "idle"
    /\ Ticks!Keep
    /\ target' = [s \in {x \in DOMAIN target : state[x] # "cancelled"} |-> target[s]]
    /\ UNCHANGED <<shell, lock, ops, conns, listed, closed, csound>>

Lock ==
    /\ clock = "wait" /\ lock = "free"
    /\ clock' = "body" /\ lock' = "clock"
    /\ UNCHANGED <<shell, ops, ticks, osc, csound>>

CallbackEnd ==
    /\ clock = "body" /\ clock' = "idle"
    /\ Finished("clock")
    /\ Ticks!Keep \/ \E s \in SubIds : Ticks!Drop(s)
    /\ UNCHANGED <<shell, osc, csound>>

ClockStep == Sent \/ Lock \/ CallbackEnd \/ CsUsed("clock") \/ Destroy("clock")

\* csoundPerformKsmps() in a loop, until told to end or at the end of the score.
PerfTest(c) ==
    /\ cs[c].perf = "test"
    /\ cs' = [cs EXCEPT ![c].perf = IF cs[c].running THEN "perform" ELSE "ended"]
    /\ UNCHANGED <<ticks, shell, evals, osc, uses, closing, exposed>>

Perform(c) ==
    /\ cs[c].perf = "perform"
    /\ \/ cs' = [cs EXCEPT ![c].perf = "test"]
       \/ cs' = [cs EXCEPT ![c].perf = "ended", ![c].running = FALSE]
    /\ UNCHANGED <<ticks, shell, evals, osc, uses, closing, exposed>>

\* SIGINT or SIGTERM, handled once the program is set up.
Signal ==
    /\ main # "setup" /\ running /\ running' = FALSE
    /\ UNCHANGED <<listen, main, listener, received, queue, batch, done, ticks, evals, osc, csound>>

Next ==
    \/ MainStep \/ ListenerStep \/ ListenerReceive \/ ClockStep
    \/ \E t \in Threads : Evaluate(t)
    \/ \E s \in SubIds : Begin(s)
    \/ \E c \in Csounds : PerfTest(c) \/ Perform(c)
    \/ Signal

\* Every thread goes on while it can, and main gets eval_mutex_ in the end: the
\* callbacks let go of it between their deadlines.  Packets, signals, ticks and
\* what a program evaluates need never come.
Fairness ==
    /\ WF_vars(MainStep) /\ SF_vars(Dispatch) /\ WF_vars(ListenerStep) /\ WF_vars(ClockStep)
    /\ \A c \in Csounds : WF_vars(PerfTest(c) \/ Perform(c))

Spec     == Init /\ [][Next]_vars
FairSpec == Spec /\ Fairness

-----------------------------------------------------------------------------
(***************************************************************************)
(* Properties                                                              *)
(***************************************************************************)

\* The variables keep their types; who evaluates after the set-up holds the lock.
TypeOK ==
    /\ main \in {"setup", "test", "swap", "dispatch", "command", "poll",
                 "leave", "join", "stop", "cleanup", "done"}
    /\ listener \in {"none", "open", "poll", "recv", "push", "ended"}
    /\ received \in 0..MaxCmds
    /\ clock \in {"idle", "send", "wait", "body"} /\ (clock = "idle" <=> busy = {})
    /\ main = "command" <=> lock = "main"
    /\ clock = "body" <=> lock = "clock"
    /\ conns \subseteq Conns /\ listed \cup DOMAIN target \subseteq SubIds
    /\ \A c \in Csounds : cs[c].st \in {"none", "open", "closing", "destroyed"}

\* idyl.cpp:349: every command received is carried out once, in the order of
\* arrival, whatever arrives while a batch is dispatched; what has not been
\* carried out yet is in the batch, in the queue or in the listener's hands.
InOrder ==
    LET inHand == IF listener = "push" THEN <<received>> ELSE <<>>
    IN done \o batch \o queue \o inHand = [i \in 1..received |-> i]

\* csound_module.hpp:82 and idyl.cpp:405: no thread uses a Csound instance that
\* was destroyed, except one that was closed while the set-up and a callback
\* evaluated at the same time; a destroyed instance is performed no more; and the
\* clean-up closes no connection that a repeated send may still use.
UsesAreLive ==
    /\ TypeOK
    /\ \A c \in Csounds :
         /\ \A t \in Threads : c \in uses[t] => cs[c].st # "destroyed" \/ c \in exposed
         /\ cs[c].st = "destroyed" => cs[c].perf = "ended"
    /\ clock = "send" /\ busy \subseteq DOMAIN target =>
         \A s \in busy : target[s] \in conns \cup closed

\* When main() returns no thread is left, nothing is subscribed, no connection
\* is open and every Csound instance was destroyed.
CleanExit ==
    main = "done" =>
        /\ busy = {} /\ Active = {} /\ conns = {}
        /\ listener \in {"none", "ended"}
        /\ \A c \in Csounds : cs[c].st \in {"none", "destroyed"} /\ cs[c].perf \in {"none", "ended"}

\* The program ends after a signal; and, when it does not listen, once nothing
\* is subscribed and no callback runs.
Ends ==
    /\ (main # "setup" /\ ~running) ~> main = "done"
    /\ (main # "setup" /\ ~listen /\ Active = {} /\ busy = {}) ~> main = "done"

\* As long as the program is not told to end, what was received is carried out.
CommandsServed == (received > Len(done)) ~> (received = Len(done) \/ ~running)
=============================================================================
