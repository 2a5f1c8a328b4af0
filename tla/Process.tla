------------------------------ MODULE Process ------------------------------
(***************************************************************************)
(* Process blocks in the evaluator (src/src/core/evaluator.cpp): start,     *)
(* stop, pause, resume, finite durations and self-stopping instances, with  *)
(* the callbacks of the subscriptions a process owns.                       *)
(*                                                                          *)
(* Four tables say what a process owns: live_processes_ (its state and      *)
(* segments), active_process_instances_ (what stop deactivates),            *)
(* process_each_subs_ (each loops to cancel) and the process tag of its     *)
(* subscriptions (what the scheduler pauses).  They are written in          *)
(* different places and have to agree.                                      *)
(*                                                                          *)
(* The model is the program in listen mode: blocks are stored at start-up   *)
(* and the main thread runs the commands of the queue, each under           *)
(* eval_mutex_.  The scheduler keeps what module TickSource promises: it    *)
(* begins the callback of one live subscription at a time, and the callback *)
(* may still have to wait for eval_mutex_ when a command changes the        *)
(* process under it.  What the statements of a callback compute is left     *)
(* out: they may be any sequence of control statements.                     *)
(*                                                                          *)
(* An instance and its subscription share one number here.                  *)
(***************************************************************************)
EXTENDS Integers, FiniteSets

CONSTANTS
    Names,     \* the stored process blocks
    NoName,    \* the empty process name
    Body,      \* per process: what its block creates
    MaxSubs    \* bound: subscriptions ever made

\* segs: temporal bindings; args: instances that are arguments of those, as the
\* lfo of metro(dt=lfo(..)); flows: instances held in flow literals; ats:
\* @-blocks; timed: the block has a dur=.
ASSUME ProcessAssumption ==
    /\ NoName \notin Names
    /\ Body \in [Names -> [segs: Nat, args: Nat, flows: Nat, ats: Nat, timed: BOOLEAN]]
    /\ \A n \in Names : Body[n].segs > 0
    /\ MaxSubs \in Nat

\* The numbers above MaxSubs are for the one-shots of the epoch flush, and used
\* again: more of them than processes ever started cannot wait at a time.
FlushIds == (MaxSubs + 1)..(2 * MaxSubs + 1)
SubIds   == 1..(2 * MaxSubs + 1)
Kinds    == {"segment", "arg", "flow", "at", "each", "flush"}

\* "gone" is a number that is not, or no longer, in the scheduler's table.
Sub   == [kind: Kinds, proc: Names \cup {NoName}, st: {"live", "paused", "cancelled", "gone"}]
NoSub == [kind |-> "flush", proc |-> NoName, st |-> "gone"]

VARIABLES
    subs,         \* the scheduler's subscriptions, and who made them
    active,       \* instances whose active_ is set
    nextId,       \* next_instance_id_
    tracked,      \* active_process_instances_
    eachSubs,     \* process_each_subs_
    live,         \* live_processes_
    cancelled,    \* segments whose reaction_set is cancelled
    deferred,     \* epoch_deferred_: a shared reaction's process, its segment
    flushPending, \* epoch_flush_pending_
    pc,           \* where the clock thread is
    cur,          \* the subscription it calls
    selfStopped   \* self_stopped of the segment it ticks

tables == <<tracked, eachSubs, live, cancelled>>
epoch  == <<deferred, flushPending>>
clock  == <<pc, cur, selfStopped>>
vars   == <<subs, active, nextId, tables, epoch, clock>>

Init ==
    /\ subs = [s \in SubIds |-> NoSub]
    /\ active = {}
    /\ nextId = 1
    /\ tracked = [n \in {} |-> {}]
    /\ eachSubs = [n \in Names |-> {}]
    /\ live = [n \in Names |-> [state |-> "none", segs |-> {}]]
    /\ cancelled = {}
    /\ deferred = {}
    /\ flushPending = FALSE
    /\ pc = "idle" /\ cur = 0 /\ selfStopped = FALSE

-----------------------------------------------------------------------------
(***************************************************************************)
(* The scheduler, as the evaluator uses it                                 *)
(***************************************************************************)
New(kind, n) == [kind |-> kind, proc |-> n, st |-> "live"]

\* @-blocks and the epoch flush subscribe without a tag.
TagOf(s) == IF subs[s].kind \in {"at", "flush"} THEN NoName ELSE subs[s].proc

Unsubscribed(r) == IF r.st \in {"live", "paused"} THEN [r EXCEPT !.st = "cancelled"] ELSE r

\* pause_process() and resume_process(): all the subscriptions of a tag.
Retagged(n, from, to) ==
    [s \in SubIds |-> IF TagOf(s) = n /\ subs[s].st = from
                      THEN [subs[s] EXCEPT !.st = to] ELSE subs[s]]

(***************************************************************************)
(* The control statements                                                  *)
(***************************************************************************)

\* The clock thread holds eval_mutex_ inside a callback.
InBody == pc \in {"reactions", "catches", "handler", "flushBody"}
Locked == pc \notin {"idle", "begun"}

\* n numbers after the first k that are free.
Fresh(k, n) == (nextId + k)..(nextId + k + n - 1)

\* exec_stmt() of a process block: the instances of its temporal bindings, of
\* which some may stop in their first tick and are never subscribed; the
\* arguments these own and the instances of its flow literals, which
\* schedule_instance() subscribes; its @-blocks.  Only bindings and arguments are
\* entered in active_process_instances_.
RunBlock(n) ==
    LET b     == Body[n]
        segs  == Fresh(0, b.segs)
        args  == Fresh(b.segs, b.args)
        flows == Fresh(b.segs + b.args, b.flows)
        ats   == Fresh(b.segs + b.args + b.flows, b.ats)
    IN \E dead \in SUBSET segs :
        /\ nextId' = nextId + b.segs + b.args + b.flows + b.ats
        /\ nextId' <= MaxSubs + 1
        /\ subs' = [s \in SubIds |->
                      CASE s \in dead  -> [New("segment", n) EXCEPT !.st = "gone"]
                        [] s \in segs \ dead -> New("segment", n)
                        [] s \in args  -> New("arg", n)
                        [] s \in flows -> New("flow", n)
                        [] s \in ats   -> New("at", n)
                        [] OTHER       -> subs[s]]
        /\ active' = active \cup (segs \ dead) \cup args \cup flows
        /\ tracked' = [m \in DOMAIN tracked \cup {n} |->
                         (IF m \in DOMAIN tracked THEN tracked[m] ELSE {})
                           \cup (IF m = n THEN segs \cup args ELSE {})]
        /\ live' = [live EXCEPT ![n] = [state |-> "running", segs |-> segs]]
        /\ flushPending' = FALSE

\* start_process() of a stored block that neither runs nor is paused; the case
\* of a paused one is Resume.  Started while it runs, nothing happens.
Start(n) ==
    /\ live[n].state \in {"none", "stopped"}
    /\ RunBlock(n)
    /\ UNCHANGED <<eachSubs, cancelled, deferred, clock>>

\* stop_process() of each of the processes N, which have an entry in
\* active_process_instances_.
StopAll(N) ==
    LET ids == UNION {tracked[n] : n \in N} IN
    /\ active' = active \ ids
    /\ subs' = [s \in SubIds |-> IF s \in ids \cup UNION {eachSubs[n] : n \in N}
                                 THEN Unsubscribed(subs[s]) ELSE subs[s]]
    /\ tracked' = [n \in DOMAIN tracked \ N |-> tracked[n]]
    /\ eachSubs' = [n \in Names |-> IF n \in N THEN {} ELSE eachSubs[n]]
    /\ cancelled' = cancelled \cup UNION {live[n].segs : n \in N}
    /\ live' = [n \in Names |-> IF n \in N THEN [live[n] EXCEPT !.state = "stopped"] ELSE live[n]]
    /\ UNCHANGED <<nextId, epoch, clock>>

Stop(n) == n \in DOMAIN tracked /\ StopAll({n})

Pause(n) ==
    /\ live[n].state = "running"
    /\ live' = [live EXCEPT ![n].state = "paused"]
    /\ subs' = Retagged(n, "live", "paused")
    /\ UNCHANGED <<active, nextId, tracked, eachSubs, cancelled, epoch, clock>>

\* Bug: the scheduler is not told.
ResumeHere(n) ==
    /\ live[n].state = "paused"
    /\ live' = [live EXCEPT ![n].state = "running"]
    /\ UNCHANGED <<subs, active, nextId, tracked, eachSubs, cancelled, epoch, clock>>

Resume(n) ==
    /\ live[n].state = "paused"
    /\ live' = [live EXCEPT ![n].state = "running"]
    /\ subs' = Retagged(n, "paused", "live")
    /\ UNCHANGED <<active, nextId, tracked, eachSubs, cancelled, epoch, clock>>

\* `stop` without a name: the instance whose reactions or catches run, or every
\* process when there is none (proc_stop_ctx_ is null).
BareStop ==
    IF pc \in {"reactions", "catches"}
    THEN /\ active' = active \ {cur}
         /\ UNCHANGED <<subs, nextId, tables, epoch, clock>>
    ELSE DOMAIN tracked # {} /\ StopAll(DOMAIN tracked)

\* current_process_name_: it is set for the reactions of a segment and for the
\* handler of an @-block, and empty in catches, each loops and flushed reactions.
CurrentProcess ==
    IF pc = "reactions" \/ (pc = "handler" /\ subs[cur].kind = "at")
    THEN subs[cur].proc ELSE NoName

SubscribeOne(kind, n) ==
    /\ nextId <= MaxSubs
    /\ subs' = [subs EXCEPT ![nextId] = New(kind, n)]
    /\ nextId' = nextId + 1

\* A temporal each block: the iterations after the first.
EachBlock ==
    /\ SubscribeOne("each", CurrentProcess)
    /\ eachSubs' = [n \in Names |-> IF n = CurrentProcess THEN eachSubs[n] \cup {nextId}
                                                          ELSE eachSubs[n]]
    /\ UNCHANGED <<active, tracked, live, cancelled, epoch, clock>>

AtBlock ==
    /\ SubscribeOne("at", CurrentProcess)
    /\ UNCHANGED <<active, tables, epoch, clock>>

Control == \E n \in Names : Start(n) \/ Stop(n) \/ Pause(n) \/ Resume(n)

\* A command of the listen queue.
Command == ~Locked /\ Control

\* A statement of a callback.
Statement == InBody /\ (Control \/ BareStop \/ EachBlock \/ AtBlock)

(***************************************************************************)
(* The clock thread                                                        *)
(***************************************************************************)

\* The scheduler begins a callback; it has still to lock eval_mutex_.
Begin(s) ==
    /\ pc = "idle"
    /\ subs[s].st = "live"
    /\ pc' = "begun" /\ cur' = s
    /\ UNCHANGED <<subs, active, nextId, tables, epoch, selfStopped>>

Called(kinds) == pc = "begun" /\ subs[cur].kind \in kinds

\* The callback returns; false removes the subscription.
Leave == pc' = "idle" /\ cur' = 0 /\ selfStopped' = FALSE
Kept == subs' = subs
Removed == subs' = [subs EXCEPT ![cur].st = "gone"]

\* A segment whose process has run for its duration.
SegmentExpires ==
    /\ Called({"segment"}) /\ Body[subs[cur].proc].timed
    /\ active' = active \ {cur}
    /\ Removed /\ Leave
    /\ UNCHANGED <<nextId, tables, epoch>>

\* Deactivated since the callback began.
InactiveTick ==
    /\ Called({"segment", "arg", "flow"})
    /\ cur \notin active
    /\ Removed /\ Leave
    /\ UNCHANGED <<active, nextId, tables, epoch>>

\* tick_instance(), which may run the instance's own `stop`; its reactions
\* follow.
SegmentTick(stops) ==
    /\ Called({"segment"}) /\ cur \in active
    /\ active' = IF stops THEN active \ {cur} ELSE active
    /\ selfStopped' = stops
    /\ pc' = "reactions"
    /\ UNCHANGED <<subs, nextId, tables, epoch, cur>>

\* The reactions are done: shared ones are queued for the end of the epoch,
\* each AST node once, with the segment that came first.
SegmentCatches(shared) ==
    /\ pc = "reactions"
    /\ deferred' = IF shared /\ ~\E d \in deferred : d.proc = subs[cur].proc
                   THEN deferred \cup {[proc |-> subs[cur].proc, seg |-> cur]} ELSE deferred
    /\ pc' = "catches"
    /\ UNCHANGED <<subs, active, nextId, tables, flushPending, cur, selfStopped>>

\* Bug: a segment that ends returns before it subscribes the flush.
SegmentReturnEarly ==
    /\ pc = "catches"
    /\ LET keep == ~selfStopped /\ cur \in active
           kept == IF keep THEN subs ELSE [subs EXCEPT ![cur].st = "gone"]
           free == CHOOSE f \in FlushIds : subs[f].st = "gone"
       IN /\ subs' = IF flushPending \/ ~keep THEN kept
                     ELSE [kept EXCEPT ![free] = New("flush", NoName)]
          /\ flushPending' = (flushPending \/ keep)
    /\ Leave
    /\ UNCHANGED <<active, nextId, tables, deferred>>

\* The end of the segment's callback, which subscribes the flush of the epoch
\* unless one is pending.
SegmentReturn ==
    /\ pc = "catches"
    /\ LET keep == ~selfStopped /\ cur \in active
           kept == IF keep THEN subs ELSE [subs EXCEPT ![cur].st = "gone"]
           free == CHOOSE f \in FlushIds : subs[f].st = "gone"
       IN subs' = IF flushPending THEN kept ELSE [kept EXCEPT ![free] = New("flush", NoName)]
    /\ flushPending' = TRUE
    /\ Leave
    /\ UNCHANGED <<active, nextId, tables, deferred>>

\* An argument or an element of a flow literal: it is ticked and kept.
OwnedTick(stops) ==
    /\ Called({"arg", "flow"}) /\ cur \in active
    /\ active' = IF stops THEN active \ {cur} ELSE active
    /\ Kept /\ Leave
    /\ UNCHANGED <<nextId, tables, epoch>>

\* An @-block's handler, or one iteration of an each loop.
HandlerEnter ==
    /\ Called({"at", "each"})
    /\ pc' = "handler"
    /\ UNCHANGED <<subs, active, nextId, tables, epoch, cur, selfStopped>>

HandlerReturn(last) ==
    /\ pc = "handler"
    /\ subs[cur].kind = "at" => last
    /\ IF last THEN Removed ELSE Kept
    /\ Leave
    /\ UNCHANGED <<active, nextId, tables, epoch>>

FlushEnter ==
    /\ Called({"flush"})
    /\ pc' = "flush"
    /\ UNCHANGED <<subs, active, nextId, tables, epoch, cur, selfStopped>>

InFlush == pc \in {"flush", "flushBody"}

\* Bug: the reactions of a cancelled segment run.
FlushRunAll(d) ==
    /\ InFlush /\ d \in deferred
    /\ deferred' = deferred \ {d}
    /\ pc' = "flushBody"
    /\ UNCHANGED <<subs, active, nextId, tables, flushPending, cur, selfStopped>>

\* The next shared reaction runs, unless its segment was cancelled.
FlushRun(d) ==
    /\ InFlush /\ d \in deferred
    /\ deferred' = deferred \ {d}
    /\ pc' = IF d.seg \in cancelled THEN "flush" ELSE "flushBody"
    /\ UNCHANGED <<subs, active, nextId, tables, flushPending, cur, selfStopped>>

FlushReturn ==
    /\ InFlush /\ deferred = {}
    /\ flushPending' = FALSE
    /\ Removed /\ Leave
    /\ UNCHANGED <<active, nextId, tables, deferred>>

CallbackStep ==
    \/ SegmentExpires \/ InactiveTick
    \/ \E b \in BOOLEAN : SegmentTick(b) \/ SegmentCatches(b) \/ OwnedTick(b) \/ HandlerReturn(b)
    \/ SegmentReturn \/ HandlerEnter
    \/ FlushEnter \/ (\E d \in deferred : FlushRun(d)) \/ FlushReturn

Next ==
    \/ Command \/ Statement
    \/ \E s \in SubIds : Begin(s)
    \/ CallbackStep

Spec == Init /\ [][Next]_vars

\* A callback runs to its end.  The scheduler serves deadlines in order, so the
\* one-shot of an epoch flush, which no pause can hold, gets its turn.
FairSpec ==
    /\ Spec
    /\ WF_vars(CallbackStep)
    /\ SF_vars(\E f \in FlushIds : Begin(f))

-----------------------------------------------------------------------------
(***************************************************************************)
(* Properties                                                              *)
(***************************************************************************)
\* The variables keep their types; what was not made yet is blank.
TypeOK ==
    /\ subs \in [SubIds -> Sub]
    /\ active \subseteq SubIds \ FlushIds
    /\ nextId \in 1..(MaxSubs + 1) /\ \A s \in nextId..MaxSubs : subs[s] = NoSub
    /\ DOMAIN tracked \subseteq Names
    /\ \A n \in DOMAIN tracked : tracked[n] \subseteq SubIds \ FlushIds
    /\ eachSubs \in [Names -> SUBSET (SubIds \ FlushIds)]
    /\ live \in [Names -> [state: {"none", "running", "paused", "stopped"},
                          segs: SUBSET (SubIds \ FlushIds)]]
    /\ cancelled \subseteq SubIds \ FlushIds
    /\ deferred \subseteq [proc: Names, seg: SubIds \ FlushIds]
    /\ flushPending \in BOOLEAN /\ selfStopped \in BOOLEAN
    /\ pc \in {"idle", "begun", "reactions", "catches", "handler", "flush", "flushBody"}
    /\ cur \in SubIds \cup {0}

Ticking(s) == subs[s].st \in {"live", "paused"}

\* Whatever a run of a process still has in the scheduler, stop_process() can
\* find: its segments and their arguments, which are those of its last run, and
\* its each loops.  There are never two runs of a process.
ReachableByStop ==
    \A s \in SubIds : Ticking(s) =>
        LET n == subs[s].proc IN
        /\ subs[s].kind \in {"segment", "arg"} => n \in DOMAIN tracked /\ s \in tracked[n]
        /\ subs[s].kind = "segment" => s \in live[n].segs
        /\ subs[s].kind = "each" /\ n # NoName => s \in eachSubs[n]

\* live_processes_ and the scheduler agree on who is paused: nothing a binding of
\* a paused process made ticks, and of a running one nothing is left paused.
PausedTogether ==
    \A s \in SubIds : subs[s].kind \in {"segment", "arg"} =>
        /\ subs[s].st = "live" => live[subs[s].proc].state # "paused"
        /\ subs[s].st = "paused" => live[subs[s].proc].state # "running"

\* s is a segment of the run of n that was started and not stopped.
Current(n, s) == s \in live[n].segs /\ live[n].state \in {"running", "paused"}

\* No reaction of a run begins after the run was stopped, neither in a callback
\* that was already waiting for eval_mutex_ nor in an epoch flush that was
\* already subscribed, even if the process was started again meanwhile.
NoStaleReaction ==
    [][/\ pc = "begun" /\ pc' = "reactions" => Current(subs[cur].proc, cur)
       /\ \A d \in deferred \ deferred' : pc' = "flushBody" => Current(d.proc, d.seg)]_vars

\* The flag that stands for a pending flush is never wrong: while it is set, or
\* reactions wait, a one-shot is subscribed that will run them.
FlushComes ==
    ~Locked /\ (flushPending \/ deferred # {}) => \E f \in FlushIds : subs[f].st = "live"

\* The evaluator's tables and the scheduler's tell the same story: what ticks can
\* be stopped, who is paused is paused on both sides, a flush that is noted comes.
TablesAgree == TypeOK /\ ReachableByStop /\ PausedTogether /\ FlushComes

\* Every epoch comes to an end: the shared reactions that were queued are run
\* or dropped, whatever is started, stopped and paused meanwhile.
EpochCompletes == deferred # {} ~> deferred = {}

=============================================================================
