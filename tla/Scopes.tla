------------------------------- MODULE Scopes -------------------------------
(***************************************************************************)
(* The environment (src/src/core/environment.hpp) and who uses it: one      *)
(* stack of scopes for the whole evaluator, on which every process block    *)
(* leaves the frame its callbacks will need.                                *)
(*                                                                          *)
(* A block pushes its frame and keeps it when it has created something      *)
(* temporal, so the frames of processes that run at the same time lie on    *)
(* top of one another, in the order they were started, and those of stopped *)
(* runs are never removed.  A callback finds its frame again by its         *)
(* position: it pins it, which hides the frames above and redirects         *)
(* definitions.  Some callbacks do not pin; they read and write whatever    *)
(* frame is on top.                                                         *)
(*                                                                          *)
(* The evaluator runs one thing at a time, under eval_mutex_, but things    *)
(* nest: a callback may start a process, whose block calls a function.  The *)
(* nesting is the stack ctx.                                                *)
(*                                                                          *)
(* Positions count from 1 here, where the code counts from 0; values are    *)
(* left out, a frame is the set of the names it binds.                      *)
(***************************************************************************)
EXTENDS Integers, Sequences, SequencesExt, FiniteSetsExt

CONSTANTS
    Names,       \* the stored process blocks
    Vars,        \* names that blocks, handlers and functions bind
    StartsFrom,  \* the kinds of contexts that may start a process
    MaxRuns,     \* bound: process blocks ever executed
    MaxFrames,   \* bound: frames on the stack
    MaxSubs,     \* bound: subscriptions at a time
    MaxNesting   \* bound: contexts inside one another

\* What may run: the block of a process; the callback of a segment; that of a
\* segment which a reload re-created in place; the re-run of a delayed trigger;
\* an @-handler; an iteration of an each loop, a reaction of the epoch flush or
\* the callback of a binding that a reload added; a reload; a user function.
Pinned    == {"segment", "replaced", "delayed"}
Unpinned  == {"at", "loop"}
Callbacks == Pinned \cup Unpinned
CtxKinds  == Callbacks \cup {"block", "reload", "call"}

ASSUME ScopesAssumption ==
    /\ StartsFrom \subseteq CtxKinds \ {"call"}
    /\ {MaxRuns, MaxFrames, MaxSubs, MaxNesting} \subseteq Nat
    /\ MaxFrames >= 1  \* the global scope

Runs  == 1..MaxRuns
Frame == [own: 0..MaxRuns, bound: SUBSET Vars]
Empty(r) == [own |-> r, bound |-> {}]

VARIABLES
    frames,  \* scopes_: frames[1] is the global scope, own is the run that pushed it
    pin,     \* scope_pin_, 0 when nothing is pinned
    start,   \* scope_start_
    ctx,     \* what runs, innermost last
    runs,    \* the blocks executed: where their frame and scope_depth are, and, as
             \* history, in which blocks they began and whether they popped a frame
    live,    \* per process: the run live_processes_ shows, 0 if it has none
    subs     \* whose callbacks may come, and of which kind

env  == <<frames, pin, start>>
vars == <<env, ctx, runs, live, subs>>

Init ==
    /\ frames = <<Empty(0)>>
    /\ pin = 0 /\ start = 0
    /\ ctx = <<>>
    /\ runs = <<>>
    /\ live = [n \in Names |-> 0]
    /\ subs = {}

-----------------------------------------------------------------------------
(***************************************************************************)
(* environment.hpp                                                         *)
(***************************************************************************)
Size == Len(frames)

\* define_target_()
Target == IF pin > 1 /\ Size = start /\ pin <= Size THEN pin ELSE Size

\* Bug: off by one, the topmost of the hidden frames shows.
LookupLast(x) ==
    LET Visible(i) == ~(pin > 1 /\ pin < i /\ i < start)
    IN Max({i \in 1..Size : Visible(i) /\ x \in frames[i].bound} \cup {0})

\* The frame in which lookup() finds the name, from the top down; 0 if in none.
\* Under a pin it passes over the frames that lay above it when it was set.
Lookup(x) ==
    LET Visible(i) == ~(pin > 1 /\ pin < i /\ i <= start)
    IN Max({i \in 1..Size : Visible(i) /\ x \in frames[i].bound} \cup {0})

Push(r) ==
    /\ Size < MaxFrames
    /\ frames' = Append(frames, Empty(r))

\* pop_scope() n times.
Popped(n) == SubSeq(frames, 1, Max({1, Size - n}))

\* Bug: counted from 0 here and from 1 there.
PinBelow(p) ==
    IF p > 1 /\ p <= Size THEN pin' = p - 1 /\ start' = Size ELSE UNCHANGED <<pin, start>>

\* What a callback does with the frame at position p.
Pin(p) ==
    IF p > 1 /\ p <= Size THEN pin' = p /\ start' = Size ELSE UNCHANGED <<pin, start>>

-----------------------------------------------------------------------------
(***************************************************************************)
(* Contexts                                                                *)
(***************************************************************************)
Idle == ctx = <<>>
Cur  == Last(ctx)
In(kinds) == ~Idle /\ Cur.kind \in kinds

\* The innermost context that is not a call: whose statement runs.
BaseAt == SelectLastInSeq(ctx, LAMBDA c : c.kind # "call")
Base   == ctx[BaseAt]

\* base: the frames when it began.  clean: no frame was left on the stack by
\* what it has started or called.
Ctx(kind, r, clean) == [kind |-> kind, run |-> r, pin |-> pin, start |-> start,
                        base |-> Size, clean |-> clean]

Enter(c) ==
    /\ Len(ctx) < MaxNesting
    /\ ctx' = Append(ctx, c)

\* The innermost context ends and leaves n frames.
Leave(n) ==
    ctx' = [i \in 1..(Len(ctx) - 1) |->
              [ctx[i] EXCEPT !.clean = @ /\ n = Cur.base]]

\* The runs whose blocks are being executed.
Blocks == {ctx[i].run : i \in {j \in DOMAIN ctx : ctx[j].kind = "block"}}

\* start_process() of a block that does not run, from the command queue or by
\* a start statement, of another block perhaps: exec_stmt() of the block begins.
Start(n) ==
    /\ Idle \/ In(StartsFrom)
    /\ live[n] = 0
    /\ Len(runs) < MaxRuns
    /\ LET r == Len(runs) + 1
       IN /\ Enter(Ctx("block", r, TRUE))
          /\ Push(r)
          /\ runs' = Append(runs, [proc |-> n, frame |-> Size + 1, depth |-> 0, clean |-> TRUE,
                                   within |-> Blocks, popped |-> FALSE])
    /\ UNCHANGED <<pin, start, live, subs>>

\* The block ends.  With something temporal in it its frame stays, and the
\* process is entered in live_processes_; otherwise the top frame is popped,
\* which is another process's when the block has started one that stays.
BlockEnd ==
    /\ In({"block"})
    /\ LET r        == Cur.run
           temporal == \E k \in {"segment", "at"} : <<r, k>> \in subs
       IN /\ frames' = IF temporal THEN frames ELSE Popped(1)
          /\ Leave(Len(frames'))
          /\ live' = IF temporal THEN [live EXCEPT ![runs[r].proc] = r] ELSE live
          /\ runs' = [runs EXCEPT ![r].depth = Size, ![r].clean = Cur.clean,
                                  ![r].popped = ~temporal]
    /\ UNCHANGED <<pin, start, subs>>

\* A statement subscribes.  Segments are made by blocks; replaced ones, and
\* bindings without a pin, by a reload; delayed triggers where a binding or a
\* reaction of a segment runs; @-blocks and each loops anywhere.
Subscribe(kind) ==
    /\ In(CtxKinds \ {"call"})
    /\ CASE kind = "segment"  -> Cur.kind = "block"
         [] kind = "replaced" -> Cur.kind = "reload"
         [] kind = "delayed"  -> Cur.kind \in Pinned
         [] kind \in Unpinned -> TRUE
    /\ subs' = subs \cup {<<Cur.run, kind>>}
    /\ Cardinality(subs') <= MaxSubs
    /\ UNCHANGED <<env, ctx, runs, live>>

\* The scheduler calls back; @-handlers and delayed triggers are one-shots.
Callback(r, kind) ==
    /\ Idle /\ <<r, kind>> \in subs
    /\ Enter(Ctx(kind, r, kind = "replaced" => runs[r].clean))
    /\ subs' \in {subs, subs \ {<<r, kind>>}}
    /\ kind \in {"at", "delayed"} => subs' # subs
    /\ CASE kind \in {"segment", "delayed"} -> Pin(runs[r].frame)
         [] kind = "replaced"               -> Pin(runs[r].depth)
         [] kind \in Unpinned               -> UNCHANGED <<pin, start>>
    /\ UNCHANGED <<frames, runs, live>>

\* A callback returns, and restores the pin; or a reload does.
CallbackEnd ==
    /\ In(Callbacks \cup {"reload"})
    /\ Leave(Size)
    /\ pin' = Cur.pin /\ start' = Cur.start
    /\ UNCHANGED <<frames, runs, live, subs>>

\* A binding, an assignment, or a parameter of the function that is called.  What
\* the global scope binds is left out: a lookup that ends there is one that has
\* found nothing else.
Define(x) ==
    /\ ~Idle /\ Target > 1
    /\ frames' = [frames EXCEPT ![Target].bound = @ \cup {x}]
    /\ UNCHANGED <<pin, start, ctx, runs, live, subs>>

\* eval_user_function(), or the variable of an each loop: a frame of its own.
Call ==
    /\ ~Idle
    /\ Enter(Ctx("call", 0, TRUE))
    /\ Push(0)
    /\ UNCHANGED <<pin, start, runs, live, subs>>

Return ==
    /\ In({"call"})
    /\ frames' = Popped(1)
    /\ Leave(Len(frames'))
    /\ UNCHANGED <<pin, start, runs, live, subs>>

\* A stop in the function leaves all the calls as an exception, which the
\* statement catches; their frames stay on the stack.
CallStop ==
    /\ In({"call"})
    /\ ctx' = [SubSeq(ctx, 1, BaseAt) EXCEPT ![BaseAt].clean = FALSE]
    /\ UNCHANGED <<env, runs, live, subs>>

\* Bug: a stopped run takes its frame off the stack, as if it were on top.
StopPops(n) ==
    /\ Idle \/ In(CtxKinds \ {"call"})
    /\ live[n] # 0
    /\ frames' = Popped(1)
    /\ subs' = subs \ ({live[n]} \X {"segment", "replaced", "loop"})
    /\ live' = [live EXCEPT ![n] = 0]
    /\ UNCHANGED <<pin, start, ctx, runs>>

\* stop_process(), by a command or a statement.  @-handlers and delayed
\* triggers have no entry in its tables.
Stop(n) ==
    /\ Idle \/ In(CtxKinds \ {"call"})
    /\ live[n] # 0
    /\ subs' = subs \ ({live[n]} \X {"segment", "replaced", "loop"})
    /\ live' = [live EXCEPT ![n] = 0]
    /\ UNCHANGED <<env, ctx, runs>>

\* hot_reload() of a process that runs: it executes the new statements.
Reload(n) ==
    /\ Idle /\ live[n] # 0
    /\ Enter(Ctx("reload", live[n], TRUE))
    /\ UNCHANGED <<env, runs, live, subs>>

Next ==
    \/ \E n \in Names : Start(n) \/ Stop(n) \/ Reload(n)
    \/ BlockEnd
    \/ \E k \in Callbacks : Subscribe(k)
    \/ \E r \in Runs, k \in Callbacks : Callback(r, k)
    \/ CallbackEnd
    \/ \E x \in Vars : Define(x)
    \/ Call
    \/ Return
    \/ CallStop

Spec == Init /\ [][Next]_vars

-----------------------------------------------------------------------------
(***************************************************************************)
(* Properties                                                              *)
(***************************************************************************)

\* The variables keep their types, the global scope is never popped, and a pin
\* is set only while a callback runs.
TypeOK ==
    /\ frames \in Seq(Frame) /\ Size \in 1..MaxFrames
    /\ pin \in 0..MaxFrames /\ start \in 0..MaxFrames
    /\ \A i \in DOMAIN ctx : ctx[i].kind \in CtxKinds /\ ctx[i].run \in 0..Len(runs)
    /\ runs \in Seq([proc: Names, frame: 2..MaxFrames, depth: 0..MaxFrames, clean: BOOLEAN,
                      within: SUBSET Runs, popped: BOOLEAN])
    /\ live \in [Names -> 0..Len(runs)]
    /\ subs \subseteq (1..Len(runs)) \X Callbacks
    /\ pin # 0 => ~Idle

\* A run that was started in a block with nothing temporal of its own, which at
\* its end has taken a frame off that may be the run's: its positions are lost.
Orphaned(r) == \E o \in runs[r].within : runs[o].popped

\* evaluator.cpp:376: the position a process recorded is still that of its own
\* frame whenever a callback that pins it may come, whatever was started, stopped,
\* called or left by an exception since, unless it is orphaned; and so is the
\* scope_depth a reload uses, unless a frame was left above it by the block.
FrameInPlace ==
    /\ TypeOK
    /\ \A r \in 1..Len(runs), k \in Pinned : <<r, k>> \in subs =>
           /\ ~Orphaned(r) => runs[r].frame <= Size /\ frames[runs[r].frame].own = r
           /\ live[runs[r].proc] = r /\ runs[r].clean => runs[r].depth = runs[r].frame

\* evaluator.cpp:655 and the block itself: until something it starts or calls
\* leaves a frame behind, what runs in a block or in a pinned callback defines
\* its names in the process's frame or in that of the call it is in, finds its
\* process's names there, and never sees a process started later.
OwnFrame ==
    ~Idle /\ Base.clean /\ Base.kind \in Pinned \cup {"block"} /\ ~Orphaned(Base.run) =>
        LET f     == runs[Base.run].frame
            calls == Len(ctx) - BaseAt
        IN /\ Target = IF calls = 0 THEN f ELSE Size
           /\ \A x \in Vars :
                LET l == Lookup(x)
                IN /\ x \in frames[f].bound => l >= f
                   /\ l > f => l > Size - calls

\* The frame of a process that lies under another process's is written by the
\* statements of its own process only, and, when it was started in the block of
\* another, by what a reload of that other one re-created, whose scope_depth is
\* the size of the stack at the end of its block.  An orphaned run writes anywhere.
BuriedIsPrivate ==
    [][\A i \in 1..(Size - 1) :
         /\ i \in DOMAIN frames' /\ frames[i].own # 0
         /\ frames'[i].bound # frames[i].bound
         /\ \E j \in (i + 1)..Size : frames[j].own # 0
         => \/ Base.run = frames[i].own
            \/ Base.kind = "replaced" /\ Base.run \in runs[frames[i].own].within
            \/ Orphaned(Base.run)]_vars

=============================================================================
