----------------------------- MODULE HotReload ------------------------------
(***************************************************************************)
(* hot_reload() and diff_and_apply() of src/src/core/evaluator.cpp: a new   *)
(* text of a named process block is evaluated while the process runs, is    *)
(* paused or stopped, or was never started.  Commands and callbacks hold    *)
(* eval_mutex_ from end to end, so each is one step; between the            *)
(* scheduler's decision to call a subscription and the callback's lock a    *)
(* command may come.                                                        *)
(***************************************************************************)
EXTENDS Segments

CONSTANTS
    Blocks,        \* the texts of the process, each a sequence of statements
    WithArg,       \* the functions that are called with a temporal argument
    Timed,         \* whether the process has a duration
    MaxInstances,  \* bound: the temporal instances made
    MaxEdits,      \* bound: the texts evaluated
    ReloadStates   \* bound: the states of the process in which a text is sent

\* A binding has a name, which the text binds once, a driver has none, and both
\* have an interval, which nothing else states.
ASSUME HotReloadAssumption ==
    /\ \A b \in Blocks : b \in Seq(Range(b))
    /\ \A b \in Blocks : \A k \in DOMAIN b :
           IF b[k].kind \in Temporal
           THEN b[k].dt \in Nat \ {0} /\ (b[k].var = NoVar <=> b[k].kind # "bind")
           ELSE ~b[k].stated
    /\ \A b \in Blocks : \A k, l \in DOMAIN b :
           b[k].kind = "bind" /\ b[l].kind = "bind" /\ b[k].var = b[l].var => k = l
    /\ Timed \in BOOLEAN /\ MaxInstances \in Nat /\ MaxEdits \in Nat \ {0}

VARIABLES
    stored,    \* stored_processes_: the last text
    version,   \* its number
    state,     \* live_process.state, "none" before the first start
    segments,  \* live_process.segments, with the reactions of their sets
    inst,      \* the instances, with their subscriptions
    nextId,    \* next_instance_id_
    tracked,   \* active_process_instances_
    calling    \* the instance whose callback has begun, or 0

reloadVars == <<stored, version, state, segments, inst, nextId, tracked, calling>>

Ids == 1..MaxInstances

\* sub, arg: the subscriptions of the instance and of its temporal argument.
\* dt: dt_ms_.  expr: what the dt of instance_param_exprs_ evaluates to.
\* origin: what has made it, a start, a reload, or a reload of a stopped process.
Instance == [sub: {"none", "live", "paused", "gone"}, arg: {"none", "live", "paused", "gone"},
             active: BOOLEAN, dt: Nat, expr: Nat, origin: {"none", "start", "reload", "revived"}]

NoInstance == [sub |-> "none", arg |-> "none", active |-> FALSE, dt |-> 0, expr |-> 0,
               origin |-> "none"]

FreshInstance(fn, dt, origin) ==
    [sub |-> "live", arg |-> IF fn \in WithArg THEN "live" ELSE "none", active |-> TRUE,
     dt |-> dt, expr |-> dt, origin |-> origin]

Unsubscribed(sub) == IF sub = "none" THEN sub ELSE "gone"

HotReloadInit ==
    /\ stored \in Blocks /\ version = 1
    /\ state = "none"
    /\ segments = <<>>
    /\ inst = [k \in Ids |-> NoInstance] /\ nextId = 1
    /\ tracked = {}
    /\ calling = 0

IdsOf(s) == {s[i].id : i \in DOMAIN s}

\* The i-th segment gets the i-th of the numbers from first on.
Numbered(s, first) ==
    [i \in DOMAIN s |-> [id |-> first + i - 1, var |-> s[i].var, fn |-> s[i].fn, dt |-> s[i].dt,
                         reactions |-> s[i].reactions, shared |-> s[i].shared]]

(***************************************************************************)
(* Start, stop, pause, resume (see module Process)                         *)
(***************************************************************************)
StartRun ==
    /\ state \in {"none", "stopped"}
    /\ LET new == Numbered(Started(stored, version), nextId) IN
        /\ nextId' = nextId + Len(new) /\ nextId' <= MaxInstances + 1
        /\ segments' = new
        /\ inst' = [k \in Ids |->
                      IF k \in IdsOf(new)
                      THEN FreshInstance(new[k - nextId + 1].fn, new[k - nextId + 1].dt, "start")
                      ELSE inst[k]]
        /\ tracked' = tracked \cup IdsOf(new)
    /\ state' = "running"
    /\ UNCHANGED <<stored, version, calling>>

\* The argument of an instance that a reload made has no entry in tracked.
StopRun ==
    /\ tracked # {}
    /\ inst' = [k \in Ids |->
                  IF k \notin tracked THEN inst[k]
                  ELSE [inst[k] EXCEPT !.active = FALSE, !.sub = Unsubscribed(@),
                          !.arg = IF inst[k].origin = "start" THEN Unsubscribed(@) ELSE @]]
    /\ tracked' = {}
    /\ state' = "stopped"
    /\ UNCHANGED <<stored, version, segments, nextId, calling>>

\* The subscriptions with the tag of the process, which the argument of an
\* instance that a reload made has not.
Retagged(from, to) ==
    [k \in Ids |-> [inst[k] EXCEPT
        !.sub = IF @ = from THEN to ELSE @,
        !.arg = IF @ = from /\ inst[k].origin = "start" THEN to ELSE @]]

Pause ==
    /\ state = "running"
    /\ state' = "paused" /\ inst' = Retagged("live", "paused")
    /\ UNCHANGED <<stored, version, segments, nextId, tracked, calling>>

Resume ==
    /\ state = "paused"
    /\ state' = "running" /\ inst' = Retagged("paused", "live")
    /\ UNCHANGED <<stored, version, segments, nextId, tracked, calling>>

(***************************************************************************)
(* diff_and_apply()                                                        *)
(***************************************************************************)

\* What stands for a segment in the new text: a binding; also any other assignment
\* to the name of an old segment, which goes on as it was.
Anchors(ast) ==
    Places(ast, {"bind"}) \cup
    {k \in Places(ast, {"react"}) : \E i \in DOMAIN segments :
        segments[i].var # NoVar /\ segments[i].var = ast[k].st.var}

\* new_segs: the last place that stands for a name, and the reactions after it.
\* Reactions after a driver go to the last named segment.
AnchorsOf(ast, var) == {k \in Anchors(ast) : ast[k].st.var = var}
BindingOf(ast, var) ==
    LET A == AnchorsOf(ast, var) IN CHOOSE k \in A : \A l \in A : l <= k
ReactionsOf(ast, var) == After(ast, Anchors(ast), BindingOf(ast, var))

\* The statement of the new text that an unnamed segment is matched with: the
\* driver at the same position among the drivers, if there is one.
DriverOf(ast, i) ==
    LET drivers  == Picked(ast, Places(ast, {"drive", "on"}))
        position == Cardinality({j \in 1..i : segments[j].var = NoVar})
    IN IF position <= Len(drivers) THEN {drivers[position].st} ELSE {}

\* The statements of the new text for segment i: none or one.
CounterpartOf(ast, i) ==
    IF segments[i].var = NoVar THEN DriverOf(ast, i)
    ELSE IF AnchorsOf(ast, segments[i].var) # {} THEN {ast[BindingOf(ast, segments[i].var)].st} ELSE {}

\* The interval of segment i under st: the old one if st gives none.
NewDt(i, st) == IF st.stated THEN st.dt ELSE segments[i].dt

\* Bug: a binding whose interval changed is made anew.
KeepsSameDt(i, st) == st.kind \in {"on", "react"} \/ (st.fn = segments[i].fn /\ NewDt(i, st) = segments[i].dt)

\* The instance of segment i goes on as st.  The function of an on-block's
\* trigger is not looked at.
Keeps(i, st) == st.kind \in {"on", "react"} \/ st.fn = segments[i].fn

Survives(ast, i) == \E st \in CounterpartOf(ast, i) : Keeps(i, st)

\* A driver whose function changed is replaced where it stands.
Replaced(ast, i) == segments[i].var = NoVar /\ CounterpartOf(ast, i) # {} /\ ~Survives(ast, i)

\* A segment that survives: passes 0.5 and 1.
Survivor(ast, i) ==
    LET st == CHOOSE s \in CounterpartOf(ast, i) : TRUE IN
    [segments[i] EXCEPT !.dt = NewDt(i, st),
                        !.reactions = IF segments[i].var = NoVar THEN @
                                      ELSE ReactionsOf(ast, segments[i].var)]

\* A segment whose instance is new; its number comes later.
Blank(st, reactions) ==
    [id |-> 0, var |-> st.var, fn |-> st.fn, dt |-> st.dt, reactions |-> reactions, shared |-> <<>>]

\* Passes 0.5 and 1: the old segments that stay or are replaced.
Updated(ast) ==
    LET stay == Ordered({i \in DOMAIN segments : Survives(ast, i) \/ Replaced(ast, i)}, Len(segments))
    IN [j \in DOMAIN stay |->
          IF Survives(ast, stay[j]) THEN Survivor(ast, stay[j])
          ELSE Blank(CHOOSE st \in CounterpartOf(ast, stay[j]) : TRUE, <<>>)]

\* Pass 2: the bindings of the new text that no surviving segment has.
Added(ast) ==
    LET unbound == {k \in Places(ast, {"bind"}) :
                      ~\E i \in DOMAIN segments : segments[i].var = ast[k].st.var /\ Survives(ast, i)}
        bind == Ordered(unbound, Len(ast))
    IN [j \in DOMAIN bind |-> Blank(ast[bind[j]].st, ReactionsOf(ast, ast[bind[j]].st.var))]

\* The instances made get the next numbers.
WithNumbers(s) ==
    [i \in DOMAIN s |-> IF s[i].id # 0 THEN s[i]
                        ELSE [s[i] EXCEPT !.id =
                                nextId + Cardinality({j \in 1..(i - 1) : s[j].id = 0})]]

\* Bug: the argument is forgotten.
KilledAlone(k) == [inst[k] EXCEPT !.active = FALSE, !.sub = Unsubscribed(@)]

\* kill_instance()
Killed(k) == [inst[k] EXCEPT !.active = FALSE, !.sub = Unsubscribed(@), !.arg = Unsubscribed(@)]

\* Bug: the expression stays, and the next tick evaluates it.
AdjustedDt(ast, i) ==
    [inst[segments[i].id] EXCEPT !.dt = Survivor(ast, i).dt]

\* The interval of an instance that survives, if it changed: at the scheduler
\* and in the instance; the expression too, unless a call drives the segment.
Adjusted(ast, i) ==
    LET st == CHOOSE s \in CounterpartOf(ast, i) : TRUE
        k  == inst[segments[i].id]
    IN IF NewDt(i, st) = segments[i].dt THEN k
       ELSE [k EXCEPT !.dt = st.dt, !.expr = IF st.kind = "drive" THEN @ ELSE st.dt]

\* Bug: the reactions are not placed again.
AppliedInPlace(ast) == WithNumbers(Updated(ast) \o Added(ast))

\* The segments after all the passes.
Applied(ast) == Redistributed(WithNumbers(Updated(ast) \o Added(ast)))

\* The process is in live_processes_: whatever its state, the new text is applied
\* to its segments, and what is new is subscribed.
DiffAndApply(ast) ==
    \E new \in {Applied(ast)} :
    LET fresh == IdsOf(new) \ IdsOf(segments)
    IN /\ nextId' = nextId + Cardinality(fresh) /\ nextId' <= MaxInstances + 1
       /\ segments' = new
       /\ inst' = [k \in Ids |->
            IF k \in fresh
            THEN LET i == CHOOSE i \in DOMAIN new : new[i].id = k
                 IN FreshInstance(new[i].fn, new[i].dt, IF state = "stopped" THEN "revived" ELSE "reload")
            ELSE IF k \in IdsOf(segments)
            THEN LET i == CHOOSE i \in DOMAIN segments : segments[i].id = k IN
                 IF Survives(ast, i) THEN Adjusted(ast, i) ELSE Killed(k)
            ELSE inst[k]]
       /\ tracked' = tracked \cup fresh

ReloadText(block) ==
    /\ version < MaxEdits /\ state \in ReloadStates
    /\ stored' = block /\ version' = version + 1
    /\ IF state = "none" THEN UNCHANGED <<segments, inst, nextId, tracked>>
                         ELSE \E ast \in {Parsed(block, version')} : DiffAndApply(ast)
    /\ UNCHANGED <<state, calling>>

(***************************************************************************)
(* The clock thread                                                        *)
(***************************************************************************)
Begin(k) ==
    /\ calling = 0 /\ inst[k].sub = "live"
    /\ calling' = k
    /\ UNCHANGED <<stored, version, state, segments, inst, nextId, tracked>>

Returned(new) ==
    /\ calling' = 0 /\ inst' = [inst EXCEPT ![calling] = new]
    /\ UNCHANGED <<stored, version, state, segments, nextId, tracked>>

\* The duration is over, which only the callbacks of a start look at.
Expire ==
    /\ calling # 0 /\ Timed /\ inst[calling].origin = "start"
    /\ Returned([inst[calling] EXCEPT !.active = FALSE, !.sub = "gone"])

InactiveTick ==
    /\ calling # 0 /\ ~inst[calling].active
    /\ Returned([inst[calling] EXCEPT !.sub = "gone"])

\* tick_instance() evaluates the expression of dt; the instance may stop itself,
\* of which the callback that a reload made takes notice at its next tick.
SegmentTick(stops) ==
    /\ calling # 0 /\ inst[calling].active
    /\ Returned([inst[calling] EXCEPT
                    !.dt = inst[calling].expr, !.active = ~stops,
                    !.sub = IF stops /\ inst[calling].origin = "start" THEN "gone" ELSE @])

HotReloadNext ==
    \/ StartRun \/ StopRun \/ Pause \/ Resume
    \/ \E b \in Blocks : ReloadText(b)
    \/ \E k \in Ids : Begin(k)
    \/ Expire \/ InactiveTick \/ \E b \in BOOLEAN : SegmentTick(b)

HotReloadSpec == HotReloadInit /\ [][HotReloadNext]_reloadVars

-----------------------------------------------------------------------------
(***************************************************************************)
(* Properties                                                              *)
(***************************************************************************)
\* The variables keep their types; no two segments share an instance.
HotReloadTypeOK ==
    /\ stored \in Blocks /\ version \in 1..MaxEdits
    /\ state \in {"none", "running", "paused", "stopped"}
    /\ inst \in [Ids -> Instance]
    /\ nextId \in 1..(MaxInstances + 1) /\ \A k \in nextId..MaxInstances : inst[k] = NoInstance
    /\ IdsOf(segments) \cup tracked \subseteq 1..(nextId - 1)
    /\ Cardinality(IdsOf(segments)) = Len(segments)
    /\ calling \in 0..(nextId - 1)

\* What a segment is, apart from its instance.
Outline(s) ==
    {[var |-> s[i].var, fn |-> s[i].fn, dt |-> s[i].dt,
      reactions |-> ToSet(s[i].reactions), shared |-> ToSet(s[i].shared)] : i \in DOMAIN s}

\* A segment goes on with what the stored text does not say: its name is assigned
\* something that is not temporal, the trigger of its on-block has another function,
\* or its interval is that of an earlier text.
GoesOn(i) ==
    \E st \in CounterpartOf(Parsed(stored, version), i) :
        \/ st.kind \in {"on", "react"} /\ st.fn # segments[i].fn
        \/ ~st.stated /\ st.dt # segments[i].dt

\* A process that was edited while it ran is the process that a start of its last
\* text would make: the same bindings with the same functions and intervals, each
\* with the same reactions of that text, shared by the same segments; except when
\* a segment goes on with what the text does not say.
LikeRestart ==
    state # "none" /\ (\A i \in DOMAIN segments : ~GoesOn(i)) =>
        Outline(segments) = Outline(Started(stored, version))

\* The interval of an instance is that of its segment, and no tick takes it back;
\* except that of a driver, which the next tick may set to its old expression.
IntervalSticks ==
    \A i \in DOMAIN segments :
        LET k == inst[segments[i].id]
        IN IF segments[i].var # NoVar THEN {k.dt, k.expr} = {segments[i].dt}
           ELSE k.dt \in {segments[i].dt, k.expr}

Alive(k) == inst[k].sub \in {"live", "paused"}

\* Whatever is alive is tracked, where a stop finds it, and belongs to a segment
\* of the process, where the next reload does: nothing removed or replaced ticks
\* on, also if its callback had begun.  Only what a reload of a stopped process
\* has made may be no segment's, once the process is started again.  The argument
\* that a start made for an instance goes with it.
NothingLeftBehind ==
    /\ HotReloadTypeOK
    /\ \A k \in Ids :
         /\ Alive(k) \/ inst[k].active =>
              k \in tracked /\ (inst[k].origin # "revived" => k \in IdsOf(segments))
         /\ inst[k].arg \in {"live", "paused"} /\ inst[k].origin = "start" =>
              k \in IdsOf(segments) /\ k \in tracked

\* A reload leaves alone the instances whose binding, or driver, has the same
\* function in the new text: no gap, no restart, whatever state they are in.
SurvivorsUntouched ==
    [][version' # version /\ state # "none" =>
         \A i \in DOMAIN segments :
            (\E st \in CounterpartOf(Parsed(stored', version'), i) : st.fn = segments[i].fn) =>
                LET k == segments[i].id IN
                /\ k \in IdsOf(segments')
                /\ inst'[k].sub = inst[k].sub /\ inst'[k].arg = inst[k].arg
                /\ inst'[k].active = inst[k].active]_reloadVars

=============================================================================
