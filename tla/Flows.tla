------------------------------- MODULE Flows -------------------------------
(***************************************************************************)
(* Flows as the evaluator keeps them between the ticks of a process         *)
(* (evaluator.cpp): the cache of parametric flows, and the cursors of the    *)
(* places where a flow is indexed by a trigger.                             *)
(*                                                                          *)
(* A cursor belongs to its place in the text, a site, and not to the flow.  *)
(* It is kept twice: in flow_site_cursors_, by the site's node in the        *)
(* syntax tree, for what is walked, and in a slot of the segment's reaction *)
(* set, for what is compiled.  A reload replaces all the nodes, compiles     *)
(* again, and must carry the positions over.                                *)
(*                                                                          *)
(* There is one process.  A text is given as modules Segments and Placement *)
(* leave it: the reactions of each segment, and those that all segments      *)
(* share and that wait for the end of the epoch.  A reaction has one site;   *)
(* what has more is written as several.  What the elements of a flow are is  *)
(* left out; flows have a length.                                           *)
(***************************************************************************)
EXTENDS Lists

CONSTANTS
    Vars,       \* the triggers that the segments bind, in the order of the segments
    Texts,      \* the texts of the process: own[i] and shared, of reactions
    Static,     \* flows without parameters
    Parametric, \* flows with one
    Inner,      \* per parametric flow: one that its elements call, or NoFlow
    NoFlow,
    Args,       \* the values the parameter has
    Length,     \* per flow, argument and definition: its physical length
    Stale,      \* positions that a freed node's cursor may have been left at
    MaxCache,   \* FLOW_CACHE_MAX
    MaxTexts,   \* bound: texts evaluated
    MaxDefs     \* bound: definitions of flows in reloads

\* A reaction: kind "expr", "assign" or "on" (an on-block), whether the compiler takes
\* it, the flow it reads and the trigger it reads it with.
Reader == [kind: {"expr", "assign", "on"}, comp: BOOLEAN,
           flow: Static \cup Parametric, by: Range(Vars)]

Segs == DOMAIN Vars

\* Flows call each other one deep and have at least one element; the compiler takes
\* what has no parameter.
ASSUME FlowsAssumption ==
    /\ Vars \in Seq(Range(Vars))
    /\ \A t \in Texts : /\ t.own \in [Segs -> Seq(Reader)] /\ t.shared \in Seq(Reader)
                        /\ \A rs \in Range(t.own) : \A r \in Range(rs) : r.comp => r.flow \in Static
    /\ Static \cap Parametric = {} /\ NoFlow \notin Parametric
    /\ \A f \in Parametric : /\ Inner[f] \in Parametric \cup {NoFlow}
                             /\ Inner[f] \in Parametric => Inner[Inner[f]] = NoFlow
    /\ \A f \in Static \cup Parametric : \A x \in Args :
         \A d \in 1..(MaxDefs + 1) : Length[f][x][d] \in Nat \ {0}
    /\ MaxCache \in Nat \ {0} /\ Stale \subseteq Nat /\ MaxTexts \in Nat \ {0} /\ MaxDefs \in Nat

VARIABLES
    ver,       \* texts evaluated so far
    own,       \* per segment: rxn->reactions, with their nodes
    shared,    \* rxn->shared_reactions, the same in all
    up,        \* the process runs
    trig,      \* which triggers have fired in this epoch
    deferred,  \* epoch_deferred_: reactions, and whether their run goes on
    cell,      \* flow_site_cursors_: nodes to maps, which nodes may share
    pos,       \* the position in each map
    slots,     \* rxn->flow_cursors_ of the segments that are compiled
    defs,      \* how often each flow was defined
    cache,     \* flow_call_cache_: calls to the definition they were built from
    order      \* flow_cache_order_

text     == <<ver, own, shared>>
run      == <<up, trig, deferred>>
cursors  == <<cell, pos, slots>>
calls    == <<cache, order>>
flowVars == <<text, run, cursors, defs, calls>>

\* A list of reactions, the p-th of its text (0: the shared ones), when it is parsed
\* as the v-th text: each with its node.
ParsedAs(rs, p, v) == [k \in DOMAIN rs |-> [node |-> <<v, p, k>>, r |-> rs[k]]]

OwnOf(t, v)    == [i \in Segs |-> ParsedAs(t.own[i], i, v)]
SharedOf(t, v) == ParsedAs(t.shared, 0, v)

Empty     == [x \in {} |-> 0]
NoneFired == [v \in Range(Vars) |-> FALSE]

FlowsInit ==
    /\ ver = 1
    /\ \E t \in Texts : own = OwnOf(t, 1) /\ shared = SharedOf(t, 1)
    /\ up = FALSE /\ trig = NoneFired /\ deferred = <<>>
    /\ cell = Empty /\ pos = Empty /\ slots = [i \in Segs |-> <<>>]
    /\ defs = [f \in Static \cup Parametric |-> 1]
    /\ cache = Empty /\ order = <<>>

\* The reactions of a block in the order of its segments, and the nodes of some.
All(o, sh)  == FlattenSeq(o) \o sh
NodesOf(rs) == {rs[k].node : k \in DOMAIN rs}

With(fun, x, v)   == [y \in DOMAIN fun \cup {x} |-> IF y = x THEN v ELSE fun[y]]
Only(fun, S)      == [y \in DOMAIN fun \cap S |-> fun[y]]

-----------------------------------------------------------------------------
(***************************************************************************)
(* eval_flow_call().  s has the cache, its order, the cells and positions.  *)
(***************************************************************************)

\* A new entry; the one that was inserted first makes room.
Inserted(s, key) ==
    LET full == Cardinality(DOMAIN s.cache) >= MaxCache
        old  == IF full THEN Head(s.order) ELSE <<>>
    IN [s EXCEPT !.cache = With(Only(@, DOMAIN @ \ {old}), key, defs[key[1]]),
                 !.order = Append(IF full THEN Tail(@) ELSE @, key)]

Fetched(s, key) == IF key \in DOMAIN s.cache THEN s ELSE Inserted(s, key)

\* What the elements call is looked up first, and inserted first.
Called(s, f, x) ==
    IF <<f, x>> \in DOMAIN s.cache THEN s
    ELSE Inserted(IF Inner[f] = NoFlow THEN s ELSE Fetched(s, <<Inner[f], x>>), <<f, x>>)

-----------------------------------------------------------------------------
(***************************************************************************)
(* Reading a flow                                                          *)
(***************************************************************************)

\* The length of the flow at a site: a cached flow has that of its definition then.
LengthAt(c, f, x) == Length[f][x][IF f \in Static THEN defs[f] ELSE c[<<f, x>>]]

\* Where a cursor goes when it is read.
Stepped(cur, n, fires) == IF fires THEN (cur + 1) % n ELSE cur

\* eval_expr() at the site: the map of a node that has none is made.
Walked(s, site, x, tr) ==
    LET t == IF site.r.flow \in Static THEN s ELSE Called(s, site.r.flow, x)
        m == IF site.node \in DOMAIN t.cell THEN t.cell[site.node] ELSE site.node
        c == IF site.node \in DOMAIN t.cell THEN t.pos[m] ELSE 0
    IN [t EXCEPT !.cell = With(@, site.node, m),
                 !.pos  = With(@, m, Stepped(c, LengthAt(t.cache, site.r.flow, x), tr[site.r.by]))]

\* One site after the other.
WalkedAll(s, rs, x, tr) ==
    LET upTo[k \in 0..Len(rs)] == IF k = 0 THEN s ELSE Walked(upTo[k - 1], rs[k], x, tr)
    IN upTo[Len(rs)]

\* FLOW_INDEX of the machine; what it indexes has no parameter.
Executed(sl, rs, x, tr) ==
    [k \in DOMAIN sl |-> Stepped(sl[k], LengthAt(cache, rs[k].r.flow, x), tr[rs[k].r.by])]

\* compile_reaction_list(): all of the list or nothing.
Compiles(rs) == rs # <<>> /\ \A k \in DOMAIN rs : rs[k].r.comp

\* try_compile_reactions(): the slots begin where the maps are.
Slots(rs, c, p) ==
    IF Compiles(rs)
    THEN [k \in DOMAIN rs |-> IF rs[k].node \in DOMAIN c THEN p[c[rs[k].node]] ELSE 0]
    ELSE <<>>

State == [cache |-> cache, order |-> order, cell |-> cell, pos |-> pos]

\* Maps that no node reaches are of no use to anybody.
Becomes(s) ==
    /\ cache' = s.cache /\ order' = s.order /\ cell' = s.cell
    /\ pos' = Only(s.pos, {s.cell[n] : n \in DOMAIN s.cell})

-----------------------------------------------------------------------------
(***************************************************************************)
(* The process                                                             *)
(***************************************************************************)
\* start_process(): the cursors of the sites are erased, those in on-blocks are not.
Rewound(c) == Only(c, DOMAIN c \ {q.node : q \in {q \in Range(All(own, shared)) : q.r.kind # "on"}})

\* The block is executed once with all its triggers fired, then compiled.
StartProcess(x) ==
    /\ ~up
    /\ up' = TRUE /\ trig' = NoneFired
    /\ LET s == WalkedAll([State EXCEPT !.cell = Rewound(cell)], All(own, shared), x,
                          [v \in Range(Vars) |-> TRUE])
       IN /\ Becomes(s)
          /\ slots' = [i \in Segs |-> Slots(own[i], s.cell, s.pos)]
    /\ UNCHANGED <<text, deferred, defs>>

\* stop_process(): what is deferred stays in the list, and will be skipped.
StopProcess ==
    /\ up
    /\ up' = FALSE
    /\ deferred' = [i \in DOMAIN deferred |-> [deferred[i] EXCEPT !.alive = FALSE]]
    /\ UNCHANGED <<text, trig, cursors, defs, calls>>

\* Shared reactions that are not in the list yet: their nodes are compared.
Waiting == Picked(shared, {k \in DOMAIN shared : \A d \in Range(deferred) : d.q # shared[k]})

\* The callback of a segment, whose instance gives a trigger or a rest.
Tick(i, fires, x) ==
    /\ up
    /\ trig' = [trig EXCEPT ![Vars[i]] = fires]
    /\ IF Compiles(own[i])
       THEN /\ slots' = [slots EXCEPT ![i] = Executed(@, own[i], x, trig')]
            /\ UNCHANGED <<cell, pos, calls>>
       ELSE /\ Becomes(WalkedAll(State, own[i], x, trig'))
            /\ UNCHANGED slots
    /\ deferred' = deferred \o [k \in DOMAIN Waiting |-> [q |-> Waiting[k], alive |-> TRUE]]
    /\ UNCHANGED <<text, up, defs>>

\* The flush at the end of the epoch.
Flush(x) ==
    /\ deferred # <<>> \/ trig # NoneFired
    /\ LET alive == Picked(deferred, {k \in DOMAIN deferred : deferred[k].alive})
       IN Becomes(WalkedAll(State, [k \in DOMAIN alive |-> alive[k].q], x, trig))
    /\ deferred' = <<>>
    /\ trig' = NoneFired
    /\ UNCHANGED <<text, up, slots, defs>>

-----------------------------------------------------------------------------
(***************************************************************************)
(* Reloads                                                                 *)
(***************************************************************************)

\* Bug: the maps keep what they had when the reactions were compiled.
SyncedNot(s) == s

\* The positions of the slots go to the maps.
Put(s, node, at) ==
    LET m == IF node \in DOMAIN s.cell THEN s.cell[node] ELSE node
    IN [s EXCEPT !.cell = With(@, node, m), !.pos = With(@, m, at)]

Synced(s) ==
    LET at == FlattenSeq([i \in Segs |-> [k \in DOMAIN slots[i] |-> <<own[i][k].node, slots[i][k]>>]])
        upTo[k \in 0..Len(at)] == IF k = 0 THEN s ELSE Put(upTo[k - 1], at[k][1], at[k][2])
    IN upTo[Len(at)]

\* The new nodes of a segment take the maps of the old ones, place by place, when
\* there are as many.
Migrated(c, old, new) ==
    LET to == {k \in DOMAIN old : old[k].node \in DOMAIN c}
    IN IF Len(old) # Len(new) THEN c
       ELSE [n \in DOMAIN c \cup {new[k].node : k \in to} |->
               IF \E k \in to : new[k].node = n
               THEN c[old[CHOOSE k \in to : new[k].node = n].node] ELSE c[n]]

MigratedAll(c, o, sh) ==
    LET upTo[i \in 0..Len(Vars)] == IF i = 0 THEN c
                                    ELSE Migrated(upTo[i - 1], own[i] \o shared, o[i] \o sh)
    IN upTo[Len(Vars)]

\* Nodes that are freed leave their maps behind: a new node may lie where one lay.
FoundStale(s, nodes, at) ==
    IF at = {} THEN s
    ELSE LET old == CHOOSE p \in at : TRUE
         IN [s EXCEPT !.cell = [n \in DOMAIN @ \cup nodes |-> IF n \in nodes THEN n ELSE @[n]],
                      !.pos  = [n \in DOMAIN @ \cup nodes |-> IF n \in nodes THEN old ELSE @[n]]]

\* hot_reload() of the process: a new assignment is executed twice, to see whether
\* it makes an instance and then for real.
Reload(t, at, x) ==
    /\ up /\ ver < MaxTexts
    /\ ver' = ver + 1 /\ own' = OwnOf(t, ver') /\ shared' = SharedOf(t, ver')
    /\ LET new     == All(own', shared')
           assigns == Picked(new, {k \in DOMAIN new : new[k].r.kind = "assign"})
           s == Synced(WalkedAll(FoundStale(State, NodesOf(new), at), assigns \o assigns, x, trig))
           c == MigratedAll(s.cell, own', shared')
       IN /\ Becomes([s EXCEPT !.cell = Only(c, NodesOf(new) \cup {d.q.node : d \in Range(deferred)})])
          /\ slots' = [i \in Segs |-> Slots(own'[i], c, s.pos)]
    /\ UNCHANGED <<run, defs>>

\* Bug: the order keeps the calls that were thrown away.
PurgedCacheOnly(f) ==
    /\ cache' = Only(cache, {k \in DOMAIN cache : k[1] # f})
    /\ UNCHANGED order

\* The calls of a flow leave the cache.
Purged(f) ==
    /\ cache' = Only(cache, {k \in DOMAIN cache : k[1] # f})
    /\ order' = Picked(order, {k \in DOMAIN order : order[k][1] # f})

\* hot_reload() of a flow.
Define(f) ==
    /\ \A g \in DOMAIN defs : defs[g] <= MaxDefs
    /\ defs' = [defs EXCEPT ![f] = @ + 1]
    /\ Purged(f)
    /\ UNCHANGED <<text, run, cursors>>

FlowsNext ==
    \/ \E x \in Args : StartProcess(x)
    \/ StopProcess
    \/ \E i \in Segs : \E fires \in BOOLEAN : \E x \in Args : Tick(i, fires, x)
    \/ \E x \in Args : Flush(x)
    \/ \E t \in Texts : \E at \in {{}} \cup {{p} : p \in Stale} : \E x \in Args : Reload(t, at, x)
    \/ \E f \in Static \cup Parametric : Define(f)

FlowsSpec == FlowsInit /\ [][FlowsNext]_flowVars

-----------------------------------------------------------------------------
(***************************************************************************)
(* Properties                                                              *)
(***************************************************************************)

\* The variables keep their types; every node has its map, every compiled site its slot.
FlowsTypeOK ==
    /\ ver \in 1..MaxTexts /\ up \in BOOLEAN /\ trig \in [Range(Vars) -> BOOLEAN]
    /\ Range(cell) = DOMAIN pos /\ Range(pos) \subseteq Nat
    /\ up => \A i \in Segs : Len(slots[i]) = IF Compiles(own[i]) THEN Len(own[i]) ELSE 0
    /\ \A k \in DOMAIN cache : k[1] \in Parametric /\ k[2] \in Args

\* evaluator.hpp:71-73: the cache never has more than FLOW_CACHE_MAX calls, the
\* order names exactly those it has, each once, and none is of a flow that was
\* defined again since (doc/ch09_process_blocks.md:148).
CacheAgrees ==
    /\ FlowsTypeOK
    /\ Len(order) <= MaxCache
    /\ Range(order) = DOMAIN cache /\ Cardinality(DOMAIN cache) = Len(order)
    /\ \A k \in DOMAIN cache : cache[k] = defs[k[1]]

\* Where the sites of a segment stand, wherever that is kept; Unread if nowhere.
Unread == -1
Standing(i) ==
    LET at(q) == IF q.node \in DOMAIN cell THEN pos[cell[q.node]] ELSE Unread
    IN (IF Compiles(own[i]) THEN slots[i] ELSE [k \in DOMAIN own[i] |-> at(own[i][k])])
       \o [k \in DOMAIN shared |-> at(shared[k])]

Shape(i) == <<Len(own[i]), Len(shared)>>

\* Where a site stands after its first read from the start of the flow.
First(q) == {1 % n : n \in UNION {Range(Length[q.r.flow][x]) : x \in Args}}

\* evaluator.cpp:4692 and 3622: a reload that leaves a segment as many sites as it had
\* leaves each that was read where it stands, compiled or walked before and after; and
\* whatever was evaluated, compiled and stopped before, a start begins with the first
\* element, but in on-blocks.  Not so of all texts: line 5187 looks at the sum of both
\* numbers only, so that a shared site that an edit gives to each of two segments can
\* leave them one position for both.
CursorsContinue ==
    [][/\ ver' # ver => \A i \in Segs : Shape(i)' = Shape(i) =>
             \A k \in DOMAIN Standing(i) :
                 Standing(i)[k] # Unread => Standing(i)'[k] = Standing(i)[k]
       /\ ~up /\ up' => \A i \in Segs : \A k \in DOMAIN own[i] :
             own[i][k].r.kind # "on" => Standing(i)'[k] \in First(own[i][k])]_flowVars
=============================================================================
