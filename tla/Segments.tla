------------------------------ MODULE Segments ------------------------------
(***************************************************************************)
(* How the evaluator places the statements of a process block              *)
(* (src/src/core/evaluator.cpp): exec_stmt() gives every statement that     *)
(* creates a temporal instance a segment and hands the statements after it  *)
(* to that segment as reactions; redistribute_reactions() then moves each   *)
(* reaction to the segments whose variables it depends on.                  *)
(*                                                                          *)
(* A statement is a record.  kind: "bind" (var = fn(..), temporal), "drive" *)
(* (a call that drives an unnamed segment, as kick(metro(.5b))), "on" (an   *)
(* on-block with a temporal trigger, unnamed too) or "react" (anything      *)
(* else).  var: the name it binds or assigns, or NoVar.  fn, dt: of the     *)
(* temporal call.  stated: whether dt is an argument of it or the default   *)
(* of the function.  reads: the names collect_stmt_ids() finds in it.       *)
(***************************************************************************)
EXTENDS Lists

CONSTANT NoVar

Creating(kind, var, fn, dt) ==
    [kind |-> kind, var |-> var, fn |-> fn, dt |-> dt, stated |-> TRUE, reads |-> {}]

Bind(var, fn, dt) == Creating("bind", var, fn, dt)
Drive(fn, dt)     == Creating("drive", NoVar, fn, dt)
On(fn, dt)        == Creating("on", NoVar, fn, dt)
Defaulted(st)     == [st EXCEPT !.stated = FALSE]
React(var, reads) ==
    [kind |-> "react", var |-> var, fn |-> "", dt |-> 0, stated |-> FALSE, reads |-> reads]

\* The AST of a block: each statement with its node.
Parsed(block, ver) == [k \in DOMAIN block |-> [node |-> <<ver, k>>, st |-> block[k]]]

(***************************************************************************)
(* exec_stmt() of a process block                                          *)
(***************************************************************************)

\* The places of ast where one of the kinds stands.
Places(ast, kinds) == {k \in DOMAIN ast : ast[k].st.kind \in kinds}
Temporal == {"bind", "drive", "on"}

\* The reactions after place k, as far as the next place of K.
After(ast, K, k) ==
    Picked(ast, {j \in DOMAIN ast : /\ j > k /\ ast[j].st.kind = "react"
                                    /\ \A i \in K : i <= k \/ i > j})

\* The segments of a block: var, fn and dt of the instance, and the reactions.
\* What stands before the first segment has run once and is in none.
Collected(ast) ==
    LET K == Places(ast, Temporal)
        order == Ordered(K, Len(ast))
    IN [i \in DOMAIN order |->
          [var |-> ast[order[i]].st.var, fn |-> ast[order[i]].st.fn, dt |-> ast[order[i]].st.dt,
           reactions |-> After(ast, K, order[i]), shared |-> <<>>]]

(***************************************************************************)
(* redistribute_reactions()                                                *)
(*                                                                          *)
(* homes is var_to_seg, all is var_all_segs, work the reactions per segment *)
(***************************************************************************)
NoneAll == [v \in {} |-> {}]

\* The last segment that binds a variable is its home.
BoundHomes(segs) ==
    [v \in {segs[i].var : i \in DOMAIN segs} \ {NoVar} |->
        LET i == CHOOSE i \in DOMAIN segs :
                    segs[i].var = v /\ \A j \in DOMAIN segs : segs[j].var = v => j <= i
        IN [seg |-> i, dt |-> segs[i].dt]]

\* Bug: an assigned variable counts for its fastest segment only.
RefSegsFastest(r, homes, all) ==
    {homes[v].seg : v \in {u \in r.st.reads \cap DOMAIN homes : homes[u].dt > 0}}

\* ref_segs: every segment that something the reaction reads depends on.
RefSegs(r, homes, all) ==
    UNION {IF v \in DOMAIN all /\ Cardinality(all[v]) > 1 THEN all[v]
           ELSE IF homes[v].dt > 0 THEN {homes[v].seg} ELSE {}
             : v \in r.st.reads \cap DOMAIN homes}

\* Where one pass puts a reaction of segment i.
Targets(r, i, homes, all, drop) ==
    IF RefSegs(r, homes, all) = {} THEN (IF drop THEN {} ELSE {i}) ELSE RefSegs(r, homes, all)

\* Bug: the last of several stays.
DeduplicatedLast(s) ==
    Picked(s, {j \in DOMAIN s : \A i \in DOMAIN s : i > j => s[i] # s[j]})

\* The first of several stays.
Deduplicated(s) ==
    Picked(s, {j \in DOMAIN s : \A i \in DOMAIN s : i < j => s[i] # s[j]})

\* The reactions of segment i that go to segment t.
Sent(work, i, t, homes, all, drop) ==
    Picked(work[i], {j \in DOMAIN work[i] : t \in Targets(work[i][j], i, homes, all, drop)})

OnePass(segs, work, homes, all, drop) ==
    LET List(t) == Deduplicated(FlattenSeq([i \in DOMAIN segs |-> Sent(work, i, t, homes, all, drop)]))
    IN Listed([t \in DOMAIN segs |-> List(t)])

\* The ticking segments with a reaction that assigns v.
Assigners(segs, work, v) ==
    {i \in DOMAIN segs : segs[i].dt > 0 /\ \E r \in ToSet(work[i]) : r.st.var = v}

AllSegs(segs, work) ==
    LET vs == {v \in (UNION {{r.st.var : r \in ToSet(work[i])} : i \in DOMAIN segs}) \ {NoVar} :
                 Assigners(segs, work, v) # {}}
    IN [v \in vs |-> Assigners(segs, work, v)]

\* The first of the fastest.
Fastest(segs, S) == CHOOSE i \in S : \A j \in S \ {i} :
                       \/ segs[i].dt < segs[j].dt
                       \/ segs[i].dt = segs[j].dt /\ i < j

\* A variable that reactions assign gets a home, or a faster one.
AugmentedHomes(segs, homes, all) ==
    [v \in DOMAIN homes \cup DOMAIN all |->
        IF v \in DOMAIN all /\ (v \in DOMAIN homes => segs[Fastest(segs, all[v])].dt < homes[v].dt)
        THEN [seg |-> Fastest(segs, all[v]), dt |-> segs[Fastest(segs, all[v])].dt]
        ELSE homes[v]]

\* Both passes: the reactions of each segment.
Distributed(segs) ==
    LET work  == OnePass(segs, Listed([i \in DOMAIN segs |-> segs[i].reactions]), BoundHomes(segs), NoneAll, FALSE)
        all   == AllSegs(segs, work)
    IN OnePass(segs, work, AugmentedHomes(segs, BoundHomes(segs), all), all, TRUE)

\* Bug: nothing is separated.
RedistributedLocal(segs) ==
    [i \in DOMAIN segs |-> [segs[i] EXCEPT !.reactions = Distributed(segs)[i]]]

\* Those of more than one segment are shared: they run at the end of an epoch.
Redistributed(segs) ==
    LET lists == Distributed(segs)
        Common(i) == {j \in DOMAIN lists[i] :
                          \E k \in DOMAIN segs \ {i} : Contains(lists[k], lists[i][j])}
    IN [i \in DOMAIN segs |->
          [segs[i] EXCEPT !.reactions = Picked(lists[i], DOMAIN lists[i] \ Common(i)),
                          !.shared    = Picked(lists[i], Common(i))]]

\* What starting a block makes of it.
Started(block, ver) == Redistributed(Collected(Parsed(block, ver)))
=============================================================================
