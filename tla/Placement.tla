----------------------------- MODULE Placement ------------------------------
(***************************************************************************)
(* Every process block of a few statements, written one statement at a     *)
(* time, and where module Segments places its reactions.  Its definitions   *)
(* have names that module Instances leaves free: BlockProofs extends both.   *)
(***************************************************************************)
EXTENDS Segments

CONSTANTS
    Bound,      \* the names that temporal bindings may have
    Assigned,   \* the names that reactions may assign
    Intervals,  \* the dt a temporal call may have; 0: it never ticks
    MaxLength   \* bound: the statements of a block

ASSUME PlacementAssumption ==
    /\ NoVar \notin Bound \cup Assigned /\ Bound \cap Assigned = {}
    /\ Intervals \subseteq Nat /\ MaxLength \in Nat

VARIABLES
    block,  \* the statements
    segs    \* what starting it makes of them

PlacementInit == block = <<>> /\ segs = <<>>

Names == {block[k].var : k \in DOMAIN block} \ {NoVar}

Write(st) ==
    /\ Len(block) < MaxLength
    /\ block' = Append(block, st)
    /\ segs' = Started(block', 0)

WriteBinding == \E v \in Bound \ Names, dt \in Intervals : Write(Bind(v, "fn", dt))

\* One driver without a name is enough.
WriteDriver ==
    /\ \A k \in DOMAIN block : block[k].kind # "drive"
    /\ \E dt \in Intervals \ {0} : Write(Drive("fn", dt))

\* A reaction reads what is defined before it, at most two names of it.
WriteReaction ==
    /\ Places(Parsed(block, 0), Temporal) # {}
    /\ \E reads \in SUBSET Names, v \in Assigned \cup {NoVar} :
          Cardinality(reads) <= 2 /\ Write(React(v, reads))

PlacementNext == WriteBinding \/ WriteDriver \/ WriteReaction

PlacementSpec == PlacementInit /\ [][PlacementNext]_<<block, segs>>

-----------------------------------------------------------------------------
(***************************************************************************)
(* Properties                                                              *)
(***************************************************************************)
\* The variables keep their types: a segment for each temporal statement.
PlacementTypeOK ==
    /\ Len(block) <= MaxLength
    /\ \A k \in DOMAIN block :
         block[k] \in [kind: {"bind", "drive", "react"}, var: Bound \cup Assigned \cup {NoVar},
                       fn: {"fn", ""}, dt: Intervals \cup {0}, stated: BOOLEAN,
                       reads: SUBSET (Bound \cup Assigned)]
    /\ Len(segs) = Cardinality(Places(Parsed(block, 0), Temporal))
    /\ \A i \in DOMAIN segs : segs[i].var \in Bound \cup {NoVar} /\ segs[i].dt \in Intervals

Reactions == {k \in DOMAIN block : block[k].kind = "react"}
Node(k) == [node |-> <<0, k>>, st |-> block[k]]

LocalIn(k)  == {i \in DOMAIN segs : Contains(segs[i].reactions, Node(k))}
SharedIn(k) == {i \in DOMAIN segs : Contains(segs[i].shared, Node(k))}
PlacedIn(k) == LocalIn(k) \cup SharedIn(k)

\* The bindings that tick.
Ticking == {v \in Names \cap Bound : \E i \in DOMAIN segs : segs[i].var = v /\ segs[i].dt > 0}
SegOf(v) == CHOOSE i \in DOMAIN segs : segs[i].var = v

\* The reactions that assign v, and what reaction k depends on directly.
Producers(v)   == {k \in Reactions : block[k].var = v}
BindingsOf(k)  == {SegOf(v) : v \in block[k].reads \cap Ticking}
Producing(k)   == UNION {Producers(v) : v \in block[k].reads}

\* k depends on bindings, or on reactions that depend on nothing but bindings.
Shallow(k) ==
    \A p \in Producing(k) : block[p].reads \subseteq Bound /\ BindingsOf(p) # {}

\* The reference: a reaction runs whenever a binding ticks that it depends on,
\* directly or by a variable another reaction assigns, and at no other time.
PlacedAsDriven ==
    /\ PlacementTypeOK
    /\ \A k \in Reactions : Shallow(k) =>
         PlacedIn(k) = BindingsOf(k) \cup UNION {BindingsOf(p) : p \in Producing(k)}

\* However many of its segments tick together, a reaction runs once: it is local
\* to one segment or shared by all it is in, and in none of them twice.
OncePerEpoch ==
    \A k \in Reactions :
        /\ Cardinality(LocalIn(k)) <= 1
        /\ LocalIn(k) = {} \/ SharedIn(k) = {}
        /\ \A i \in DOMAIN segs :
             Cardinality({j \in DOMAIN segs[i].reactions \cup DOMAIN segs[i].shared :
                           \/ j \in DOMAIN segs[i].reactions /\ segs[i].reactions[j] = Node(k)
                           \/ j \in DOMAIN segs[i].shared /\ segs[i].shared[j] = Node(k)}) <= 1

Before(s, p, k) ==
    \A i, j \in DOMAIN s : s[i] = Node(p) /\ s[j] = Node(k) => i < j

\* k reads a binding that stands before all that p depends on.
ReadsEarlier(k, p) == \E i \in BindingsOf(k) : \A j \in BindingsOf(p) : i < j

\* A tick computes a variable before it uses it: of two reactions of one segment,
\* the one that assigns what the other reads comes first if it was written first,
\* whatever segments they were written under, unless the other reads an earlier
\* binding, too.  (evaluator.hpp:397 promises the shared ones "a fully consistent
\* snapshot" without that exception.)
SourceOrder ==
    \A k \in Reactions : Shallow(k) =>
        \A p \in Producing(k) : p < k /\ ~ReadsEarlier(k, p) =>
            \A i \in DOMAIN segs : Before(segs[i].reactions, p, k) /\ Before(segs[i].shared, p, k)
=============================================================================
