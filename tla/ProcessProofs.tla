--------------------------- MODULE ProcessProofs ---------------------------
(***************************************************************************)
(* Theorems about module Process, for every value of its constants.         *)
(***************************************************************************)
EXTENDS Process, FiniteSetTheorems, TLAPS

-----------------------------------------------------------------------------
(***************************************************************************)
(* The inductive invariant                                                  *)
(***************************************************************************)

\* What the numbers stand for: those above MaxSubs for flushes, which are never
\* paused or cancelled, those given out so far for what a process makes.
Numbered ==
    /\ \A f \in FlushIds : subs[f].kind = "flush" /\ subs[f].st \in {"live", "gone"}
    /\ \A s \in 1..(nextId - 1) :
         /\ subs[s].kind # "flush"
         /\ subs[s].kind \in {"segment", "arg", "flow"} => subs[s].proc \in Names

\* Where the clock thread is, and in the callback of what.
Calling ==
    /\ pc = "idle" <=> cur = 0
    /\ pc # "idle" => cur \in FlushIds \/ cur < nextId
    /\ pc \in {"reactions", "catches"} => subs[cur].kind = "segment"
    /\ pc = "handler" => subs[cur].kind \in {"at", "each"}
    /\ pc \in {"flush", "flushBody"} => cur \in FlushIds
    /\ cur \in FlushIds => subs[cur].st = "live"

\* The tables: who has an entry in active_process_instances_ runs or is paused,
\* and an active segment belongs to the run that is in the tables.
Tables ==
    /\ \A n \in Names : n \in DOMAIN tracked <=> live[n].state \in {"running", "paused"}
    /\ \A s \in active : subs[s].kind = "segment" =>
         LET n == subs[s].proc IN n \in DOMAIN tracked /\ s \in tracked[n] /\ s \in live[n].segs
    /\ ReachableByStop
    /\ PausedTogether

\* The flushes that are subscribed, and how many there can be: each start
\* forgets one at most.
Flushes == {f \in FlushIds : subs[f].st = "live"}
Flushing ==
    /\ flushPending => Flushes # {}
    /\ deferred # {} => pc = "catches" \/ Flushes # {}
    /\ Cardinality(Flushes) + (IF flushPending THEN 0 ELSE 1) <= nextId

\* A reaction that waits, or a segment whose reactions run, is of the present
\* run of its process or was cancelled.
Fresher ==
    /\ \A d \in deferred : d.seg \in cancelled \/ Current(d.proc, d.seg)
    /\ pc = "reactions" => cur \in cancelled \/ Current(subs[cur].proc, cur)

Inv == TypeOK /\ Numbered /\ Calling /\ Tables /\ Flushing /\ Fresher

-----------------------------------------------------------------------------
(***************************************************************************)
(* What the steps of a callback have in common                              *)
(***************************************************************************)

\* The subscription that is called was made, and what it is for is known.
LEMMA CalledSub ==
  ASSUME Inv, pc # "idle"
  PROVE  /\ cur \in SubIds /\ subs[cur] \in Sub
         /\ cur \in FlushIds <=> subs[cur].kind = "flush"
         /\ cur \notin FlushIds => cur \in 1..(nextId - 1) /\ cur \in SubIds \ FlushIds
         /\ subs[cur].kind \in {"segment", "arg", "flow"} => subs[cur].proc \in Names
<1>1. cur \in SubIds
  BY DEF Inv, TypeOK, Calling
<1>2. nextId \in Nat /\ nextId <= MaxSubs + 1 /\ MaxSubs \in Nat
  BY ProcessAssumption DEF Inv, TypeOK
<1>3. cur \in FlushIds => subs[cur].kind = "flush"
  BY DEF Inv, Numbered
<1>4. cur \notin FlushIds => cur \in 1..(nextId - 1)
  BY <1>1, <1>2 DEF Inv, Calling, SubIds, FlushIds
<1> QED BY <1>1, <1>3, <1>4 DEF Inv, TypeOK, Numbered

\* When nothing enters the tables and subscriptions only go, or are flushes, the
\* tables still agree.
LEMMA FadingTables ==
  ASSUME Inv, UNCHANGED <<tracked, eachSubs, live>>, active' \subseteq active,
         \A s \in SubIds :
            /\ subs'[s].kind = subs[s].kind
            /\ \/ subs[s].kind = "flush"
               \/ subs'[s].proc = subs[s].proc /\ subs'[s].st \in {subs[s].st, "gone"}
  PROVE  Tables'
<1>1. active \subseteq SubIds
  BY DEF Inv, TypeOK
<1>2. \A s \in SubIds : Ticking(s)' => Ticking(s) \/ subs[s].kind = "flush"
  BY DEF Ticking
<1>3. ReachableByStop'
  BY <1>2 DEF Inv, Tables, ReachableByStop
<1>4. PausedTogether'
  BY DEF Inv, Tables, PausedTogether
<1> QED BY <1>1, <1>3, <1>4 DEF Inv, Tables

\* Removing the subscription that is called leaves the others alone.
LEMMA RemovedSub ==
  ASSUME Inv, pc # "idle", Removed
  PROVE  /\ subs' \in [SubIds -> Sub]
         /\ \A s \in SubIds : s # cur => subs'[s] = subs[s]
         /\ subs'[cur].kind = subs[cur].kind /\ subs'[cur].proc = subs[cur].proc
         /\ subs'[cur].st = "gone"
BY CalledSub DEF Inv, TypeOK, Removed, Sub

\* The callback of anything but a flush ends: it is removed or kept, and its
\* instance may be deactivated.
LEMMA CallbackEndsInv ==
  ASSUME Inv, pc # "idle", pc # "catches", subs[cur].kind # "flush", Removed \/ Kept, Leave,
         active' \subseteq active, UNCHANGED <<nextId, tables, epoch>>
  PROVE  Inv'
<1>1. /\ subs' \in [SubIds -> Sub]
      /\ cur \in SubIds /\ cur \notin FlushIds /\ cur \in 1..(nextId - 1)
      /\ \A s \in SubIds : s # cur => subs'[s] = subs[s]
      /\ subs'[cur].kind = subs[cur].kind /\ subs'[cur].proc = subs[cur].proc
      /\ subs'[cur].st \in {subs[cur].st, "gone"}
  <2>1. CASE Removed
    BY <2>1, RemovedSub, CalledSub
  <2>2. CASE Kept
    BY <2>2, CalledSub DEF Inv, TypeOK, Kept
  <2> QED BY <2>1, <2>2
<1>2. pc' = "idle" /\ cur' = 0 /\ ~selfStopped' /\ selfStopped' \in BOOLEAN
  BY DEF Leave
<1>3. TypeOK'
  <2>1. \A s \in nextId..MaxSubs : s \in SubIds /\ s # cur
    BY <1>1, ProcessAssumption DEF Inv, TypeOK, SubIds
  <2>2. \A s \in nextId..MaxSubs : subs'[s] = NoSub
    BY <1>1, <2>1 DEF Inv, TypeOK
  <2> QED BY <1>1, <1>2, <2>2 DEF Inv, TypeOK, tables, epoch
<1>4. \A f \in FlushIds : f \in SubIds /\ subs'[f] = subs[f]
  BY <1>1, ProcessAssumption DEF FlushIds, SubIds
<1>5. Numbered'
  <2>1. 1..(nextId - 1) \subseteq SubIds
    BY ProcessAssumption DEF Inv, TypeOK, SubIds
  <2> QED BY <1>1, <1>4, <2>1 DEF Inv, Numbered
<1>6. Calling'
  BY <1>2, ProcessAssumption DEF Calling, FlushIds
<1>7. Tables'
  <2>1. \A s \in SubIds :
            /\ subs'[s].kind = subs[s].kind /\ subs'[s].proc = subs[s].proc
            /\ subs'[s].st \in {subs[s].st, "gone"}
    BY <1>1
  <2>2. UNCHANGED <<tracked, eachSubs, live>>
    BY DEF tables
  <2> QED BY <2>1, <2>2, FadingTables
<1>8. Flushing'
  <2>1. Flushes' = Flushes
    BY <1>4 DEF Flushes
  <2> QED BY <1>2, <2>1 DEF Inv, Flushing, epoch
<1>9. Fresher'
  BY <1>2 DEF Inv, Fresher, Current, tables, epoch
<1> QED BY <1>3, <1>5, <1>6, <1>7, <1>8, <1>9 DEF Inv

\* A step within a callback that touches neither the subscriptions nor the
\* tables.
LEMMA WithinInv ==
  ASSUME Inv, UNCHANGED <<subs, nextId, tables>>, active' \subseteq active, TypeOK', Calling',
         Flushing', Fresher'
  PROVE  Inv'
<1>1. Numbered'
  BY DEF Inv, Numbered
<1>2. Tables'
  <2>1. UNCHANGED <<tracked, eachSubs, live>>
    BY DEF tables
  <2> QED BY <2>1, FadingTables
<1> QED BY <1>1, <1>2 DEF Inv

-----------------------------------------------------------------------------
(***************************************************************************)
(* The steps of the clock thread                                            *)
(***************************************************************************)

\* What is live was made, or is a flush.
LEMMA BeginInv == ASSUME Inv, NEW s \in SubIds, Begin(s) PROVE Inv'
<1>1. s \in FlushIds \/ s < nextId
  <2>1. s \notin nextId..MaxSubs
    BY DEF Inv, TypeOK, Begin, NoSub
  <2> QED BY <2>1, ProcessAssumption DEF Inv, TypeOK, SubIds, FlushIds
<1>2. s # 0
  BY DEF SubIds
<1>3. TypeOK'
  BY DEF Begin, Inv, TypeOK, tables, epoch
<1>4. Calling'
  BY <1>1, <1>2 DEF Begin, Calling
<1>5. Flushing'
  BY DEF Begin, Inv, Flushing, Flushes, epoch
<1>6. Fresher'
  BY DEF Begin, Inv, Fresher, Current, tables, epoch
<1> QED BY <1>3, <1>4, <1>5, <1>6, WithinInv DEF Begin

\* The callback of an @-block gets the mutex.
LEMMA HandlerEnterInv == ASSUME Inv, HandlerEnter PROVE Inv'
<1>1. TypeOK'
  BY DEF HandlerEnter, Inv, TypeOK, tables, epoch
<1>2. Calling'
  BY CalledSub DEF HandlerEnter, Called, Inv, Calling
<1>3. Flushing'
  BY DEF HandlerEnter, Called, Inv, Flushing, Flushes, epoch
<1>4. Fresher'
  BY DEF HandlerEnter, Inv, Fresher, Current, tables, epoch
<1> QED BY <1>1, <1>2, <1>3, <1>4, WithinInv DEF HandlerEnter

\* The flush at the end of an epoch gets the mutex.
LEMMA FlushEnterInv == ASSUME Inv, FlushEnter PROVE Inv'
<1>1. TypeOK'
  BY DEF FlushEnter, Inv, TypeOK, tables, epoch
<1>2. Calling'
  BY CalledSub DEF FlushEnter, Called, Inv, Calling
<1>3. Flushing'
  BY DEF FlushEnter, Called, Inv, Flushing, Flushes, epoch
<1>4. Fresher'
  BY DEF FlushEnter, Inv, Fresher, Current, tables, epoch
<1> QED BY <1>1, <1>2, <1>3, <1>4, WithinInv DEF FlushEnter

\* Here eval_mutex_ is held and the instance is active: its process runs or is
\* paused, so its reactions are of the present run.
LEMMA TickIsCurrent ==
  ASSUME Inv, NEW stops \in BOOLEAN, SegmentTick(stops)
  PROVE  Current(subs[cur].proc, cur)
<1>1. /\ pc # "idle" /\ subs[cur].kind = "segment" /\ cur \in active
  BY DEF SegmentTick, Called
<1>2. subs[cur].proc \in DOMAIN tracked /\ cur \in live[subs[cur].proc].segs
  BY <1>1 DEF Inv, Tables
<1>3. subs[cur].proc \in Names
  BY <1>1, CalledSub
<1> QED BY <1>2, <1>3 DEF Inv, Tables, Current

\* A segment ticks.
LEMMA SegmentTickInv ==
  ASSUME Inv, NEW stops \in BOOLEAN, SegmentTick(stops) PROVE Inv'
<1>1. active' \subseteq active
  BY DEF SegmentTick
<1>2. TypeOK'
  BY <1>1 DEF SegmentTick, Inv, TypeOK, tables, epoch
<1>3. Calling'
  BY DEF SegmentTick, Called, Inv, Calling
<1>4. Flushing'
  BY DEF SegmentTick, Called, Inv, Flushing, Flushes, epoch
<1>5. Fresher'
  BY TickIsCurrent DEF SegmentTick, Inv, Fresher, Current, tables, epoch
<1> QED BY <1>1, <1>2, <1>3, <1>4, <1>5, WithinInv DEF SegmentTick

\* The reactions are done; the shared ones wait for the end of the epoch.
LEMMA SegmentCatchesInv ==
  ASSUME Inv, NEW shared \in BOOLEAN, SegmentCatches(shared) PROVE Inv'
<1>1. /\ pc # "idle" /\ subs[cur].kind = "segment"
      /\ deferred' \subseteq deferred \cup {[proc |-> subs[cur].proc, seg |-> cur]}
  BY DEF SegmentCatches, Inv, Calling
<1>2. subs[cur].proc \in Names /\ cur \in SubIds \ FlushIds
  BY <1>1, CalledSub
<1>3. TypeOK'
  BY <1>1, <1>2 DEF SegmentCatches, Inv, TypeOK, tables
<1>4. Calling'
  BY DEF SegmentCatches, Inv, Calling
<1>5. Flushing'
  BY DEF SegmentCatches, Inv, Flushing, Flushes
<1>6. Fresher'
  BY <1>1 DEF SegmentCatches, Inv, Fresher, Current, tables
<1> QED BY <1>3, <1>4, <1>5, <1>6, WithinInv DEF SegmentCatches

\* The flush that runs is still subscribed.
LEMMA FlushRunInv ==
  ASSUME Inv, NEW d \in deferred, FlushRun(d) PROVE Inv'
<1>1. pc \in {"flush", "flushBody"} /\ pc' \in {"flush", "flushBody"}
  BY DEF FlushRun, InFlush
<1>2. TypeOK'
  BY <1>1 DEF FlushRun, Inv, TypeOK, tables
<1>3. Calling'
  BY <1>1 DEF FlushRun, Inv, Calling
<1>4. Flushing'
  BY <1>1 DEF FlushRun, Inv, Calling, Flushing, Flushes
<1>5. Fresher'
  BY <1>1 DEF FlushRun, Inv, Fresher, Current, tables
<1> QED BY <1>2, <1>3, <1>4, <1>5, WithinInv DEF FlushRun

\* The callbacks that only end.
LEMMA EndingInv ==
  ASSUME Inv,
         \/ SegmentExpires \/ InactiveTick
         \/ \E b \in BOOLEAN : OwnedTick(b) \/ HandlerReturn(b)
  PROVE  Inv'
<1>1. CASE SegmentExpires
  BY <1>1, CallbackEndsInv DEF SegmentExpires, Called
<1>2. CASE InactiveTick
  BY <1>2, CallbackEndsInv DEF InactiveTick, Called
<1>3. ASSUME NEW b \in BOOLEAN, OwnedTick(b) PROVE Inv'
  BY <1>3, CallbackEndsInv DEF OwnedTick, Called
<1>4. ASSUME NEW b \in BOOLEAN, HandlerReturn(b) PROVE Inv'
  <2>1. pc = "handler" /\ subs[cur].kind # "flush"
    BY <1>4 DEF HandlerReturn, Inv, Calling
  <2> QED BY <1>4, <2>1, CallbackEndsInv DEF HandlerReturn
<1> QED BY <1>1, <1>2, <1>3, <1>4

\* There are more numbers for flushes than processes that were ever started.
LEMMA FlushNumbers ==
  ASSUME Inv
  PROVE  /\ IsFiniteSet(FlushIds) /\ Cardinality(FlushIds) = MaxSubs + 1
         /\ IsFiniteSet(Flushes) /\ Cardinality(Flushes) \in Nat /\ Flushes \subseteq FlushIds
         /\ ~flushPending => \E f \in FlushIds : subs[f].st = "gone"
<1>1. IsFiniteSet(FlushIds) /\ Cardinality(FlushIds) = MaxSubs + 1
  BY FS_Interval, ProcessAssumption DEF FlushIds
<1>2. Flushes \subseteq FlushIds
  BY DEF Flushes
<1>3. IsFiniteSet(Flushes) /\ Cardinality(Flushes) \in Nat
  BY <1>1, <1>2, FS_Subset, FS_CardinalityType
<1>4. ASSUME ~flushPending PROVE \E f \in FlushIds : subs[f].st = "gone"
  <2>1. Cardinality(Flushes) + 1 <= nextId
    BY <1>4 DEF Inv, Flushing
  <2>2. Cardinality(Flushes) # MaxSubs + 1
    BY <2>1, <1>3, ProcessAssumption DEF Inv, TypeOK
  <2>3. Flushes # FlushIds
    BY <2>2, <1>1
  <2>4. PICK f \in FlushIds : f \notin Flushes
    BY <2>3, <1>2
  <2> QED BY <2>4 DEF Inv, Numbered, Flushes
<1> QED BY <1>1, <1>2, <1>3, <1>4

\* The segment goes or stays, and a flush is subscribed unless one is pending.
LEMMA SegmentReturnInv == ASSUME Inv, SegmentReturn PROVE Inv'
<1> DEFINE kept == IF ~selfStopped /\ cur \in active THEN subs
                   ELSE [subs EXCEPT ![cur].st = "gone"]
           free == CHOOSE f \in FlushIds : subs[f].st = "gone"
<1>1. /\ pc = "catches" /\ pc' = "idle" /\ cur' = 0 /\ selfStopped' = FALSE
      /\ subs' = IF flushPending THEN kept ELSE [kept EXCEPT ![free] = New("flush", NoName)]
      /\ flushPending' = TRUE
      /\ UNCHANGED <<active, nextId, tracked, eachSubs, live, cancelled, deferred>>
  BY DEF SegmentReturn, Leave, tables
<1>2. cur \in SubIds /\ cur \notin FlushIds /\ cur \in 1..(nextId - 1) /\ subs[cur] \in Sub
  BY <1>1, CalledSub DEF Inv, Calling
<1>3. /\ kept \in [SubIds -> Sub]
      /\ \A s \in SubIds : s # cur => kept[s] = subs[s]
      /\ kept[cur].kind = subs[cur].kind /\ kept[cur].proc = subs[cur].proc
      /\ kept[cur].st \in {subs[cur].st, "gone"}
  BY <1>2 DEF Inv, TypeOK, Sub
<1>4. ~flushPending => free \in FlushIds /\ subs[free].st = "gone"
  BY FlushNumbers
<1> HIDE DEF kept, free
<1>5. FlushIds \subseteq SubIds /\ FlushIds \cap (1..MaxSubs) = {}
  BY ProcessAssumption DEF FlushIds, SubIds
<1>6. New("flush", NoName) \in Sub /\ New("flush", NoName) = [kind |-> "flush", proc |-> NoName, st |-> "live"]
  BY DEF New, Sub, Kinds
<1>7. /\ subs' \in [SubIds -> Sub]
      /\ \A s \in SubIds \ FlushIds : subs'[s] = kept[s]
      /\ flushPending => \A s \in FlushIds : subs'[s] = subs[s]
      /\ ~flushPending => \A s \in FlushIds :
            subs'[s] = IF s = free THEN New("flush", NoName) ELSE subs[s]
  BY <1>1, <1>2, <1>3, <1>4, <1>5, <1>6
<1>8. TypeOK'
  <2>1. \A s \in nextId..MaxSubs : s \in SubIds \ FlushIds /\ s # cur
    BY <1>2, ProcessAssumption DEF Inv, TypeOK, SubIds, FlushIds
  <2>2. \A s \in nextId..MaxSubs : subs'[s] = NoSub
    BY <1>3, <1>7, <2>1 DEF Inv, TypeOK
  <2> QED BY <1>1, <1>7, <2>2 DEF Inv, TypeOK
<1>9. \A s \in SubIds :
         /\ subs'[s].kind = subs[s].kind
         /\ \/ subs[s].kind = "flush"
            \/ subs'[s].proc = subs[s].proc /\ subs'[s].st \in {subs[s].st, "gone"}
  BY <1>3, <1>6, <1>7 DEF Inv, Numbered
<1>10. Tables'
  BY <1>1, <1>9, FadingTables
<1>11. Numbered'
  <2>1. \A s \in 1..(nextId - 1) : s \in SubIds \ FlushIds
    BY ProcessAssumption DEF Inv, TypeOK, SubIds, FlushIds
  <2>2. \A f \in FlushIds : subs'[f].kind = "flush" /\ subs'[f].st \in {"live", "gone"}
    BY <1>6, <1>7 DEF Inv, Numbered
  <2>3. \A s \in 1..(nextId - 1) :
          subs'[s].kind = subs[s].kind /\ subs'[s].proc = subs[s].proc
    BY <1>3, <1>7, <2>1
  <2> QED BY <1>1, <2>2, <2>3 DEF Inv, Numbered
<1>12. Calling'
  BY <1>1, ProcessAssumption DEF Calling, FlushIds
<1>13. Flushing'
  <2>1. CASE flushPending
    <3>1. Flushes' = Flushes
      BY <2>1, <1>7 DEF Flushes
    <3> QED BY <1>1, <2>1, <3>1 DEF Inv, Flushing
  <2>2. CASE ~flushPending
    <3>1. Flushes' = Flushes \cup {free} /\ free \notin Flushes
      BY <2>2, <1>4, <1>6, <1>7 DEF Flushes
    <3>2. Cardinality(Flushes') = Cardinality(Flushes) + 1
      BY <3>1, FlushNumbers, FS_AddElement
    <3>3. Cardinality(Flushes) + 1 <= nextId
      BY <2>2 DEF Inv, Flushing
    <3>4. Cardinality(Flushes') + 0 <= nextId
      BY <3>2, <3>3, FlushNumbers
    <3> QED BY <1>1, <3>1, <3>4 DEF Flushing
  <2> QED BY <2>1, <2>2
<1>14. Fresher'
  BY <1>1 DEF Inv, Fresher, Current
<1> QED BY <1>8, <1>10, <1>11, <1>12, <1>13, <1>14 DEF Inv

\* The flush that ran goes, and none is pending.
LEMMA FlushReturnInv == ASSUME Inv, FlushReturn PROVE Inv'
<1>1. /\ pc # "idle" /\ pc # "catches" /\ cur \in FlushIds /\ cur \in Flushes
      /\ pc' = "idle" /\ cur' = 0 /\ selfStopped' = FALSE /\ flushPending' = FALSE
      /\ deferred' = {}
      /\ UNCHANGED <<active, nextId, tracked, eachSubs, live, cancelled>>
  BY DEF FlushReturn, InFlush, Leave, tables, Inv, Calling, Flushes
<1>2. /\ subs' \in [SubIds -> Sub]
      /\ \A s \in SubIds : s # cur => subs'[s] = subs[s]
      /\ subs'[cur].kind = subs[cur].kind /\ subs'[cur].proc = subs[cur].proc
      /\ subs'[cur].st = "gone"
  BY <1>1, RemovedSub DEF FlushReturn
<1>3. FlushIds \subseteq SubIds /\ FlushIds \cap (1..MaxSubs) = {}
  BY ProcessAssumption DEF FlushIds, SubIds
<1>4. TypeOK'
  <2>1. \A s \in nextId..MaxSubs : s \in SubIds /\ s # cur
    BY <1>1, ProcessAssumption DEF Inv, TypeOK, SubIds, FlushIds
  <2>2. \A s \in nextId..MaxSubs : subs'[s] = NoSub
    BY <1>2, <2>1 DEF Inv, TypeOK
  <2> QED BY <1>1, <1>2, <2>2 DEF Inv, TypeOK
<1>5. Numbered'
  <2>1. \A s \in 1..(nextId - 1) : s \in SubIds /\ s # cur
    BY <1>1, ProcessAssumption DEF Inv, TypeOK, SubIds, FlushIds
  <2> QED BY <1>1, <1>2, <1>3, <2>1 DEF Inv, Numbered
<1>6. Calling'
  BY <1>1, ProcessAssumption DEF Calling, FlushIds
<1>7. Tables'
  <2>1. \A s \in SubIds :
         /\ subs'[s].kind = subs[s].kind
         /\ subs'[s].proc = subs[s].proc /\ subs'[s].st \in {subs[s].st, "gone"}
    BY <1>2
  <2> QED BY <1>1, <2>1, FadingTables
<1>8. Flushing'
  <2>1. Flushes' = Flushes \ {cur}
    BY <1>2, <1>3 DEF Flushes
  <2>2. Cardinality(Flushes') = Cardinality(Flushes) - 1
    BY <2>1, <1>1, FlushNumbers, FS_RemoveElement
  <2>3. Cardinality(Flushes) <= nextId
    BY FlushNumbers DEF Inv, Flushing, TypeOK
  <2>4. Cardinality(Flushes') + 1 <= nextId
    BY <2>2, <2>3, FlushNumbers
  <2> QED BY <1>1, <2>4 DEF Flushing
<1>9. Fresher'
  BY <1>1 DEF Fresher
<1> QED BY <1>4, <1>5, <1>6, <1>7, <1>8, <1>9 DEF Inv

-----------------------------------------------------------------------------
(***************************************************************************)
(* The control statements                                                   *)
(***************************************************************************)

\* A number given out was given out before, or just now.
LEMMA OldOrNew ==
  ASSUME NEW old \in Int, NEW new \in Int
  PROVE  \A s \in 1..(new - 1) : s \in 1..(old - 1) \/ s \in old..(new - 1)
OBVIOUS

\* Whatever a control statement does to the subscriptions, it makes numbers that
\* are new and leaves the flushes alone.
LEMMA MadeOnly ==
  ASSUME Inv, UNCHANGED clock, nextId' \in nextId..(MaxSubs + 1),
         \A f \in FlushIds : subs'[f] = subs[f],
         \A s \in 1..(nextId - 1) : subs'[s].kind = subs[s].kind /\ subs'[s].proc = subs[s].proc,
         \A s \in nextId..(nextId' - 1) :
            /\ subs'[s].kind # "flush"
            /\ subs'[s].kind \in {"segment", "arg", "flow"} => subs'[s].proc \in Names
  PROVE  /\ Numbered' /\ Calling' /\ Flushes' = Flushes
         /\ pc \in {"reactions", "catches"} => subs'[cur].proc = subs[cur].proc
<1>1. nextId \in Int /\ nextId' \in Int /\ nextId <= nextId'
  BY ProcessAssumption DEF Inv, TypeOK
<1>2. Flushes' = Flushes
  BY DEF Flushes
<1>3. Numbered'
  <2>1. \A s \in 1..(nextId' - 1) : s \in 1..(nextId - 1) \/ s \in nextId..(nextId' - 1)
    BY <1>1, OldOrNew
  <2>2. \A f \in FlushIds : subs'[f].kind = "flush" /\ subs'[f].st \in {"live", "gone"}
    BY DEF Inv, Numbered
  <2>3. \A s \in 1..(nextId - 1) :
          /\ subs'[s].kind # "flush"
          /\ subs'[s].kind \in {"segment", "arg", "flow"} => subs'[s].proc \in Names
    BY DEF Inv, Numbered
  <2> QED BY <2>1, <2>2, <2>3 DEF Numbered
<1>4. pc # "idle" => cur \in FlushIds \/ cur \in 1..(nextId - 1)
  BY CalledSub
<1>5. pc # "idle" => subs'[cur].kind = subs[cur].kind /\ subs'[cur].proc = subs[cur].proc
  BY <1>4
<1>6. Calling'
  <2>1. pc # "idle" => cur \in FlushIds \/ cur < nextId'
    BY <1>1, <1>4
  <2>2. cur \in FlushIds => subs'[cur].st = "live"
    BY DEF Inv, Calling
  <2> QED BY <2>1, <2>2, <1>5 DEF Inv, Calling, clock
<1> QED BY <1>2, <1>3, <1>5, <1>6

\* Subscribing one number of kind each or at.
LEMMA SubscribedInv ==
  ASSUME Inv, NEW kind \in {"each", "at"}, SubscribeOne(kind, CurrentProcess),
         UNCHANGED <<active, tracked, live, cancelled, epoch, clock>>,
         eachSubs' \in [Names -> SUBSET (SubIds \ FlushIds)],
         \A n \in Names : eachSubs[n] \subseteq eachSubs'[n],
         kind = "each" /\ CurrentProcess # NoName => nextId \in eachSubs'[CurrentProcess]
  PROVE  Inv'
<1>1. CurrentProcess \in Names \cup {NoName}
  BY CalledSub DEF CurrentProcess, Sub
<1>2. New(kind, CurrentProcess) = [kind |-> kind, proc |-> CurrentProcess, st |-> "live"]
  BY DEF New
<1>3. nextId \in 1..MaxSubs /\ nextId' = nextId + 1 /\ nextId \in SubIds /\ nextId \notin FlushIds
  BY ProcessAssumption DEF SubscribeOne, Inv, TypeOK, SubIds, FlushIds
<1>4. /\ subs' \in [SubIds -> Sub] /\ subs'[nextId] = New(kind, CurrentProcess)
      /\ \A s \in SubIds : s # nextId => subs'[s] = subs[s]
  BY <1>1, <1>2, <1>3 DEF SubscribeOne, Inv, TypeOK, Sub, Kinds
<1>5. TypeOK'
  <2>1. \A s \in (nextId + 1)..MaxSubs : s \in SubIds /\ s # nextId /\ s \in nextId..MaxSubs
    BY <1>3, ProcessAssumption DEF SubIds
  <2>2. \A s \in (nextId')..MaxSubs : subs'[s] = NoSub
    BY <1>3, <1>4, <2>1 DEF Inv, TypeOK
  <2>3. nextId' \in 1..(MaxSubs + 1)
    BY <1>3, ProcessAssumption
  <2> QED BY <1>4, <2>2, <2>3 DEF Inv, TypeOK, epoch, clock
<1>6. /\ Numbered' /\ Calling' /\ Flushes' = Flushes
      /\ pc \in {"reactions", "catches"} => subs'[cur].proc = subs[cur].proc
  <2>1. \A f \in FlushIds : subs'[f] = subs[f]
    <3>1. FlushIds \subseteq SubIds
      BY ProcessAssumption DEF FlushIds, SubIds
    <3> QED BY <1>3, <1>4, <3>1
  <2>2. \A s \in 1..(nextId - 1) : subs'[s] = subs[s]
    BY <1>3, <1>4, ProcessAssumption DEF SubIds
  <2>3. \A s \in nextId..(nextId' - 1) : s = nextId
    BY <1>3
  <2>4. nextId' \in nextId..(MaxSubs + 1)
    BY <1>3, ProcessAssumption
  <2>5. subs'[nextId].kind \in {"each", "at"}
    BY <1>2, <1>4
  <2> QED BY <2>1, <2>2, <2>3, <2>4, <2>5, MadeOnly
<1>7. Tables'
  <2>1. \A s \in SubIds : subs'[s].kind \in {"segment", "arg"} => subs'[s] = subs[s]
    BY <1>2, <1>4
  <2>2. \A s \in SubIds : subs'[s].kind = "each" =>
          \/ subs'[s] = subs[s]
          \/ s = nextId /\ kind = "each" /\ subs'[s].proc = CurrentProcess
    BY <1>2, <1>4
  <2>3. ReachableByStop'
    <3>1. \A s \in SubIds : Ticking(s)' /\ subs'[s].kind = "each" /\ subs'[s].proc # NoName =>
            s \in eachSubs'[subs'[s].proc]
      <4> SUFFICES ASSUME NEW s \in SubIds, Ticking(s)', subs'[s].kind = "each", subs'[s].proc # NoName
                   PROVE  s \in eachSubs'[subs'[s].proc]
        OBVIOUS
      <4>1. CASE subs'[s] = subs[s]
        <5>1. s \in eachSubs[subs[s].proc] /\ subs[s].proc \in Names
          BY <4>1 DEF Inv, Tables, ReachableByStop, Ticking, TypeOK, Sub
        <5> QED BY <4>1, <5>1
      <4> QED BY <2>2, <4>1
    <3> QED BY <2>1, <3>1 DEF Inv, Tables, ReachableByStop, Ticking
  <2>4. PausedTogether'
    BY <2>1 DEF Inv, Tables, PausedTogether
  <2>5. active \subseteq SubIds
    BY DEF Inv, TypeOK
  <2> QED BY <2>1, <2>3, <2>4, <2>5 DEF Inv, Tables
<1>8. Flushing'
  BY <1>3, <1>6, FlushNumbers DEF Inv, Flushing, epoch, clock, TypeOK
<1>9. Fresher'
  BY <1>6 DEF Inv, Fresher, Current, epoch, clock
<1> QED BY <1>5, <1>6, <1>7, <1>8, <1>9 DEF Inv

\* An each loop is subscribed by the block that runs.
LEMMA EachBlockInv == ASSUME Inv, EachBlock PROVE Inv'
<1>1. nextId \in SubIds \ FlushIds
  BY ProcessAssumption DEF EachBlock, SubscribeOne, Inv, TypeOK, SubIds, FlushIds
<1>2. CurrentProcess \in Names \cup {NoName}
  BY CalledSub DEF CurrentProcess, Sub
<1>3. /\ eachSubs' \in [Names -> SUBSET (SubIds \ FlushIds)]
      /\ \A n \in Names : eachSubs[n] \subseteq eachSubs'[n]
      /\ CurrentProcess # NoName => nextId \in eachSubs'[CurrentProcess]
  BY <1>1, <1>2 DEF EachBlock, Inv, TypeOK
<1> QED BY <1>3, SubscribedInv DEF EachBlock

\* An @-handler is.
LEMMA AtBlockInv == ASSUME Inv, AtBlock PROVE Inv'
<1>1. /\ SubscribeOne("at", CurrentProcess)
      /\ UNCHANGED <<active, tracked, eachSubs, live, cancelled, epoch, clock>>
  BY DEF AtBlock, tables
<1>2. eachSubs' \in [Names -> SUBSET (SubIds \ FlushIds)]
  BY <1>1 DEF Inv, TypeOK
<1> QED BY <1>1, <1>2, SubscribedInv

\* Pausing and resuming change the states of the subscriptions with the tag of
\* the process, which are never flushes.
LEMMA RetaggedSubs ==
  ASSUME Inv, NEW n \in Names, NEW from \in {"live", "paused"}, NEW to \in {"live", "paused"},
         subs' = Retagged(n, from, to)
  PROVE  /\ subs' \in [SubIds -> Sub]
         /\ \A s \in SubIds :
              /\ subs'[s].kind = subs[s].kind /\ subs'[s].proc = subs[s].proc
              /\ TagOf(s) = n /\ subs[s].st = from => subs'[s].st = to
              /\ ~(TagOf(s) = n /\ subs[s].st = from) => subs'[s] = subs[s]
         /\ \A f \in FlushIds : subs'[f] = subs[f]
         /\ \A s \in nextId..MaxSubs : subs'[s] = NoSub
<1>1. /\ subs' \in [SubIds -> Sub]
      /\ \A s \in SubIds :
           /\ subs'[s].kind = subs[s].kind /\ subs'[s].proc = subs[s].proc
           /\ TagOf(s) = n /\ subs[s].st = from => subs'[s].st = to
           /\ ~(TagOf(s) = n /\ subs[s].st = from) => subs'[s] = subs[s]
  BY DEF Retagged, Inv, TypeOK, Sub
<1>2. NoName \notin Names
  BY ProcessAssumption
<1>3. \A f \in FlushIds : f \in SubIds /\ TagOf(f) = NoName
  BY ProcessAssumption DEF Inv, Numbered, TagOf, FlushIds, SubIds
<1>4. \A f \in FlushIds : subs'[f] = subs[f]
  BY <1>1, <1>2, <1>3
<1>5. \A s \in nextId..MaxSubs : s \in SubIds /\ subs[s] = NoSub
  BY ProcessAssumption DEF Inv, TypeOK, SubIds
<1>6. \A s \in nextId..MaxSubs : TagOf(s) = NoName
  BY <1>5 DEF TagOf, NoSub
<1>7. \A s \in nextId..MaxSubs : subs'[s] = NoSub
  BY <1>1, <1>2, <1>5, <1>6
<1> QED BY <1>1, <1>4, <1>7

\* A running process is paused, or a paused one resumed, in both tables.
LEMMA RetagInv ==
  ASSUME Inv, NEW n \in Names,
         NEW from \in {"live", "paused"}, NEW to \in {"live", "paused"}, from # to,
         live[n].state = IF from = "live" THEN "running" ELSE "paused",
         live' = [live EXCEPT ![n].state = IF to = "live" THEN "running" ELSE "paused"],
         subs' = Retagged(n, from, to),
         UNCHANGED <<active, nextId, tracked, eachSubs, cancelled, epoch, clock>>
  PROVE  Inv'
<1>1. /\ subs' \in [SubIds -> Sub]
      /\ \A s \in SubIds :
           /\ subs'[s].kind = subs[s].kind /\ subs'[s].proc = subs[s].proc
           /\ TagOf(s) = n /\ subs[s].st = from => subs'[s].st = to
           /\ ~(TagOf(s) = n /\ subs[s].st = from) => subs'[s] = subs[s]
      /\ \A f \in FlushIds : subs'[f] = subs[f]
      /\ \A s \in nextId..MaxSubs : subs'[s] = NoSub
  BY RetaggedSubs
<1>2. /\ live' \in [Names -> [state: {"none", "running", "paused", "stopped"},
                              segs: SUBSET (SubIds \ FlushIds)]]
      /\ \A m \in Names : live'[m].segs = live[m].segs
      /\ live'[n].state = IF to = "live" THEN "running" ELSE "paused"
      /\ \A m \in Names : m # n => live'[m] = live[m]
  BY DEF Inv, TypeOK
<1>3. TypeOK'
  BY <1>1, <1>2 DEF Inv, TypeOK, epoch, clock
<1>4. /\ Numbered' /\ Calling' /\ Flushes' = Flushes
      /\ pc \in {"reactions", "catches"} => subs'[cur].proc = subs[cur].proc
  <2>1. \A s \in 1..(nextId - 1) : s \in SubIds
    BY ProcessAssumption DEF Inv, TypeOK, SubIds
  <2>2. \A s \in 1..(nextId - 1) : subs'[s].kind = subs[s].kind /\ subs'[s].proc = subs[s].proc
    BY <1>1, <2>1
  <2>3. nextId' \in nextId..(MaxSubs + 1) /\ nextId \in Int /\ nextId' = nextId
    BY ProcessAssumption DEF Inv, TypeOK
  <2>4. \A s \in nextId..(nextId' - 1) : FALSE
    BY <2>3
  <2> QED BY <1>1, <2>2, <2>3, <2>4, MadeOnly
<1>5. \A m \in Names : m \in DOMAIN tracked <=> live'[m].state \in {"running", "paused"}
  BY <1>2 DEF Inv, Tables
<1>6. \A s \in SubIds : Ticking(s)' => Ticking(s)
  BY <1>1 DEF Ticking
<1>7. ReachableByStop'
  BY <1>1, <1>2, <1>6 DEF Inv, Tables, ReachableByStop, TypeOK
<1>8. PausedTogether'
  <2> SUFFICES ASSUME NEW s \in SubIds, subs[s].kind \in {"segment", "arg"}
               PROVE  /\ subs'[s].st = "live" => live'[subs[s].proc].state # "paused"
                      /\ subs'[s].st = "paused" => live'[subs[s].proc].state # "running"
    BY <1>1 DEF PausedTogether
  <2>1. TagOf(s) = subs[s].proc
    BY DEF TagOf
  <2>2. CASE subs[s].proc = n
    BY <1>1, <1>2, <2>1, <2>2
  <2>3. CASE subs[s].proc # n
    <3>1. subs'[s] = subs[s]
      BY <1>1, <2>1, <2>3
    <3>2. subs[s].st \in {"live", "paused"} => subs[s].proc \in DOMAIN tracked
      BY DEF Inv, Tables, ReachableByStop, Ticking
    <3>3. subs[s].st \in {"live", "paused"} => live'[subs[s].proc] = live[subs[s].proc]
      BY <1>2, <2>3, <3>2 DEF Inv, TypeOK
    <3> QED BY <3>1, <3>3 DEF Inv, Tables, PausedTogether
  <2> QED BY <2>2, <2>3
<1>9. Tables'
  <2>1. active \subseteq SubIds
    BY DEF Inv, TypeOK
  <2>2. \A s \in active : subs'[s].kind = "segment" =>
         LET m == subs'[s].proc IN m \in DOMAIN tracked /\ s \in tracked[m] /\ s \in live'[m].segs
    BY <1>1, <1>2, <2>1 DEF Inv, Tables, TypeOK
  <2> QED BY <1>5, <1>7, <1>8, <2>2 DEF Tables
<1>10. Flushing'
  BY <1>4 DEF Inv, Flushing, epoch, clock
<1>11. Fresher'
  <2>1. \A m \in Names, s \in SubIds : Current(m, s) => Current(m, s)'
    BY <1>2 DEF Current
  <2>2. \A d \in deferred : d.proc \in Names /\ d.seg \in SubIds
    BY DEF Inv, TypeOK
  <2>3. pc = "reactions" => cur \in SubIds /\ subs[cur].proc \in Names
    BY CalledSub DEF Inv, Calling
  <2>4. deferred' = deferred /\ cancelled' = cancelled /\ pc' = pc /\ cur' = cur
    BY DEF epoch, clock
  <2>5. \A d \in deferred : d.seg \in cancelled \/ Current(d.proc, d.seg)'
    BY <2>1, <2>2 DEF Inv, Fresher
  <2>6. ASSUME pc = "reactions", cur \notin cancelled
        PROVE  Current(subs[cur].proc, cur)'
    <3>1. PICK m \in Names, s \in SubIds : m = subs[cur].proc /\ s = cur
      BY <2>3, <2>6
    <3>2. Current(m, s)'
      BY <2>1, <2>6, <3>1 DEF Inv, Fresher
    <3>3. subs'[cur'].proc = m /\ cur' = s
      BY <1>4, <2>4, <2>6, <3>1
    <3> QED BY <3>2, <3>3 DEF Current
  <2> QED BY <2>4, <2>5, <2>6 DEF Fresher
<1> QED BY <1>3, <1>4, <1>9, <1>10, <1>11 DEF Inv

\* pause_process().
LEMMA PauseInv == ASSUME Inv, NEW n \in Names, Pause(n) PROVE Inv'
BY RetagInv DEF Pause

\* resume_process().
LEMMA ResumeInv == ASSUME Inv, NEW n \in Names, Resume(n) PROVE Inv'
BY RetagInv DEF Resume

\* Stopping: what the processes N have in active_process_instances_ and in
\* process_each_subs_ is cancelled, and their segments' reactions with it.
LEMMA StopAllInv ==
  ASSUME Inv, NEW N \in SUBSET DOMAIN tracked, StopAll(N)
  PROVE  Inv'
<1> DEFINE ids   == UNION {tracked[n] : n \in N}
           loops == UNION {eachSubs[n] : n \in N}
           gone  == UNION {live[n].segs : n \in N}
<1>1. /\ active' = active \ ids
      /\ subs' = [s \in SubIds |-> IF s \in ids \cup loops THEN Unsubscribed(subs[s]) ELSE subs[s]]
      /\ tracked' = [n \in DOMAIN tracked \ N |-> tracked[n]]
      /\ eachSubs' = [n \in Names |-> IF n \in N THEN {} ELSE eachSubs[n]]
      /\ cancelled' = cancelled \cup gone
      /\ live' = [n \in Names |-> IF n \in N THEN [live[n] EXCEPT !.state = "stopped"] ELSE live[n]]
      /\ UNCHANGED <<nextId, deferred, flushPending, pc, cur, selfStopped>>
  BY DEF StopAll, epoch, clock
<1>2. N \subseteq Names /\ N \subseteq DOMAIN tracked
  BY DEF Inv, TypeOK
<1>3. /\ ids \subseteq SubIds \ FlushIds /\ loops \subseteq SubIds \ FlushIds
      /\ gone \subseteq SubIds \ FlushIds
      /\ \A n \in N : live[n].segs \subseteq gone /\ tracked[n] \subseteq ids /\ eachSubs[n] \subseteq loops
  BY <1>2 DEF Inv, TypeOK
<1> HIDE DEF ids, loops, gone
<1>4. /\ subs' \in [SubIds -> Sub]
      /\ \A s \in SubIds :
           /\ subs'[s].kind = subs[s].kind /\ subs'[s].proc = subs[s].proc
           /\ s \notin ids \cup loops => subs'[s] = subs[s]
           /\ s \in ids \cup loops => subs'[s].st \in {"cancelled", "gone"}
           /\ subs[s].st = "gone" => subs'[s] = subs[s]
  BY <1>1, SMTT(30) DEF Unsubscribed, Inv, TypeOK, Sub
<1>5. /\ live' \in [Names -> [state: {"none", "running", "paused", "stopped"},
                              segs: SUBSET (SubIds \ FlushIds)]]
      /\ \A n \in Names : n \in N => live'[n].state = "stopped"
      /\ \A n \in Names \ N : live'[n] = live[n]
  BY <1>1, <1>2 DEF Inv, TypeOK
<1>6. /\ DOMAIN tracked' = DOMAIN tracked \ N
      /\ \A n \in DOMAIN tracked \ N : tracked'[n] = tracked[n]
      /\ \A n \in Names \ N : eachSubs'[n] = eachSubs[n]
      /\ eachSubs' \in [Names -> SUBSET (SubIds \ FlushIds)]
  BY <1>1 DEF Inv, TypeOK
<1>7. \A f \in FlushIds : subs'[f] = subs[f]
  <2>1. FlushIds \subseteq SubIds
    BY ProcessAssumption DEF FlushIds, SubIds
  <2> QED BY <1>3, <1>4, <2>1
<1>8. TypeOK'
  <2>1. \A s \in nextId..MaxSubs : s \in SubIds /\ subs[s] = NoSub
    BY ProcessAssumption DEF Inv, TypeOK, SubIds
  <2>2. \A s \in nextId..MaxSubs : subs'[s] = NoSub
    BY <1>4, <2>1 DEF NoSub
  <2> QED BY <1>1, <1>3, <1>4, <1>5, <1>6, <2>2 DEF Inv, TypeOK
<1>9. /\ Numbered' /\ Calling' /\ Flushes' = Flushes
      /\ pc \in {"reactions", "catches"} => subs'[cur].proc = subs[cur].proc
  <2>1. \A s \in 1..(nextId - 1) : s \in SubIds
    BY ProcessAssumption DEF Inv, TypeOK, SubIds
  <2>2. \A s \in 1..(nextId - 1) : subs'[s].kind = subs[s].kind /\ subs'[s].proc = subs[s].proc
    BY <1>4, <2>1
  <2>3. nextId' \in nextId..(MaxSubs + 1) /\ nextId \in Int /\ nextId' = nextId
    BY <1>1, ProcessAssumption DEF Inv, TypeOK
  <2>4. \A s \in nextId..(nextId' - 1) : FALSE
    BY <2>3
  <2> QED BY <1>1, <1>7, <2>2, <2>3, <2>4, MadeOnly DEF clock
<1>10. Tables'
  <2>1. \A n \in Names : n \in DOMAIN tracked' <=> live'[n].state \in {"running", "paused"}
    BY <1>5, <1>6 DEF Inv, Tables
  <2>2. \A s \in active' : subs'[s].kind = "segment" =>
         LET n == subs'[s].proc IN n \in DOMAIN tracked' /\ s \in tracked'[n] /\ s \in live'[n].segs
    <3> SUFFICES ASSUME NEW s \in active', subs'[s].kind = "segment"
                 PROVE  LET n == subs'[s].proc
                        IN  n \in DOMAIN tracked' /\ s \in tracked'[n] /\ s \in live'[n].segs
      OBVIOUS
    <3>1. s \in active /\ s \in SubIds /\ s \notin ids
      BY <1>1 DEF Inv, TypeOK
    <3>2. PICK n \in Names : n = subs[s].proc /\ n = subs'[s].proc /\ n \in DOMAIN tracked
                             /\ s \in tracked[n] /\ s \in live[n].segs
      BY <1>4, <3>1 DEF Inv, Tables, TypeOK
    <3>3. n \notin N
      BY <1>3, <3>1, <3>2
    <3> QED BY <1>5, <1>6, <3>2, <3>3
  <2>3. \A s \in SubIds : Ticking(s)' => Ticking(s) /\ s \notin ids \cup loops
    BY <1>4 DEF Ticking
  <2>4. ReachableByStop'
    <3> SUFFICES ASSUME NEW s \in SubIds, Ticking(s)'
                 PROVE  LET n == subs'[s].proc IN
                        /\ subs'[s].kind \in {"segment", "arg"} => n \in DOMAIN tracked' /\ s \in tracked'[n]
                        /\ subs'[s].kind = "segment" => s \in live'[n].segs
                        /\ subs'[s].kind = "each" /\ n # NoName => s \in eachSubs'[n]
      BY DEF ReachableByStop
    <3>1. /\ Ticking(s) /\ s \notin ids /\ s \notin loops
          /\ subs'[s].kind = subs[s].kind /\ subs'[s].proc = subs[s].proc
      BY <1>4, <2>3
    <3>2. CASE subs[s].kind \in {"segment", "arg"}
      <4>1. PICK n \in Names : n = subs[s].proc /\ n \in DOMAIN tracked /\ s \in tracked[n]
        BY <3>1, <3>2 DEF Inv, Tables, ReachableByStop, TypeOK
      <4>2. n \notin N
        BY <1>3, <3>1, <4>1
      <4>3. subs[s].kind = "segment" => s \in live[n].segs
        BY <3>1, <4>1 DEF Inv, Tables, ReachableByStop
      <4> QED BY <1>5, <1>6, <3>1, <3>2, <4>1, <4>2, <4>3
    <3>3. CASE subs[s].kind = "each" /\ subs[s].proc # NoName
      <4>1. PICK n \in Names : n = subs[s].proc /\ s \in eachSubs[n]
        BY <3>1, <3>3 DEF Inv, Tables, ReachableByStop, TypeOK, Sub
      <4>2. n \notin N
        BY <1>3, <3>1, <4>1
      <4> QED BY <1>6, <3>1, <3>3, <4>1, <4>2
    <3> QED BY <3>1, <3>2, <3>3
  <2>5. PausedTogether'
    <3> SUFFICES ASSUME NEW s \in SubIds, subs'[s].kind \in {"segment", "arg"}, Ticking(s)'
                 PROVE  /\ subs'[s].st = "live" => live'[subs'[s].proc].state # "paused"
                        /\ subs'[s].st = "paused" => live'[subs'[s].proc].state # "running"
      BY DEF PausedTogether, Ticking
    <3>1. Ticking(s) /\ s \notin ids /\ subs'[s] = subs[s]
      BY <1>4, <2>3
    <3>2. PICK n \in Names : n = subs[s].proc /\ s \in tracked[n] /\ n \in DOMAIN tracked
      BY <3>1 DEF Inv, Tables, ReachableByStop, TypeOK
    <3>3. n \notin N
      BY <1>3, <3>1, <3>2
    <3> QED BY <1>5, <3>1, <3>2, <3>3 DEF Inv, Tables, PausedTogether
  <2> QED BY <2>1, <2>2, <2>4, <2>5 DEF Tables
<1>11. Flushing'
  BY <1>1, <1>9 DEF Inv, Flushing
<1>12. \A m \in Names, s \in SubIds : Current(m, s) => Current(m, s)' \/ s \in cancelled'
  BY <1>1, <1>3, <1>5 DEF Current
<1>13. Fresher'
  <2>1. \A d \in deferred : d.proc \in Names /\ d.seg \in SubIds
    BY DEF Inv, TypeOK
  <2>2. \A d \in deferred : d.seg \in cancelled' \/ Current(d.proc, d.seg)'
    BY <1>1, <1>12, <2>1 DEF Inv, Fresher
  <2>3. ASSUME pc = "reactions", cur \notin cancelled'
        PROVE  Current(subs[cur].proc, cur)'
    <3>1. PICK m \in Names, s \in SubIds : m = subs[cur].proc /\ s = cur
      BY <2>3, CalledSub DEF Inv, Calling
    <3>2. Current(m, s)'
      BY <1>1, <1>12, <2>3, <3>1 DEF Inv, Fresher
    <3>3. subs'[cur'].proc = m /\ cur' = s
      BY <1>1, <1>9, <2>3, <3>1
    <3> QED BY <3>2, <3>3 DEF Current
  <2> QED BY <1>1, <2>2, <2>3 DEF Fresher
<1> QED BY <1>8, <1>9, <1>10, <1>11, <1>13 DEF Inv

\* stop_process().
LEMMA StopInv == ASSUME Inv, NEW n \in Names, Stop(n) PROVE Inv'
BY StopAllInv DEF Stop

\* A stop without a name.
LEMMA BareStopInv == ASSUME Inv, BareStop PROVE Inv'
<1>1. CASE pc \in {"reactions", "catches"}
  <2>1. active' \subseteq active /\ UNCHANGED <<subs, nextId, tables, epoch, clock>>
    BY <1>1 DEF BareStop
  <2>2. TypeOK'
    BY <2>1 DEF Inv, TypeOK, tables, epoch, clock
  <2>3. Calling'
    BY <2>1 DEF Inv, Calling, clock
  <2>4. Flushing'
    BY <2>1 DEF Inv, Flushing, Flushes, epoch, clock
  <2>5. Fresher'
    BY <2>1 DEF Inv, Fresher, Current, tables, epoch, clock
  <2> QED BY <2>1, <2>2, <2>3, <2>4, <2>5, WithinInv
<1>2. CASE pc \notin {"reactions", "catches"}
  BY <1>2, StopAllInv DEF BareStop
<1> QED BY <1>1, <1>2

\* New numbers stay below the bound.
LEMMA NumbersBelow ==
  ASSUME NEW old \in Int, NEW new \in Int, NEW max \in Int, 1 <= old, new <= max + 1
  PROVE  \A s \in old..(new - 1) : s \in 1..max
OBVIOUS

\* And those not given out yet are none of them.
LEMMA NumbersAbove ==
  ASSUME NEW old \in Int, NEW new \in Int, NEW max \in Int, 1 <= old, old < new, 0 <= max
  PROVE  /\ (old..(new - 1)) \cap (1..(old - 1)) = {}
         /\ \A s \in new..max : s \in old..max /\ s \notin old..(new - 1) /\ s \in 1..(2 * max + 1)
OBVIOUS

\* What running a block makes: numbers never used before, all for the process,
\* of which the bindings and their arguments are in the tables.
LEMMA BlockMakes ==
  ASSUME Inv, NEW n \in Names, n \notin DOMAIN tracked, RunBlock(n)
  PROVE  /\ nextId' \in (nextId + 1)..(MaxSubs + 1)
         /\ subs' \in [SubIds -> Sub]
         /\ \A s \in SubIds : s \notin nextId..(nextId' - 1) => subs'[s] = subs[s]
         /\ \A s \in nextId..(nextId' - 1) :
              /\ s \in SubIds \ FlushIds
              /\ subs'[s].kind \in {"segment", "arg", "flow", "at"} /\ subs'[s].proc = n
              /\ subs'[s].st \in {"live", "gone"}
              /\ subs'[s].kind \in {"segment", "arg"} => s \in tracked'[n]
              /\ subs'[s].kind = "segment" => s \in live'[n].segs
         /\ active' \subseteq active \cup (nextId..(nextId' - 1))
         /\ DOMAIN tracked' = DOMAIN tracked \cup {n}
         /\ \A m \in DOMAIN tracked : tracked'[m] = tracked[m]
         /\ tracked'[n] \subseteq nextId..(nextId' - 1)
         /\ live'[n].state = "running" /\ live'[n].segs \subseteq nextId..(nextId' - 1)
         /\ \A m \in Names : m # n => live'[m] = live[m]
         /\ live' = [live EXCEPT ![n] = [state |-> "running", segs |-> live'[n].segs]]
         /\ flushPending' = FALSE
<1> DEFINE b     == Body[n]
           segs  == Fresh(0, b.segs)
           args  == Fresh(b.segs, b.args)
           flows == Fresh(b.segs + b.args, b.flows)
           ats   == Fresh(b.segs + b.args + b.flows, b.ats)
           made  == nextId..(nextId' - 1)
<1>1. PICK dead \in SUBSET segs :
         /\ nextId' = nextId + b.segs + b.args + b.flows + b.ats
         /\ nextId' <= MaxSubs + 1
         /\ subs' = [s \in SubIds |->
                      CASE s \in dead  -> [New("segment", n) EXCEPT !.st = "gone"]
                        [] s \in segs \ dead -> New("segment", n)
                        [] s \in args  -> New("arg", n)
                        [] s \in flows -> New("flow", n)
                        [] s \in ats   -> New("at", n)
                        [] OTHER       -> subs[s]]
         /\ active' = active \cup (segs \ dead) \cup args \cup flows
         /\ tracked' = [m \in DOMAIN tracked \cup {n} |->
                         (IF m \in DOMAIN tracked THEN tracked[m] ELSE {})
                           \cup (IF m = n THEN segs \cup args ELSE {})]
         /\ live' = [live EXCEPT ![n] = [state |-> "running", segs |-> segs]]
         /\ flushPending' = FALSE
  BY Zenon DEF RunBlock
<1>2. b.segs \in Nat \ {0} /\ b.args \in Nat /\ b.flows \in Nat /\ b.ats \in Nat
  BY ProcessAssumption
<1>3. nextId \in 1..(MaxSubs + 1) /\ MaxSubs \in Nat /\ nextId \in Nat
  BY ProcessAssumption DEF Inv, TypeOK
<1>4. nextId' \in (nextId + 1)..(MaxSubs + 1)
  BY <1>1, <1>2, <1>3
<1>5. /\ segs \subseteq made /\ args \subseteq made /\ flows \subseteq made /\ ats \subseteq made
      /\ made \subseteq segs \cup args \cup flows \cup ats
      /\ made \subseteq SubIds \ FlushIds
      /\ segs \cap args = {} /\ segs \cap flows = {} /\ segs \cap ats = {}
      /\ args \cap flows = {} /\ args \cap ats = {} /\ flows \cap ats = {}
  <2>1. nextId' = nextId + b.segs + b.args + b.flows + b.ats
    BY <1>1
  <2> HIDE DEF b
  <2>2. /\ segs \subseteq made /\ args \subseteq made /\ flows \subseteq made /\ ats \subseteq made
    BY <2>1, <1>2, <1>3 DEF Fresh
  <2>3. made \subseteq segs \cup args \cup flows \cup ats
    BY <2>1, <1>2, <1>3 DEF Fresh
  <2>4. made \subseteq SubIds \ FlushIds
    <3>1. nextId' \in Int /\ nextId' <= MaxSubs + 1 /\ nextId \in Int /\ 1 <= nextId
      BY <1>3, <1>4
    <3>2. MaxSubs \in Int
      BY <1>3
    <3>3. \A s \in made : s \in 1..MaxSubs
      BY <3>1, <3>2, NumbersBelow, Zenon
    <3> HIDE DEF made
    <3>4. 1..MaxSubs \subseteq SubIds \ FlushIds
      BY <1>3 DEF SubIds, FlushIds
    <3> QED BY <3>3, <3>4
  <2>5. /\ segs \cap args = {} /\ segs \cap flows = {} /\ segs \cap ats = {}
        /\ args \cap flows = {} /\ args \cap ats = {} /\ flows \cap ats = {}
    BY <1>2, <1>3 DEF Fresh
  <2> QED BY <2>2, <2>3, <2>4, <2>5
<1>6. \A kind \in Kinds : New(kind, n) = [kind |-> kind, proc |-> n, st |-> "live"]
  BY DEF New
<1>7. [New("segment", n) EXCEPT !.st = "gone"] = [kind |-> "segment", proc |-> n, st |-> "gone"]
  BY DEF New
<1> HIDE DEF b, segs, args, flows, ats
<1>8. \A s \in SubIds :
        /\ s \in dead => subs'[s] = [kind |-> "segment", proc |-> n, st |-> "gone"]
        /\ s \in segs \ dead => subs'[s] = [kind |-> "segment", proc |-> n, st |-> "live"]
        /\ s \in args => subs'[s] = [kind |-> "arg", proc |-> n, st |-> "live"]
        /\ s \in flows => subs'[s] = [kind |-> "flow", proc |-> n, st |-> "live"]
        /\ s \in ats => subs'[s] = [kind |-> "at", proc |-> n, st |-> "live"]
        /\ s \notin made => subs'[s] = subs[s]
  <2>1. Kinds = {"segment", "arg", "flow", "at", "each", "flush"}
    BY DEF Kinds
  <2> HIDE DEF made
  <2>2. SUFFICES ASSUME NEW s \in SubIds
                 PROVE  /\ s \in dead => subs'[s] = [kind |-> "segment", proc |-> n, st |-> "gone"]
                        /\ s \in segs \ dead => subs'[s] = [kind |-> "segment", proc |-> n, st |-> "live"]
                        /\ s \in args => subs'[s] = [kind |-> "arg", proc |-> n, st |-> "live"]
                        /\ s \in flows => subs'[s] = [kind |-> "flow", proc |-> n, st |-> "live"]
                        /\ s \in ats => subs'[s] = [kind |-> "at", proc |-> n, st |-> "live"]
                        /\ s \notin made => subs'[s] = subs[s]
    OBVIOUS
  <2>3. subs'[s] = CASE s \in dead  -> [New("segment", n) EXCEPT !.st = "gone"]
                     [] s \in segs \ dead -> New("segment", n)
                     [] s \in args  -> New("arg", n)
                     [] s \in flows -> New("flow", n)
                     [] s \in ats   -> New("at", n)
                     [] OTHER       -> subs[s]
    BY <1>1
  <2>4. /\ s \in dead => s \in segs
        /\ ~(s \in segs /\ s \in args) /\ ~(s \in segs /\ s \in flows) /\ ~(s \in segs /\ s \in ats)
        /\ ~(s \in args /\ s \in flows) /\ ~(s \in args /\ s \in ats) /\ ~(s \in flows /\ s \in ats)
        /\ s \notin made => s \notin segs /\ s \notin args /\ s \notin flows /\ s \notin ats
    BY <1>5
  <2> QED BY <1>6, <1>7, <2>1, <2>3, <2>4
<1>9. \A s \in made : s \in dead \/ s \in segs \ dead \/ s \in args \/ s \in flows \/ s \in ats
  BY <1>5
<1>10. subs' \in [SubIds -> Sub]
  <2>1. \A s \in SubIds : subs'[s] \in Sub
    <3> SUFFICES ASSUME NEW s \in SubIds PROVE subs'[s] \in Sub
      OBVIOUS
    <3>1. CASE s \in made
      BY <1>8, <1>9, <3>1 DEF Sub, Kinds
    <3>2. CASE s \notin made
      BY <1>8, <3>2 DEF Inv, TypeOK
    <3> QED BY <3>1, <3>2
  <2> QED BY <1>1, <2>1
<1>11. live'[n].state = "running" /\ live'[n].segs = segs
  BY <1>1 DEF Inv, TypeOK
<1>12. tracked'[n] = segs \cup args
  BY <1>1
<1>13. \A s \in made :
              /\ s \in SubIds \ FlushIds
              /\ subs'[s].kind \in {"segment", "arg", "flow", "at"} /\ subs'[s].proc = n
              /\ subs'[s].st \in {"live", "gone"}
              /\ subs'[s].kind \in {"segment", "arg"} => s \in tracked'[n]
              /\ subs'[s].kind = "segment" => s \in live'[n].segs
  <2> SUFFICES ASSUME NEW s \in made
               PROVE  /\ s \in SubIds \ FlushIds
                      /\ subs'[s].kind \in {"segment", "arg", "flow", "at"} /\ subs'[s].proc = n
                      /\ subs'[s].st \in {"live", "gone"}
                      /\ subs'[s].kind \in {"segment", "arg"} => s \in tracked'[n]
                      /\ subs'[s].kind = "segment" => s \in live'[n].segs
    OBVIOUS
  <2>1. s \in SubIds \ FlushIds
    BY <1>5
  <2> QED BY <1>8, <1>9, <1>11, <1>12, <2>1
<1>14. active' \subseteq active \cup made
  BY <1>1, <1>5
<1>15. DOMAIN tracked' = DOMAIN tracked \cup {n} /\ \A m \in DOMAIN tracked : tracked'[m] = tracked[m]
  BY <1>1
<1>16. tracked'[n] \subseteq made /\ live'[n].segs \subseteq made
  BY <1>5, <1>11, <1>12
<1>17. \A m \in Names : m # n => live'[m] = live[m]
  BY <1>1 DEF Inv, TypeOK
<1>18. live' = [live EXCEPT ![n] = [state |-> "running", segs |-> live'[n].segs]]
  BY <1>1, <1>11
<1> QED BY <1>1, <1>4, <1>8, <1>10, <1>11, <1>13, <1>14, <1>15, <1>16, <1>17, <1>18

\* A process that starts was not in the tables, so nothing of an earlier run of
\* it ticks, and its reactions that still wait were cancelled.
LEMMA StartInv == ASSUME Inv, NEW n \in Names, Start(n) PROVE Inv'
<1>1. n \notin DOMAIN tracked /\ live[n].state \notin {"running", "paused"}
  BY DEF Start, Inv, Tables
<1>2. RunBlock(n) /\ UNCHANGED <<eachSubs, cancelled, deferred, pc, cur, selfStopped>>
  BY DEF Start, clock
<1> DEFINE made == nextId..(nextId' - 1)
<1>3. /\ nextId' \in (nextId + 1)..(MaxSubs + 1)
      /\ subs' \in [SubIds -> Sub]
      /\ \A s \in SubIds : s \notin made => subs'[s] = subs[s]
      /\ \A s \in made :
           /\ s \in SubIds \ FlushIds
           /\ subs'[s].kind \in {"segment", "arg", "flow", "at"} /\ subs'[s].proc = n
           /\ subs'[s].st \in {"live", "gone"}
           /\ subs'[s].kind \in {"segment", "arg"} => s \in tracked'[n]
           /\ subs'[s].kind = "segment" => s \in live'[n].segs
      /\ active' \subseteq active \cup made
      /\ DOMAIN tracked' = DOMAIN tracked \cup {n}
      /\ \A m \in DOMAIN tracked : tracked'[m] = tracked[m]
      /\ tracked'[n] \subseteq made
      /\ live'[n].state = "running" /\ live'[n].segs \subseteq made
      /\ \A m \in Names : m # n => live'[m] = live[m]
      /\ live' = [live EXCEPT ![n] = [state |-> "running", segs |-> live'[n].segs]]
      /\ flushPending' = FALSE
  BY <1>1, <1>2, BlockMakes
<1>4. nextId \in Int /\ 1 <= nextId /\ MaxSubs \in Int /\ 0 <= MaxSubs /\ nextId' \in Int
      /\ nextId < nextId' /\ nextId' <= MaxSubs + 1
  BY <1>3, ProcessAssumption DEF Inv, TypeOK
<1>5. /\ made \cap FlushIds = {} /\ made \cap (1..(nextId - 1)) = {}
      /\ \A s \in nextId'..MaxSubs : s \in nextId..MaxSubs /\ s \notin made /\ s \in SubIds
      /\ FlushIds \subseteq SubIds /\ 1..(nextId - 1) \subseteq SubIds
  <2>1. made \cap FlushIds = {}
    BY <1>3
  <2>2. made \cap (1..(nextId - 1)) = {}
    BY <1>4, NumbersAbove, Zenon
  <2>3. \A s \in nextId'..MaxSubs : s \in nextId..MaxSubs /\ s \notin made /\ s \in SubIds
    BY <1>4, NumbersAbove, Zenon DEF SubIds
  <2>4. FlushIds \subseteq SubIds /\ 1..(nextId - 1) \subseteq SubIds
    BY <1>4 DEF FlushIds, SubIds
  <2> QED BY <2>1, <2>2, <2>3, <2>4
<1> HIDE DEF made
<1>6. made \subseteq SubIds \ FlushIds
  BY <1>3
<1>7. live' \in [Names -> [state: {"none", "running", "paused", "stopped"},
                           segs: SUBSET (SubIds \ FlushIds)]]
  <2>1. live'[n].segs \in SUBSET (SubIds \ FlushIds)
    BY <1>3, <1>6
  <2>2. PICK S \in SUBSET (SubIds \ FlushIds) : S = live'[n].segs
    BY <2>1
  <2>3. live' = [live EXCEPT ![n] = [state |-> "running", segs |-> S]]
    BY <1>3, <2>2
  <2> QED BY <2>3 DEF Inv, TypeOK
<1>8. TypeOK'
  <2>1. \A s \in nextId'..MaxSubs : subs'[s] = NoSub
    BY <1>3, <1>5 DEF Inv, TypeOK
  <2>2. DOMAIN tracked' \subseteq Names /\ \A m \in DOMAIN tracked' : tracked'[m] \subseteq SubIds \ FlushIds
    BY <1>3, <1>6 DEF Inv, TypeOK
  <2>3. nextId' \in 1..(MaxSubs + 1)
    BY <1>4
  <2>4. active' \subseteq SubIds \ FlushIds
    BY <1>3, <1>6 DEF Inv, TypeOK
  <2> QED BY <1>2, <1>3, <1>7, <2>1, <2>2, <2>3, <2>4 DEF Inv, TypeOK
<1>9. /\ Numbered' /\ Calling' /\ Flushes' = Flushes
      /\ pc \in {"reactions", "catches"} => subs'[cur].proc = subs[cur].proc
  <2>1. \A f \in FlushIds : subs'[f] = subs[f]
    BY <1>3, <1>5
  <2>2. \A s \in 1..(nextId - 1) : subs'[s] = subs[s]
    BY <1>3, <1>5
  <2>3. \A s \in nextId..(nextId' - 1) :
            /\ subs'[s].kind # "flush"
            /\ subs'[s].kind \in {"segment", "arg", "flow"} => subs'[s].proc \in Names
    BY <1>3 DEF made
  <2>4. nextId' \in nextId..(MaxSubs + 1)
    BY <1>4
  <2> QED BY <1>2, <2>1, <2>2, <2>3, <2>4, MadeOnly DEF clock
<1>10. Tables'
  <2>1. \A m \in Names : m \in DOMAIN tracked' <=> live'[m].state \in {"running", "paused"}
    BY <1>3 DEF Inv, Tables
  <2>2. \A m \in DOMAIN tracked : m \in Names /\ m # n /\ tracked'[m] = tracked[m] /\ live'[m] = live[m]
    BY <1>1, <1>3 DEF Inv, TypeOK
  <2>3. \A s \in active' : subs'[s].kind = "segment" =>
         LET m == subs'[s].proc IN m \in DOMAIN tracked' /\ s \in tracked'[m] /\ s \in live'[m].segs
    <3> SUFFICES ASSUME NEW s \in active', subs'[s].kind = "segment"
                 PROVE  LET m == subs'[s].proc
                        IN  m \in DOMAIN tracked' /\ s \in tracked'[m] /\ s \in live'[m].segs
      OBVIOUS
    <3>1. CASE s \in made
      BY <1>3, <3>1
    <3>2. CASE s \notin made
      <4>1. s \in active /\ s \in SubIds /\ subs'[s] = subs[s]
        BY <1>3, <3>2 DEF Inv, TypeOK
      <4> QED BY <1>3, <2>2, <4>1 DEF Inv, Tables
    <3> QED BY <3>1, <3>2
  <2>4. ReachableByStop'
    <3> SUFFICES ASSUME NEW s \in SubIds, Ticking(s)'
                 PROVE  LET m == subs'[s].proc IN
                        /\ subs'[s].kind \in {"segment", "arg"} => m \in DOMAIN tracked' /\ s \in tracked'[m]
                        /\ subs'[s].kind = "segment" => s \in live'[m].segs
                        /\ subs'[s].kind = "each" /\ m # NoName => s \in eachSubs'[m]
      BY DEF ReachableByStop
    <3>1. CASE s \in made
      BY <1>3, <3>1
    <3>2. CASE s \notin made
      <4>1. subs'[s] = subs[s] /\ Ticking(s)
        BY <1>3, <3>2 DEF Ticking
      <4> QED BY <1>2, <1>3, <2>2, <4>1 DEF Inv, Tables, ReachableByStop
    <3> QED BY <3>1, <3>2
  <2>5. PausedTogether'
    <3> SUFFICES ASSUME NEW s \in SubIds, subs'[s].kind \in {"segment", "arg"}, Ticking(s)'
                 PROVE  /\ subs'[s].st = "live" => live'[subs'[s].proc].state # "paused"
                        /\ subs'[s].st = "paused" => live'[subs'[s].proc].state # "running"
      BY DEF PausedTogether, Ticking
    <3>1. CASE s \in made
      BY <1>3, <3>1
    <3>2. CASE s \notin made
      <4>1. subs'[s] = subs[s] /\ Ticking(s)
        BY <1>3, <3>2 DEF Ticking
      <4>2. subs[s].proc \in DOMAIN tracked
        BY <4>1 DEF Inv, Tables, ReachableByStop
      <4> QED BY <2>2, <4>1, <4>2 DEF Inv, Tables, PausedTogether
    <3> QED BY <3>1, <3>2
  <2> QED BY <2>1, <2>3, <2>4, <2>5 DEF Tables
<1>11. Flushing'
  <2>1. Cardinality(Flushes) <= nextId /\ Cardinality(Flushes) \in Nat
    BY <1>4, FlushNumbers DEF Inv, Flushing
  <2>2. Cardinality(Flushes') + 1 <= nextId'
    BY <1>4, <1>9, <2>1
  <2> QED BY <1>2, <1>3, <1>9, <2>2 DEF Inv, Flushing
<1>12. \A m \in Names, s \in SubIds : Current(m, s) => Current(m, s)'
  BY <1>1, <1>3 DEF Current
<1>13. Fresher'
  <2>1. \A d \in deferred : d.proc \in Names /\ d.seg \in SubIds
    BY DEF Inv, TypeOK
  <2>2. \A d \in deferred : d.seg \in cancelled' \/ Current(d.proc, d.seg)'
    BY <1>2, <1>12, <2>1 DEF Inv, Fresher
  <2>3. ASSUME pc = "reactions", cur \notin cancelled'
        PROVE  Current(subs[cur].proc, cur)'
    <3>1. PICK m \in Names, s \in SubIds : m = subs[cur].proc /\ s = cur
      BY <2>3, CalledSub DEF Inv, Calling
    <3>2. Current(m, s)'
      BY <1>2, <1>12, <2>3, <3>1 DEF Inv, Fresher
    <3>3. subs'[cur'].proc = m /\ cur' = s
      BY <1>2, <1>9, <2>3, <3>1
    <3> QED BY <3>2, <3>3 DEF Current
  <2> QED BY <1>2, <2>2, <2>3 DEF Fresher
<1> QED BY <1>8, <1>9, <1>10, <1>11, <1>13 DEF Inv

-----------------------------------------------------------------------------
(***************************************************************************)
(* The theorems                                                             *)
(***************************************************************************)

\* Nothing has been started.
LEMMA InitInv == Init => Inv
<1> SUFFICES ASSUME Init PROVE Inv
  OBVIOUS
<1>1. NoSub \in Sub /\ NoSub.kind = "flush" /\ NoSub.st = "gone"
  BY DEF NoSub, Sub, Kinds
<1>2. \A s \in SubIds : subs[s] = NoSub
  BY DEF Init
<1>3. FlushIds \subseteq SubIds /\ 1..MaxSubs \subseteq SubIds /\ 0 \notin FlushIds
  BY ProcessAssumption DEF FlushIds, SubIds
<1>4. nextId = 1 /\ MaxSubs \in Nat
  BY ProcessAssumption DEF Init
<1>5. TypeOK
  <2>1. subs \in [SubIds -> Sub]
    BY <1>1 DEF Init
  <2>2. \A s \in nextId..MaxSubs : subs[s] = NoSub
    BY <1>2, <1>3, <1>4
  <2>3. DOMAIN tracked = {}
    BY DEF Init
  <2>4. live \in [Names -> [state: {"none", "running", "paused", "stopped"},
                           segs: SUBSET (SubIds \ FlushIds)]]
    BY DEF Init
  <2>5. eachSubs \in [Names -> SUBSET (SubIds \ FlushIds)]
    BY DEF Init
  <2>6. nextId \in 1..(MaxSubs + 1)
    BY <1>4
  <2>7. active = {} /\ cancelled = {} /\ deferred = {} /\ flushPending = FALSE /\ selfStopped = FALSE
        /\ pc = "idle" /\ cur = 0
    BY DEF Init
  <2> QED BY <2>1, <2>2, <2>3, <2>4, <2>5, <2>6, <2>7 DEF TypeOK
<1>6. Numbered
  BY <1>1, <1>2, <1>3, <1>4 DEF Numbered
<1>7. Calling
  BY <1>3 DEF Init, Calling
<1>8. Tables
  BY <1>1, <1>2 DEF Init, Tables, ReachableByStop, PausedTogether, Ticking
<1>9. Flushing
  <2>1. Flushes = {}
    BY <1>1, <1>2, <1>3 DEF Flushes
  <2>2. Cardinality(Flushes) = 0
    BY <2>1, FS_EmptySet
  <2> QED BY <1>4, <2>2 DEF Init, Flushing
<1>10. Fresher
  BY DEF Init, Fresher
<1> QED BY <1>5, <1>6, <1>7, <1>8, <1>9, <1>10 DEF Inv

\* The steps of the commands.
LEMMA ControlInv == ASSUME Inv, Control PROVE Inv'
BY StartInv, StopInv, PauseInv, ResumeInv DEF Control

\* Nothing changes.
LEMMA StutterInv == ASSUME Inv, UNCHANGED vars PROVE Inv'
<1>1. UNCHANGED <<subs, active, nextId, tables, epoch, clock>>
  BY DEF vars
<1>2. TypeOK'
  BY <1>1 DEF Inv, TypeOK, tables, epoch, clock
<1>3. Calling'
  BY <1>1 DEF Inv, Calling, clock
<1>4. Flushing'
  BY <1>1 DEF Inv, Flushing, Flushes, epoch, clock
<1>5. Fresher'
  BY <1>1 DEF Inv, Fresher, Current, tables, epoch, clock
<1> QED BY <1>1, <1>2, <1>3, <1>4, <1>5, WithinInv

\* Every step keeps the invariant.
LEMMA NextInv == Inv /\ [Next]_vars => Inv'
<1> SUFFICES ASSUME Inv, [Next]_vars PROVE Inv'
  OBVIOUS
<1>1. CASE Command
  BY <1>1, ControlInv DEF Command
<1>2. CASE Statement
  BY <1>2, ControlInv, BareStopInv, EachBlockInv, AtBlockInv DEF Statement
<1>3. CASE \E s \in SubIds : Begin(s)
  BY <1>3, BeginInv
<1>4. CASE CallbackStep
  BY <1>4, EndingInv, SegmentTickInv, SegmentCatchesInv, SegmentReturnInv, HandlerEnterInv,
     FlushEnterInv, FlushRunInv, FlushReturnInv DEF CallbackStep
<1>5. CASE UNCHANGED vars
  BY <1>5, StutterInv
<1> QED BY <1>1, <1>2, <1>3, <1>4, <1>5 DEF Next

\* The inductive invariant holds in every state of the evaluator.
THEOREM Invariance == Spec => []Inv
BY InitInv, NextInv, PTL DEF Spec

\* The four tables of process control agree with the scheduler's subscriptions:
\* whatever ticks for a process stop_process() finds, who is paused is paused on
\* both sides, and a flush that is noted as pending is subscribed.
THEOREM TablesAlwaysAgree == Spec => []TablesAgree
<1>1. Inv => TablesAgree
  <2> SUFFICES ASSUME Inv PROVE TablesAgree
    OBVIOUS
  <2>1. FlushComes
    BY DEF Inv, Flushing, FlushComes, Flushes, Locked
  <2> QED BY <2>1 DEF Inv, Tables, TablesAgree
<1> QED BY <1>1, Invariance, PTL

\* No reaction of a run begins once stop_process() has returned for that run:
\* neither in a callback that waited for eval_mutex_ meanwhile nor in a flush
\* that was subscribed before.
THEOREM StoppedReactionsStaySilent == Spec => NoStaleReaction
<1> DEFINE Silent ==
      /\ pc = "begun" /\ pc' = "reactions" => Current(subs[cur].proc, cur)
      /\ \A d \in deferred \ deferred' : pc' = "flushBody" => Current(d.proc, d.seg)
<1>1. Inv /\ [Next]_vars => [Silent]_vars
  <2> SUFFICES ASSUME Inv, Next PROVE Silent
    BY DEF vars
  <2>1. CASE \E b \in BOOLEAN : SegmentTick(b)
    <3>1. PICK b \in BOOLEAN : SegmentTick(b)
      BY <2>1
    <3> QED BY <3>1, TickIsCurrent DEF SegmentTick
  <2>2. CASE \E d \in deferred : FlushRun(d)
    <3>1. PICK d \in deferred : FlushRun(d)
      BY <2>2
    <3>2. pc # "begun" /\ deferred \ deferred' = {d}
      BY <3>1 DEF FlushRun, InFlush
    <3>3. pc' = "flushBody" => d.seg \notin cancelled
      BY <3>1 DEF FlushRun
    <3> QED BY <3>2, <3>3 DEF Inv, Fresher
  <2>3. CASE Command \/ Statement
    <3>1. pc' = pc /\ deferred' = deferred
      BY <2>3 DEF Command, Statement, Control, Start, Stop, StopAll, Pause, Resume, BareStop,
         EachBlock, AtBlock, epoch, clock
    <3> QED BY <3>1
  <2>4. CASE \E s \in SubIds : Begin(s)
    BY <2>4 DEF Begin, epoch
  <2>5. CASE CallbackStep
    <3>1. CASE SegmentExpires \/ InactiveTick \/ \E b \in BOOLEAN : OwnedTick(b) \/ HandlerReturn(b)
      BY <3>1 DEF SegmentExpires, InactiveTick, OwnedTick, HandlerReturn, Leave
    <3>2. CASE \E b \in BOOLEAN : SegmentCatches(b)
      BY <3>2 DEF SegmentCatches
    <3>3. CASE SegmentReturn \/ FlushReturn
      BY <3>3 DEF SegmentReturn, FlushReturn, Leave
    <3>4. CASE HandlerEnter \/ FlushEnter
      BY <3>4 DEF HandlerEnter, FlushEnter, epoch
    <3> QED BY <2>1, <2>2, <2>5, <3>1, <3>2, <3>3, <3>4 DEF CallbackStep
  <2> QED BY <2>3, <2>4, <2>5 DEF Next
<1> QED BY <1>1, Invariance, PTL DEF Spec, NoStaleReaction

=============================================================================
