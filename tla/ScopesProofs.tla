---------------------------- MODULE ScopesProofs ----------------------------
(***************************************************************************)
(* Theorems about module Scopes, for every value of its constants.         *)
(***************************************************************************)
EXTENDS Scopes, SequenceTheorems, WellFoundedInduction, TLAPS

-----------------------------------------------------------------------------
(***************************************************************************)
(* The inductive invariant                                                  *)
(***************************************************************************)
Context == [kind: CtxKinds, run: 0..MaxRuns, pin: 0..MaxFrames, start: 0..MaxFrames,
            base: 1..MaxFrames, clean: BOOLEAN]
Run     == [proc: Names, frame: 2..MaxFrames, depth: 0..MaxFrames, clean: BOOLEAN,
            within: SUBSET Runs, popped: BOOLEAN]
At      == DOMAIN ctx

Types ==
    /\ frames \in Seq(Frame) /\ Size \in 1..MaxFrames
    /\ pin \in 0..MaxFrames /\ start \in 0..MaxFrames
    /\ ctx \in Seq(Context) /\ \A i \in At : ctx[i].run <= Len(runs)
    /\ runs \in Seq(Run) /\ Len(runs) <= MaxRuns
    /\ \A r \in 1..Len(runs) : runs[r].within \subseteq 1..Len(runs)
    /\ live \in [Names -> 0..Len(runs)]
    /\ subs \subseteq (1..Len(runs)) \X Callbacks

\* How contexts nest: one callback or reload, in it blocks, in the last one calls.
Nested ==
    /\ \A i \in At : ctx[i].kind \notin {"call", "block"} => i = 1 /\ ctx[i].pin = 0
    /\ \A i, j \in At : i < j /\ ctx[i].kind = "call" => ctx[j].kind = "call"
    /\ \A i \in At : ctx[i].kind # "call" => ctx[i].run > 0
    /\ ~Idle => ctx[1].kind # "call"

\* The size of the stack when context i was last the innermost, and the frames
\* it has pushed itself.
After(i) == IF i = Len(ctx) THEN Size ELSE ctx[i + 1].base
Own(i)   == IF ctx[i].kind \in {"call", "block"} THEN 1 ELSE 0

\* A context pops no more than it has pushed, and has left nothing while it is
\* clean; a call never leaves anything.
Stacked ==
    \A i \in At :
        /\ After(i) >= ctx[i].base + Own(i)
        /\ ctx[i].clean => After(i) = ctx[i].base + Own(i)
        /\ ctx[i].kind = "call" => ctx[i].clean

\* The runs that something may still pin, reload or execute.
Kept(r) ==
    /\ ~Orphaned(r)
    /\ \/ \E k \in Pinned : <<r, k>> \in subs
       \/ \E n \in Names : live[n] = r
       \/ \E i \in At : ctx[i].run = r /\ ctx[i].kind \in Pinned \cup {"block", "reload"}

\* Their frames are where they were pushed, below whatever a context may pop,
\* unless the context is a block in which they were started.
Settled ==
    \A r \in 1..Len(runs) : Kept(r) =>
        /\ runs[r].frame <= Size /\ frames[runs[r].frame].own = r
        /\ \A i \in At :
             /\ ctx[i].kind = "call" => runs[r].frame <= ctx[i].base
             /\ ctx[i].kind = "block" /\ r < ctx[i].run => runs[r].frame <= ctx[i].base

\* Nobody knows a run whose block is executed yet.  It was started in the blocks
\* that are executed around it, and every later run in it.
Executed ==
    \A i \in At : ctx[i].kind = "block" =>
        LET r == ctx[i].run IN
        /\ runs[r].frame = ctx[i].base + 1 /\ ~runs[r].popped
        /\ \A n \in Names : live[n] # r
        /\ <<r, "replaced">> \notin subs /\ <<r, "delayed">> \notin subs
        /\ \A j \in At : j < i => ctx[j].run < r
        /\ \A o \in runs[r].within : \E j \in At : j < i /\ ctx[j].kind = "block" /\ ctx[j].run = o
        /\ \A q \in 1..Len(runs) : r < q => r \in runs[q].within

Executing(r) == \E i \in At : ctx[i].kind = "block" /\ ctx[i].run = r

\* A frame of the run, of a call, or of a run that was started in the run's block.
Under(r, own) == own \in {0, r} \/ (own \in 1..Len(runs) /\ r \in runs[own].within)

\* The scope_depth of a run whose block has ended is its frame's position, or
\* that of a frame which something in the block left above it.
Depths ==
    \A r \in 1..Len(runs) : ~Executing(r) =>
        /\ runs[r].clean => runs[r].depth = runs[r].frame
        /\ Kept(r) =>
             /\ runs[r].depth \in runs[r].frame..Size
             /\ Under(r, frames[runs[r].depth].own)
             /\ \A i \in At :
                  /\ ctx[i].kind = "call" => runs[r].depth <= ctx[i].base
                  /\ ctx[i].kind = "block" /\ r < ctx[i].run => runs[r].depth <= ctx[i].base

\* A pin is set by the callback that runs, at the end of the stack it found.
Pinning ==
    /\ pin # 0 => ~Idle /\ ctx[1].kind \in Pinned
    /\ ~Idle /\ ctx[1].kind \in Pinned =>
         LET r == ctx[1].run
         IN /\ pin # 0 => start = ctx[1].base
            /\ ctx[1].kind = "replaced" /\ ctx[1].clean => runs[r].clean
            /\ ~Orphaned(r) =>
                 /\ start = ctx[1].base
                 /\ pin = IF ctx[1].kind = "replaced" THEN runs[r].depth ELSE runs[r].frame

\* What lies above the frame of a block that is executed, its calls and the
\* blocks it has started have left.
Leaked ==
    \A i \in At : ctx[i].kind = "block" =>
        \A k \in (ctx[i].base + 2)..Size : Under(ctx[i].run, frames[k].own)

Inv == Types /\ Nested /\ Stacked /\ Settled /\ Executed /\ Depths /\ Pinning /\ Leaked

-----------------------------------------------------------------------------
(***************************************************************************)
(* Stacks                                                                   *)
(***************************************************************************)

\* Positions have a greatest.
LEMMA MaxOf ==
  ASSUME NEW N \in Nat, NEW S \in SUBSET (0..N), S # {}
  PROVE  Max(S) \in S /\ \A y \in S : y <= Max(S)
<1> DEFINE R == {ss \in Nat \X Nat : ss[1] < ss[2]}
           T == {N - x : x \in S}
<1>1. IsWellFoundedOn(R, Nat)
  BY NatLessThanWellFounded DEF OpToRel
<1>2. T \subseteq Nat /\ T # {}
  <2>1. \A x \in S : x \in 0..N /\ N - x \in Nat
    OBVIOUS
  <2>2. T \subseteq Nat
    BY <2>1
  <2>3. PICK x \in S : TRUE
    OBVIOUS
  <2>4. N - x \in T
    BY <2>3
  <2> QED BY <2>2, <2>4
<1>3. PICK t \in T : \A u \in T : ~(<<u, t>> \in R)
  BY <1>1, <1>2, WFMin
<1>4. PICK x \in S : t = N - x
  OBVIOUS
<1>5. \A y \in S : x >= y
  <2> SUFFICES ASSUME NEW y \in S PROVE x >= y
    OBVIOUS
  <2>1. N - y \in T /\ N - y \in Nat /\ t \in Nat
    OBVIOUS
  <2>2. ~(N - y < t)
    BY <1>3, <2>1
  <2> QED BY <1>4, <2>1, <2>2
<1>6. Max(S) \in S /\ \A y \in S : Max(S) >= y
  BY <1>5 DEF Max
<1> QED BY <1>6

\* The contexts, by index.
LEMMA Contexts ==
  ASSUME Types
  PROVE  /\ Len(ctx) \in Nat /\ At = 1..Len(ctx) /\ \A i \in At : ctx[i] \in Context
         /\ Idle <=> Len(ctx) = 0
         /\ ~Idle => Len(ctx) \in At /\ 1 \in At /\ Cur = ctx[Len(ctx)]
<1>1. Len(ctx) \in Nat /\ At = 1..Len(ctx) /\ \A i \in At : ctx[i] \in Context
  BY LenProperties, ElementOfSeq DEF Types, At
<1>2. Idle <=> Len(ctx) = 0
  BY EmptySeq DEF Idle, Types
<1> QED BY <1>1, <1>2 DEF Cur, Last

\* The innermost statement that runs, and the calls in it.
LEMMA Innermost ==
  ASSUME Types, Nested, ~Idle
  PROVE  /\ BaseAt \in At /\ Base = ctx[BaseAt] /\ Base.kind # "call"
         /\ \A j \in At : j > BaseAt => ctx[j].kind = "call"
<1> DEFINE I == {i \in 1..Len(ctx) : ctx[i].kind # "call"}
<1>1. BaseAt = IF I # {} THEN Max(I) ELSE 0
  BY DEF BaseAt, SelectLastInSeq
<1>2. Len(ctx) \in Nat /\ At = 1..Len(ctx) /\ 1 \in At /\ ctx[1].kind # "call"
  BY Contexts DEF Nested
<1>3. I \in SUBSET (0..Len(ctx)) /\ I # {}
  BY <1>2
<1>4. Max(I) \in I /\ \A y \in I : y <= Max(I)
  BY <1>2, <1>3, MaxOf
<1>5. BaseAt \in I /\ \A y \in I : y <= BaseAt
  BY <1>1, <1>3, <1>4
<1>6. ASSUME NEW j \in At, j > BaseAt PROVE ctx[j].kind = "call"
  BY <1>2, <1>5, <1>6
<1> QED BY <1>2, <1>5, <1>6 DEF Base

\* A context is entered.
LEMMA Entered ==
  ASSUME Types, NEW c \in Context, ctx' = Append(ctx, c)
  PROVE  /\ ctx' \in Seq(Context) /\ Len(ctx') = Len(ctx) + 1
         /\ At' = 1..(Len(ctx) + 1) /\ ~Idle'
         /\ \A i \in At : ctx'[i] = ctx[i]
         /\ ctx'[Len(ctx) + 1] = c
<1>1. /\ ctx' \in Seq(Context) /\ Len(ctx') = Len(ctx) + 1 /\ ctx' # <<>>
      /\ \A i \in 1..Len(ctx) : ctx'[i] = ctx[i]
      /\ ctx'[Len(ctx) + 1] = c
  BY AppendProperties DEF Types
<1>2. At' = 1..Len(ctx')
  BY <1>1, LenProperties DEF At
<1> QED BY <1>1, <1>2, Contexts DEF Idle

\* The innermost context is left; of the others only clean may change.
LEMMA Left ==
  ASSUME Types, ~Idle, NEW n, Leave(n)
  PROVE  /\ ctx' \in Seq(Context) /\ Len(ctx') = Len(ctx) - 1 /\ At' = 1..(Len(ctx) - 1)
         /\ \A i \in 1..(Len(ctx) - 1) :
              /\ i \in At
              /\ ctx'[i].kind = ctx[i].kind /\ ctx'[i].run = ctx[i].run /\ ctx'[i].pin = ctx[i].pin
              /\ ctx'[i].start = ctx[i].start /\ ctx'[i].base = ctx[i].base
              /\ ctx'[i].clean <=> ctx[i].clean /\ n = Cur.base
<1>1. /\ Len(ctx) \in Nat /\ Len(ctx) # 0 /\ At = 1..Len(ctx)
      /\ \A i \in At : ctx[i] \in Context
  BY Contexts
<1> DEFINE m == Len(ctx) - 1
<1>2. m \in Nat
  BY <1>1
<1>3. ctx' = [i \in 1..m |-> [ctx[i] EXCEPT !.clean = @ /\ n = Cur.base]]
  BY DEF Leave
<1>4. \A i \in 1..m : ctx[i] \in Context /\ i \in At
  BY <1>1
<1> HIDE DEF m
<1>5. ASSUME NEW i \in 1..m
      PROVE  /\ ctx'[i] \in Context
             /\ ctx'[i].kind = ctx[i].kind /\ ctx'[i].run = ctx[i].run /\ ctx'[i].pin = ctx[i].pin
             /\ ctx'[i].start = ctx[i].start /\ ctx'[i].base = ctx[i].base
             /\ ctx'[i].clean <=> ctx[i].clean /\ n = Cur.base
  <2>1. ctx'[i] = [ctx[i] EXCEPT !.clean = ctx[i].clean /\ n = Cur.base]
    BY <1>3
  <2>2. PICK c \in Context : c = ctx[i]
    BY <1>4
  <2>3. PICK b \in BOOLEAN : b <=> c.clean /\ n = Cur.base
    OBVIOUS
  <2>4. ctx'[i] = [c EXCEPT !.clean = b]
    BY <2>1, <2>2, <2>3
  <2>5. ctx'[i] \in Context /\ ctx'[i].clean = b
    BY <2>4 DEF Context
  <2>6. /\ ctx'[i].kind = c.kind /\ ctx'[i].run = c.run /\ ctx'[i].pin = c.pin
        /\ ctx'[i].start = c.start /\ ctx'[i].base = c.base
    BY <2>4 DEF Context
  <2> QED BY <2>2, <2>3, <2>5, <2>6
<1>6. ctx' \in [1..m -> Context]
  BY <1>3, <1>5
<1>7. ctx' \in Seq(Context) /\ DOMAIN ctx' = 1..m
  BY <1>2, <1>6, SeqDef
<1>8. Len(ctx') = m
  BY <1>2, <1>7, LenProperties
<1> QED BY <1>4, <1>5, <1>7, <1>8 DEF m, At

\* A frame is pushed, or the top one popped.
LEMMA Pushed ==
  ASSUME Types, NEW r \in 0..MaxRuns, Push(r)
  PROVE  /\ frames' \in Seq(Frame) /\ Size' = Size + 1 /\ Size' \in 1..MaxFrames
         /\ \A i \in 1..Size : frames'[i] = frames[i]
         /\ frames'[Size + 1] = Empty(r)
<1>1. Empty(r) \in Frame /\ Size < MaxFrames
  BY DEF Empty, Frame, Push
<1>2. frames' = Append(frames, Empty(r))
  BY DEF Push
<1>3. /\ frames' \in Seq(Frame) /\ Len(frames') = Len(frames) + 1
      /\ \A i \in 1..Len(frames) : frames'[i] = frames[i]
      /\ frames'[Len(frames) + 1] = Empty(r)
  BY <1>1, <1>2, AppendProperties DEF Types
<1> QED BY <1>1, <1>3, ScopesAssumption DEF Types, Size

\* pop_scope() takes the top frame and no other, and never the global scope.
LEMMA PoppedOne ==
  ASSUME Types, Size >= 2, frames' = Popped(1)
  PROVE  /\ frames' \in Seq(Frame) /\ Size' = Size - 1 /\ Size' \in 1..MaxFrames
         /\ \A i \in 1..(Size - 1) : frames'[i] = frames[i]
<1>1. Size \in Nat /\ Size <= MaxFrames /\ Len(frames) = Size /\ MaxFrames \in Nat
  BY ScopesAssumption DEF Types, Size
<1>2. Max({1, Size - 1}) = Size - 1
  <2>1. {1, Size - 1} \in SUBSET (0..Size)
    BY <1>1
  <2>2. Max({1, Size - 1}) \in {1, Size - 1} /\ \A y \in {1, Size - 1} : y <= Max({1, Size - 1})
    BY <1>1, <2>1, MaxOf
  <2> QED BY <1>1, <2>2
<1>3. frames' = SubSeq(frames, 1, Size - 1)
  BY <1>2 DEF Popped
<1>4. \A i \in 1..(Size - 1) : frames[i] \in Frame
  BY <1>1, ElementOfSeq DEF Types
<1>5. /\ frames' \in Seq(Frame) /\ Len(frames') = Size - 1
      /\ \A i \in 1..(Size - 1) : frames'[i] = frames[i]
  BY <1>1, <1>3, <1>4, SubSeqProperties
<1> QED BY <1>1, <1>5 DEF Size

-----------------------------------------------------------------------------
(***************************************************************************)
(* What the steps have in common                                            *)
(***************************************************************************)

\* Numbers that the proofs use.
LEMMA Numbers ==
  ASSUME Types
  PROVE  /\ MaxRuns \in Nat /\ MaxFrames \in Nat
         /\ Len(runs) \in Nat /\ Len(frames) = Size /\ Size \in Nat /\ Size >= 1
         /\ \A r \in 1..Len(runs) : runs[r] \in Run /\ runs[r].frame \in Nat /\ runs[r].depth \in Nat
                                    /\ runs[r].frame >= 2
         /\ \A p \in 1..Size : frames[p] \in Frame
<1>1. MaxRuns \in Nat /\ MaxFrames \in Nat
  BY ScopesAssumption
<1>2. Len(runs) \in Nat /\ Len(frames) = Size /\ Size \in Nat /\ Size >= 1
  BY LenProperties DEF Types, Size
<1>3. \A r \in 1..Len(runs) : runs[r] \in Run
  BY ElementOfSeq DEF Types
<1>4. \A p \in 1..Size : frames[p] \in Frame
  BY <1>2, ElementOfSeq DEF Types
<1> QED BY <1>1, <1>2, <1>3, <1>4 DEF Run

\* Contexts and the number of frames stay.
LEMMA SameContexts ==
  ASSUME Inv, ctx' = ctx, Size' = Size
  PROVE  Nested' /\ Stacked' /\ At' = At
<1>1. At' = At
  BY DEF At
<1>2. Nested'
  BY <1>1 DEF Inv, Nested, Idle
<1>3. \A i \in At : After(i)' = After(i) /\ Own(i)' = Own(i)
  BY DEF After, Own
<1>4. Stacked'
  BY <1>1, <1>3 DEF Inv, Stacked
<1> QED BY <1>1, <1>2, <1>4

\* No run is added to those that something may pin, no frame of theirs is
\* popped, and a context that may pop was there or begins on top of them all.
LEMMA SettledStep ==
  ASSUME Inv, runs' = runs, Size' \in Nat,
         \A r \in 1..Len(runs) : ~Executing(r)' => ~Executing(r),
         \A r \in 1..Len(runs) : Kept(r)' =>
            /\ Kept(r) /\ runs[r].frame <= Size'
            /\ ~Executing(r)' => runs[r].depth <= Size',
         \A p \in 1..Size : p <= Size' => frames'[p].own = frames[p].own,
         \A i \in At' : ctx'[i].kind \in {"call", "block"} =>
            \/ /\ i \in At /\ ctx'[i].kind = ctx[i].kind
               /\ ctx'[i].run = ctx[i].run /\ ctx'[i].base = ctx[i].base
            \/ ctx'[i].kind = "call" /\ ctx'[i].base = Size
  PROVE  Settled' /\ Depths'
<1>1. Settled'
  <2> SUFFICES ASSUME NEW r \in 1..Len(runs), Kept(r)'
               PROVE  /\ runs[r].frame <= Size' /\ frames'[runs[r].frame].own = r
                      /\ \A i \in At' :
                           /\ ctx'[i].kind = "call" => runs[r].frame <= ctx'[i].base
                           /\ ctx'[i].kind = "block" /\ r < ctx'[i].run => runs[r].frame <= ctx'[i].base
    BY DEF Settled
  <2>1. /\ runs[r].frame <= Size' /\ runs[r].frame <= Size /\ frames[runs[r].frame].own = r
        /\ \A i \in At :
             /\ ctx[i].kind = "call" => runs[r].frame <= ctx[i].base
             /\ ctx[i].kind = "block" /\ r < ctx[i].run => runs[r].frame <= ctx[i].base
    BY DEF Inv, Settled
  <2>2. runs[r].frame \in 1..Size
    BY <2>1, Numbers DEF Inv
  <2> QED BY <2>1, <2>2
<1>2. Depths'
  <2> SUFFICES ASSUME NEW r \in 1..Len(runs), ~Executing(r)'
               PROVE  /\ runs[r].clean => runs[r].depth = runs[r].frame
                      /\ Kept(r)' =>
                           /\ runs[r].depth \in runs[r].frame..Size'
                           /\ Under(r, frames'[runs[r].depth].own)
                           /\ \A i \in At' :
                                /\ ctx'[i].kind = "call" => runs[r].depth <= ctx'[i].base
                                /\ ctx'[i].kind = "block" /\ r < ctx'[i].run => runs[r].depth <= ctx'[i].base
    BY DEF Depths, Under
  <2>1. /\ runs[r].clean => runs[r].depth = runs[r].frame
        /\ Kept(r) =>
             /\ runs[r].depth \in runs[r].frame..Size
             /\ Under(r, frames[runs[r].depth].own)
             /\ \A i \in At :
                  /\ ctx[i].kind = "call" => runs[r].depth <= ctx[i].base
                  /\ ctx[i].kind = "block" /\ r < ctx[i].run => runs[r].depth <= ctx[i].base
    BY DEF Inv, Depths
  <2>2. CASE Kept(r)'
    <3>1. Kept(r) /\ runs[r].depth <= Size'
      BY <2>2
    <3>2. runs[r].depth \in 1..Size /\ runs[r].depth \in runs[r].frame..Size'
      BY <2>1, <3>1, Numbers DEF Inv
    <3>3. Under(r, frames'[runs[r].depth].own)
      BY <2>1, <3>1, <3>2
    <3>4. ASSUME NEW i \in At', ctx'[i].kind \in {"call", "block"}
          PROVE  /\ ctx'[i].kind = "call" => runs[r].depth <= ctx'[i].base
                 /\ ctx'[i].kind = "block" /\ r < ctx'[i].run => runs[r].depth <= ctx'[i].base
      <4>1. CASE /\ i \in At /\ ctx'[i].kind = ctx[i].kind
                 /\ ctx'[i].run = ctx[i].run /\ ctx'[i].base = ctx[i].base
        BY <2>1, <3>1, <4>1
      <4>2. CASE ctx'[i].base = Size
        BY <3>2, <4>2, Numbers DEF Inv
      <4> QED BY <3>4, <4>1, <4>2
    <3> QED BY <2>1, <3>2, <3>3, <3>4
  <2> QED BY <2>1, <2>2
<1> QED BY <1>1, <1>2

\* When in addition contexts and frames stay, only subs and live can change.
LEMMA SettledSame ==
  ASSUME Inv, ctx' = ctx, runs' = runs, Size' = Size,
         \A p \in 1..Size : frames'[p].own = frames[p].own,
         \A r \in 1..Len(runs) : Kept(r)' => Kept(r)
  PROVE  Settled' /\ Depths'
<1>1. At' = At /\ Size \in Nat
  BY Numbers DEF At, Inv
<1>2. \A r \in 1..Len(runs) : Executing(r)' <=> Executing(r)
  BY <1>1 DEF Executing
<1>3. \A r \in 1..Len(runs) : Kept(r)' =>
            /\ Kept(r) /\ runs[r].frame <= Size'
            /\ ~Executing(r)' => runs[r].depth <= Size'
  BY <1>1, <1>2, Numbers DEF Inv, Settled, Depths
<1> QED BY <1>1, <1>2, <1>3, SettledStep

\* No block begins, and a frame is the same or a call's.
LEMMA LeakedStep ==
  ASSUME Inv, Size' \in Nat, runs' = runs,
         \A i \in At' : ctx'[i].kind = "block" =>
            i \in At /\ ctx[i].kind = "block" /\ ctx'[i].run = ctx[i].run /\ ctx'[i].base = ctx[i].base,
         \A k \in 1..Size' : frames'[k].own = 0 \/ (k <= Size /\ frames'[k].own = frames[k].own)
  PROVE  Leaked'
<1> SUFFICES ASSUME NEW i \in At', ctx'[i].kind = "block", NEW k \in (ctx'[i].base + 2)..Size'
             PROVE  Under(ctx'[i].run, frames'[k].own)
  BY DEF Leaked, Under
<1>1. i \in At /\ ctx[i].kind = "block" /\ ctx'[i].run = ctx[i].run /\ ctx'[i].base = ctx[i].base
  OBVIOUS
<1>2. ctx[i].base \in Nat /\ Size \in Nat
  <2>1. ctx[i] \in Context /\ MaxFrames \in Nat /\ Size \in Nat
    BY <1>1, Contexts, Numbers DEF Inv
  <2> QED BY <2>1 DEF Context
<1>3. k \in 1..Size' /\ k \in Nat
  BY <1>1, <1>2
<1>4. CASE frames'[k].own = 0
  BY <1>4 DEF Under
<1>5. CASE k <= Size /\ frames'[k].own = frames[k].own
  <2>1. k \in (ctx[i].base + 2)..Size
    BY <1>1, <1>2, <1>3, <1>5
  <2>2. Under(ctx[i].run, frames[k].own)
    BY <1>1, <2>1 DEF Inv, Leaked
  <2> QED BY <1>1, <1>5, <2>2
<1> QED BY <1>3, <1>4, <1>5

\* The blocks that are executed, and what was entered before them, stay.
LEMMA ExecutedStep ==
  ASSUME Inv, UNCHANGED <<runs, live, subs>>, NEW m \in Nat, At' = 1..m,
         \A i \in At' : ctx'[i].kind = "block" =>
            /\ i \in At /\ ctx'[i].base = ctx[i].base
            /\ \A j \in 1..i : j \in At /\ ctx'[j].kind = ctx[j].kind /\ ctx'[j].run = ctx[j].run
  PROVE  Executed'
<1> SUFFICES ASSUME NEW i \in At', ctx'[i].kind = "block"
             PROVE  LET r == ctx'[i].run IN
                    /\ runs'[r].frame = ctx'[i].base + 1 /\ ~runs'[r].popped
                    /\ \A n \in Names : live'[n] # r
                    /\ <<r, "replaced">> \notin subs' /\ <<r, "delayed">> \notin subs'
                    /\ \A j \in At' : j < i => ctx'[j].run < r
                    /\ \A o \in runs'[r].within : \E j \in At' : j < i /\ ctx'[j].kind = "block" /\ ctx'[j].run = o
                    /\ \A q \in 1..Len(runs') : r < q => r \in runs'[q].within
  BY DEF Executed
<1>1. /\ i \in At /\ i \in 1..i /\ ctx'[i].run = ctx[i].run /\ ctx[i].kind = "block" /\ ctx'[i].base = ctx[i].base
      /\ \A j \in 1..i : j \in At /\ ctx'[j].kind = ctx[j].kind /\ ctx'[j].run = ctx[j].run
  OBVIOUS
<1>2. \A j \in At' : j < i => j \in 1..i
  OBVIOUS
<1>3. \A j \in At : j < i => j \in 1..i /\ j \in At'
  BY Contexts DEF Inv
<1> DEFINE r == ctx[i].run
<1>4. /\ runs[r].frame = ctx[i].base + 1 /\ ~runs[r].popped
      /\ \A n \in Names : live[n] # r
      /\ <<r, "replaced">> \notin subs /\ <<r, "delayed">> \notin subs
      /\ \A j \in At : j < i => ctx[j].run < r
      /\ \A o \in runs[r].within : \E j \in At : j < i /\ ctx[j].kind = "block" /\ ctx[j].run = o
      /\ \A q \in 1..Len(runs) : r < q => r \in runs[q].within
  BY <1>1 DEF Inv, Executed
<1>5. \A j \in At' : j < i => ctx'[j].run < r
  BY <1>1, <1>2, <1>4
<1>6. \A o \in runs[r].within : \E j \in At' : j < i /\ ctx'[j].kind = "block" /\ ctx'[j].run = o
  BY <1>1, <1>3, <1>4
<1> QED BY <1>1, <1>4, <1>5, <1>6

-----------------------------------------------------------------------------
(***************************************************************************)
(* The steps                                                                *)
(***************************************************************************)

\* A definition goes to a frame that exists.
LEMMA TargetInside == ASSUME Types PROVE Target \in 1..Size
BY Numbers DEF Types, Target

\* A binding changes no frame but by its name.
LEMMA DefineInv == ASSUME Inv, NEW x \in Vars, Define(x) PROVE Inv'
<1>1. /\ UNCHANGED <<pin, start, ctx, runs, live, subs>>
      /\ frames' = [frames EXCEPT ![Target].bound = @ \cup {x}]
  BY DEF Define
<1>2. PICK t \in 1..Size : t = Target
  BY TargetInside DEF Inv
<1>3. /\ frames[t] \in Frame /\ t \in 1..Len(frames) /\ frames \in Seq(Frame) /\ Len(frames) = Size
  BY Numbers, ElementOfSeq DEF Inv, Types
<1> DEFINE f == [frames[t] EXCEPT !.bound = @ \cup {x}]
<1>4. f \in Frame /\ f.own = frames[t].own
  BY <1>3 DEF Frame
<1>5. frames' = [frames EXCEPT ![t] = f]
  BY <1>1, <1>2
<1> HIDE DEF f
<1>6. /\ frames' \in Seq(Frame) /\ Len(frames') = Len(frames)
      /\ \A j \in 1..Len(frames) : frames'[j] = IF j = t THEN f ELSE frames[j]
  BY <1>3, <1>4, <1>5, ExceptSeq
<1>7. Size' = Size /\ \A p \in 1..Size : frames'[p].own = frames[p].own
  BY <1>3, <1>4, <1>6 DEF Size
<1>8. Types'
  BY <1>1, <1>6, <1>7 DEF Inv, Types, At
<1>9. Nested' /\ Stacked' /\ At' = At
  BY <1>1, <1>7, SameContexts
<1>10. \A r \in 1..Len(runs) : Kept(r)' => Kept(r)
  BY <1>1, <1>9 DEF Kept, Orphaned
<1>11. Settled' /\ Depths'
  BY <1>1, <1>7, <1>10, SettledSame
<1>12. Executed'
  BY <1>1, <1>9 DEF Inv, Executed
<1>13. Pinning'
  BY <1>1 DEF Inv, Pinning, Idle, Orphaned
<1>50. Leaked'
  BY <1>1, <1>7, <1>9, Numbers, LeakedStep DEF Inv
<1> QED BY <1>8, <1>9, <1>11, <1>12, <1>13, <1>50 DEF Inv

\* What is subscribed belongs to the context that subscribes, which keeps the
\* run if a callback may pin it.
LEMMA SubscribeInv == ASSUME Inv, NEW kind \in Callbacks, Subscribe(kind) PROVE Inv'
<1>1. /\ UNCHANGED <<frames, pin, start, ctx, runs, live>>
      /\ subs' = subs \cup {<<Cur.run, kind>>}
      /\ ~Idle /\ Cur.kind \in CtxKinds \ {"call"}
      /\ kind = "segment" => Cur.kind = "block"
      /\ kind = "replaced" => Cur.kind = "reload"
      /\ kind = "delayed" => Cur.kind \in Pinned
  BY DEF Subscribe, In, env, Callbacks, Pinned, Unpinned
<1>2. PICK c \in At : Cur = ctx[c] /\ ctx[c] \in Context /\ c = Len(ctx)
  BY <1>1, Contexts DEF Inv
<1>3. Cur.run \in 1..Len(runs)
  BY <1>1, <1>2, Numbers DEF Inv, Types, Nested, Context
<1>4. Size' = Size /\ At' = At
  BY <1>1 DEF Size, At
<1>5. Types'
  BY <1>1, <1>3, <1>4 DEF Inv, Types
<1>6. Nested' /\ Stacked'
  BY <1>1, <1>4, SameContexts
<1>7. kind \in Pinned /\ ~Orphaned(Cur.run) => Kept(Cur.run)
  BY <1>1, <1>2 DEF Kept, Pinned
<1>8. \A r \in 1..Len(runs) : Kept(r)' => Kept(r)
  <2> SUFFICES ASSUME NEW r \in 1..Len(runs), Kept(r)' PROVE Kept(r)
    OBVIOUS
  <2>1. ~Orphaned(r)
    BY <1>1 DEF Kept, Orphaned
  <2>2. CASE \E k \in Pinned : <<r, k>> \in subs'
    BY <1>1, <1>7, <2>1, <2>2 DEF Kept
  <2>3. CASE ~\E k \in Pinned : <<r, k>> \in subs'
    BY <1>1, <1>4, <2>1, <2>3 DEF Kept
  <2> QED BY <2>2, <2>3
<1>9. Settled' /\ Depths'
  BY <1>1, <1>4, <1>8, SettledSame
<1>10. Executed'
  <2>1. CASE kind \in {"replaced", "delayed"}
    <3>1. c = 1 /\ ctx[c].kind # "block"
      BY <1>1, <1>2, <2>1 DEF Inv, Nested, Pinned
    <3>2. At = {1}
      BY <1>2, <3>1, Contexts DEF Inv
    <3> QED BY <1>1, <1>4, <3>1, <3>2 DEF Executed
  <2>2. CASE kind \notin {"replaced", "delayed"}
    BY <1>1, <1>4, <2>2 DEF Inv, Executed
  <2> QED BY <2>1, <2>2
<1>11. Pinning'
  BY <1>1 DEF Inv, Pinning, Idle, Orphaned
<1>50. Leaked'
  BY <1>1, <1>4, Numbers, LeakedStep DEF Inv
<1> QED BY <1>5, <1>6, <1>9, <1>10, <1>11, <1>50 DEF Inv

\* A stop only takes subscriptions and liveness away.
LEMMA StopInv == ASSUME Inv, NEW n \in Names, Stop(n) PROVE Inv'
<1>1. /\ UNCHANGED <<frames, pin, start, ctx, runs>>
      /\ subs' \subseteq subs
      /\ live' = [live EXCEPT ![n] = 0]
  BY DEF Stop, env
<1>2. Size' = Size /\ At' = At
  BY <1>1 DEF Size, At
<1>3. live' \in [Names -> 0..Len(runs)] /\ \A m \in Names : live'[m] = 0 \/ live'[m] = live[m]
  BY <1>1, Numbers DEF Inv, Types
<1>4. Types'
  BY <1>1, <1>2, <1>3 DEF Inv, Types
<1>5. Nested' /\ Stacked'
  BY <1>1, <1>2, SameContexts
<1>6. \A r \in 1..Len(runs) : Kept(r)' => Kept(r)
  <2> SUFFICES ASSUME NEW r \in 1..Len(runs), Kept(r)' PROVE Kept(r)
    OBVIOUS
  <2>4. ~Orphaned(r)
    BY <1>1 DEF Kept, Orphaned
  <2>1. CASE \E k \in Pinned : <<r, k>> \in subs'
    BY <1>1, <2>1, <2>4 DEF Kept
  <2>2. CASE \E m \in Names : live'[m] = r
    <3>1. PICK m \in Names : live'[m] = r
      BY <2>2
    <3>2. r # 0
      BY Numbers DEF Inv
    <3> QED BY <1>3, <2>4, <3>1, <3>2 DEF Kept
  <2>3. CASE \E i \in At' : ctx'[i].run = r /\ ctx'[i].kind \in Pinned \cup {"block", "reload"}
    BY <1>1, <1>2, <2>3, <2>4 DEF Kept
  <2> QED BY <2>1, <2>2, <2>3 DEF Kept
<1>7. Settled' /\ Depths'
  BY <1>1, <1>2, <1>6, SettledSame
<1>8. \A i \in At : ctx[i].kind = "block" => ctx[i].run # 0
  BY Numbers DEF Inv, Nested
<1>9. Executed'
  BY <1>1, <1>2, <1>3, <1>8 DEF Inv, Executed
<1>10. Pinning'
  BY <1>1 DEF Inv, Pinning, Idle, Orphaned
<1>50. Leaked'
  BY <1>1, <1>2, Numbers, LeakedStep DEF Inv
<1> QED BY <1>4, <1>5, <1>7, <1>9, <1>10, <1>50 DEF Inv

\* A callback or a reload begins, when nothing runs.
LEMMA OutermostEntered ==
  ASSUME Inv, Idle, NEW c \in Context, ctx' = Append(ctx, c),
         c.kind \in Callbacks \cup {"reload"}, c.run \in 1..Len(runs), c.pin = 0, c.base = Size,
         c.kind \in Pinned \cup {"reload"} /\ ~Orphaned(c.run) => Kept(c.run),
         UNCHANGED <<frames, runs, live>>, subs' \subseteq subs,
         pin' \in 0..MaxFrames, start' \in 0..MaxFrames
  PROVE  /\ Types' /\ Nested' /\ Stacked' /\ Settled' /\ Executed' /\ Depths' /\ Leaked'
         /\ ~Idle' /\ ctx'[1] = c
<1>1. /\ At = {} /\ Size' = Size /\ Size \in Nat /\ c.kind \notin {"call", "block"} /\ Len(ctx) = 0
  BY Contexts, Numbers DEF Inv, Size, Callbacks, Pinned, Unpinned
<1>2. ctx' \in Seq(Context) /\ Len(ctx') = 1 /\ At' = {1} /\ ~Idle' /\ ctx'[1] = c
  BY <1>1, Entered DEF Inv
<1>3. Types'
  <2>1. \A i \in At' : ctx'[i].run <= Len(runs)
    BY <1>2, Numbers DEF Inv
  <2>2. Size' \in 1..MaxFrames /\ frames' \in Seq(Frame) /\ Len(runs') <= MaxRuns
    BY <1>1 DEF Inv, Types
  <2> QED BY <1>2, <2>1, <2>2 DEF Inv, Types
<1>4. Nested'
  BY <1>1, <1>2 DEF Nested
<1>5. After(1)' = Size /\ Own(1)' = 0
  BY <1>1, <1>2 DEF After, Own
<1>6. Stacked'
  BY <1>1, <1>2, <1>5 DEF Stacked
<1>7. Executed'
  BY <1>1, <1>2 DEF Executed
<1>8. \A r \in 1..Len(runs) : ~Executing(r)
  BY <1>1 DEF Executing
<1>9. \A r \in 1..Len(runs) : Kept(r)' => Kept(r)
  BY <1>1, <1>2 DEF Kept, Orphaned
<1>10. \A r \in 1..Len(runs) : Kept(r)' =>
            /\ Kept(r) /\ runs[r].frame <= Size'
            /\ ~Executing(r)' => runs[r].depth <= Size'
  <2> SUFFICES ASSUME NEW r \in 1..Len(runs), Kept(r)'
               PROVE  Kept(r) /\ runs[r].frame <= Size' /\ runs[r].depth <= Size'
    OBVIOUS
  <2>1. Kept(r) /\ ~Executing(r) /\ runs[r].frame \in Nat
    BY <1>8, <1>9, Numbers DEF Inv
  <2>2. runs[r].frame <= Size
    BY <2>1 DEF Inv, Settled
  <2>3. runs[r].depth \in runs[r].frame..Size
    BY <2>1 DEF Inv, Depths
  <2> QED BY <1>1, <2>1, <2>2, <2>3
<1>11. Settled' /\ Depths'
  BY <1>1, <1>2, <1>8, <1>10, SettledStep
<1>12. Leaked'
  BY <1>1, <1>2 DEF Leaked
<1> QED BY <1>2, <1>3, <1>4, <1>6, <1>7, <1>11, <1>12

\* The frame a callback pins is on the stack.
LEMMA CallbackInv == ASSUME Inv, NEW r \in Runs, NEW kind \in Callbacks, Callback(r, kind) PROVE Inv'
<1> DEFINE PinFrame == Pin(runs[r].frame)
           PinDepth == Pin(runs[r].depth)
<1>0. /\ Idle /\ <<r, kind>> \in subs /\ UNCHANGED <<frames, runs, live>> /\ subs' \subseteq subs
      /\ Enter(Ctx(kind, r, kind = "replaced" => runs[r].clean))
      /\ CASE kind \in {"segment", "delayed"} -> PinFrame
           [] kind = "replaced"               -> PinDepth
           [] kind \in Unpinned               -> UNCHANGED <<pin, start>>
  BY DEF Callback
<1> HIDE DEF PinFrame, PinDepth
<1>1. /\ kind \in {"segment", "delayed"} => PinFrame
      /\ kind = "replaced" => PinDepth
      /\ kind \in Unpinned => UNCHANGED <<pin, start>>
  <2>1. CASE kind = "segment"
    BY <1>0, <2>1 DEF Unpinned
  <2>2. CASE kind = "delayed"
    BY <1>0, <2>2 DEF Unpinned
  <2>3. CASE kind = "replaced"
    BY <1>0, <2>3 DEF Unpinned
  <2>4. CASE kind \in Unpinned
    BY <1>0, <2>4 DEF Unpinned
  <2> QED BY <2>1, <2>2, <2>3, <2>4 DEF Callbacks, Pinned
<1>2. r \in 1..Len(runs) /\ pin = 0
  BY <1>0 DEF Inv, Types, Pinning
<1>3. PICK b \in BOOLEAN : b <=> (kind = "replaced" => runs[r].clean)
  OBVIOUS
<1>4. /\ Size \in Nat /\ Size <= MaxFrames /\ Size \in 1..MaxFrames
      /\ MaxRuns \in Nat /\ MaxFrames \in Nat /\ Len(runs) \in Nat /\ Len(runs) <= MaxRuns
      /\ start \in 0..MaxFrames
      /\ runs[r].frame \in Nat /\ runs[r].depth \in Nat /\ runs[r].frame >= 2
  <2>1. Types
    BY DEF Inv
  <2>2. Size \in 1..MaxFrames /\ start \in 0..MaxFrames /\ Len(runs) <= MaxRuns
    BY <2>1 DEF Types
  <2> QED BY <1>2, <2>1, <2>2, Numbers
<1> DEFINE c == [kind |-> kind, run |-> r, pin |-> 0, start |-> start, base |-> Size, clean |-> b]
<1>5. ctx' = Append(ctx, c)
  <2>1. runs[r].clean \in BOOLEAN
    BY <1>2, Numbers DEF Inv, Run
  <2>2. (kind = "replaced" => runs[r].clean) = b
    BY <1>3
  <2> QED BY <1>0, <1>2, <2>2 DEF Enter, Ctx
<1>6. c \in Context /\ kind \in Callbacks
  BY <1>2, <1>4 DEF Context, CtxKinds
<1>7. kind \in Pinned /\ ~Orphaned(r) => Kept(r)
  BY <1>0 DEF Kept
<1>8. kind \in Pinned /\ ~Orphaned(r) =>
        /\ runs[r].frame <= Size
        /\ runs[r].depth \in runs[r].frame..Size
  <2>1. ~Executing(r)
    BY <1>0, Contexts DEF Executing, Inv
  <2> QED BY <1>2, <1>7, <2>1 DEF Inv, Settled, Depths
<1>9. ASSUME kind \in Pinned, ~Orphaned(r)
      PROVE  /\ start' = Size
             /\ pin' = IF kind = "replaced" THEN runs[r].depth ELSE runs[r].frame
  <2>1. runs[r].frame <= Size /\ runs[r].depth \in runs[r].frame..Size
    BY <1>8, <1>9
  <2>2. CASE kind = "replaced"
    BY <1>1, <1>4, <2>1, <2>2 DEF PinDepth, Pin
  <2>3. CASE kind # "replaced"
    BY <1>1, <1>4, <1>9, <2>1, <2>3 DEF PinFrame, Pin, Pinned
  <2> QED BY <2>2, <2>3
<1>10. \/ pin' = 0 /\ start' = start
       \/ kind \in Pinned /\ pin' \in 2..Size /\ start' = Size
  <2>1. CASE kind \in {"segment", "delayed"}
    BY <1>1, <1>2, <1>4, <2>1 DEF PinFrame, Pin, Pinned
  <2>2. CASE kind = "replaced"
    BY <1>1, <1>2, <1>4, <2>2 DEF PinDepth, Pin, Pinned
  <2>3. CASE kind \in Unpinned
    BY <1>1, <1>2, <2>3
  <2> QED BY <2>1, <2>2, <2>3 DEF Callbacks, Pinned
<1>11. pin' \in 0..MaxFrames /\ start' \in 0..MaxFrames
  BY <1>4, <1>10
<1>12. /\ c.kind = kind /\ c.run = r /\ c.pin = 0 /\ c.base = Size /\ c.clean = b
       /\ kind # "reload"
  BY DEF Callbacks, Pinned, Unpinned
<1> HIDE DEF c
<1>13. /\ Types' /\ Nested' /\ Stacked' /\ Settled' /\ Executed' /\ Depths' /\ Leaked'
       /\ ~Idle' /\ ctx'[1] = c
  BY <1>0, <1>2, <1>5, <1>6, <1>7, <1>11, <1>12, OutermostEntered
<1>14. Orphaned(r)' <=> Orphaned(r)
  BY <1>0 DEF Orphaned
<1>15. Pinning'
  BY <1>0, <1>3, <1>9, <1>10, <1>12, <1>13, <1>14 DEF Pinning
<1> QED BY <1>13, <1>15 DEF Inv

\* A reload runs for a process that lives, without a pin.
LEMMA ReloadInv == ASSUME Inv, NEW n \in Names, Reload(n) PROVE Inv'
<1>1. /\ Idle /\ live[n] # 0 /\ UNCHANGED <<frames, pin, start, runs, live, subs>>
      /\ Enter(Ctx("reload", live[n], TRUE))
  BY DEF Reload, env
<1>2. pin = 0 /\ live[n] \in 1..Len(runs)
  BY <1>1, Numbers DEF Inv, Types, Pinning
<1>3. /\ Size \in Nat /\ Size \in 1..MaxFrames /\ start \in 0..MaxFrames
      /\ MaxRuns \in Nat /\ MaxFrames \in Nat /\ Len(runs) \in Nat /\ Len(runs) <= MaxRuns
  BY Numbers DEF Inv, Types
<1> DEFINE c == [kind |-> "reload", run |-> live[n], pin |-> 0, start |-> start,
                 base |-> Size, clean |-> TRUE]
<1>4. ctx' = Append(ctx, c)
  BY <1>1, <1>2 DEF Enter, Ctx
<1>5. c \in Context
  BY <1>2, <1>3 DEF Context, CtxKinds
<1>6. ~Orphaned(live[n]) => Kept(live[n])
  BY DEF Kept
<1>7. c.kind = "reload" /\ c.run = live[n] /\ c.pin = 0 /\ c.base = Size
  OBVIOUS
<1> HIDE DEF c
<1>8. /\ Types' /\ Nested' /\ Stacked' /\ Settled' /\ Executed' /\ Depths' /\ Leaked'
      /\ ~Idle' /\ ctx'[1] = c
  BY <1>1, <1>2, <1>3, <1>4, <1>5, <1>6, <1>7, OutermostEntered
<1>9. Pinning'
  BY <1>1, <1>2, <1>7, <1>8 DEF Pinning, Pinned
<1> QED BY <1>8, <1>9 DEF Inv

\* A callback or a reload ends: nothing runs, and nothing is pinned.
LEMMA CallbackEndInv == ASSUME Inv, CallbackEnd PROVE Inv'
<1>1. /\ ~Idle /\ Cur.kind \in Callbacks \cup {"reload"} /\ Leave(Size)
      /\ pin' = Cur.pin /\ start' = Cur.start /\ UNCHANGED <<frames, runs, live, subs>>
  BY DEF CallbackEnd, In
<1>2. Cur.kind \notin {"call", "block"}
  BY <1>1 DEF Callbacks, Pinned, Unpinned
<1>3. Len(ctx) = 1 /\ Cur.pin = 0 /\ Cur \in Context
  BY <1>1, <1>2, Contexts DEF Inv, Nested
<1>4. ctx' \in Seq(Context) /\ Len(ctx') = 0 /\ At' = {}
  <2>1. ctx' \in Seq(Context) /\ Len(ctx') = Len(ctx) - 1 /\ At' = 1..(Len(ctx) - 1)
    BY <1>1, Left DEF Inv
  <2> QED BY <1>3, <2>1
<1>5. Idle' /\ pin' = 0 /\ start' \in 0..MaxFrames /\ Size' = Size /\ Size \in Nat /\ MaxFrames \in Nat
  BY <1>1, <1>3, <1>4, EmptySeq, Numbers DEF Inv, Idle, Context, Size
<1>6. Types'
  BY <1>1, <1>4, <1>5 DEF Inv, Types
<1>7. Nested' /\ Stacked' /\ Executed' /\ Pinning'
  BY <1>4, <1>5 DEF Nested, Stacked, Executed, Pinning
<1>8. \A r \in 1..Len(runs) : ~Executing(r)
  BY <1>2, <1>3, Contexts DEF Inv, Executing
<1>9. \A r \in 1..Len(runs) : Kept(r)' => Kept(r)
  BY <1>1, <1>4 DEF Kept, Orphaned
<1>10. \A r \in 1..Len(runs) : Kept(r)' =>
            /\ Kept(r) /\ runs[r].frame <= Size'
            /\ ~Executing(r)' => runs[r].depth <= Size'
  BY <1>5, <1>8, <1>9, Numbers DEF Inv, Settled, Depths
<1>11. Settled' /\ Depths'
  BY <1>1, <1>4, <1>5, <1>8, <1>10, SettledStep
<1>50. Leaked'
  BY <1>4 DEF Leaked
<1> QED BY <1>6, <1>7, <1>11, <1>50 DEF Inv

\* A call begins on top of everything.
LEMMA CallInv == ASSUME Inv, Call PROVE Inv'
<1>1. /\ ~Idle /\ Enter(Ctx("call", 0, TRUE)) /\ Push(0)
      /\ UNCHANGED <<pin, start, runs, live, subs>>
  BY DEF Call
<1>2. /\ MaxRuns \in Nat /\ MaxFrames \in Nat /\ Size \in 1..MaxFrames /\ Size \in Nat
      /\ pin \in 0..MaxFrames /\ start \in 0..MaxFrames /\ Len(runs) \in Nat
  BY Numbers DEF Inv, Types
<1> DEFINE c == Ctx("call", 0, TRUE)
<1> PICK L \in Nat : L = Len(ctx)
  BY Contexts DEF Inv
<1>3. c \in Context /\ c.kind = "call" /\ c.run = 0 /\ c.base = Size /\ c.clean = TRUE
  BY <1>2 DEF Ctx, Context, CtxKinds
<1> HIDE DEF c
<1>4. /\ frames' \in Seq(Frame) /\ Size' = Size + 1 /\ Size' \in 1..MaxFrames
      /\ \A i \in 1..Size : frames'[i] = frames[i]
  BY <1>1, <1>2, Pushed DEF Inv
<1>5. L \in Nat /\ L \in At /\ 1 \in At /\ At = 1..L /\ \A i \in At : ctx[i] \in Context
  BY <1>1, Contexts DEF Inv
<1>6. /\ ctx' \in Seq(Context) /\ Len(ctx') = L + 1
      /\ At' = 1..(L + 1) /\ ~Idle'
      /\ \A i \in At : ctx'[i] = ctx[i]
      /\ ctx'[L + 1] = c
  <2>1. ctx' = Append(ctx, c)
    BY <1>1 DEF Enter, c
  <2> QED BY <1>3, <2>1, Entered DEF Inv
<1>7. \A i \in At' : i \in At \/ i = L + 1
  BY <1>5, <1>6
<1>8. Types'
  <2>1. ASSUME NEW i \in At' PROVE ctx'[i].run <= Len(runs)
    <3>1. CASE i \in At
      BY <1>6, <3>1 DEF Inv, Types
    <3>2. CASE i = L + 1
      <4>1. ctx'[i].run = 0
        BY <1>3, <1>6, <3>2
      <4> QED BY <1>2, <4>1
    <3> QED BY <1>7, <3>1, <3>2
  <2> QED BY <1>1, <1>2, <1>4, <1>6, <2>1 DEF Inv, Types
<1>9. Nested'
  <2>1. \A i \in At' : ctx'[i].kind \notin {"call", "block"} => i = 1 /\ ctx'[i].pin = 0
    BY <1>3, <1>6, <1>7 DEF Inv, Nested
  <2>2. ASSUME NEW i \in At', NEW j \in At', i < j, ctx'[i].kind = "call"
        PROVE  ctx'[j].kind = "call"
    <3>1. i \in At
      BY <1>5, <1>6, <2>2
    <3> QED BY <1>3, <1>6, <1>7, <2>2, <3>1 DEF Inv, Nested
  <2>3. \A i \in At' : ctx'[i].kind # "call" => ctx'[i].run > 0
    BY <1>3, <1>6, <1>7 DEF Inv, Nested
  <2>4. ctx'[1].kind # "call"
    BY <1>1, <1>5, <1>6 DEF Inv, Nested
  <2> QED BY <2>1, <2>2, <2>3, <2>4 DEF Nested
<1>10. Stacked'
  <2>1. \A i \in At : After(i)' = After(i) /\ Own(i)' = Own(i) /\ i + 1 \in 1..(L + 1) /\ i # L + 1
    BY <1>3, <1>5, <1>6 DEF After, Own
  <2>2. After(L + 1)' = Size + 1 /\ Own(L + 1)' = 1
    BY <1>3, <1>4, <1>6 DEF After, Own
  <2>3. ASSUME NEW i \in At'
        PROVE  /\ After(i)' >= ctx'[i].base + Own(i)'
               /\ ctx'[i].clean => After(i)' = ctx'[i].base + Own(i)'
               /\ ctx'[i].kind = "call" => ctx'[i].clean
    <3>1. CASE i \in At
      BY <1>6, <2>1, <3>1 DEF Inv, Stacked
    <3>2. CASE i = L + 1
      BY <1>2, <1>3, <1>6, <2>2, <3>2
    <3> QED BY <1>7, <3>1, <3>2
  <2> QED BY <2>3 DEF Stacked
<1>11. \A r \in 1..Len(runs) : (Kept(r)' => Kept(r)) /\ (Executing(r) => Executing(r)')
  BY <1>1, <1>3, <1>5, <1>6, <1>7 DEF Kept, Orphaned, Executing, Pinned
<1>12. \A r \in 1..Len(runs) : Kept(r)' =>
            /\ Kept(r) /\ runs[r].frame <= Size'
            /\ ~Executing(r)' => runs[r].depth <= Size'
  BY <1>2, <1>4, <1>11, Numbers DEF Inv, Settled, Depths
<1>13. \A p \in 1..Size : p <= Size' => frames'[p].own = frames[p].own
  BY <1>4
<1>14. \A i \in At' : ctx'[i].kind \in {"call", "block"} =>
            \/ /\ i \in At /\ ctx'[i].kind = ctx[i].kind
               /\ ctx'[i].run = ctx[i].run /\ ctx'[i].base = ctx[i].base
            \/ ctx'[i].kind = "call" /\ ctx'[i].base = Size
  BY <1>3, <1>6, <1>7
<1>15. Settled' /\ Depths'
  BY <1>1, <1>2, <1>4, <1>11, <1>12, <1>13, <1>14, SettledStep
<1>16. Executed'
  <2> SUFFICES ASSUME NEW i \in At', ctx'[i].kind = "block"
               PROVE  /\ i \in At /\ ctx'[i].base = ctx[i].base
                      /\ \A j \in 1..i : j \in At /\ ctx'[j].kind = ctx[j].kind /\ ctx'[j].run = ctx[j].run
    BY <1>1, <1>6, ExecutedStep
  <2>1. i \in At
    BY <1>3, <1>6, <1>7
  <2>2. \A j \in 1..i : j \in At
    BY <1>5, <2>1
  <2> QED BY <1>6, <2>1, <2>2
<1>17. Pinning'
  BY <1>1, <1>5, <1>6 DEF Inv, Pinning, Orphaned
<1>50. Leaked'
  <2>1. \A k \in 1..Size' : frames'[k].own = 0 \/ (k <= Size /\ frames'[k].own = frames[k].own)
    <3>1. frames'[Size + 1].own = 0
      <4>1. frames'[Size + 1] = Empty(0)
        BY <1>1, <1>2, Pushed DEF Inv
      <4> QED BY <4>1 DEF Empty
    <3> QED BY <1>2, <1>4, <3>1
  <2>2. \A i \in At' : ctx'[i].kind = "block" =>
            i \in At /\ ctx[i].kind = "block" /\ ctx'[i].run = ctx[i].run /\ ctx'[i].base = ctx[i].base
    BY <1>3, <1>6, <1>7
  <2> QED BY <1>1, <1>2, <1>4, <2>1, <2>2, LeakedStep
<1> QED BY <1>8, <1>9, <1>10, <1>15, <1>16, <1>17, <1>50 DEF Inv

\* A call that returns takes its own frame off, which is the one on top.
LEMMA ReturnInv == ASSUME Inv, Return PROVE Inv'
<1>1. /\ ~Idle /\ Cur.kind = "call" /\ frames' = Popped(1) /\ Leave(Len(frames'))
      /\ UNCHANGED <<pin, start, runs, live, subs>>
  BY DEF Return, In
<1> PICK L \in Nat : L = Len(ctx)
  BY Contexts DEF Inv
<1>2. L \in At /\ At = 1..L /\ Cur = ctx[L] /\ ctx[L] \in Context /\ ctx[L].kind = "call"
  BY <1>1, Contexts DEF Inv
<1>3. L > 1
  BY <1>1, <1>2 DEF Inv, Nested
<1> PICK b \in 1..MaxFrames : b = ctx[L].base
  BY <1>2 DEF Context
<1>4. Size = b + 1 /\ MaxFrames \in Nat /\ Size \in Nat
  <2>1. After(L) = Size /\ Own(L) = 1
    BY <1>2 DEF After, Own
  <2> QED BY <1>2, <2>1, Numbers DEF Inv, Stacked
<1>5. /\ frames' \in Seq(Frame) /\ Size' = b /\ Size' \in 1..MaxFrames
      /\ \A i \in 1..b : frames'[i] = frames[i]
  <2>1. Size >= 2
    BY <1>4
  <2>2. /\ frames' \in Seq(Frame) /\ Size' = Size - 1 /\ Size' \in 1..MaxFrames
        /\ \A i \in 1..(Size - 1) : frames'[i] = frames[i]
    BY <1>1, <2>1, PoppedOne DEF Inv
  <2>3. Size - 1 = b
    BY <1>4
  <2> QED BY <2>2, <2>3
<1>6. /\ ctx' \in Seq(Context) /\ Len(ctx') = L - 1 /\ At' = 1..(L - 1)
      /\ \A i \in At' :
           /\ i \in At /\ i < L
           /\ ctx'[i].kind = ctx[i].kind /\ ctx'[i].run = ctx[i].run /\ ctx'[i].pin = ctx[i].pin
           /\ ctx'[i].start = ctx[i].start /\ ctx'[i].base = ctx[i].base
           /\ ctx'[i].clean <=> ctx[i].clean
  <2>1. Len(frames') = Cur.base
    BY <1>2, <1>5 DEF Size
  <2>2. /\ ctx' \in Seq(Context) /\ Len(ctx') = Len(ctx) - 1 /\ At' = 1..(Len(ctx) - 1)
        /\ \A i \in 1..(Len(ctx) - 1) :
              /\ i \in At
              /\ ctx'[i].kind = ctx[i].kind /\ ctx'[i].run = ctx[i].run /\ ctx'[i].pin = ctx[i].pin
              /\ ctx'[i].start = ctx[i].start /\ ctx'[i].base = ctx[i].base
              /\ ctx'[i].clean <=> ctx[i].clean /\ Len(frames') = Cur.base
    BY <1>1, Left DEF Inv
  <2> QED BY <1>2, <2>1, <2>2
<1>7. 1 \in At' /\ ~Idle' /\ \A i \in At : i \in At' \/ i = L
  <2>1. 1 \in At'
    BY <1>3, <1>6
  <2>2. ctx' # <<>>
    BY <1>3, <1>6, EmptySeq
  <2> QED BY <1>2, <1>6, <2>1, <2>2 DEF Idle
<1>8. Types'
  <2>1. \A i \in At' : ctx'[i].run <= Len(runs)
    BY <1>6 DEF Inv, Types
  <2> QED BY <1>1, <1>5, <1>6, <2>1 DEF Inv, Types
<1>9. Nested'
  <2>1. ASSUME NEW i \in At', NEW j \in At', i < j, ctx'[i].kind = "call"
        PROVE  ctx'[j].kind = "call"
    <3>1. /\ i \in At /\ ctx'[i].kind = ctx[i].kind
          /\ j \in At /\ ctx'[j].kind = ctx[j].kind
      BY <1>6
    <3> QED BY <2>1, <3>1 DEF Inv, Nested
  <2>2. ASSUME NEW i \in At'
        PROVE  /\ ctx'[i].kind \notin {"call", "block"} => i = 1 /\ ctx'[i].pin = 0
               /\ ctx'[i].kind # "call" => ctx'[i].run > 0
    <3>1. /\ i \in At /\ ctx'[i].kind = ctx[i].kind
          /\ ctx'[i].run = ctx[i].run /\ ctx'[i].pin = ctx[i].pin
      BY <1>6
    <3> QED BY <3>1 DEF Inv, Nested
  <2>3. ctx'[1].kind # "call"
    BY <1>1, <1>6, <1>7 DEF Inv, Nested
  <2> QED BY <2>1, <2>2, <2>3 DEF Nested
<1>10. Stacked'
  <2> SUFFICES ASSUME NEW i \in At'
               PROVE  /\ After(i)' >= ctx'[i].base + Own(i)'
                      /\ ctx'[i].clean => After(i)' = ctx'[i].base + Own(i)'
                      /\ ctx'[i].kind = "call" => ctx'[i].clean
    BY DEF Stacked
  <2>1. Own(i)' = Own(i)
    BY <1>6 DEF Own
  <2>2. After(i)' = After(i)
    <3>1. CASE i = L - 1
      <4>1. After(i)' = b
        BY <1>5, <1>6, <3>1 DEF After
      <4>2. i + 1 = L /\ i # L
        BY <3>1
      <4>3. After(i) = b
        BY <4>2 DEF After
      <4> QED BY <4>1, <4>3
    <3>2. CASE i # L - 1
      <4>1. i + 1 \in At' /\ i # L
        BY <1>6, <3>2
      <4> QED BY <1>6, <3>2, <4>1 DEF After
    <3> QED BY <3>1, <3>2
  <2> QED BY <1>6, <2>1, <2>2 DEF Inv, Stacked
<1>11. \A r \in 1..Len(runs) : (Kept(r)' => Kept(r)) /\ (Executing(r) => Executing(r)')
  <2>1. \A r \in 1..Len(runs) : Kept(r)' => Kept(r)
    BY <1>1, <1>6 DEF Kept, Orphaned
  <2>2. ASSUME NEW r \in 1..Len(runs), Executing(r) PROVE Executing(r)'
    <3>1. PICK i \in At : ctx[i].kind = "block" /\ ctx[i].run = r
      BY <2>2 DEF Executing
    <3>2. i # L
      BY <1>2, <3>1
    <3>3. i \in At'
      BY <1>7, <3>2
    <3>4. ctx'[i].kind = "block" /\ ctx'[i].run = r
      BY <1>6, <3>1, <3>3
    <3> QED BY <3>3, <3>4 DEF Executing
  <2> QED BY <2>1, <2>2
<1>12. \A r \in 1..Len(runs) : Kept(r)' =>
            /\ Kept(r) /\ runs[r].frame <= Size'
            /\ ~Executing(r)' => runs[r].depth <= Size'
  BY <1>2, <1>5, <1>11, Numbers DEF Inv, Settled, Depths
<1>13. \A p \in 1..Size : p <= Size' => frames'[p].own = frames[p].own
  BY <1>5
<1>14. \A i \in At' : ctx'[i].kind \in {"call", "block"} =>
            /\ i \in At /\ ctx'[i].kind = ctx[i].kind
            /\ ctx'[i].run = ctx[i].run /\ ctx'[i].base = ctx[i].base
  BY <1>6
<1>15. Settled' /\ Depths'
  BY <1>1, <1>4, <1>5, <1>11, <1>12, <1>13, <1>14, SettledStep
<1>16. Executed'
  <2> SUFFICES ASSUME NEW i \in At', ctx'[i].kind = "block"
               PROVE  /\ i \in At /\ ctx'[i].base = ctx[i].base
                      /\ \A j \in 1..i : j \in At /\ ctx'[j].kind = ctx[j].kind /\ ctx'[j].run = ctx[j].run
    <3>1. L - 1 \in Nat
      BY <1>3
    <3> QED BY <1>1, <1>6, <3>1, ExecutedStep
  <2>1. \A j \in 1..i : j \in At'
    BY <1>6
  <2> QED BY <1>6, <2>1
<1>17. Pinning'
  BY <1>1, <1>6, <1>7 DEF Inv, Pinning, Orphaned
<1>50. Leaked'
  <2>1. \A k \in 1..Size' : k <= Size /\ frames'[k].own = frames[k].own
    BY <1>4, <1>5
  <2>2. \A i \in At' : ctx'[i].kind = "block" =>
            i \in At /\ ctx[i].kind = "block" /\ ctx'[i].run = ctx[i].run /\ ctx'[i].base = ctx[i].base
    BY <1>6
  <2>3. runs' = runs /\ Size' \in Nat
    BY <1>1, <1>5
  <2> QED BY <2>1, <2>2, <2>3, LeakedStep
<1> QED BY <1>8, <1>9, <1>10, <1>15, <1>16, <1>17, <1>50 DEF Inv

\* The stack of frames has not become smaller than any context found it.
LEMMA NothingBelow ==
  ASSUME Inv
  PROVE  \A i \in At : ctx[i].base <= Size
<1> PICK L \in Nat : L = Len(ctx)
  BY Contexts DEF Inv
<1>1. At = 1..L /\ \A i \in At : ctx[i] \in Context /\ ctx[i].base \in Nat
  BY Contexts, Numbers DEF Inv, Context
<1>2. Size \in Nat
  BY Numbers DEF Inv
<1> DEFINE S == {i \in At : ctx[i].base > Size}
<1>3. SUFFICES S = {}
  BY <1>1, <1>2
<1>4. SUFFICES ASSUME S # {} PROVE FALSE
  OBVIOUS
<1>5. S \in SUBSET (0..L)
  BY <1>1
<1>6. PICK m \in S : \A y \in S : y <= m
  BY <1>4, <1>5, MaxOf
<1>7. /\ m \in At /\ m \in 1..L /\ ctx[m].base > Size /\ ctx[m].base \in Nat
      /\ After(m) >= ctx[m].base + Own(m) /\ Own(m) \in {0, 1}
  BY <1>1, <1>6 DEF Inv, Stacked, Own
<1>8. CASE m = L
  BY <1>2, <1>7, <1>8 DEF After
<1>9. CASE m # L
  <2>1. m + 1 \in At /\ After(m) = ctx[m + 1].base /\ ctx[m + 1].base \in Nat
    BY <1>1, <1>7, <1>9 DEF After
  <2>2. m + 1 \in S
    BY <1>2, <1>7, <2>1
  <2> QED BY <1>6, <1>7, <2>2
<1> QED BY <1>8, <1>9

\* A stop leaves the calls; what they pushed stays above every frame in use.
LEMMA CallStopInv == ASSUME Inv, CallStop PROVE Inv'
<1>1. /\ ~Idle /\ Cur.kind = "call"
      /\ ctx' = [SubSeq(ctx, 1, BaseAt) EXCEPT ![BaseAt].clean = FALSE]
      /\ UNCHANGED <<frames, pin, start, runs, live, subs>>
  BY DEF CallStop, In, env
<1> PICK L \in Nat : L = Len(ctx)
  BY Contexts DEF Inv
<1>2. L \in At /\ At = 1..L /\ Cur = ctx[L] /\ \A i \in At : ctx[i] \in Context
  BY <1>1, Contexts DEF Inv
<1>3. PICK B \in At : /\ B = BaseAt /\ ctx[B].kind # "call"
                      /\ \A j \in At : j > B => ctx[j].kind = "call"
  BY <1>1, Innermost DEF Inv
<1>4. B \in 1..(L - 1) /\ B < L /\ B + 1 \in At
  BY <1>1, <1>2, <1>3
<1> DEFINE s == SubSeq(ctx, 1, B)
           c == [ctx[B] EXCEPT !.clean = FALSE]
<1>5. s \in Seq(Context) /\ Len(s) = B /\ \A i \in 1..B : s[i] = ctx[i]
  <2>1. ctx \in Seq(Context) /\ 1 \in Int /\ B \in Int /\ \A i \in 1..B : ctx[i] \in Context
    BY <1>2, <1>4 DEF Inv, Types
  <2> QED BY <1>4, <2>1, SubSeqProperties
<1>6. /\ c \in Context /\ c.clean = FALSE
      /\ c.kind = ctx[B].kind /\ c.run = ctx[B].run /\ c.pin = ctx[B].pin
      /\ c.start = ctx[B].start /\ c.base = ctx[B].base
  BY <1>2 DEF Context
<1>7. ctx' = [s EXCEPT ![B] = c]
  <2>1. s[B] = ctx[B]
    BY <1>4, <1>5
  <2>2. ctx' = [s EXCEPT ![B].clean = FALSE]
    BY <1>1, <1>3
  <2>3. [s EXCEPT ![B].clean = FALSE] = [s EXCEPT ![B] = [s[B] EXCEPT !.clean = FALSE]]
    OBVIOUS
  <2> QED BY <2>1, <2>2, <2>3
<1> HIDE DEF s, c
<1>8. /\ ctx' \in Seq(Context) /\ Len(ctx') = B
      /\ \A i \in 1..B : ctx'[i] = IF i = B THEN c ELSE ctx[i]
  <2>1. B \in 1..Len(s)
    BY <1>4, <1>5
  <2>2. /\ ctx' \in Seq(Context) /\ Len(ctx') = Len(s)
        /\ \A j \in 1..Len(s) : ctx'[j] = IF j = B THEN c ELSE s[j]
    BY <1>5, <1>6, <1>7, <2>1, ExceptSeq
  <2> QED BY <1>5, <2>2
<1>9. At' = 1..B
  BY <1>8, LenProperties DEF At
<1>10. \A i \in At' :
         /\ i \in At /\ i < L /\ i <= B
         /\ ctx'[i].kind = ctx[i].kind /\ ctx'[i].run = ctx[i].run /\ ctx'[i].pin = ctx[i].pin
         /\ ctx'[i].start = ctx[i].start /\ ctx'[i].base = ctx[i].base
         /\ ctx'[i].clean => ctx[i].clean /\ i # B
  BY <1>2, <1>4, <1>6, <1>8, <1>9
<1>11. 1 \in At' /\ ~Idle' /\ Size' = Size /\ Size \in Nat
  <2>1. 1 \in At' /\ Size \in Nat
    BY <1>4, <1>9, Numbers DEF Inv
  <2>2. ctx' # <<>>
    BY <1>4, <1>8, EmptySeq
  <2> QED BY <1>1, <2>1, <2>2 DEF Idle, Size
<1>12. Types'
  <2>1. \A i \in At' : ctx'[i].run <= Len(runs)
    BY <1>10 DEF Inv, Types
  <2> QED BY <1>1, <1>8, <1>11, <2>1 DEF Inv, Types
<1>13. Nested'
  <2>1. ASSUME NEW i \in At', NEW j \in At', i < j, ctx'[i].kind = "call"
        PROVE  ctx'[j].kind = "call"
    BY <1>10, <2>1 DEF Inv, Nested
  <2>2. ASSUME NEW i \in At'
        PROVE  /\ ctx'[i].kind \notin {"call", "block"} => i = 1 /\ ctx'[i].pin = 0
               /\ ctx'[i].kind # "call" => ctx'[i].run > 0
    BY <1>10 DEF Inv, Nested
  <2>3. ctx'[1].kind # "call"
    BY <1>1, <1>10, <1>11 DEF Inv, Nested
  <2> QED BY <2>1, <2>2, <2>3 DEF Nested
<1>14. Stacked'
  <2> SUFFICES ASSUME NEW i \in At'
               PROVE  /\ After(i)' >= ctx'[i].base + Own(i)'
                      /\ ctx'[i].clean => After(i)' = ctx'[i].base + Own(i)'
                      /\ ctx'[i].kind = "call" => ctx'[i].clean
    BY DEF Stacked
  <2>1. Own(i)' = Own(i) /\ Own(i) \in {0, 1} /\ i \in At /\ i \in Nat
    BY <1>2, <1>10 DEF Own
  <2>2. CASE i = B
    <3>1. After(i)' = Size /\ After(i) = ctx[B + 1].base
      BY <1>4, <1>8, <1>11, <2>2 DEF After
    <3>2. ctx[B + 1].base <= Size /\ ctx[B + 1].base \in Nat /\ ctx[i].base \in Nat
      <4>1. ctx[B + 1].base <= Size
        BY <1>4, NothingBelow
      <4>2. ctx[B + 1] \in Context /\ ctx[i] \in Context /\ MaxFrames \in Nat
        BY <1>2, <1>4, <2>1, Numbers DEF Inv
      <4> QED BY <4>1, <4>2 DEF Context
    <3>3. After(i) >= ctx[i].base + Own(i)
      BY <2>1 DEF Inv, Stacked
    <3>4. Size >= ctx[i].base + Own(i)
      BY <1>11, <2>1, <3>1, <3>2, <3>3, SMTT(30)
    <3>5. ctx'[i].kind # "call" /\ ~ctx'[i].clean /\ ctx'[i].base = ctx[i].base
      BY <1>3, <1>10, <2>2
    <3> QED BY <2>1, <3>1, <3>4, <3>5
  <2>3. CASE i # B
    <3>1. i + 1 \in At' /\ i # L /\ i # B /\ i \in At'
      <4>1. i \in 1..B /\ i < L /\ B \in Nat
        BY <1>4, <1>9, <1>10
      <4> QED BY <1>9, <2>3, <4>1
    <3>2. After(i)' = After(i)
      BY <1>8, <1>10, <3>1 DEF After
    <3>3. ctx'[i] = ctx[i]
      BY <1>8, <1>9, <2>3
    <3> QED BY <1>10, <2>1, <3>2, <3>3 DEF Inv, Stacked
  <2> QED BY <2>2, <2>3
<1>15. \A i \in At : ctx[i].kind # "call" => i \in At'
  BY <1>2, <1>3, <1>9
<1>16. \A r \in 1..Len(runs) : (Kept(r)' => Kept(r)) /\ (Executing(r) => Executing(r)')
  <2>1. \A r \in 1..Len(runs) : Kept(r)' => Kept(r)
    BY <1>1, <1>10 DEF Kept, Orphaned
  <2>2. \A r \in 1..Len(runs) : Executing(r) => Executing(r)'
    BY <1>10, <1>15 DEF Executing
  <2> QED BY <2>1, <2>2
<1>17. \A r \in 1..Len(runs) : Kept(r)' =>
            /\ Kept(r) /\ runs[r].frame <= Size'
            /\ ~Executing(r)' => runs[r].depth <= Size'
  BY <1>11, <1>16, Numbers DEF Inv, Settled, Depths
<1>18. \A i \in At' : ctx'[i].kind \in {"call", "block"} =>
            /\ i \in At /\ ctx'[i].kind = ctx[i].kind
            /\ ctx'[i].run = ctx[i].run /\ ctx'[i].base = ctx[i].base
  BY <1>10
<1>19. Settled' /\ Depths'
  BY <1>1, <1>11, <1>16, <1>17, <1>18, SettledStep
<1>20. Executed'
  <2>1. \A i \in At' : \A j \in 1..i : j \in At'
    BY <1>4, <1>9
  <2>2. \A i \in At' : i \in At /\ ctx'[i].base = ctx[i].base
    BY <1>10
  <2>3. \A j \in At' : j \in At /\ ctx'[j].kind = ctx[j].kind /\ ctx'[j].run = ctx[j].run
    BY <1>10
  <2>4. B \in Nat
    BY <1>4
  <2>5. UNCHANGED <<runs, live, subs>>
    BY <1>1
  <2> QED BY <1>9, <2>1, <2>2, <2>3, <2>4, <2>5, ExecutedStep
<1>21. Pinning'
  BY <1>1, <1>10, <1>11 DEF Inv, Pinning, Orphaned
<1>50. Leaked'
  BY <1>1, <1>10, <1>11, LeakedStep
<1> QED BY <1>12, <1>13, <1>14, <1>19, <1>20, <1>21, <1>50 DEF Inv

\* A block begins: its frame is pushed on top.  No call is under way.
LEMMA StartInv ==
  ASSUME Inv, NEW n \in Names, Start(n)
  PROVE  Inv'
<1> PICK L \in Nat : L = Len(ctx)
  BY Contexts DEF Inv
<1> PICK r \in Int : r = Len(runs) + 1
  BY Numbers DEF Inv
<1> PICK w : w = Blocks
  OBVIOUS
<1> DEFINE c == [kind |-> "block", run |-> r, pin |-> pin, start |-> start,
                 base |-> Size, clean |-> TRUE]
           e == [proc |-> n, frame |-> Size + 1, depth |-> 0, clean |-> TRUE,
                 within |-> w, popped |-> FALSE]
<1>1. /\ Idle \/ Cur.kind \in StartsFrom
      /\ Len(runs) < MaxRuns /\ ctx' = Append(ctx, c) /\ Push(r) /\ runs' = Append(runs, e)
      /\ UNCHANGED <<pin, start, live, subs>>
  BY DEF Start, Enter, Ctx, In
<1>2. /\ MaxRuns \in Nat /\ MaxFrames \in Nat /\ Size \in 1..MaxFrames /\ Size \in Nat
      /\ pin \in 0..MaxFrames /\ start \in 0..MaxFrames /\ Len(runs) \in Nat
      /\ r \in 1..MaxRuns
  <2>1. Size \in 1..MaxFrames /\ pin \in 0..MaxFrames /\ start \in 0..MaxFrames
    BY DEF Inv, Types
  <2>2. MaxRuns \in Nat /\ MaxFrames \in Nat /\ Size \in Nat /\ Len(runs) \in Nat
    BY Numbers DEF Inv
  <2> QED BY <1>1, <2>1, <2>2
<1>3. c \in Context /\ c.kind = "block" /\ c.run = r /\ c.base = Size /\ c.clean = TRUE
  BY <1>2 DEF Context, CtxKinds
<1>4. /\ frames' \in Seq(Frame) /\ Size' = Size + 1 /\ Size' \in 1..MaxFrames
      /\ \A i \in 1..Size : frames'[i] = frames[i]
      /\ frames'[Size + 1].own = r
  <2>1. /\ frames' \in Seq(Frame) /\ Size' = Size + 1 /\ Size' \in 1..MaxFrames
        /\ \A i \in 1..Size : frames'[i] = frames[i]
        /\ frames'[Size + 1] = Empty(r)
    BY <1>1, <1>2, Pushed DEF Inv
  <2> QED BY <2>1 DEF Empty
<1>5. At = 1..L /\ \A i \in At : ctx[i].kind # "call" /\ i \in Nat /\ i <= L
  <2>1. At = 1..L /\ (L # 0 => L \in At /\ Cur = ctx[L] /\ ~Idle)
    BY Contexts DEF Inv
  <2>2. L # 0 => ctx[L].kind # "call"
    BY <1>1, <2>1, ScopesAssumption
  <2> QED BY <2>1, <2>2 DEF Inv, Nested
<1>6. \A i \in At : ctx[i].run \in 1..Len(runs) /\ ctx[i].run < r
  <2> SUFFICES ASSUME NEW i \in At PROVE ctx[i].run \in 1..Len(runs) /\ ctx[i].run < r
    OBVIOUS
  <2>1. ctx[i] \in Context /\ ctx[i].run <= Len(runs) /\ ctx[i].run > 0
    BY <1>5, Contexts DEF Inv, Types, Nested
  <2> QED BY <1>2, <2>1 DEF Context
\* The blocks around it.
<1>7. /\ \A o \in w : \E j \in At : ctx[j].kind = "block" /\ ctx[j].run = o
      /\ \A j \in At : ctx[j].kind = "block" => ctx[j].run \in w
      /\ w \subseteq 1..Len(runs) /\ w \subseteq Runs
  <2>1. w = {ctx[i].run : i \in {j \in At : ctx[j].kind = "block"}}
    BY DEF Blocks, At
  <2>2. w \subseteq 1..Len(runs)
    BY <1>6, <2>1
  <2>3. 1..Len(runs) \subseteq Runs
    BY <1>1, <1>2 DEF Runs
  <2> QED BY <2>1, <2>2, <2>3
<1>8. e \in Run /\ e.frame = Size + 1 /\ e.within = w /\ e.popped = FALSE
  <2>1. Size + 1 \in 2..MaxFrames /\ 0 \in 0..MaxFrames
    BY <1>2, <1>4
  <2> QED BY <1>7, <2>1 DEF Run
<1>9. /\ runs' \in Seq(Run) /\ Len(runs') = r
      /\ \A q \in 1..Len(runs) : runs'[q] = runs[q]
      /\ runs'[r] = e
  BY <1>1, <1>8, AppendProperties DEF Inv, Types
<1> HIDE DEF c, e
<1>10. /\ ctx' \in Seq(Context) /\ Len(ctx') = L + 1
       /\ At' = 1..(L + 1) /\ ~Idle'
       /\ \A i \in At : ctx'[i] = ctx[i]
       /\ ctx'[L + 1] = c
  BY <1>1, <1>3, Entered DEF Inv
<1>11. /\ \A i \in At' : i \in At \/ (i = L + 1 /\ i \notin At)
       /\ \A i \in At : i \in At' /\ i < L + 1
       /\ L + 1 \in At'
  BY <1>5, <1>10
<1>12. ctx'[L + 1].kind = "block" /\ ctx'[L + 1].run = r /\ ctx'[L + 1].base = Size
       /\ ctx'[L + 1].clean = TRUE
  BY <1>3, <1>10
<1>13. \A q \in 1..r : q = r \/ q \in 1..Len(runs)
  BY <1>2
<1>14. /\ \A q \in 1..Len(runs) : q < r /\ (Orphaned(q)' <=> Orphaned(q))
       /\ \A q, o : Under(q, o) => Under(q, o)'
  <2>1. ASSUME NEW q \in 1..Len(runs) PROVE q < r /\ (Orphaned(q)' <=> Orphaned(q))
    <3>1. runs[q].within \subseteq 1..Len(runs)
      BY DEF Inv, Types
    <3>2. runs'[q] = runs[q] /\ \A o \in runs[q].within : runs'[o] = runs[o]
      BY <1>9, <3>1
    <3> QED BY <1>2, <3>2 DEF Orphaned
  <2>2. ASSUME NEW q, NEW o, Under(q, o) PROVE Under(q, o)'
    <3>1. o \in 1..Len(runs) => o \in 1..Len(runs') /\ runs'[o] = runs[o]
      BY <1>2, <1>9
    <3>2. CASE o \in {0, q}
      BY <3>2 DEF Under
    <3>3. CASE o \in 1..Len(runs) /\ q \in runs[o].within
      BY <3>1, <3>3 DEF Under
    <3> QED BY <2>2, <3>2, <3>3 DEF Under
  <2> QED BY <2>1, <2>2
<1>15. Types'
  <2>1. ASSUME NEW i \in At' PROVE ctx'[i].run <= r
    <3>1. CASE i \in At
      BY <1>2, <1>6, <1>10, <3>1
    <3>2. CASE i = L + 1
      BY <1>12, <3>2
    <3> QED BY <1>11, <3>1, <3>2
  <2>2. 0..Len(runs) \subseteq 0..r /\ 1..Len(runs) \subseteq 1..r /\ r <= MaxRuns
    BY <1>2
  <2>3. live' \in [Names -> 0..r] /\ subs' \subseteq (1..r) \X Callbacks
    <3>1. live' \in [Names -> 0..Len(runs)] /\ subs' \subseteq (1..Len(runs)) \X Callbacks
      BY <1>1 DEF Inv, Types
    <3> QED BY <2>2, <3>1
  <2>4. pin' \in 0..MaxFrames /\ start' \in 0..MaxFrames
    BY <1>1, <1>2
  <2>5. ASSUME NEW q \in 1..r PROVE runs'[q].within \subseteq 1..r
    <3>1. CASE q = r
      BY <1>7, <1>8, <1>9, <2>2, <3>1
    <3>2. CASE q \in 1..Len(runs)
      BY <1>9, <2>2, <3>2 DEF Inv, Types
    <3> QED BY <1>13, <3>1, <3>2
  <2> QED BY <1>4, <1>9, <1>10, <2>1, <2>2, <2>3, <2>4, <2>5 DEF Types
<1>16. Nested'
  <2>1. ASSUME NEW i \in At'
        PROVE  /\ ctx'[i].kind \notin {"call", "block"} => i = 1 /\ ctx'[i].pin = 0
               /\ ctx'[i].run > 0
               /\ ctx'[i].kind # "call"
    <3>1. CASE i \in At
      <4>1. ctx'[i] = ctx[i] /\ ctx[i].run > 0 /\ ctx[i].kind # "call"
        BY <1>5, <1>10, <3>1 DEF Inv, Nested
      <4> QED BY <3>1, <4>1 DEF Inv, Nested
    <3>2. CASE i = L + 1
      BY <1>2, <1>12, <3>2
    <3> QED BY <1>11, <3>1, <3>2
  <2>2. 1 \in At'
    BY <1>10
  <2> QED BY <2>1, <2>2 DEF Nested
<1>17. Stacked'
  <2>1. ASSUME NEW i \in At PROVE After(i)' = After(i) /\ Own(i)' = Own(i)
    <3>1. Own(i)' = Own(i)
      BY <1>10 DEF Own
    <3>2. CASE i = L
      BY <1>10, <1>12, <3>1, <3>2 DEF After
    <3>3. CASE i # L
      <4>1. i + 1 \in At /\ i # L + 1
        BY <1>5, <3>3
      <4> QED BY <1>5, <1>10, <3>1, <3>3, <4>1 DEF After
    <3> QED BY <3>1, <3>2, <3>3
  <2>2. After(L + 1)' = Size + 1 /\ Own(L + 1)' = 1
    BY <1>4, <1>10, <1>12 DEF After, Own
  <2>3. ASSUME NEW i \in At'
        PROVE  /\ After(i)' >= ctx'[i].base + Own(i)'
               /\ ctx'[i].clean => After(i)' = ctx'[i].base + Own(i)'
               /\ ctx'[i].kind = "call" => ctx'[i].clean
    <3>1. CASE i \in At
      BY <1>10, <2>1, <3>1 DEF Inv, Stacked
    <3>2. CASE i = L + 1
      BY <1>2, <1>12, <2>2, <3>2
    <3> QED BY <1>11, <3>1, <3>2
  <2> QED BY <2>3 DEF Stacked
<1>18. \A i \in At' :
         /\ ctx'[i].kind # "call"
         /\ ctx'[i].kind = "block" => \/ i \in At /\ ctx'[i] = ctx[i] /\ ctx[i].kind = "block" /\ ctx[i].run < r
                                      \/ i = L + 1
  BY <1>5, <1>6, <1>10, <1>11, <1>12
<1>19. ASSUME NEW q \in 1..Len(runs)
       PROVE  (Kept(q)' => Kept(q)) /\ (Executing(q) => Executing(q)')
  <2>1. q # r
    BY <1>2
  <2>2. ASSUME Kept(q)' PROVE Kept(q)
    <3>0. ~Orphaned(q)
      BY <1>14, <2>2 DEF Kept
    <3>1. CASE (\E k \in Pinned : <<q, k>> \in subs') \/ (\E m \in Names : live'[m] = q)
      BY <1>1, <3>0, <3>1 DEF Kept
    <3>2. CASE \E i \in At' : ctx'[i].run = q /\ ctx'[i].kind \in Pinned \cup {"block", "reload"}
      <4>1. PICK i \in At' : ctx'[i].run = q /\ ctx'[i].kind \in Pinned \cup {"block", "reload"}
        BY <3>2
      <4>2. i \in At
        BY <1>11, <1>12, <2>1, <4>1
      <4> QED BY <1>10, <3>0, <4>1, <4>2 DEF Kept
    <3> QED BY <2>2, <3>1, <3>2 DEF Kept
  <2>3. Executing(q) => Executing(q)'
    BY <1>10, <1>11 DEF Executing
  <2> QED BY <2>2, <2>3
<1>20. Settled'
  <2> SUFFICES ASSUME NEW q \in 1..r, Kept(q)'
               PROVE  /\ runs'[q].frame <= Size' /\ frames'[runs'[q].frame].own = q
                      /\ \A i \in At' :
                           /\ ctx'[i].kind = "call" => runs'[q].frame <= ctx'[i].base
                           /\ ctx'[i].kind = "block" /\ q < ctx'[i].run => runs'[q].frame <= ctx'[i].base
    BY <1>9 DEF Settled
  <2>1. CASE q = r
    <3>1. runs'[q].frame = Size + 1
      BY <1>8, <1>9, <2>1
    <3>2. ASSUME NEW i \in At', ctx'[i].kind = "block" PROVE ~(q < ctx'[i].run)
      <4>1. CASE i \in At /\ ctx'[i] = ctx[i]
        BY <1>2, <1>6, <2>1, <4>1
      <4>2. CASE i = L + 1
        BY <1>12, <2>1, <4>2
      <4> QED BY <1>18, <3>2, <4>1, <4>2
    <3>3. runs'[q].frame <= Size' /\ frames'[runs'[q].frame].own = q
      BY <1>2, <1>4, <2>1, <3>1
    <3> QED BY <1>18, <3>2, <3>3
  <2>2. CASE q \in 1..Len(runs)
    <3>1. runs'[q] = runs[q] /\ Kept(q) /\ runs[q].frame \in Nat /\ runs[q].frame >= 2
      BY <1>9, <1>19, <2>2, Numbers DEF Inv
    <3>2. /\ runs[q].frame <= Size /\ frames[runs[q].frame].own = q
          /\ \A i \in At : ctx[i].kind = "block" /\ q < ctx[i].run => runs[q].frame <= ctx[i].base
      BY <2>2, <3>1 DEF Inv, Settled
    <3>3. runs[q].frame \in 1..Size
      BY <1>2, <3>1, <3>2
    <3>4. runs'[q].frame <= Size' /\ frames'[runs'[q].frame].own = q
      BY <1>2, <1>4, <3>1, <3>2, <3>3, SMTT(30)
    <3>5. \A i \in At' : ctx'[i].kind = "block" /\ q < ctx'[i].run => runs[q].frame <= ctx'[i].base
      BY <1>12, <1>18, <3>2
    <3> QED BY <1>18, <3>1, <3>4, <3>5
  <2> QED BY <1>13, <2>1, <2>2
<1>21. Executed'
  <2> SUFFICES ASSUME NEW i \in At', ctx'[i].kind = "block"
               PROVE  LET q == ctx'[i].run IN
                      /\ runs'[q].frame = ctx'[i].base + 1 /\ ~runs'[q].popped
                      /\ \A m \in Names : live'[m] # q
                      /\ <<q, "replaced">> \notin subs' /\ <<q, "delayed">> \notin subs'
                      /\ \A j \in At' : j < i => ctx'[j].run < q
                      /\ \A o \in runs'[q].within : \E j \in At' : j < i /\ ctx'[j].kind = "block" /\ ctx'[j].run = o
                      /\ \A p \in 1..Len(runs') : q < p => q \in runs'[p].within
    BY DEF Executed
  <2>1. CASE i = L + 1
    <3>1. \A m \in Names : live'[m] # r
      BY <1>1, <1>2 DEF Inv, Types
    <3>2. <<r, "replaced">> \notin subs' /\ <<r, "delayed">> \notin subs'
      BY <1>1, <1>2 DEF Inv, Types
    <3>3. \A j \in At' : j < i => ctx'[j].run < r
      BY <1>6, <1>10, <1>11, <2>1
    <3>4. \A o \in w : \E j \in At' : j < i /\ ctx'[j].kind = "block" /\ ctx'[j].run = o
      BY <1>7, <1>10, <1>11, <2>1
    <3>5. \A p \in 1..Len(runs') : ~(r < p)
      BY <1>9
    <3> QED BY <1>8, <1>9, <1>12, <2>1, <3>1, <3>2, <3>3, <3>4, <3>5
  <2>2. CASE i \in At /\ ctx'[i] = ctx[i] /\ ctx[i].kind = "block"
    <3> PICK q \in 1..Len(runs) : q = ctx[i].run
      BY <1>6, <2>2
    <3>1. /\ runs[q].frame = ctx[i].base + 1 /\ ~runs[q].popped
          /\ \A m \in Names : live[m] # q
          /\ <<q, "replaced">> \notin subs /\ <<q, "delayed">> \notin subs
          /\ \A j \in At : j < i => ctx[j].run < q
          /\ \A o \in runs[q].within : \E j \in At : j < i /\ ctx[j].kind = "block" /\ ctx[j].run = o
          /\ \A p \in 1..Len(runs) : q < p => q \in runs[p].within
      BY <2>2 DEF Inv, Executed
    <3>2. runs'[q] = runs[q]
      BY <1>9
    <3>3. \A j \in At' : j < i => ctx'[j].run < q
      <4>1. \A j \in At' : j < i => j \in At
        BY <1>5, <1>10, <2>2
      <4> QED BY <1>10, <3>1, <4>1
    <3>4. \A o \in runs[q].within : \E j \in At' : j < i /\ ctx'[j].kind = "block" /\ ctx'[j].run = o
      BY <1>10, <1>11, <3>1
    <3>5. ASSUME NEW p \in 1..r, q < p PROVE q \in runs'[p].within
      <4>1. CASE p = r
        BY <1>7, <1>8, <1>9, <2>2, <4>1
      <4>2. CASE p \in 1..Len(runs)
        BY <1>9, <3>1, <3>5, <4>2
      <4> QED BY <1>13, <4>1, <4>2
    <3> QED BY <1>1, <1>9, <2>2, <3>1, <3>2, <3>3, <3>4, <3>5
  <2> QED BY <1>18, <2>1, <2>2
<1>22. Depths'
  <2> SUFFICES ASSUME NEW q \in 1..r, ~Executing(q)'
               PROVE  /\ runs'[q].clean => runs'[q].depth = runs'[q].frame
                      /\ Kept(q)' =>
                           /\ runs'[q].depth \in runs'[q].frame..Size'
                           /\ Under(q, frames[runs[q].depth].own)'
                           /\ \A i \in At' :
                                /\ ctx'[i].kind = "call" => runs'[q].depth <= ctx'[i].base
                                /\ ctx'[i].kind = "block" /\ q < ctx'[i].run => runs'[q].depth <= ctx'[i].base
    BY <1>9 DEF Depths
  <2>1. q # r
    <3>1. Executing(r)'
      BY <1>11, <1>12 DEF Executing
    <3> QED BY <3>1
  <2>2. /\ q \in 1..Len(runs) /\ runs'[q] = runs[q] /\ (Kept(q)' => Kept(q)) /\ ~Executing(q)
        /\ runs[q].frame \in Nat /\ runs[q].frame >= 2 /\ runs[q].depth \in Nat
    BY <1>9, <1>13, <1>19, <2>1, Numbers DEF Inv
  <2>3. /\ runs[q].clean => runs[q].depth = runs[q].frame
        /\ Kept(q) => /\ runs[q].depth \in runs[q].frame..Size /\ Under(q, frames[runs[q].depth].own)
                      /\ \A i \in At : ctx[i].kind = "block" /\ q < ctx[i].run => runs[q].depth <= ctx[i].base
    BY <2>2 DEF Inv, Depths
  <2>4. ASSUME Kept(q)'
        PROVE  /\ runs'[q].depth \in runs'[q].frame..Size'
               /\ Under(q, frames[runs[q].depth].own)'
               /\ \A i \in At' :
                    /\ ctx'[i].kind = "call" => runs'[q].depth <= ctx'[i].base
                    /\ ctx'[i].kind = "block" /\ q < ctx'[i].run => runs'[q].depth <= ctx'[i].base
    <3> PICK d \in 1..Size : d = runs[q].depth
      BY <1>2, <2>2, <2>3, <2>4
    <3>1. d \in runs[q].frame..Size /\ Under(q, frames[d].own)
      BY <2>2, <2>3, <2>4
    <3>2. frames'[d] = frames[d] /\ runs'[q].depth = d
      BY <1>4, <2>2
    <3>3. Under(q, frames[d].own)'
      BY <1>14, <3>1, <3>2 DEF Under
    <3>4. Under(q, frames[runs[q].depth].own)'
      BY <3>2, <3>3 DEF Under
    <3>5. d \in runs[q].frame..Size'
      BY <1>2, <1>4, <3>1
    <3>6. \A i \in At' : ctx'[i].kind = "block" /\ q < ctx'[i].run => d <= ctx'[i].base
      BY <1>12, <1>18, <2>2, <2>3, <2>4
    <3> QED BY <1>18, <2>2, <3>2, <3>4, <3>5, <3>6
  <2> QED BY <2>2, <2>3, <2>4
<1>23. Pinning'
  <2>1. CASE L = 0
    <3>1. Idle
      BY <2>1, Contexts DEF Inv
    <3>2. pin = 0 /\ ctx'[1].kind = "block"
      BY <1>12, <2>1, <3>1 DEF Inv, Pinning
    <3> QED BY <1>1, <1>10, <3>2 DEF Pinning, Pinned
  <2>2. CASE L # 0
    <3>1. 1 \in At /\ ctx'[1] = ctx[1] /\ ~Idle
      BY <1>10, <2>2, Contexts DEF Inv
    <3> PICK q \in 1..Len(runs) : q = ctx[1].run
      BY <1>6, <3>1
    <3>2. runs'[q] = runs[q] /\ (Orphaned(q)' <=> Orphaned(q))
      BY <1>9, <1>14
    <3>3. Orphaned(ctx[1].run)' <=> Orphaned(q)'
      BY <3>1 DEF Orphaned
    <3> QED BY <1>1, <1>10, <3>1, <3>2, <3>3 DEF Inv, Pinning
  <2> QED BY <2>1, <2>2
<1>24. Leaked'
  <2> SUFFICES ASSUME NEW i \in At', ctx'[i].kind = "block", NEW k \in (ctx'[i].base + 2)..Size'
               PROVE  Under(ctx[i].run, frames[k].own)'
    BY DEF Leaked
  <2>1. CASE i = L + 1
    <3>1. ctx'[i].base = Size
      BY <1>12, <2>1
    <3> QED BY <1>2, <1>4, <3>1
  <2>2. CASE i \in At /\ ctx'[i] = ctx[i] /\ ctx[i].kind = "block"
    <3> PICK q \in 1..Len(runs) : q = ctx[i].run
      BY <1>6, <2>2
    <3>1. ctx[i].base \in Nat
      BY <1>2, <2>2, Contexts DEF Inv, Context
    <3>2. CASE k = Size + 1
      <4>1. frames'[k].own = r /\ q \in runs'[r].within /\ r \in 1..Len(runs')
        BY <1>2, <1>4, <1>7, <1>8, <1>9, <2>2, <3>2
      <4> QED BY <2>2, <4>1 DEF Under
    <3>3. CASE k # Size + 1
      <4>1. k \in (ctx[i].base + 2)..Size /\ k \in 1..Size
        BY <1>2, <1>4, <2>2, <3>1, <3>3
      <4>2. Under(q, frames[k].own) /\ frames'[k] = frames[k]
        BY <1>4, <2>2, <4>1 DEF Inv, Leaked
      <4>3. Under(q, frames[k].own)'
        BY <1>14, <4>2 DEF Under
      <4> QED BY <2>2, <4>3 DEF Under
    <3> QED BY <3>2, <3>3
  <2> QED BY <1>18, <2>1, <2>2
<1> QED BY <1>15, <1>16, <1>17, <1>20, <1>21, <1>22, <1>23, <1>24 DEF Inv

\* A block ends.  Its frame stays when a callback may pin it; otherwise the top
\* frame goes, and nobody knows the run any more.
LEMMA BlockEndInv == ASSUME Inv, BlockEnd PROVE Inv'
<1> PICK L \in Nat : L = Len(ctx)
  BY Contexts DEF Inv
<1>1. ~Idle /\ Cur.kind = "block" /\ UNCHANGED <<pin, start, subs>>
  BY DEF BlockEnd, In
<1>2. L \in At /\ At = 1..L /\ Cur = ctx[L] /\ ctx[L] \in Context /\ ctx[L].kind = "block" /\ 1 \in At
  BY <1>1, Contexts DEF Inv
<1> PICK r \in 1..Len(runs) : r = ctx[L].run
  BY <1>2, Numbers, SMTT(30) DEF Inv, Types, Nested, Context
<1> PICK b \in 1..MaxFrames : b = ctx[L].base
  BY <1>2 DEF Context
<1> PICK z \in Nat : z = Size
  BY Numbers DEF Inv
<1> PICK cl \in BOOLEAN : cl = ctx[L].clean
  BY <1>2 DEF Context
<1> DEFINE temporal == \E k \in {"segment", "at"} : <<r, k>> \in subs
<1> PICK pp \in BOOLEAN : pp <=> ~temporal
  OBVIOUS
<1> DEFINE e == [runs[r] EXCEPT !.depth = z, !.clean = cl, !.popped = pp]
<1>3. /\ frames' = IF temporal THEN frames ELSE Popped(1)
      /\ Leave(Len(frames'))
      /\ live' = IF temporal THEN [live EXCEPT ![runs[r].proc] = r] ELSE live
      /\ runs' = [runs EXCEPT ![r].depth = z, ![r].clean = cl, ![r].popped = pp]
  BY <1>2 DEF BlockEnd
<1> HIDE DEF temporal
<1>4. \A i \in At : i # L => i < L /\ ctx[i].kind # "call"
  BY <1>2 DEF Inv, Nested
<1>5. /\ runs[r].frame = b + 1 /\ ~runs[r].popped
      /\ \A n \in Names : live[n] # r
      /\ <<r, "replaced">> \notin subs /\ <<r, "delayed">> \notin subs
      /\ \A j \in At : j < L => ctx[j].run < r
      /\ \A o \in runs[r].within : \E j \in At : j < L /\ ctx[j].kind = "block" /\ ctx[j].run = o
      /\ \A q \in 1..Len(runs) : r < q => r \in runs[q].within
  BY <1>2 DEF Inv, Executed
<1>6. z >= b + 1 /\ (cl => z = b + 1) /\ b \in Nat /\ z \in 1..MaxFrames /\ MaxFrames \in Nat
  <2>1. After(L) = z /\ Own(L) = 1
    BY <1>2 DEF After, Own
  <2>2. z >= b + 1 /\ (cl => z = b + 1)
    BY <1>2, <2>1 DEF Inv, Stacked
  <2> QED BY <2>2, Numbers DEF Inv, Types
<1>7. Kept(r) /\ frames[b + 1].own = r
  <2>1. ~Orphaned(r)
    <3>1. \A j \in At : ctx[j].kind = "block" => ~runs[ctx[j].run].popped
      BY DEF Inv, Executed
    <3> QED BY <1>5, <3>1 DEF Orphaned
  <2>2. Kept(r)
    BY <1>2, <2>1 DEF Kept
  <2> QED BY <1>5, <2>2 DEF Inv, Settled
<1>8. \A k \in (b + 2)..z : Under(r, frames[k].own)
  BY <1>2 DEF Inv, Leaked
<1> PICK y \in Int : y = IF temporal THEN z ELSE z - 1
  OBVIOUS
<1>9. /\ frames' \in Seq(Frame) /\ Size' = y /\ y \in 1..MaxFrames /\ y \in b..z
      /\ \A i \in 1..y : frames'[i] = frames[i]
  <2>1. CASE temporal
    <3>1. frames' = frames /\ frames \in Seq(Frame) /\ y = z
      BY <1>3, <2>1 DEF Inv, Types
    <3>2. Size' = z
      BY <3>1 DEF Size
    <3> QED BY <1>6, <3>1, <3>2
  <2>2. CASE ~temporal
    <3>1. Size >= 2
      BY <1>6
    <3>2. /\ frames' \in Seq(Frame) /\ Size' = Size - 1 /\ Size' \in 1..MaxFrames
          /\ \A i \in 1..(Size - 1) : frames'[i] = frames[i]
      BY <1>3, <2>2, <3>1, PoppedOne DEF Inv
    <3> QED BY <1>6, <2>2, <3>2
  <2> QED BY <2>1, <2>2
<1>10. /\ ctx' \in Seq(Context) /\ Len(ctx') = L - 1 /\ At' = 1..(L - 1)
       /\ \A i \in At' :
            /\ i \in At /\ i < L /\ ctx'[i].kind # "call" /\ ctx[i].run < r
            /\ ctx'[i].kind = ctx[i].kind /\ ctx'[i].run = ctx[i].run /\ ctx'[i].pin = ctx[i].pin
            /\ ctx'[i].start = ctx[i].start /\ ctx'[i].base = ctx[i].base
            /\ ctx'[i].clean <=> ctx[i].clean /\ y = b
  <2>1. Len(frames') = y
    BY <1>9 DEF Size
  <2>2. /\ ctx' \in Seq(Context) /\ Len(ctx') = Len(ctx) - 1 /\ At' = 1..(Len(ctx) - 1)
        /\ \A i \in 1..(Len(ctx) - 1) :
              /\ i \in At
              /\ ctx'[i].kind = ctx[i].kind /\ ctx'[i].run = ctx[i].run /\ ctx'[i].pin = ctx[i].pin
              /\ ctx'[i].start = ctx[i].start /\ ctx'[i].base = ctx[i].base
              /\ ctx'[i].clean <=> ctx[i].clean /\ Len(frames') = Cur.base
    BY <1>1, <1>3, Left DEF Inv
  <2>3. ASSUME NEW i \in At' PROVE i \in At /\ i < L /\ ctx[i].kind # "call" /\ ctx[i].run < r
    <3>1. i \in 1..(L - 1)
      BY <2>2
    <3>2. i \in At /\ i # L /\ i < L
      BY <1>2, <3>1
    <3> QED BY <1>4, <1>5, <3>2
  <2> QED BY <1>2, <2>1, <2>2, <2>3
<1>11. \A i \in At : i # L => i \in At'
  BY <1>2, <1>10
<1>12. /\ runs' \in Seq(Run) /\ Len(runs') = Len(runs)
       /\ runs'[r].proc = runs[r].proc /\ runs'[r].frame = runs[r].frame
       /\ runs'[r].within = runs[r].within
       /\ runs'[r].depth = z /\ runs'[r].clean = cl /\ runs'[r].popped = pp
       /\ \A q \in 1..Len(runs) : q # r => runs'[q] = runs[q]
  <2>1. runs[r] \in Run /\ runs \in Seq(Run)
    BY Numbers DEF Inv, Types
  <2>2. e \in Run
    <3>1. z \in 0..MaxFrames
      BY <1>6
    <3> QED BY <2>1, <3>1 DEF Run
  <2>3. /\ e.proc = runs[r].proc /\ e.frame = runs[r].frame /\ e.within = runs[r].within
        /\ e.depth = z /\ e.clean = cl /\ e.popped = pp
    BY <2>1 DEF Run
  <2>4. runs' = [runs EXCEPT ![r] = e]
    <3>1. [runs EXCEPT ![r].depth = z, ![r].clean = cl, ![r].popped = pp] = [runs EXCEPT ![r] = e]
      OBVIOUS
    <3> QED BY <1>3, <3>1
  <2> HIDE DEF e
  <2>5. /\ runs' \in Seq(Run) /\ Len(runs') = Len(runs)
        /\ \A j \in 1..Len(runs) : runs'[j] = IF j = r THEN e ELSE runs[j]
    BY <2>1, <2>2, <2>4, ExceptSeq
  <2> QED BY <2>3, <2>5
<1> HIDE DEF e
<1>13. /\ live' \in [Names -> 0..Len(runs)]
       /\ \A n \in Names : live'[n] = live[n] \/ (live'[n] = r /\ temporal)
  <2>1. live \in [Names -> 0..Len(runs)] /\ r \in 0..Len(runs)
    BY Numbers DEF Inv, Types
  <2>2. CASE temporal
    BY <1>3, <2>1, <2>2
  <2>3. CASE ~temporal
    BY <1>3, <2>1, <2>3
  <2> QED BY <2>2, <2>3
\* Runs that were orphaned stay so, and a frame that is popped orphans others.
<1>14. ASSUME NEW q \in 1..Len(runs)
       PROVE  /\ runs'[q].within = runs[q].within /\ runs'[q].frame = runs[q].frame
              /\ Orphaned(q) => Orphaned(q)'
              /\ r \in runs[q].within /\ ~temporal => Orphaned(q)'
              /\ \A o : Under(q, o) => Under(q, o)'
  <2>1. runs'[q].within = runs[q].within /\ runs'[q].frame = runs[q].frame
    BY <1>12
  <2>2. ASSUME Orphaned(q) PROVE Orphaned(q)'
    <3>1. PICK o \in runs[q].within : runs[o].popped
      BY <2>2 DEF Orphaned
    <3>2. o \in 1..Len(runs) /\ o # r
      BY <1>5, <3>1 DEF Inv, Types
    <3>3. runs'[o] = runs[o]
      BY <1>12, <3>2
    <3> QED BY <2>1, <3>1, <3>3 DEF Orphaned
  <2>3. r \in runs[q].within /\ ~temporal => Orphaned(q)'
    BY <1>12, <2>1 DEF Orphaned
  <2>4. ASSUME NEW o, Under(q, o) PROVE Under(q, o)'
    <3>1. o \in 1..Len(runs) => o \in 1..Len(runs') /\ runs'[o].within = runs[o].within
      BY <1>12
    <3> QED BY <2>4, <3>1 DEF Under
  <2> QED BY <2>1, <2>2, <2>3, <2>4
<1>15. Types'
  <2>1. \A i \in At' : ctx'[i].run <= Len(runs)
    BY <1>10 DEF Inv, Types
  <2>2. Len(runs) <= MaxRuns /\ pin' \in 0..MaxFrames /\ start' \in 0..MaxFrames
        /\ subs' \subseteq (1..Len(runs)) \X Callbacks
    BY <1>1 DEF Inv, Types
  <2>3. \A q \in 1..Len(runs) : runs'[q].within \subseteq 1..Len(runs)
    BY <1>14 DEF Inv, Types
  <2> QED BY <1>9, <1>10, <1>12, <1>13, <2>1, <2>2, <2>3 DEF Types
<1>16. L = 1 \/ (L \in 2..L /\ 1 \in At /\ 1 \in At')
  BY <1>2, <1>11
<1>17. Idle' <=> L = 1
  <2>1. ctx' = <<>> <=> Len(ctx') = 0
    <3>1. ctx' \in Seq(Context)
      BY <1>10
    <3> QED BY <3>1, EmptySeq
  <2> QED BY <1>10, <2>1, SMTT(30) DEF Idle
<1>18. Nested'
  <2>1. ASSUME NEW i \in At'
        PROVE  /\ ctx'[i].kind # "block" => i = 1 /\ ctx'[i].pin = 0
               /\ ctx'[i].run > 0 /\ ctx'[i].kind # "call"
    <3>1. /\ i \in At /\ ctx'[i].kind # "call"
          /\ ctx'[i].kind = ctx[i].kind /\ ctx'[i].run = ctx[i].run /\ ctx'[i].pin = ctx[i].pin
      BY <1>10
    <3>2. ctx[i].run > 0 /\ (ctx[i].kind # "block" => i = 1 /\ ctx[i].pin = 0)
      BY <3>1 DEF Inv, Nested
    <3> QED BY <3>1, <3>2
  <2>2. ~Idle' => 1 \in At'
    BY <1>16, <1>17
  <2> QED BY <2>1, <2>2 DEF Nested
<1>19. Stacked'
  <2> SUFFICES ASSUME NEW i \in At'
               PROVE  /\ After(i)' >= ctx'[i].base + Own(i)'
                      /\ ctx'[i].clean => After(i)' = ctx'[i].base + Own(i)'
    BY <1>10 DEF Stacked
  <2>1. /\ i \in At /\ i < L /\ i \in Int /\ ctx'[i].base = ctx[i].base
        /\ ctx'[i].clean <=> ctx[i].clean /\ y = b
    BY <1>2, <1>10
  <2>2. Own(i)' = Own(i) /\ Own(i) \in {0, 1}
    BY <1>10 DEF Own
  <2>3. ctx[i].base \in Nat
    <3>1. ctx[i] \in Context
      BY <2>1, Contexts DEF Inv
    <3> QED BY <1>6, <3>1 DEF Context
  <2>4. After(i) >= ctx[i].base + Own(i) /\ (ctx[i].clean => After(i) = ctx[i].base + Own(i))
    BY <2>1 DEF Inv, Stacked
  <2>5. CASE i = L - 1
    <3>1. After(i)' = y /\ After(i) = b
      BY <1>9, <1>10, <2>5 DEF After
    <3>2. y >= b /\ b \in Int
      BY <1>6, <1>9
    <3> QED BY <2>1, <2>2, <2>3, <2>4, <3>1, <3>2
  <2>6. CASE i # L - 1
    <3>1. i + 1 \in At'
      BY <1>10, <2>1, <2>6
    <3>2. After(i)' = After(i)
      BY <1>10, <2>1, <2>6, <3>1 DEF After
    <3> QED BY <2>1, <2>2, <2>4, <3>2
  <2> QED BY <2>5, <2>6
<1>20. ASSUME NEW q \in 1..Len(runs), Kept(q)'
       PROVE  Kept(q) /\ (q >= r => temporal)
  <2>1. ~Orphaned(q) /\ (r \in runs[q].within => temporal)
    BY <1>14, <1>20 DEF Kept
  <2>2. q > r => temporal
    BY <1>5, <2>1
  <2>3. CASE \E k \in Pinned : <<q, k>> \in subs'
    <3>1. PICK k \in Pinned : <<q, k>> \in subs
      BY <1>1, <2>3
    <3>2. q = r => k = "segment"
      BY <1>5, <3>1 DEF Pinned
    <3>3. q = r => temporal
      BY <3>1, <3>2 DEF temporal
    <3> QED BY <2>1, <2>2, <3>1, <3>3 DEF Kept
  <2>4. CASE \E n \in Names : live'[n] = q
    <3>1. PICK n \in Names : live'[n] = q
      BY <2>4
    <3>2. CASE live'[n] = live[n]
      <4>1. q # r
        BY <1>5, <3>1, <3>2
      <4> QED BY <2>1, <2>2, <3>1, <3>2, <4>1 DEF Kept
    <3>3. CASE live'[n] = r /\ temporal
      BY <1>7, <3>1, <3>3
    <3> QED BY <1>13, <3>1, <3>2, <3>3
  <2>5. CASE \E i \in At' : ctx'[i].run = q /\ ctx'[i].kind \in Pinned \cup {"block", "reload"}
    <3>1. PICK i \in At' : ctx'[i].run = q /\ ctx'[i].kind \in Pinned \cup {"block", "reload"}
      BY <2>5
    <3>2. i \in At /\ ctx[i].run < r /\ ctx[i].run = q /\ ctx[i].kind \in Pinned \cup {"block", "reload"}
      BY <1>10, <3>1
    <3> QED BY <2>1, <3>2 DEF Kept
  <2> QED BY <1>20, <2>3, <2>4, <2>5 DEF Kept
<1>21. ASSUME NEW q \in 1..Len(runs), Kept(q), q < r
       PROVE  /\ runs[q].frame <= b
              /\ ~Executing(q) => runs[q].depth <= b
  BY <1>2, <1>21 DEF Inv, Settled, Depths
<1>22. Settled'
  <2> SUFFICES ASSUME NEW q \in 1..Len(runs), Kept(q)'
               PROVE  /\ runs'[q].frame <= Size' /\ frames'[runs'[q].frame].own = q
                      /\ \A i \in At' : ctx'[i].kind = "block" /\ q < ctx'[i].run => runs'[q].frame <= ctx'[i].base
    BY <1>10, <1>12 DEF Settled
  <2>1. /\ runs[q].frame <= z /\ frames[runs[q].frame].own = q
        /\ \A i \in At : ctx[i].kind = "block" /\ q < ctx[i].run => runs[q].frame <= ctx[i].base
    BY <1>20 DEF Inv, Settled
  <2>2. runs[q].frame \in Nat /\ runs[q].frame >= 2 /\ runs'[q].frame = runs[q].frame
    BY <1>14, Numbers DEF Inv
  <2>3. runs[q].frame <= y
    <3>1. CASE temporal
      BY <2>1, <3>1
    <3>2. CASE ~temporal
      <4>1. runs[q].frame <= b
        BY <1>20, <1>21, <3>2
      <4> QED BY <1>9, <2>2, <4>1
    <3> QED BY <3>1, <3>2
  <2>4. runs[q].frame \in 1..y
    BY <2>2, <2>3
  <2> QED BY <1>9, <1>10, <2>1, <2>2, <2>3, <2>4
<1>23. Executed'
  <2> SUFFICES ASSUME NEW i \in At', ctx'[i].kind = "block"
               PROVE  LET q == ctx'[i].run IN
                      /\ runs'[q].frame = ctx'[i].base + 1 /\ ~runs'[q].popped
                      /\ \A m \in Names : live'[m] # q
                      /\ <<q, "replaced">> \notin subs' /\ <<q, "delayed">> \notin subs'
                      /\ \A j \in At' : j < i => ctx'[j].run < q
                      /\ \A o \in runs'[q].within : \E j \in At' : j < i /\ ctx'[j].kind = "block" /\ ctx'[j].run = o
                      /\ \A p \in 1..Len(runs') : q < p => q \in runs'[p].within
    BY DEF Executed
  <2>1. i \in At /\ i < L /\ i \in Int /\ ctx[i].kind = "block" /\ ctx[i].run < r /\ ctx'[i].run = ctx[i].run /\ ctx'[i].base = ctx[i].base
    BY <1>2, <1>10
  <2> PICK q \in 1..Len(runs) : q = ctx[i].run
    <3>1. ctx[i] \in Context /\ ctx[i].run > 0 /\ ctx[i].run <= Len(runs)
      BY <2>1, Contexts DEF Inv, Types, Nested
    <3> QED BY <3>1, Numbers DEF Context, Inv
  <2>2. /\ runs[q].frame = ctx[i].base + 1 /\ ~runs[q].popped
        /\ \A m \in Names : live[m] # q
        /\ <<q, "replaced">> \notin subs /\ <<q, "delayed">> \notin subs
        /\ \A j \in At : j < i => ctx[j].run < q
        /\ \A o \in runs[q].within : \E j \in At : j < i /\ ctx[j].kind = "block" /\ ctx[j].run = o
        /\ \A p \in 1..Len(runs) : q < p => q \in runs[p].within
    BY <2>1 DEF Inv, Executed
  <2>3. q # r /\ runs'[q] = runs[q]
    BY <1>12, <2>1
  <2>4. \A m \in Names : live'[m] # q
    BY <1>13, <2>2, <2>3
  <2>5. \A j \in At' : j < i => ctx'[j].run < q
    BY <1>10, <2>2
  <2>6. \A o \in runs[q].within : \E j \in At' : j < i /\ ctx'[j].kind = "block" /\ ctx'[j].run = o
    <3> SUFFICES ASSUME NEW o \in runs[q].within
                 PROVE  \E j \in At' : j < i /\ ctx'[j].kind = "block" /\ ctx'[j].run = o
      OBVIOUS
    <3>1. PICK j \in At : j < i /\ ctx[j].kind = "block" /\ ctx[j].run = o
      BY <2>2
    <3>2. j \in At'
      BY <1>2, <1>11, <2>1, <3>1
    <3> QED BY <1>10, <3>1, <3>2
  <2>7. \A p \in 1..Len(runs') : q < p => q \in runs'[p].within
    BY <1>12, <1>14, <2>2
  <2> QED BY <1>1, <2>1, <2>2, <2>3, <2>4, <2>5, <2>6, <2>7
<1>24. Depths'
  <2> SUFFICES ASSUME NEW q \in 1..Len(runs), ~Executing(q)'
               PROVE  /\ runs'[q].clean => runs'[q].depth = runs'[q].frame
                      /\ Kept(q)' =>
                           /\ runs'[q].depth \in runs'[q].frame..Size'
                           /\ Under(q, frames[runs[q].depth].own)'
                           /\ \A i \in At' : ctx'[i].kind = "block" /\ q < ctx'[i].run => runs'[q].depth <= ctx'[i].base
    BY <1>10, <1>12 DEF Depths
  <2>1. CASE q = r
    <3>1. runs'[q].clean => runs'[q].depth = runs'[q].frame
      BY <1>5, <1>6, <1>12, <2>1
    <3>2. ASSUME Kept(q)'
          PROVE  /\ runs'[q].depth \in runs'[q].frame..Size'
                 /\ Under(q, frames[runs[q].depth].own)'
      <4>1. y = z
        BY <1>20, <2>1, <3>2
      <4>2. frames'[z] = frames[z]
        BY <1>6, <1>9, <4>1
      <4>3. Under(r, frames[z].own)
        <5>1. CASE z = b + 1
          BY <1>7, <5>1 DEF Under
        <5>2. CASE z # b + 1
          <6>1. z \in (b + 2)..z
            BY <1>6, <5>2, SMTT(30)
          <6> QED BY <1>8, <6>1
        <5> QED BY <5>1, <5>2
      <4>4. z \in (b + 1)..z
        BY <1>6
      <4>5. Under(r, frames[z].own)'
        BY <1>14, <4>2, <4>3 DEF Under
      <4>6. Under(q, frames[runs[q].depth].own)'
        BY <1>12, <2>1, <4>5 DEF Under
      <4> QED BY <1>5, <1>9, <1>12, <2>1, <4>1, <4>4, <4>6
    <3>3. \A i \in At' : ~(q < ctx'[i].run)
      <4>1. ASSUME NEW i \in At' PROVE ctx'[i].run \in Nat /\ ctx'[i].run < r
        <5>1. ctx[i] \in Context /\ MaxRuns \in Nat /\ ctx'[i].run = ctx[i].run /\ ctx[i].run < r
          BY <1>10, Contexts, Numbers DEF Inv
        <5> QED BY <5>1 DEF Context
      <4> QED BY <2>1, <4>1
    <3> QED BY <3>1, <3>2, <3>3
  <2>2. CASE q # r
    <3>1. runs'[q] = runs[q] /\ ~Executing(q)
      <4>1. ASSUME NEW i \in At, ctx[i].kind = "block", ctx[i].run = q PROVE FALSE
        <5>1. i \in At' /\ ctx'[i].kind = "block" /\ ctx'[i].run = q
          BY <1>10, <1>11, <2>2, <4>1
        <5> QED BY <5>1 DEF Executing
      <4> QED BY <1>12, <2>2, <4>1 DEF Executing
    <3>2. runs[q].clean => runs[q].depth = runs[q].frame
      BY <3>1 DEF Inv, Depths
    <3>3. ASSUME Kept(q)'
          PROVE  /\ runs[q].depth \in runs[q].frame..y /\ Under(q, frames[runs[q].depth].own)'
                 /\ \A i \in At' : ctx'[i].kind = "block" /\ q < ctx'[i].run => runs[q].depth <= ctx'[i].base
      <4>1. /\ runs[q].depth \in runs[q].frame..z
            /\ Under(q, frames[runs[q].depth].own)
            /\ \A i \in At : ctx[i].kind = "block" /\ q < ctx[i].run => runs[q].depth <= ctx[i].base
        BY <1>20, <3>1, <3>3 DEF Inv, Depths
      <4>2. runs[q].frame \in Nat /\ runs[q].frame >= 2
        BY Numbers DEF Inv
      <4> PICK d \in 1..z : d = runs[q].depth
        BY <4>1, <4>2
      <4>3. d <= y
        <5>1. CASE temporal
          BY <5>1
        <5>2. CASE ~temporal
          <6>1. d <= b
            BY <1>20, <1>21, <3>1, <3>3, <5>2
          <6> QED BY <1>6, <1>9, <6>1
        <5> QED BY <5>1, <5>2
      <4>4. d \in 1..y /\ d \in runs[q].frame..y
        BY <4>1, <4>2, <4>3
      <4>5. frames'[d] = frames[d]
        BY <1>9, <4>4
      <4>6. Under(q, frames[d].own)'
        BY <1>14, <4>1, <4>5 DEF Under
      <4>7. Under(q, frames[runs[q].depth].own)'
        BY <3>1, <4>6 DEF Under
      <4> QED BY <1>10, <4>1, <4>4, <4>7
    <3> QED BY <1>9, <3>1, <3>2, <3>3
  <2> QED BY <2>1, <2>2
<1>25. Pinning'
  <2>1. CASE L = 1
    <3>1. pin = 0
      BY <1>2, <2>1 DEF Inv, Pinning, Pinned
    <3> QED BY <1>1, <1>17, <2>1, <3>1 DEF Pinning
  <2>2. CASE L # 1 /\ 1 \in At /\ 1 \in At'
    <3>1. /\ ctx'[1].kind = ctx[1].kind /\ ctx'[1].run = ctx[1].run /\ ctx'[1].base = ctx[1].base
          /\ ctx'[1].clean => ctx[1].clean
      BY <1>10, <2>2
    <3> PICK q \in 1..Len(runs) : q = ctx[1].run
      <4>1. ctx[1] \in Context /\ ctx[1].run > 0 /\ ctx[1].run <= Len(runs)
        <5>1. ctx[1] \in Context /\ ctx[1].kind # "call"
          BY <1>10, <2>2, Contexts DEF Inv
        <5> QED BY <2>2, <5>1 DEF Inv, Types, Nested
      <4> QED BY <4>1, Numbers DEF Context, Inv
    <3>2. q # r /\ runs'[q] = runs[q]
      <4>1. q < r /\ q \in Int
        BY <1>10, <2>2
      <4> QED BY <1>12, <4>1
    <3>3. Orphaned(q) => Orphaned(q)'
      BY <1>14
    <3>4. ~Idle
      BY <1>1
    <3>5. /\ pin # 0 => ctx[1].kind \in Pinned
          /\ ctx[1].kind \in Pinned =>
               /\ pin # 0 => start = ctx[1].base
               /\ ctx[1].kind = "replaced" /\ ctx[1].clean => runs[q].clean
               /\ ~Orphaned(q) =>
                    /\ start = ctx[1].base
                    /\ pin = IF ctx[1].kind = "replaced" THEN runs[q].depth ELSE runs[q].frame
      BY <3>4 DEF Inv, Pinning
    <3>6. Orphaned(ctx[1].run)' <=> Orphaned(q)'
      BY <3>1 DEF Orphaned
    <3> QED BY <1>1, <1>17, <2>2, <3>1, <3>2, <3>3, <3>5, <3>6 DEF Pinning
  <2> QED BY <1>16, <2>1, <2>2
<1>26. Leaked'
  <2> SUFFICES ASSUME NEW i \in At', ctx'[i].kind = "block", NEW k \in (ctx'[i].base + 2)..Size'
               PROVE  Under(ctx[i].run, frames[k].own)'
    BY DEF Leaked
  <2>1. i \in At /\ ctx[i].kind = "block" /\ ctx'[i].run = ctx[i].run /\ ctx'[i].base = ctx[i].base
    BY <1>10
  <2> PICK q \in 1..Len(runs) : q = ctx[i].run
    <3>1. ctx[i] \in Context /\ ctx[i].run > 0 /\ ctx[i].run <= Len(runs)
      BY <2>1, Contexts DEF Inv, Types, Nested
    <3> QED BY <3>1, Numbers DEF Context, Inv
  <2>2. ctx[i].base \in Nat
    BY <1>6, <2>1, Contexts DEF Inv, Context
  <2>3. k \in (ctx[i].base + 2)..Size /\ k \in 1..y
    BY <1>9, <2>1, <2>2
  <2>4. Under(q, frames[k].own) /\ frames'[k] = frames[k]
    BY <1>9, <2>1, <2>3 DEF Inv, Leaked
  <2>5. Under(q, frames[k].own)'
    BY <1>14, <2>4 DEF Under
  <2> QED BY <2>1, <2>5 DEF Under
<1> QED BY <1>15, <1>18, <1>19, <1>22, <1>23, <1>24, <1>25, <1>26 DEF Inv

\* At the start there is the global scope and nothing runs.
LEMMA InitInv == Init => Inv
<1> SUFFICES ASSUME Init PROVE Inv
  OBVIOUS
<1>1. /\ frames = <<Empty(0)>> /\ pin = 0 /\ start = 0 /\ ctx = <<>> /\ runs = <<>>
      /\ live = [n \in Names |-> 0] /\ subs = {}
  BY DEF Init
<1>2. Types
  <2>1. MaxFrames \in Nat /\ MaxRuns \in Nat /\ MaxFrames >= 1
    BY ScopesAssumption
  <2>2. frames \in Seq(Frame) /\ Size = 1
    <3>1. Empty(0) \in Frame
      BY <2>1 DEF Empty, Frame
    <3>2. <<Empty(0)>> \in Seq(Frame) /\ Len(<<Empty(0)>>) = 1
      BY <3>1
    <3> QED BY <1>1, <3>2 DEF Size
  <2>3. ctx \in Seq(Context) /\ runs \in Seq(Run) /\ Len(runs) = 0 /\ At = {}
    BY <1>1 DEF At
  <2>4. live \in [Names -> 0..Len(runs)]
    BY <1>1, <2>3
  <2> QED BY <1>1, <2>1, <2>2, <2>3, <2>4 DEF Types
<1>3. At = {}
  BY <1>1 DEF At
<1> QED BY <1>1, <1>2, <1>3 DEF Inv, Nested, Stacked, Settled, Executed, Depths, Pinning, Leaked, Idle

\* Every step keeps the invariant.
LEMMA NextInv == Inv /\ [Next]_vars => Inv'
<1> SUFFICES ASSUME Inv, [Next]_vars PROVE Inv'
  OBVIOUS
<1>1. ASSUME NEW n \in Names, Start(n) PROVE Inv'
  BY <1>1, StartInv
<1>2. ASSUME NEW n \in Names, Stop(n) PROVE Inv'
  BY <1>2, StopInv
<1>3. ASSUME NEW n \in Names, Reload(n) PROVE Inv'
  BY <1>3, ReloadInv
<1>4. CASE BlockEnd
  BY <1>4, BlockEndInv
<1>5. ASSUME NEW k \in Callbacks, Subscribe(k) PROVE Inv'
  BY <1>5, SubscribeInv
<1>6. ASSUME NEW r \in Runs, NEW k \in Callbacks, Callback(r, k) PROVE Inv'
  BY <1>6, CallbackInv
<1>7. CASE CallbackEnd
  BY <1>7, CallbackEndInv
<1>8. ASSUME NEW x \in Vars, Define(x) PROVE Inv'
  BY <1>8, DefineInv
<1>9. CASE Call
  BY <1>9, CallInv
<1>10. CASE Return
  BY <1>10, ReturnInv
<1>11. CASE CallStop
  BY <1>11, CallStopInv
<1>12. CASE UNCHANGED vars
  <2>1. UNCHANGED <<frames, pin, start, ctx, runs, live, subs>>
    BY <1>12 DEF vars, env
  <2>2. Size' = Size /\ At' = At
    BY <2>1 DEF Size, At
  <2>3. Types' /\ Executed'
    <3>1. Types'
      BY <2>1, <2>2 DEF Inv, Types
    <3>2. Executed' <=> Executed
      BY <2>1, <2>2 DEF Executed
    <3> QED BY <3>1, <3>2 DEF Inv
  <2>4. Pinning'
    BY <2>1, <2>2 DEF Inv, Pinning, Idle, Orphaned
  <2>5. Leaked'
    BY <2>1, <2>2 DEF Inv, Leaked, Under
  <2>6. \A r \in 1..Len(runs) : Kept(r)' => Kept(r)
    BY <2>1, <2>2 DEF Kept, Orphaned
  <2>7. Nested' /\ Stacked' /\ Settled' /\ Depths'
    BY <2>1, <2>2, <2>6, SameContexts, SettledSame
  <2> QED BY <2>3, <2>4, <2>5, <2>7 DEF Inv
<1> QED BY <1>1, <1>2, <1>3, <1>4, <1>5, <1>6, <1>7, <1>8, <1>9, <1>10, <1>11, <1>12 DEF Next

\* The inductive invariant, for every number of runs, frames, subscriptions and
\* contexts, whatever starts a process.
THEOREM Invariance == Spec => []Inv
<1>1. Inv /\ [Next]_vars => Inv'
  BY NextInv
<1> QED BY <1>1, InitInv, PTL DEF Spec

-----------------------------------------------------------------------------
(***************************************************************************)
(* The properties                                                           *)
(***************************************************************************)

\* The frame that a callback pins, or a reload finds by scope_depth, is its
\* process's, unless it is orphaned.
LEMMA InPlace == Inv => FrameInPlace
<1> SUFFICES ASSUME Inv PROVE FrameInPlace
  OBVIOUS
<1>1. TypeOK
  <2>1. \A i \in DOMAIN ctx : ctx[i].kind \in CtxKinds /\ ctx[i].run \in 0..Len(runs)
    <3> SUFFICES ASSUME NEW i \in At PROVE ctx[i].kind \in CtxKinds /\ ctx[i].run \in 0..Len(runs)
      BY DEF At
    <3>1. ctx[i] \in Context /\ ctx[i].run <= Len(runs) /\ Len(runs) \in Nat /\ MaxRuns \in Nat
      BY Contexts, Numbers DEF Inv, Types
    <3> QED BY <3>1 DEF Context
  <2>2. pin # 0 => ~Idle
    BY DEF Inv, Pinning
  <2> QED BY <2>1, <2>2 DEF Inv, Types, TypeOK, Run
<1>2. ASSUME NEW r \in 1..Len(runs), NEW k \in Pinned, <<r, k>> \in subs
      PROVE  /\ ~Orphaned(r) => runs[r].frame <= Size /\ frames[runs[r].frame].own = r
             /\ live[runs[r].proc] = r /\ runs[r].clean => runs[r].depth = runs[r].frame
  <2>1. ~Orphaned(r) => Kept(r)
    BY <1>2 DEF Kept
  <2>2. ~Orphaned(r) => runs[r].frame <= Size /\ frames[runs[r].frame].own = r
    BY <2>1 DEF Inv, Settled
  <2>3. ASSUME live[runs[r].proc] = r, runs[r].clean PROVE runs[r].depth = runs[r].frame
    <3>1. runs[r].proc \in Names
      BY Numbers DEF Inv, Run
    <3>2. ~Executing(r)
      BY <2>3, <3>1 DEF Inv, Executed, Executing
    <3> QED BY <2>3, <3>2 DEF Inv, Depths
  <2> QED BY <2>2, <2>3
<1> QED BY <1>1, <1>2 DEF FrameInPlace

\* FrameInPlace, for every number of runs, frames, subscriptions and contexts.
THEOREM FramesStayInPlace == Spec => []FrameInPlace
<1>1. Spec => []Inv
  BY Invariance
<1> QED BY <1>1, InPlace, PTL

\* Where the innermost statement runs: in the outermost context, or in a block;
\* and a block began above what the outermost context found.
LEMMA Outer ==
  ASSUME Inv, ~Idle
  PROVE  /\ 1 \in At /\ ctx[1].base \in Nat /\ ctx[1].base <= Size
         /\ BaseAt # 1 => Base.kind = "block"
         /\ Base.kind = "block" => ctx[1].base + 1 <= ctx[BaseAt].base + 1 /\ ctx[BaseAt].base + 1 <= Size
<1> PICK L \in Nat : L = Len(ctx)
  BY Contexts DEF Inv
<1> PICK B \in At : /\ B = BaseAt /\ Base = ctx[B] /\ ctx[B].kind # "call"
                    /\ \A j \in At : j > B => ctx[j].kind = "call"
  BY Innermost DEF Inv
<1>1. At = 1..L /\ L \in At /\ 1 \in At /\ B \in 1..L
  BY Contexts DEF Inv
<1>2. \A i \in At : ctx[i] \in Context /\ ctx[i].base \in Nat /\ ctx[i].base <= Size /\ Size \in Nat
  <2> SUFFICES ASSUME NEW i \in At
               PROVE  ctx[i] \in Context /\ ctx[i].base \in Nat /\ ctx[i].base <= Size /\ Size \in Nat
    OBVIOUS
  <2>1. ctx[i] \in Context /\ MaxFrames \in Nat /\ Size \in Nat /\ ctx[i].base <= Size
    BY Contexts, Numbers, NothingBelow DEF Inv
  <2> QED BY <2>1 DEF Context
<1>3. B # 1 => ctx[B].kind = "block"
  BY DEF Inv, Nested
<1>4. ASSUME ctx[B].kind = "block"
      PROVE  ctx[1].base <= ctx[B].base /\ ctx[B].base + 1 <= Size
  <2>1. After(B) >= ctx[B].base + 1
    <3>1. Own(B) = 1
      BY <1>4 DEF Own
    <3> QED BY <3>1 DEF Inv, Stacked
  <2>2. After(B) <= Size /\ After(B) \in Nat
    <3>1. CASE B = L
      BY <1>2, <3>1 DEF After
    <3>2. CASE B # L
      <4>1. B + 1 \in At
        BY <1>1, <3>2
      <4> QED BY <1>2, <3>2, <4>1 DEF After
    <3> QED BY <3>1, <3>2
  <2> DEFINE S == {j \in 1..B : ctx[1].base <= ctx[j].base}
  <2>3. S \in SUBSET (0..L) /\ 1 \in S
    BY <1>1, <1>2
  <2>4. PICK m \in S : \A y \in S : y <= m
    <3>1. S # {}
      BY <2>3
    <3> HIDE DEF S
    <3> QED BY <2>3, <3>1, MaxOf
  <2>5. m = B
    <3> SUFFICES ASSUME m # B PROVE FALSE
      OBVIOUS
    <3>1. m \in 1..B /\ ctx[1].base <= ctx[m].base
      OBVIOUS
    <3>2. m \in At /\ m + 1 \in At /\ m # L /\ m + 1 \in 1..B /\ m \in Int
      BY <1>1, <3>1
    <3>3. After(m) = ctx[m + 1].base
      BY <3>2 DEF After
    <3>4. After(m) >= ctx[m].base + Own(m) /\ Own(m) \in {0, 1}
      BY <3>2 DEF Inv, Stacked, Own
    <3>5. ctx[1].base <= ctx[m + 1].base
      BY <1>1, <1>2, <3>1, <3>2, <3>3, <3>4
    <3>6. m + 1 \in S
      BY <3>2, <3>5
    <3> HIDE DEF S
    <3> QED BY <2>4, <3>2, <3>6
  <2> QED BY <1>2, <2>1, <2>2, <2>5
<1> QED BY <1>1, <1>2, <1>3, <1>4

\* A callback is not that of a run whose block is executed in it.
LEMMA BlockIsOver ==
  ASSUME Inv, 1 \in At, ctx[1].kind \in Pinned, NEW r \in Int, r = ctx[1].run
  PROVE  ~Executing(r)
<1> SUFFICES ASSUME NEW j \in At, ctx[j].kind = "block", ctx[j].run = r PROVE FALSE
  BY DEF Executing
<1>1. 1 < j
  <2>1. j # 1
    BY DEF Pinned
  <2> QED BY <2>1, Contexts DEF Inv
<1>2. ctx[1].run < ctx[j].run
  BY <1>1 DEF Inv, Executed
<1> QED BY <1>2

\* A definition that goes past the top of the stack goes to the frame that the
\* callback has pinned: its process's, nobody's, or, by the scope_depth of a
\* reload, one that a process started in the block has left there.
LEMMA DefinesPrivately ==
  ASSUME Inv, NEW x \in Vars, Define(x), NEW i \in 1..(Size - 1),
         frames[i].own # 0, frames'[i].bound # frames[i].bound
  PROVE  \/ Base.run = frames[i].own
         \/ Base.kind = "replaced" /\ Base.run \in runs[frames[i].own].within
         \/ Orphaned(Base.run)
<1>1. ~Idle /\ frames' = [frames EXCEPT ![Target].bound = @ \cup {x}]
  BY DEF Define
<1>2. PICK t \in 1..Size : t = Target
  BY TargetInside DEF Inv
<1>3. Size \in Nat /\ i \in 1..Size /\ Len(frames) = Size /\ DOMAIN frames = 1..Size
  BY Numbers, LenProperties DEF Inv, Types
<1>4. i = t
  <2>1. frames' = [frames EXCEPT ![t].bound = @ \cup {x}]
    BY <1>1, <1>2
  <2>2. i # t => frames'[i] = frames[i]
    BY <1>3, <2>1
  <2> QED BY <2>2
<1>5. pin > 1 /\ Size = start /\ pin = i
  BY <1>2, <1>3, <1>4 DEF Target
<1>6. ctx[1].kind \in Pinned /\ start = ctx[1].base
  <2>1. pin # 0
    BY <1>3, <1>5
  <2> QED BY <1>1, <2>1 DEF Inv, Pinning
<1>7. 1 \in At /\ BaseAt = 1 /\ Base = ctx[1]
  <2>1. BaseAt # 1 => Base.kind = "block"
    BY <1>1, Outer
  <2>2. Base.kind # "block"
    <3> SUFFICES ASSUME Base.kind = "block" PROVE FALSE
      OBVIOUS
    <3>1. /\ ctx[1].base + 1 <= ctx[BaseAt].base + 1 /\ ctx[BaseAt].base + 1 <= Size
          /\ BaseAt \in At
      BY <1>1, Outer, Innermost DEF Inv
    <3>2. ctx[BaseAt] \in Context /\ MaxFrames \in Nat
      BY <3>1, Contexts, Numbers DEF Inv
    <3>3. ctx[BaseAt].base \in Nat
      BY <3>2 DEF Context
    <3>4. ctx[1].base = Size
      BY <1>5, <1>6
    <3> QED BY <1>3, <3>1, <3>3, <3>4
  <2> QED BY <1>1, <2>1, <2>2, Outer DEF Base
<1> PICK r \in 1..Len(runs) : r = ctx[1].run
  <2>1. ctx[1] \in Context /\ ctx[1].run <= Len(runs) /\ ctx[1].run > 0
    BY <1>6, <1>7, Contexts DEF Inv, Types, Nested, Pinned
  <2> QED BY <2>1, Numbers DEF Context, Inv
<1> SUFFICES ASSUME ~Orphaned(r)
             PROVE  \/ r = frames[i].own
                    \/ ctx[1].kind = "replaced" /\ r \in runs[frames[i].own].within
  BY <1>7
<1>8. Kept(r) /\ ~Executing(r)
  <2>1. Kept(r)
    BY <1>6, <1>7 DEF Kept
  <2>2. ~Executing(r)
    BY <1>6, <1>7, BlockIsOver
  <2> QED BY <2>1, <2>2
<1>9. pin = IF ctx[1].kind = "replaced" THEN runs[r].depth ELSE runs[r].frame
  BY <1>1, <1>6 DEF Inv, Pinning
<1>10. frames[runs[r].frame].own = r /\ Under(r, frames[runs[r].depth].own)
  BY <1>8 DEF Inv, Settled, Depths
<1> QED BY <1>5, <1>9, <1>10 DEF Under

\* BuriedIsPrivate, for every number of runs, frames, subscriptions and contexts.
THEOREM BuriedStaysPrivate == Spec => BuriedIsPrivate
<1> DEFINE Its(i) == \/ Base.run = frames[i].own
                     \/ Base.kind = "replaced" /\ Base.run \in runs[frames[i].own].within
                     \/ Orphaned(Base.run)
           Private ==
             \A i \in 1..(Size - 1) :
                /\ i \in DOMAIN frames' /\ frames[i].own # 0
                /\ frames'[i].bound # frames[i].bound
                /\ \E j \in (i + 1)..Size : frames[j].own # 0
                => Its(i)
<1>1. ASSUME Inv, Next PROVE Private
  <2> SUFFICES ASSUME NEW i \in 1..(Size - 1), i \in DOMAIN frames', frames[i].own # 0,
                      frames'[i].bound # frames[i].bound
               PROVE  Its(i)
    OBVIOUS
  <2>1. ASSUME NEW x \in Vars, Define(x) PROVE Its(i)
    BY <1>1, <2>1, DefinesPrivately
  <2> HIDE DEF Its
  <2>2. Size \in Nat /\ i \in 1..Size
    BY <1>1, Numbers DEF Inv
  <2>3. ASSUME NEW r, Push(r) PROVE FALSE
    <3>1. frames' = Append(frames, Empty(r)) /\ frames \in Seq(Frame) /\ Len(frames) = Size
      BY <1>1, <2>3, Numbers DEF Push, Inv, Types
    <3>2. frames'[i] = frames[i]
      BY <2>2, <3>1
    <3> QED BY <3>2
  <2>4. ASSUME frames' = frames \/ frames' = Popped(1) PROVE FALSE
    <3>1. CASE frames' = frames
      BY <3>1
    <3>2. CASE frames' = Popped(1)
      <4>1. Size >= 2
        BY <2>2
      <4>2. frames'[i] = frames[i]
        BY <1>1, <3>2, <4>1, PoppedOne DEF Inv
      <4> QED BY <4>2
    <3> QED BY <2>4, <3>1, <3>2
  <2>5. CASE \E n \in Names : Start(n) \/ Stop(n) \/ Reload(n)
    <3>1. ASSUME NEW n \in Names, Start(n) PROVE FALSE
      BY <2>3, <3>1 DEF Start
    <3>2. ASSUME NEW n \in Names, Stop(n) \/ Reload(n) PROVE FALSE
      BY <2>4, <3>2 DEF Stop, Reload, env
    <3> QED BY <2>5, <3>1, <3>2
  <2>6. CASE BlockEnd
    BY <2>4, <2>6 DEF BlockEnd
  <2>7. CASE \E k \in Callbacks : Subscribe(k)
    BY <2>4, <2>7 DEF Subscribe, env
  <2>8. CASE \E r \in Runs, k \in Callbacks : Callback(r, k)
    BY <2>4, <2>8 DEF Callback
  <2>9. CASE CallbackEnd \/ CallStop
    BY <2>4, <2>9 DEF CallbackEnd, CallStop, env
  <2>10. CASE Call
    BY <2>3, <2>10 DEF Call
  <2>11. CASE Return
    BY <2>4, <2>11 DEF Return
  <2> QED BY <1>1, <2>1, <2>5, <2>6, <2>7, <2>8, <2>9, <2>10, <2>11 DEF Next
<1>2. Inv /\ [Next]_vars => [Private]_vars
  BY <1>1
<1>3. Spec => []Inv
  BY Invariance
<1> QED BY <1>2, <1>3, PTL DEF Spec, BuriedIsPrivate

\* While nothing has been left on the stack, every frame above the innermost
\* statement's base is its own or that of a call in it.
LEMMA CleanSize ==
  ASSUME Inv, ~Idle, Base.clean
  PROVE  Size = Base.base + Own(BaseAt) + (Len(ctx) - BaseAt)
<1> PICK L \in Nat : L = Len(ctx)
  BY Contexts DEF Inv
<1> PICK B \in At : /\ B = BaseAt /\ Base = ctx[B]
                    /\ \A j \in At : j > B => ctx[j].kind = "call"
  BY Innermost DEF Inv
<1>1. At = 1..L /\ L \in At /\ B \in 1..L
  BY Contexts DEF Inv
<1>2. \A i \in At : ctx[i].base \in Nat
  <2> SUFFICES ASSUME NEW i \in At PROVE ctx[i].base \in Nat
    OBVIOUS
  <2>1. ctx[i] \in Context /\ MaxFrames \in Nat
    BY Contexts, Numbers DEF Inv
  <2> QED BY <2>1 DEF Context
<1> PICK a \in Nat : a = ctx[B].base + Own(B)
  BY <1>1, <1>2 DEF Own
<1> DEFINE S == {j \in B..L : After(j) = a + (j - B)}
<1>3. B \in S
  <2>1. After(B) = a
    BY DEF Inv, Stacked
  <2> QED BY <1>1, <2>1
<1>4. PICK m \in S : \A y \in S : y <= m
  <2>1. S \in SUBSET (0..L) /\ S # {}
    BY <1>1, <1>3
  <2> QED BY <2>1, MaxOf
<1>5. m = L
  <2> SUFFICES ASSUME m # L PROVE FALSE
    OBVIOUS
  <2>1. m \in B..L /\ After(m) = a + (m - B)
    OBVIOUS
  <2> HIDE DEF S
  <2>2. m + 1 \in At /\ m + 1 > B /\ m + 1 \in B..L /\ m + 1 \in Int
    BY <1>1, <2>1
  <2>3. After(m) = ctx[m + 1].base
    BY <2>1 DEF After
  <2>4. ctx[m + 1].kind = "call"
    BY <2>2
  <2>5. After(m + 1) = ctx[m + 1].base + 1
    <3>1. Own(m + 1) = 1
      BY <2>4 DEF Own
    <3> QED BY <2>2, <2>4, <3>1 DEF Inv, Stacked
  <2>6. m + 1 \in S
    <3>1. m \in Int /\ B \in Int
      BY <1>1, <2>1
    <3>2. After(m + 1) = (a + (m - B)) + 1
      BY <2>1, <2>3, <2>5
    <3>3. (a + (m - B)) + 1 = a + ((m + 1) - B)
      BY <3>1
    <3> QED BY <2>2, <3>2, <3>3 DEF S
  <2> QED BY <1>1, <1>4, <2>1, <2>6
<1>6. After(L) = Size /\ After(L) = a + (L - B)
  BY <1>4, <1>5 DEF After
<1> QED BY <1>6

\* What runs for a process defines and finds its names where they belong.
LEMMA Owned == Inv => OwnFrame
<1> SUFFICES ASSUME Inv, ~Idle, Base.clean, Base.kind \in Pinned \cup {"block"}, ~Orphaned(Base.run)
             PROVE  LET f     == runs[Base.run].frame
                        calls == Len(ctx) - BaseAt
                    IN /\ Target = IF calls = 0 THEN f ELSE Size
                       /\ \A x \in Vars :
                            LET l == Lookup(x)
                            IN /\ x \in frames[f].bound => l >= f
                               /\ l > f => l > Size - calls
  BY DEF OwnFrame
<1> PICK L \in Nat : L = Len(ctx)
  BY Contexts DEF Inv
<1> PICK B \in At : B = BaseAt /\ Base = ctx[B]
  BY Innermost DEF Inv
<1>1. At = 1..L /\ B \in 1..L /\ 1 \in At /\ ctx[B] \in Context
  BY Contexts DEF Inv
<1> PICK r \in 1..Len(runs) : r = ctx[B].run
  <2>1. ctx[B].run > 0 /\ ctx[B].run <= Len(runs)
    BY DEF Inv, Types, Nested, Pinned
  <2> QED BY <1>1, <2>1, Numbers DEF Context, Inv
<1> PICK c \in Nat : c = L - B
  <2>1. L - B \in Nat
    BY <1>1
  <2> QED BY <2>1
<1> PICK f \in Nat : f = runs[r].frame /\ f >= 2
  BY Numbers DEF Inv
<1>2. Size \in Nat /\ ctx[B].base \in Nat /\ pin \in Nat /\ start \in Nat
  <2>1. MaxFrames \in Nat /\ Size \in Nat
    BY Numbers DEF Inv
  <2>2. pin \in 0..MaxFrames /\ start \in 0..MaxFrames
    BY DEF Inv, Types
  <2> QED BY <1>1, <2>1, <2>2 DEF Context
<1>3. Kept(r) /\ f <= Size
  <2>1. Kept(r)
    BY DEF Kept
  <2> QED BY <2>1 DEF Inv, Settled
\* A pinned callback has its process's frame pinned; a block runs above a pin.
<1>4. \/ pin = f /\ start = Size - c
      \/ f = Size - c /\ (pin # 0 => start < f)
  <2>1. CASE ctx[B].kind \in Pinned
    <3>1. B = 1 /\ ctx[1].kind \in Pinned
      BY <2>1 DEF Inv, Nested, Pinned
    <3>2. /\ start = ctx[1].base
          /\ pin = IF ctx[1].kind = "replaced" THEN runs[r].depth ELSE runs[r].frame
          /\ ctx[1].kind = "replaced" /\ ctx[1].clean => runs[r].clean
      BY <3>1 DEF Inv, Pinning
    <3>3. ~Executing(r)
      BY <1>1, <3>1, BlockIsOver
    <3>4. runs[r].clean => runs[r].depth = runs[r].frame
      BY <3>3 DEF Inv, Depths
    <3>5. pin = f
      BY <3>1, <3>2, <3>4
    <3>6. Size = ctx[B].base + Own(B) + (L - B)
      BY CleanSize
    <3>7. Own(B) = 0
      BY <2>1 DEF Own, Pinned
    <3>8. Size = ctx[B].base + 0 + c
      BY <3>6, <3>7
    <3>9. start = ctx[B].base
      BY <3>1, <3>2
    <3>10. start = Size - c
      BY <1>2, <3>8, <3>9
    <3> QED BY <3>5, <3>10
  <2>2. CASE ctx[B].kind = "block"
    <3>1. f = ctx[B].base + 1
      BY <2>2 DEF Inv, Executed
    <3>2. Size = ctx[B].base + Own(B) + (L - B)
      BY CleanSize
    <3>3. Own(B) = 1
      BY <2>2 DEF Own
    <3>4. pin # 0 => start < f
      <4> SUFFICES ASSUME pin # 0 PROVE start < f
        OBVIOUS
      <4>1. start = ctx[1].base
        BY DEF Inv, Pinning
      <4>2. ctx[1].base + 1 <= ctx[BaseAt].base + 1 /\ ctx[1].base \in Nat
        BY <2>2, Outer
      <4> QED BY <1>2, <3>1, <4>1, <4>2
    <3> QED BY <1>1, <1>2, <3>1, <3>2, <3>3, <3>4
  <2> QED BY <2>1, <2>2
<1>5. Target = IF c = 0 THEN f ELSE Size
  BY <1>2, <1>3, <1>4, SMTT(30) DEF Target
<1>6. ASSUME NEW x \in Vars
      PROVE  /\ x \in frames[f].bound => Lookup(x) >= f
             /\ Lookup(x) > f => Lookup(x) > Size - c
  <2> DEFINE Visible(i) == ~(pin > 1 /\ pin < i /\ i <= start)
             S          == {i \in 1..Size : Visible(i) /\ x \in frames[i].bound} \cup {0}
  <2>1. Lookup(x) = Max(S)
    BY DEF Lookup
  <2>2. S \in SUBSET (0..Size) /\ S # {}
    BY <1>2
  <2>3. Max(S) \in S /\ \A y \in S : y <= Max(S)
    <3> HIDE DEF S
    <3> QED BY <1>2, <2>2, MaxOf
  <2> PICK l \in S : l = Lookup(x) /\ \A y \in S : y <= l
    BY <2>1, <2>3
  <2>4. ASSUME x \in frames[f].bound PROVE l >= f
    <3>1. f \in 1..Size
      BY <1>2, <1>3
    <3>2. Visible(f)
      BY <1>2, <1>4, SMTT(30)
    <3>3. f \in S
      BY <2>4, <3>1, <3>2
    <3> QED BY <1>2, <2>2, <3>3
  <2>5. ASSUME l > f PROVE l > Size - c
    <3>1. l \in 1..Size /\ Visible(l)
      BY <2>5
    <3> QED BY <1>2, <1>4, <2>5, <3>1, SMTT(30)
  <2> QED BY <2>4, <2>5
<1> QED BY <1>5, <1>6

\* OwnFrame, for every number of runs, frames, subscriptions and contexts.
THEOREM NamesAreFoundAtHome == Spec => []OwnFrame
<1>1. Spec => []Inv
  BY Invariance
<1> QED BY <1>1, Owned, PTL

=============================================================================
