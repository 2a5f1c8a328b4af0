---------------------------- MODULE ClocksProofs ----------------------------
(***************************************************************************)
(* Theorems about module Clocks, for every value of its constants.          *)
(***************************************************************************)
EXTENDS Clocks, SequenceTheorems, WellFoundedInduction, TLAPS

-----------------------------------------------------------------------------
(***************************************************************************)
(* The inductive invariant                                                  *)
(***************************************************************************)
Node == [bpm: 1..Beat, parent: Nat, num: 1..Beat, den: 1..Beat, epoch: Nat, offset: Nat]
Made == [kind: Kinds, clk: Nat, n: Lengths, at: Nat, size: Nat, dt: Nat \ {0}, out: Nat, next: Nat]

Types ==
    /\ now \in 0..MaxTime /\ tempos \in 0..MaxTempos
    /\ clocks \in Seq(Node) /\ Len(clocks) > 0
    /\ beats \in Seq(Nat) /\ Len(beats) = Len(clocks)
    /\ insts \in Seq(Made)

\* The clocks form a forest, and their tempi divide a beat.
Tree ==
    \A c \in DOMAIN clocks :
        /\ clocks[c].parent < c /\ clocks[c].epoch <= now
        /\ Beat % clocks[c].bpm = 0

\* The timeline of each clock goes on, and what is bound keeps its ratio.
Timelines ==
    \A c \in DOMAIN clocks :
        /\ BeatsAreElapsed(c)
        /\ clocks[c].parent # 0 /\ c \notin own => KeepsRatio(c)

\* A sync is due at the first multiple of its interval that has not passed.
OnGrid ==
    \A i \in DOMAIN insts :
        /\ insts[i].clk \in DOMAIN clocks
        /\ insts[i].next >= now
        /\ insts[i].kind = "sync" =>
             /\ insts[i].next <= now + insts[i].dt
             /\ \E k \in Nat : insts[i].next = k * insts[i].dt

\* A phasor measures a cycle of beats, and shows the position that its clock had
\* when it ticked.
Shown ==
    \A i \in DOMAIN insts : insts[i].kind = "phasor" =>
        /\ insts[i].size = insts[i].n * Beat
        /\ insts[i].at <= now
        /\ insts[i].at = now => insts[i].out = beats[insts[i].clk] % insts[i].size

Inv == Types /\ Tree /\ Timelines /\ OnGrid /\ Shown /\ PhasorsAgree

-----------------------------------------------------------------------------
(***************************************************************************)
(* Arithmetic                                                               *)
(***************************************************************************)

\* A division without a rest.
LEMMA DivExact ==
  ASSUME NEW a \in Nat, NEW b \in Nat \ {0}, a % b = 0
  PROVE  a \div b \in Nat /\ (a \div b) * b = a
OBVIOUS

\* A quotient is a natural number.
LEMMA DivNat ==
  ASSUME NEW a \in Nat, NEW b \in Nat \ {0}
  PROVE  a \div b \in Nat
OBVIOUS

\* A product divided by one of its factors.
LEMMA DivFactor ==
  ASSUME NEW k \in Nat, NEW b \in Nat \ {0}
  PROVE  (k * b) \div b = k
OBVIOUS

\* The next multiple of a period after an instant.
LEMMA GridNext ==
  ASSUME NEW t \in Nat, NEW d \in Nat \ {0}
  PROVE  /\ t \div d \in Nat
         /\ (t \div d + 1) * d > t
         /\ (t \div d + 1) * d <= t + d
OBVIOUS

\* One period after an instant has one multiple of it only.
LEMMA OneMultiple ==
  ASSUME NEW d \in Nat \ {0}, NEW t \in Nat, NEW j \in Nat, NEW k \in Nat,
         t < j * d, j * d <= t + d, t < k * d, k * d <= t + d
  PROVE  j = k
<1>1. CASE j < k
  <2>1. k * d >= (j + 1) * d
    BY <1>1
  <2>2. (j + 1) * d = j * d + d
    OBVIOUS
  <2> QED BY <2>1, <2>2
<1>2. CASE k < j
  <2>1. j * d >= (k + 1) * d
    BY <1>2
  <2>2. (k + 1) * d = k * d + d
    OBVIOUS
  <2> QED BY <2>1, <2>2
<1> QED BY <1>1, <1>2

\* The duration of some beats at a tempo that divides a beat, and the size of the
\* cycle that a phasor takes it for.
LEMMA DurationIs ==
  ASSUME Types, Tree, NEW c \in DOMAIN clocks, NEW n \in Lengths
  PROVE  /\ Duration(c, n) \in Nat \ {0}
         /\ Duration(c, n) * clocks[c].bpm = n * Beat
<1> DEFINE b == clocks[c].bpm
           q == Beat \div b
<1>1. n \in Nat \ {0} /\ Beat \in Nat \ {0}
  BY ClocksAssumption
<1>2. b \in Nat \ {0} /\ b <= Beat /\ Beat % b = 0
  <2>1. clocks[c] \in Node
    BY DEF Types
  <2>2. b \in 1..Beat
    BY <2>1 DEF Node
  <2> QED BY <1>1, <2>2 DEF Tree
<1>3. q \in Nat /\ q * b = Beat
  BY <1>1, <1>2, DivExact
<1>4. q > 0
  <2>1. CASE q = 0
    <3>1. q * b = 0
      BY <2>1, <1>2
    <3> QED BY <3>1, <1>1, <1>3
  <2> HIDE DEF q
  <2> QED BY <2>1, <1>3
<1> HIDE DEF q, b
<1>5. n * Beat = (n * q) * b /\ n * q \in Nat \ {0}
  <2>1. n * Beat = n * (q * b)
    BY <1>3
  <2> QED BY <2>1, <1>1, <1>2, <1>3, <1>4
<1>6. (n * Beat) \div b = n * q
  BY <1>5, <1>2, DivFactor
<1>7. Duration(c, n) = n * q
  BY <1>6 DEF Duration, b
<1> QED BY <1>5, <1>7 DEF b

-----------------------------------------------------------------------------
(***************************************************************************)
(* A change of tempo                                                        *)
(***************************************************************************)

\* What set_bpm() makes of a clock, with what it has made of the others.
TempoOf(f, c, id, bpm) ==
    IF c = id THEN bpm
    ELSE IF clocks[c].parent = 0 THEN 0
    ELSE (f[clocks[c].parent] * clocks[c].num) \div clocks[c].den

\* A clock's record, and its parent among those before it.
LEMMA NodeOf ==
  ASSUME Types, Tree, NEW c \in DOMAIN clocks
  PROVE  /\ clocks[c] \in Node /\ c \in Nat \ {0}
         /\ clocks[c].parent # 0 => clocks[c].parent \in 1..(c - 1)
                                   /\ clocks[c].parent \in DOMAIN clocks
<1>1. clocks[c] \in Node /\ c \in Nat \ {0} /\ DOMAIN clocks = 1..Len(clocks) /\ Len(clocks) \in Nat
  BY DEF Types
<1>2. clocks[c].parent \in Nat /\ clocks[c].parent < c
  BY <1>1 DEF Node, Tree
<1> QED BY <1>1, <1>2

\* The recursion down the tree comes to an end: a parent is older than its
\* children.
LEMMA TempiExist ==
  ASSUME Types, Tree, NEW id \in DOMAIN clocks, NEW bpm \in Nat
  PROVE  \E f \in [DOMAIN clocks -> Nat] :
            f = [c \in DOMAIN clocks |-> TempoOf(f, c, id, bpm)]
<1> DEFINE Upto(n) == \E f \in [1..n -> Nat] : \A c \in 1..n : f[c] = TempoOf(f, c, id, bpm)
           N == Len(clocks)
           T == {n \in Nat : n <= N /\ ~Upto(n)}
           R == {ss \in Nat \X Nat : ss[1] < ss[2]}
<1>1. N \in Nat /\ DOMAIN clocks = 1..N
  BY DEF Types
<1>2. T = {}
  <2> SUFFICES ASSUME T # {} PROVE FALSE
    OBVIOUS
  <2>1. IsWellFoundedOn(R, Nat)
    BY NatLessThanWellFounded DEF OpToRel
  <2>2. T \subseteq Nat
    OBVIOUS
  <2>3. PICK n \in T : \A m \in T : ~(<<m, n>> \in R)
    <3> HIDE DEF T, R
    <3> QED BY <2>1, <2>2, WFMin
  <2>4. n \in Nat /\ n <= N /\ ~Upto(n)
    OBVIOUS
  <2>5. n # 0
    <3>1. [c \in 1..0 |-> 0] \in [1..0 -> Nat]
      OBVIOUS
    <3>2. 1..0 = {}
      OBVIOUS
    <3>3. Upto(0)
      BY <3>1, <3>2
    <3> HIDE DEF Upto
    <3> QED BY <3>3, <2>4
  <2>6. Upto(n - 1)
    <3>1. n - 1 \in Nat /\ n - 1 < n /\ n - 1 <= N
      BY <2>4, <2>5, <1>1
    <3>2. ~(n - 1 \in T)
      <4> HIDE DEF T, Upto
      <4> QED BY <2>3, <2>4, <3>1
    <3> HIDE DEF Upto
    <3> QED BY <3>1, <3>2
  <2>7. PICK f \in [1..(n - 1) -> Nat] : \A c \in 1..(n - 1) : f[c] = TempoOf(f, c, id, bpm)
    BY <2>6
  <2> DEFINE g == [c \in 1..n |-> IF c < n THEN f[c] ELSE TempoOf(f, n, id, bpm)]
  <2>8. \A c \in 1..n : TempoOf(f, c, id, bpm) = TempoOf(g, c, id, bpm)
    <3> SUFFICES ASSUME NEW c \in 1..n PROVE TempoOf(f, c, id, bpm) = TempoOf(g, c, id, bpm)
      OBVIOUS
    <3>1. clocks[c].parent # 0 => clocks[c].parent \in 1..(n - 1)
      BY <1>1, <2>4, NodeOf
    <3>2. clocks[c].parent # 0 => g[clocks[c].parent] = f[clocks[c].parent]
      BY <3>1, <2>4
    <3> QED BY <3>2 DEF TempoOf
  <2>9. TempoOf(f, n, id, bpm) \in Nat
    <3>1. clocks[n] \in Node /\ (clocks[n].parent # 0 => clocks[n].parent \in 1..(n - 1))
      BY <1>1, <2>4, <2>5, NodeOf
    <3>2. clocks[n].num \in Nat /\ clocks[n].den \in Nat \ {0}
      BY <3>1 DEF Node
    <3>3. CASE n = id \/ clocks[n].parent = 0
      BY <3>3 DEF TempoOf
    <3>4. CASE n # id /\ clocks[n].parent # 0
      <4>1. f[clocks[n].parent] \in Nat
        BY <3>1, <3>4
      <4>2. f[clocks[n].parent] * clocks[n].num \in Nat
        BY <4>1, <3>2
      <4>3. (f[clocks[n].parent] * clocks[n].num) \div clocks[n].den \in Nat
        BY <4>2, <3>2, DivNat
      <4> QED BY <4>3, <3>4 DEF TempoOf
    <3> QED BY <3>3, <3>4
  <2>10. g \in [1..n -> Nat]
    BY <2>4, <2>9
  <2>11. \A c \in 1..n : g[c] = TempoOf(g, c, id, bpm)
    <3> SUFFICES ASSUME NEW c \in 1..n PROVE g[c] = TempoOf(f, c, id, bpm)
      BY <2>8
    <3>1. CASE c < n
      BY <3>1, <2>4, <2>7
    <3>2. CASE c = n
      BY <3>2, <2>4
    <3> QED BY <3>1, <3>2, <2>4
  <2> HIDE DEF g
  <2> QED BY <2>4, <2>10, <2>11
<1>3. Upto(N)
  <2> HIDE DEF Upto
  <2> QED BY <1>1, <1>2
<1>4. PICK f \in [1..N -> Nat] : \A c \in 1..N : f[c] = TempoOf(f, c, id, bpm)
  BY <1>3
<1>5. f = [c \in 1..N |-> TempoOf(f, c, id, bpm)]
  BY <1>4
<1> QED BY <1>1, <1>4, <1>5

\* Reached() is a solution of its equation, and its values are tempi or 0.
LEMMA ReachedIs ==
  ASSUME Types, Tree, NEW id \in DOMAIN clocks, NEW bpm \in Nat,
         NEW f, f = Reached(id, bpm)
  PROVE  /\ f \in [DOMAIN clocks -> Nat]
         /\ \A c \in DOMAIN clocks : f[c] = TempoOf(f, c, id, bpm)
<1> DEFINE N == Len(clocks)
<1>1. f = [c \in DOMAIN clocks |-> TempoOf(f, c, id, bpm)]
  <2>1. Reached(id, bpm) = CHOOSE h : h = [c \in DOMAIN clocks |-> TempoOf(h, c, id, bpm)]
    BY DEF Reached, TempoOf
  <2>2. \E h : h = [c \in DOMAIN clocks |-> TempoOf(h, c, id, bpm)]
    BY TempiExist
  <2> QED BY <2>1, <2>2
<1>2. N \in Nat /\ DOMAIN clocks = 1..N
  BY DEF Types
<1> DEFINE T == {n \in Nat : n \in 1..N /\ f[n] \notin Nat}
           R == {ss \in Nat \X Nat : ss[1] < ss[2]}
<1>3. T = {}
  <2> SUFFICES ASSUME T # {} PROVE FALSE
    OBVIOUS
  <2>1. IsWellFoundedOn(R, Nat)
    BY NatLessThanWellFounded DEF OpToRel
  <2>2. T \subseteq Nat
    OBVIOUS
  <2>3. PICK n \in T : \A m \in T : ~(<<m, n>> \in R)
    <3> HIDE DEF T, R
    <3> QED BY <2>1, <2>2, WFMin
  <2>4. n \in Nat /\ n \in 1..N /\ f[n] \notin Nat
    OBVIOUS
  <2>5. f[n] = TempoOf(f, n, id, bpm)
    BY <1>1, <1>2, <2>4
  <2>6. n # id /\ clocks[n].parent # 0
    BY <2>4, <2>5 DEF TempoOf
  <2>7. clocks[n] \in Node /\ clocks[n].parent \in 1..(n - 1)
    BY <1>2, <2>4, <2>6, NodeOf
  <2>8. clocks[n].parent \in Nat /\ clocks[n].parent \in 1..N /\ clocks[n].parent < n
    BY <2>7, <2>4, <1>2
  <2>9. f[clocks[n].parent] \in Nat
    <3>1. clocks[n].parent \notin T
      <4> HIDE DEF T
      <4> QED BY <2>3, <2>4, <2>8
    <3> QED BY <3>1, <2>8
  <2>10. clocks[n].num \in Nat /\ clocks[n].den \in Nat \ {0}
    BY <2>7 DEF Node
  <2>11. f[clocks[n].parent] * clocks[n].num \in Nat
    <3> \A u, v \in Nat : u * v \in Nat
      OBVIOUS
    <3> QED BY <2>9, <2>10
  <2>12. (f[clocks[n].parent] * clocks[n].num) \div clocks[n].den \in Nat
    BY <2>10, <2>11, DivNat
  <2> QED BY <2>4, <2>5, <2>6, <2>12 DEF TempoOf
<1>4. \A c \in DOMAIN clocks : f[c] \in Nat
  BY <1>2, <1>3
<1> QED BY <1>1, <1>4

\* What set_bpm() leaves of the clocks: those it reaches have a tempo that divides
\* a beat and goes on from where they stood; one that is reached, but was not
\* set, has its ratio to its parent, which was reached as well.
LEMMA Reaching ==
  ASSUME Types, Tree, NEW id \in DOMAIN clocks, NEW bpm \in Nat \ {0}, SetBpm(id, bpm),
         NEW f, f = Reached(id, bpm), NEW c \in DOMAIN clocks
  PROVE  /\ f[c] \in Nat /\ f[id] = bpm
         /\ f[c] > 0 => f[c] \in 1..Beat /\ Beat % f[c] = 0
         /\ c # id /\ clocks[c].parent = 0 => f[c] = 0
         /\ c # id /\ clocks[c].parent # 0 =>
              /\ f[c] > 0 <=> f[clocks[c].parent] > 0
              /\ f[c] * clocks[c].den = f[clocks[c].parent] * clocks[c].num
<1>1. f \in [DOMAIN clocks -> Nat] /\ \A d \in DOMAIN clocks : f[d] = TempoOf(f, d, id, bpm)
  BY ReachedIs
<1>2. f[c] \in Nat /\ f[id] = bpm
  BY <1>1 DEF TempoOf
<1>3. Exact(id, f) /\ DOMAIN f = DOMAIN clocks /\ Beat \in Nat
  BY <1>1, ClocksAssumption DEF SetBpm
<1>4. f[c] > 0 => f[c] \in 1..Beat /\ Beat % f[c] = 0
  BY <1>2, <1>3 DEF Exact
<1>5. c # id /\ clocks[c].parent = 0 => f[c] = 0
  BY <1>1 DEF TempoOf
<1>6. ASSUME c # id, clocks[c].parent # 0
      PROVE  /\ f[c] > 0 <=> f[clocks[c].parent] > 0
             /\ f[c] * clocks[c].den = f[clocks[c].parent] * clocks[c].num
  <2> DEFINE u == f[clocks[c].parent]
             m == clocks[c].num
             d == clocks[c].den
  <2>1. f[c] = (u * m) \div d
    BY <1>1, <1>6 DEF TempoOf
  <2>2. (u * m) % d = 0
    BY <1>3, <1>6 DEF Exact
  <2>3. u \in Nat
    BY <1>1, <1>6, NodeOf
  <2>4. m \in Nat \ {0} /\ d \in Nat \ {0}
    BY <1>3, NodeOf DEF Node
  <2>5. f[c] * d = u * m
    <3> HIDE DEF u, m, d
    <3>1. u * m \in Nat
      BY <2>3, <2>4
    <3> QED BY <3>1, <2>1, <2>2, <2>4, DivExact
  <2>6. f[c] > 0 <=> u > 0
    <3> HIDE DEF u, m, d
    <3>1. u = 0 => u * m = 0
      BY <2>4
    <3>2. f[c] = 0 => f[c] * d = 0
      BY <2>4
    <3>3. u > 0 => u * m > 0
      BY <2>3, <2>4
    <3>4. f[c] > 0 => f[c] * d > 0
      BY <1>2, <2>4
    <3> QED BY <3>1, <3>2, <3>3, <3>4, <2>3, <2>5, <1>2
  <2> QED BY <2>5, <2>6
<1> QED BY <1>2, <1>4, <1>5, <1>6

-----------------------------------------------------------------------------
(***************************************************************************)
(* The steps                                                                *)
(***************************************************************************)

LEMMA InitInv == Init => Inv
<1> SUFFICES ASSUME Init PROVE Inv
  OBVIOUS
<1> DEFINE node == Clock(Bpm0, 0, Bpm0)
<1>1. Bpm0 \in 1..Beat /\ Beat % Bpm0 = 0 /\ Beat \in Nat /\ MaxTime \in Nat /\ MaxTempos \in Nat
  BY ClocksAssumption
<1>2. node \in Node
  BY <1>1 DEF Init, Clock, Node
<1>3. clocks = <<node>> /\ insts = <<>> /\ beats = <<0>> /\ now = 0 /\ tempos = 0 /\ own = {}
  BY DEF Init
<1>4. clocks \in Seq(Node) /\ Len(clocks) = 1 /\ DOMAIN clocks = {1} /\ clocks[1] = node
  <2> HIDE DEF node
  <2> QED BY <1>2, <1>3
<1>5. beats \in Seq(Nat) /\ Len(beats) = 1 /\ beats[1] = 0
  BY <1>3
<1>6. insts \in Seq(Made) /\ DOMAIN insts = {}
  BY <1>3
<1>7. Types
  BY <1>1, <1>3, <1>4, <1>5, <1>6 DEF Types
<1>8. node.bpm = Bpm0 /\ node.parent = 0 /\ node.epoch = 0 /\ node.offset = 0
  BY <1>3 DEF Clock
<1> HIDE DEF node
<1>9. Tree
  BY <1>1, <1>3, <1>4, <1>8 DEF Tree
<1>10. Timelines
  <2>1. BeatsAreElapsed(1)
    <3>1. clocks[1].offset + (now - clocks[1].epoch) * clocks[1].bpm = 0
      BY <1>1, <1>3, <1>4, <1>8
    <3> QED BY <3>1, <1>5 DEF BeatsAreElapsed, BeatAt
  <2> QED BY <2>1, <1>4, <1>8 DEF Timelines
<1>11. OnGrid /\ Shown /\ PhasorsAgree
  BY <1>6 DEF OnGrid, Shown, PhasorsAgree
<1> QED BY <1>7, <1>9, <1>10, <1>11 DEF Inv

\* A new clock starts at its first beat, in the ratio that it has then.
LEMMA CreateInv ==
  ASSUME Inv, NEW b \in Tempi, NEW p \in 0..MaxClocks, p <= Len(clocks), Create(b, p)
  PROVE  Inv'
<1> DEFINE of == IF p = 0 THEN b ELSE clocks[p].bpm
           node == Clock(b, p, of)
           N == Len(clocks)
<1>1. b \in 1..Beat /\ Beat % b = 0 /\ Beat \in Nat
  BY ClocksAssumption
<1>2. now \in Nat /\ N \in Nat /\ DOMAIN clocks = 1..N /\ p \in Nat /\ clocks \in Seq(Node)
  BY ClocksAssumption DEF Inv, Types
<1>3. of \in 1..Beat
  <2>1. CASE p = 0
    BY <2>1, <1>1
  <2>2. CASE p # 0
    <3>1. clocks[p] \in Node
      BY <2>2, <1>2
    <3> QED BY <3>1, <2>2 DEF Node
  <2> QED BY <2>1, <2>2
<1>4. node = [bpm |-> b, parent |-> p, num |-> b, den |-> of, epoch |-> now, offset |-> 0]
  BY DEF Clock
<1>5. node \in Node
  <2> HIDE DEF node, of
  <2>1. b \in 1..Beat /\ p \in Nat /\ of \in 1..Beat /\ now \in Nat /\ 0 \in Nat
    BY <1>1, <1>2, <1>3
  <2> QED BY <2>1, <1>4 DEF Node
<1>6. /\ clocks' = Append(clocks, node) /\ beats' = Append(beats, 0)
      /\ UNCHANGED <<now, insts, tempos, own>>
  BY DEF Create
<1> HIDE DEF node, of
<1>7. /\ clocks' \in Seq(Node) /\ Len(clocks') = N + 1 /\ DOMAIN clocks' = 1..(N + 1)
      /\ clocks'[N + 1] = node /\ \A c \in 1..N : clocks'[c] = clocks[c]
  BY <1>2, <1>5, <1>6
<1>8. /\ beats' \in Seq(Nat) /\ Len(beats') = N + 1
      /\ beats'[N + 1] = 0 /\ \A c \in 1..N : beats'[c] = beats[c]
  BY <1>6 DEF Inv, Types
<1>9. Types'
  BY <1>2, <1>6, <1>7, <1>8 DEF Inv, Types
<1>10. Tree'
  <2> SUFFICES ASSUME NEW c \in 1..(N + 1)
               PROVE  clocks'[c].parent < c /\ clocks'[c].epoch <= now /\ Beat % clocks'[c].bpm = 0
    BY <1>6, <1>7 DEF Tree
  <2>1. CASE c = N + 1
    BY <2>1, <1>1, <1>2, <1>4, <1>7
  <2>2. CASE c # N + 1
    <3>1. c \in 1..N
      BY <2>2, <1>2
    <3> QED BY <3>1, <1>2, <1>7 DEF Inv, Tree
  <2> QED BY <2>1, <2>2
<1>11. Timelines'
  <2> SUFFICES ASSUME NEW c \in 1..(N + 1)
               PROVE  /\ BeatsAreElapsed(c)'
                      /\ clocks'[c].parent # 0 /\ c \notin own => KeepsRatio(c)'
    BY <1>6, <1>7 DEF Timelines
  <2>1. CASE c = N + 1
    <3>1. clocks'[c] = node
      BY <2>1, <1>7
    <3>2. 0 + (now - now) * b = 0
      BY <1>1, <1>2
    <3>3. BeatsAreElapsed(c)'
      BY <2>1, <3>1, <3>2, <1>4, <1>6, <1>8 DEF BeatsAreElapsed, BeatAt
    <3>4. ASSUME p # 0 PROVE KeepsRatio(c)'
      <4>1. of = clocks[p].bpm /\ clocks'[p] = clocks[p]
        BY <3>4, <1>2, <1>7 DEF of
      <4>2. b * of = of * b
        BY <1>1, <1>3
      <4> QED BY <3>1, <4>1, <4>2, <1>4 DEF KeepsRatio
    <3> QED BY <3>1, <3>3, <3>4, <1>4
  <2>2. CASE c # N + 1
    <3>1. c \in 1..N /\ clocks'[c] = clocks[c] /\ beats'[c] = beats[c]
      BY <2>2, <1>2, <1>7, <1>8
    <3>2. BeatsAreElapsed(c)'
      BY <3>1, <1>2, <1>6 DEF BeatsAreElapsed, BeatAt, Inv, Timelines
    <3>3. ASSUME clocks[c].parent # 0, c \notin own PROVE KeepsRatio(c)'
      <4>1. clocks[c].parent \in 1..N
        BY <3>1, <3>3, <1>2, NodeOf DEF Inv
      <4> QED BY <3>1, <3>3, <4>1, <1>2, <1>7 DEF KeepsRatio, Inv, Timelines
    <3> QED BY <3>1, <3>2, <3>3
  <2> QED BY <2>1, <2>2
<1>12. OnGrid'
  BY <1>2, <1>6, <1>7 DEF Inv, OnGrid
<1>13. Shown'
  <2> SUFFICES ASSUME NEW i \in DOMAIN insts, insts[i].kind = "phasor"
               PROVE  /\ insts[i].size = insts[i].n * Beat
                      /\ insts[i].at <= now
                      /\ insts[i].at = now => insts[i].out = beats'[insts[i].clk] % insts[i].size
    BY <1>6 DEF Shown
  <2>1. insts[i].clk \in 1..N
    BY <1>2 DEF Inv, OnGrid
  <2> QED BY <2>1, <1>8 DEF Inv, Shown
<1>14. PhasorsAgree'
  <2>1. insts' = insts
    BY <1>6
  <2>2. PhasorsAgree
    BY DEF Inv
  <2>3. \A i, j \in DOMAIN insts : Alike(i, j)' <=> Alike(i, j)
    BY <2>1 DEF Alike
  <2> QED BY <2>1, <2>2, <2>3 DEF PhasorsAgree
<1> QED BY <1>9, <1>10, <1>11, <1>12, <1>13, <1>14 DEF Inv

\* What set_bpm() reaches goes on from where it stands, at its new tempo.
LEMMA TempoInv ==
  ASSUME Inv, NEW id \in DOMAIN clocks, NEW bpm \in Tempi, Tempo(id, bpm)
  PROVE  Inv'
<1> DEFINE f == Reached(id, bpm)
           N == Len(clocks)
<1>1. /\ bpm \in Nat \ {0} /\ Beat \in Nat /\ MaxTempos \in Nat /\ MaxTime \in Nat
      /\ SetBpm(id, bpm) /\ Types /\ Tree
      /\ UNCHANGED <<now, insts, beats>> /\ tempos < MaxTempos /\ tempos' = tempos + 1
  BY ClocksAssumption DEF Inv, Tempo
<1>2. now \in Nat /\ N \in Nat /\ DOMAIN clocks = 1..N
  BY <1>1 DEF Types
<1>3. /\ clocks' = [c \in DOMAIN clocks |->
            IF f[c] = 0 THEN clocks[c]
            ELSE [clocks[c] EXCEPT !.bpm = f[c], !.epoch = now, !.offset = BeatAt(c, now)]]
      /\ own' = {c \in own : f[c] = 0} \cup {id}
  BY <1>1 DEF SetBpm
<1> HIDE DEF f
<1>4. ASSUME NEW c \in DOMAIN clocks
      PROVE  /\ f[c] \in Nat /\ f[id] = bpm
             /\ f[c] > 0 => f[c] \in 1..Beat /\ Beat % f[c] = 0
             /\ c # id /\ clocks[c].parent = 0 => f[c] = 0
             /\ c # id /\ clocks[c].parent # 0 =>
                  /\ f[c] > 0 <=> f[clocks[c].parent] > 0
                  /\ f[c] * clocks[c].den = f[clocks[c].parent] * clocks[c].num
  BY <1>1, Reaching DEF f
<1>5. ASSUME NEW c \in DOMAIN clocks
      PROVE  clocks[c] \in Node /\ BeatAt(c, now) \in Nat
  <2>1. clocks[c] \in Node
    BY <1>1, NodeOf
  <2>2. BeatAt(c, now) = beats[c]
    BY DEF Inv, Timelines, BeatsAreElapsed
  <2>3. beats[c] \in Nat
    BY <1>1 DEF Types
  <2> QED BY <2>1, <2>2, <2>3
<1>6. ASSUME NEW c \in DOMAIN clocks, f[c] # 0
      PROVE  /\ clocks'[c] \in Node
             /\ clocks'[c].bpm = f[c] /\ clocks'[c].epoch = now
             /\ clocks'[c].offset = BeatAt(c, now)
             /\ clocks'[c].parent = clocks[c].parent
             /\ clocks'[c].num = clocks[c].num /\ clocks'[c].den = clocks[c].den
  <2>1. f[c] \in 1..Beat
    BY <1>4, <1>6
  <2> QED BY <2>1, <1>2, <1>3, <1>5, <1>6 DEF Node
<1>7. \A c \in DOMAIN clocks : f[c] = 0 => clocks'[c] = clocks[c]
  BY <1>3
<1>8. clocks' \in Seq(Node) /\ Len(clocks') = N /\ DOMAIN clocks' = DOMAIN clocks
  <2>1. DOMAIN clocks' = 1..N
    BY <1>2, <1>3
  <2>2. \A c \in 1..N : clocks'[c] \in Node
    BY <1>2, <1>5, <1>6, <1>7
  <2>3. clocks' = [c \in 1..N |-> clocks'[c]]
    BY <1>2, <1>3
  <2>4. clocks' \in [1..N -> Node]
    BY <2>2, <2>3
  <2> QED BY <2>1, <2>4, <1>2
<1>9. Types'
  BY <1>1, <1>2, <1>8 DEF Types
<1>10. Tree'
  <2> SUFFICES ASSUME NEW c \in DOMAIN clocks
               PROVE  clocks'[c].parent < c /\ clocks'[c].epoch <= now /\ Beat % clocks'[c].bpm = 0
    BY <1>1, <1>8 DEF Tree
  <2>1. CASE f[c] = 0
    BY <2>1, <1>1, <1>7 DEF Tree
  <2>2. CASE f[c] # 0
    BY <2>2, <1>1, <1>2, <1>4, <1>6 DEF Tree
  <2> QED BY <2>1, <2>2
<1>11. Timelines'
  <2> SUFFICES ASSUME NEW c \in DOMAIN clocks
               PROVE  /\ BeatsAreElapsed(c)'
                      /\ clocks'[c].parent # 0 /\ c \notin own' => KeepsRatio(c)'
    BY <1>8 DEF Timelines
  <2>1. BeatAt(c, now) = beats[c]
    BY DEF Inv, Timelines, BeatsAreElapsed
  <2>2. BeatsAreElapsed(c)'
    <3>1. CASE f[c] = 0
      BY <3>1, <2>1, <1>1, <1>7 DEF BeatsAreElapsed, BeatAt
    <3>2. CASE f[c] # 0
      <4>1. beats[c] + (now - now) * f[c] = beats[c]
        BY <1>2, <1>4, <1>5, <2>1
      <4> QED BY <3>2, <4>1, <2>1, <1>1, <1>6 DEF BeatsAreElapsed, BeatAt
    <3> QED BY <3>1, <3>2
  <2>3. clocks'[c].parent = clocks[c].parent
    BY <1>6, <1>7
  <2>4. ASSUME clocks[c].parent # 0, c \notin own' PROVE KeepsRatio(c)'
    <3> DEFINE u == clocks[c].parent
    <3>1. c # id /\ u \in DOMAIN clocks
      BY <2>4, <1>1, <1>3, NodeOf
    <3>2. f[c] > 0 <=> f[u] > 0
      BY <2>4, <3>1, <1>4
    <3>3. CASE f[c] > 0
      <4>1. clocks'[c].bpm = f[c] /\ clocks'[u].bpm = f[u]
        BY <3>1, <3>2, <3>3, <1>4, <1>6
      <4>2. f[c] * clocks[c].den = f[u] * clocks[c].num
        BY <2>4, <3>1, <1>4
      <4>3. clocks'[c].den = clocks[c].den /\ clocks'[c].num = clocks[c].num
        BY <3>3, <1>6
      <4> HIDE DEF u
      <4> QED BY <2>3, <4>1, <4>2, <4>3 DEF KeepsRatio, u
    <3>4. CASE f[c] = 0
      <4>1. f[u] = 0
        BY <3>1, <3>2, <3>4, <1>4
      <4>2. clocks'[c] = clocks[c] /\ clocks'[u] = clocks[u] /\ c \notin own
        BY <2>4, <3>1, <3>4, <4>1, <1>3, <1>7
      <4>3. KeepsRatio(c)
        BY <2>4, <4>2 DEF Inv, Timelines
      <4> QED BY <4>2, <4>3 DEF KeepsRatio
    <3> QED BY <3>3, <3>4, <1>4
  <2> QED BY <2>2, <2>3, <2>4
<1>12. OnGrid' /\ Shown' /\ PhasorsAgree'
  BY <1>1, <1>8 DEF Inv, OnGrid, Shown, PhasorsAgree, Alike
<1> QED BY <1>9, <1>10, <1>11, <1>12 DEF Inv

\* A new sync is on the grid, a new phasor shows what the others show.
LEMMA StartInv ==
  ASSUME Inv, NEW kind \in Kinds, NEW c \in DOMAIN clocks, NEW n \in Lengths, Start(kind, c, n)
  PROVE  Inv'
<1> DEFINE e == Instance(kind, c, n)
           M == Len(insts)
           d == Duration(c, n)
<1>1. /\ insts' = Append(insts, e) /\ UNCHANGED <<now, clocks, tempos, beats, own>>
      /\ now \in Nat /\ n \in Nat /\ Beat \in Nat \ {0} /\ n * Beat \in Nat \ {0}
  <2>1. n \in Nat \ {0} /\ Beat \in Nat \ {0} /\ MaxTime \in Nat
    BY ClocksAssumption
  <2>2. n * Beat \in Nat \ {0}
    BY <2>1
  <2> QED BY <2>1, <2>2 DEF Start, Inv, Types
<1>2. /\ d \in Nat \ {0} /\ d * clocks[c].bpm = n * Beat
  BY DurationIs DEF Inv
<1>3. c \in Nat /\ beats[c] \in Nat /\ BeatAt(c, now) = beats[c]
  BY DEF Inv, Types, Timelines, BeatsAreElapsed
<1> HIDE DEF d
<1>4. e = [kind |-> kind, clk |-> c, n |-> n, at |-> now, size |-> n * Beat,
           dt   |-> IF kind = "phasor" THEN 1 ELSE d,
           out  |-> IF kind = "phasor" THEN beats[c] % (n * Beat) ELSE 0,
           next |-> IF kind = "sync" THEN (now \div d + 1) * d ELSE now + 1]
  BY <1>2, <1>3 DEF Instance, FirstFire, PhaseAt, PhasorDt, d
<1>5. /\ now \div d \in Nat /\ now \div d + 1 \in Nat
      /\ (now \div d + 1) * d \in Nat /\ (now \div d + 1) * d > now /\ (now \div d + 1) * d <= now + d
  <2>1. now \div d \in Nat /\ (now \div d + 1) * d > now /\ (now \div d + 1) * d <= now + d
    BY <1>1, <1>2, GridNext
  <2>2. (now \div d + 1) * d \in Nat
    BY <1>2, <2>1
  <2> QED BY <2>1, <2>2
<1>6. beats[c] % (n * Beat) \in Nat
  <2> DEFINE z == n * Beat
  <2>1. z \in Nat \ {0}
    BY <1>1
  <2> HIDE DEF z
  <2>2. beats[c] % z \in Nat
    BY <1>3, <2>1
  <2> QED BY <2>2 DEF z
<1> DEFINE k == now \div d + 1
           o == beats[c] % (n * Beat)
           z == n * Beat
<1>7. /\ e.kind = kind /\ e.clk = c /\ e.n = n /\ e.at = now /\ e.size = z
      /\ e.kind = "sync" => e.dt = d /\ e.next = k * d
      /\ e.kind = "phasor" => e.dt = 1 /\ e.next = now + 1 /\ e.out = o
      /\ e \in Made
  <2>1. k * d \in Nat /\ o \in Nat /\ z \in Nat /\ now + 1 \in Nat /\ d \in Nat \ {0}
    BY <1>1, <1>2, <1>5, <1>6
  <2>2. e = [kind |-> kind, clk |-> c, n |-> n, at |-> now, size |-> z,
             dt   |-> IF kind = "phasor" THEN 1 ELSE d,
             out  |-> IF kind = "phasor" THEN o ELSE 0,
             next |-> IF kind = "sync" THEN k * d ELSE now + 1]
    BY <1>4
  <2> HIDE DEF e, k, o, z
  <2>3. /\ e.kind = kind /\ e.clk = c /\ e.n = n /\ e.at = now /\ e.size = z
        /\ e.dt = IF kind = "phasor" THEN 1 ELSE d
        /\ e.out = IF kind = "phasor" THEN o ELSE 0
        /\ e.next = IF kind = "sync" THEN k * d ELSE now + 1
    BY <2>2
  <2>4. e.kind \in Kinds /\ e.dt \in Nat \ {0} /\ e.out \in Nat /\ e.next \in Nat
    BY <2>1, <2>3
  <2>5. e \in Made
    BY <1>1, <1>3, <2>1, <2>2, <2>3, <2>4 DEF Made
  <2> QED BY <2>3, <2>5
<1>8. /\ k \in Nat /\ k * d > now /\ k * d <= now + d /\ o = beats[c] % z /\ z = n * Beat
  BY <1>5
<1> HIDE DEF e, k, o, z
<1>9. /\ insts' \in Seq(Made) /\ DOMAIN insts' = 1..(M + 1) /\ M \in Nat /\ DOMAIN insts = 1..M
      /\ insts'[M + 1] = e /\ \A i \in 1..M : insts'[i] = insts[i]
  BY <1>1, <1>7 DEF Inv, Types
<1>10. Types' /\ Tree' /\ Timelines'
  <2>1. Types'
    BY <1>1, <1>9 DEF Inv, Types
  <2>2. Tree'
    BY <1>1 DEF Inv, Tree
  <2>3. Timelines'
    BY <1>1 DEF Inv, Timelines, BeatsAreElapsed, BeatAt, KeepsRatio
  <2> QED BY <2>1, <2>2, <2>3
<1>11. OnGrid'
  <2> SUFFICES ASSUME NEW i \in 1..(M + 1)
               PROVE  /\ insts'[i].clk \in DOMAIN clocks
                      /\ insts'[i].next >= now
                      /\ insts'[i].kind = "sync" =>
                           /\ insts'[i].next <= now + insts'[i].dt
                           /\ \E q \in Nat : insts'[i].next = q * insts'[i].dt
    BY <1>1, <1>9 DEF OnGrid
  <2>1. CASE i = M + 1
    <3>1. insts'[i] = e
      BY <2>1, <1>9
    <3>2. e.next >= now
      <4>1. CASE e.kind = "sync"
        BY <4>1, <1>1, <1>2, <1>7, <1>8
      <4>2. CASE e.kind = "phasor"
        BY <4>2, <1>1, <1>7
      <4> QED BY <4>1, <4>2, <1>7 DEF Kinds
    <3> QED BY <3>1, <3>2, <1>7, <1>8
  <2>2. CASE i # M + 1
    BY <2>2, <1>9 DEF Inv, OnGrid
  <2> QED BY <2>1, <2>2
<1>12. Shown'
  <2> SUFFICES ASSUME NEW i \in 1..(M + 1), insts'[i].kind = "phasor"
               PROVE  /\ insts'[i].size = insts'[i].n * Beat
                      /\ insts'[i].at <= now
                      /\ insts'[i].at = now => insts'[i].out = beats[insts'[i].clk] % insts'[i].size
    BY <1>1, <1>9 DEF Shown
  <2>1. CASE i = M + 1
    BY <2>1, <1>1, <1>7, <1>8, <1>9
  <2>2. CASE i # M + 1
    BY <2>2, <1>9 DEF Inv, Shown
  <2> QED BY <2>1, <2>2
<1>13. PhasorsAgree'
  <2> SUFFICES ASSUME NEW i \in 1..(M + 1), NEW j \in 1..(M + 1), insts'[i].kind = "phasor",
                      insts'[i].kind = insts'[j].kind, insts'[i].clk = insts'[j].clk,
                      insts'[i].n = insts'[j].n, insts'[i].at = insts'[j].at
               PROVE  insts'[i].out = insts'[j].out
    BY <1>9 DEF PhasorsAgree, Alike
  <2>1. CASE insts'[i].at = now
    <3>1. /\ insts'[i].size = insts'[i].n * Beat
          /\ insts'[i].out = beats[insts'[i].clk] % insts'[i].size
      BY <2>1, <1>1, <1>12, <1>9 DEF Shown
    <3>2. /\ insts'[j].size = insts'[j].n * Beat
          /\ insts'[j].out = beats[insts'[j].clk] % insts'[j].size
      BY <2>1, <1>1, <1>12, <1>9 DEF Shown
    <3> QED BY <3>1, <3>2
  <2>2. CASE insts'[i].at # now
    <3>1. i # M + 1 /\ j # M + 1
      BY <2>2, <1>7, <1>9
    <3>2. i \in 1..M /\ j \in 1..M
      BY <3>1, <1>9
    <3> QED BY <3>2, <1>9 DEF Inv, PhasorsAgree, Alike
  <2> QED BY <2>1, <2>2
<1> QED BY <1>10, <1>11, <1>12, <1>13 DEF Inv

\* A tick keeps a sync on the grid, and a phasor shows its clock's position.
LEMMA TickInv ==
  ASSUME Inv, NEW i \in DOMAIN insts, Tick(i)
  PROVE  Inv'
<1> DEFINE s == insts[i]
           o == IF s.kind = "phasor" THEN PhaseAt(s.clk, s.size, now) ELSE 0
           e == [s EXCEPT !.at = now, !.next = s.next + s.dt, !.out = o]
<1>1. /\ insts' = [insts EXCEPT ![i] = e] /\ UNCHANGED <<now, clocks, tempos, beats, own>>
      /\ s.next <= now /\ now \in Nat
  BY ClocksAssumption DEF Tick, Due, Inv, Types
<1>2. insts \in Seq(Made) /\ s \in Made
  BY DEF Inv, Types
<1>3. s.clk \in DOMAIN clocks /\ s.next >= now /\ s.next \in Nat /\ s.dt \in Nat \ {0}
  BY <1>2 DEF Inv, OnGrid, Made
<1>4. s.next = now /\ s.next + s.dt \in Nat /\ s.next + s.dt >= now
  BY <1>1, <1>3
<1>5. s.kind = "phasor" => o = beats[s.clk] % s.size /\ o \in Nat
  <2> SUFFICES ASSUME s.kind = "phasor" PROVE o = beats[s.clk] % s.size /\ o \in Nat
    OBVIOUS
  <2>1. BeatAt(s.clk, now) = beats[s.clk] /\ beats[s.clk] \in Nat
    BY <1>3 DEF Inv, Types, Timelines, BeatsAreElapsed
  <2>2. s.size \in Nat \ {0}
    <3>1. s.size = s.n * Beat /\ s.n \in Nat \ {0} /\ Beat \in Nat \ {0}
      BY <1>2, ClocksAssumption DEF Inv, Shown, Made
    <3> HIDE DEF s
    <3> QED BY <3>1
  <2>3. o = beats[s.clk] % s.size
    BY <2>1 DEF PhaseAt
  <2>4. beats[s.clk] % s.size \in Nat
    <3> HIDE DEF s
    <3> QED BY <2>1, <2>2
  <2> QED BY <2>3, <2>4
<1>6. o \in Nat
  BY <1>5
<1> HIDE DEF o
<1>7. /\ e \in Made /\ e.kind = s.kind /\ e.clk = s.clk /\ e.n = s.n /\ e.size = s.size /\ e.dt = s.dt
      /\ e.at = now /\ e.next = s.next + s.dt /\ e.out = o
  <2> HIDE DEF s
  <2> QED BY <1>1, <1>2, <1>4, <1>6 DEF Made
<1> HIDE DEF e
<1>8. /\ insts' \in Seq(Made) /\ DOMAIN insts' = DOMAIN insts
      /\ insts'[i] = e /\ \A j \in DOMAIN insts : j # i => insts'[j] = insts[j]
  BY <1>1, <1>2, <1>7
<1>10. Types' /\ Tree' /\ Timelines'
  <2>1. Types'
    BY <1>1, <1>8 DEF Inv, Types
  <2>2. Tree'
    BY <1>1 DEF Inv, Tree
  <2>3. Timelines'
    BY <1>1 DEF Inv, Timelines, BeatsAreElapsed, BeatAt, KeepsRatio
  <2> QED BY <2>1, <2>2, <2>3
<1>11. OnGrid'
  <2> SUFFICES ASSUME NEW j \in DOMAIN insts
               PROVE  /\ insts'[j].clk \in DOMAIN clocks
                      /\ insts'[j].next >= now
                      /\ insts'[j].kind = "sync" =>
                           /\ insts'[j].next <= now + insts'[j].dt
                           /\ \E q \in Nat : insts'[j].next = q * insts'[j].dt
    BY <1>1, <1>8 DEF OnGrid
  <2>1. CASE j = i
    <3>1. ASSUME s.kind = "sync" PROVE \E q \in Nat : s.next + s.dt = q * s.dt
      <4>1. PICK q \in Nat : s.next = q * s.dt
        BY <3>1 DEF Inv, OnGrid
      <4>2. q + 1 \in Nat /\ q * s.dt + s.dt = (q + 1) * s.dt
        <5> HIDE DEF s
        <5> QED BY <1>3
      <4> QED BY <4>1, <4>2
    <3>2. insts'[j] = e
      BY <2>1, <1>8
    <3> HIDE DEF s
    <3> QED BY <3>1, <3>2, <1>3, <1>4, <1>7
  <2>2. CASE j # i
    BY <2>2, <1>8 DEF Inv, OnGrid
  <2> QED BY <2>1, <2>2
<1>12. Shown'
  <2> SUFFICES ASSUME NEW j \in DOMAIN insts, insts'[j].kind = "phasor"
               PROVE  /\ insts'[j].size = insts'[j].n * Beat
                      /\ insts'[j].at <= now
                      /\ insts'[j].at = now => insts'[j].out = beats[insts'[j].clk] % insts'[j].size
    BY <1>1, <1>8 DEF Shown
  <2>1. CASE j = i
    <3>1. insts'[j] = e /\ s.kind = "phasor" /\ now <= now
      BY <2>1, <1>1, <1>7, <1>8
    <3>2. s.size = s.n * Beat
      BY <3>1 DEF Inv, Shown
    <3> QED BY <3>1, <3>2, <1>5, <1>7
  <2>2. CASE j # i
    <3>1. insts'[j] = insts[j]
      BY <2>2, <1>8
    <3> QED BY <3>1 DEF Inv, Shown
  <2> QED BY <2>1, <2>2
<1>13. PhasorsAgree'
  <2> SUFFICES ASSUME NEW j \in DOMAIN insts, NEW k \in DOMAIN insts, insts'[j].kind = "phasor",
                      insts'[j].kind = insts'[k].kind, insts'[j].clk = insts'[k].clk,
                      insts'[j].n = insts'[k].n, insts'[j].at = insts'[k].at
               PROVE  insts'[j].out = insts'[k].out
    <3>1. DOMAIN insts' = DOMAIN insts
      BY <1>8
    <3> QED BY <3>1, Zenon DEF PhasorsAgree, Alike
  <2>1. CASE insts'[j].at = now
    <3>1. /\ insts'[j].size = insts'[j].n * Beat
          /\ insts'[j].out = beats[insts'[j].clk] % insts'[j].size
      BY <2>1, <1>1, <1>12, <1>8 DEF Shown
    <3>2. /\ insts'[k].size = insts'[k].n * Beat
          /\ insts'[k].out = beats[insts'[k].clk] % insts'[k].size
      BY <2>1, <1>1, <1>12, <1>8 DEF Shown
    <3> QED BY <3>1, <3>2
  <2>2. CASE insts'[j].at # now
    <3>1. j # i /\ k # i
      BY <2>2, <1>7, <1>8
    <3> QED BY <3>1, <1>8 DEF Inv, PhasorsAgree, Alike
  <2> QED BY <2>1, <2>2
<1> QED BY <1>10, <1>11, <1>12, <1>13 DEF Inv

\* Time goes on by a unit when nothing is due any more.
LEMMA AdvanceInv == ASSUME Inv, Advance PROVE Inv'
<1>1. /\ now < MaxTime /\ now' = now + 1 /\ UNCHANGED <<clocks, insts, tempos, own>>
      /\ beats' = [c \in DOMAIN clocks |-> beats[c] + clocks[c].bpm]
      /\ now \in Nat /\ MaxTime \in Nat /\ Beat \in Nat
  BY ClocksAssumption DEF Advance, Inv, Types
<1>2. /\ clocks \in Seq(Node) /\ beats \in Seq(Nat) /\ Len(beats) = Len(clocks)
      /\ Len(clocks) \in Nat /\ DOMAIN clocks = 1..Len(clocks)
  BY DEF Inv, Types
<1>3. ASSUME NEW c \in DOMAIN clocks
      PROVE  /\ clocks[c].bpm \in Nat /\ clocks[c].epoch \in Nat /\ clocks[c].offset \in Nat
             /\ beats[c] \in Nat /\ beats'[c] = beats[c] + clocks[c].bpm
  <2>1. clocks[c] \in Node /\ beats[c] \in Nat
    BY <1>2
  <2> QED BY <1>1, <2>1 DEF Node
<1>4. beats' \in Seq(Nat) /\ Len(beats') = Len(clocks)
  <2>1. \A c \in 1..Len(clocks) : beats[c] + clocks[c].bpm \in Nat
    BY <1>2, <1>3
  <2>2. beats' \in [1..Len(clocks) -> Nat]
    BY <1>1, <1>2, <2>1
  <2> QED BY <1>2, <2>2
<1>5. Types'
  BY <1>1, <1>4 DEF Inv, Types
<1>6. Tree'
  <2> SUFFICES ASSUME NEW c \in DOMAIN clocks
               PROVE  clocks[c].parent < c /\ clocks[c].epoch <= now + 1 /\ Beat % clocks[c].bpm = 0
    BY <1>1 DEF Tree
  <2> QED BY <1>1, <1>3 DEF Inv, Tree
<1>7. Timelines'
  <2> SUFFICES ASSUME NEW c \in DOMAIN clocks
               PROVE  /\ BeatsAreElapsed(c)'
                      /\ clocks[c].parent # 0 /\ c \notin own => KeepsRatio(c)'
    BY <1>1 DEF Timelines
  <2>1. BeatsAreElapsed(c)'
    <3> DEFINE b == clocks[c].bpm
               t == clocks[c].epoch
               o == clocks[c].offset
    <3>1. o + (now - t) * b = beats[c]
      BY DEF Inv, Timelines, BeatsAreElapsed, BeatAt
    <3>2. o + ((now + 1) - t) * b = beats[c] + b
      <4>1. b \in Nat /\ t \in Nat /\ o \in Nat
        BY <1>3
      <4> HIDE DEF b, t, o
      <4> QED BY <1>1, <3>1, <4>1
    <3>3. BeatsAreElapsed(c)' <=>
            clocks'[c].offset + (now' - clocks'[c].epoch) * clocks'[c].bpm = beats'[c]
      BY DEF BeatsAreElapsed, BeatAt
    <3>4. now' = now + 1 /\ clocks'[c].offset = o /\ clocks'[c].epoch = t /\ clocks'[c].bpm = b
      BY <1>1
    <3> HIDE DEF b, t, o
    <3>5. clocks'[c].offset + (now' - clocks'[c].epoch) * clocks'[c].bpm = o + ((now + 1) - t) * b
      BY <3>4
    <3>6. beats'[c] = beats[c] + b
      BY <1>3 DEF b
    <3> QED BY <3>2, <3>3, <3>5, <3>6
  <2>2. clocks[c].parent # 0 /\ c \notin own => KeepsRatio(c)'
    BY <1>1 DEF Inv, Timelines, KeepsRatio
  <2> QED BY <2>1, <2>2
<1>8. ASSUME NEW i \in DOMAIN insts
      PROVE  /\ insts[i].next \in Nat /\ insts[i].dt \in Nat /\ insts[i].at \in Nat
             /\ insts[i].next > now
  <2>1. insts[i] \in Made
    BY DEF Inv, Types
  <2>2. ~(insts[i].next <= now)
    BY DEF Advance, Due
  <2> QED BY <1>1, <2>1, <2>2 DEF Made
<1>9. OnGrid'
  <2> SUFFICES ASSUME NEW i \in DOMAIN insts
               PROVE  /\ insts[i].clk \in DOMAIN clocks
                      /\ insts[i].next >= now + 1
                      /\ insts[i].kind = "sync" =>
                           /\ insts[i].next <= now + 1 + insts[i].dt
                           /\ \E q \in Nat : insts[i].next = q * insts[i].dt
    BY <1>1 DEF OnGrid
  <2>1. insts[i].next >= now + 1
    BY <1>1, <1>8
  <2>2. insts[i].kind = "sync" => insts[i].next <= now + insts[i].dt
    BY DEF Inv, OnGrid
  <2>3. insts[i].kind = "sync" => insts[i].next <= now + 1 + insts[i].dt
    BY <1>1, <1>8, <2>2
  <2> QED BY <2>1, <2>3 DEF Inv, OnGrid
<1>10. Shown'
  <2> SUFFICES ASSUME NEW i \in DOMAIN insts, insts[i].kind = "phasor"
               PROVE  /\ insts[i].size = insts[i].n * Beat
                      /\ insts[i].at <= now + 1 /\ insts[i].at # now + 1
    BY <1>1 DEF Shown
  <2>1. insts[i].at <= now /\ insts[i].size = insts[i].n * Beat
    BY DEF Inv, Shown
  <2> QED BY <1>1, <1>8, <2>1
<1>11. PhasorsAgree'
  <2>1. insts' = insts
    BY <1>1
  <2>2. PhasorsAgree
    BY DEF Inv
  <2>3. \A i, j \in DOMAIN insts : Alike(i, j)' <=> Alike(i, j)
    BY <2>1 DEF Alike
  <2> QED BY <2>1, <2>2, <2>3 DEF PhasorsAgree
<1> QED BY <1>5, <1>6, <1>7, <1>9, <1>10, <1>11 DEF Inv

\* Every step keeps the invariant.
LEMMA NextInv == Inv /\ [Next]_vars => Inv'
<1> SUFFICES ASSUME Inv, [Next]_vars PROVE Inv'
  OBVIOUS
<1>1. CASE UNCHANGED vars
  <2>1. UNCHANGED <<now, clocks, insts, tempos, beats, own>>
    BY <1>1 DEF vars
  <2>2. Types' /\ Tree' /\ OnGrid' /\ Shown' /\ PhasorsAgree'
    BY <2>1 DEF Inv, Types, Tree, OnGrid, Shown, PhasorsAgree, Alike
  <2>3. Timelines'
    BY <2>1 DEF Inv, Timelines, BeatsAreElapsed, BeatAt, KeepsRatio
  <2> QED BY <2>2, <2>3 DEF Inv
<1>2. CASE Next
  BY <1>2, CreateInv, TempoInv, StartInv, TickInv, AdvanceInv DEF Next
<1> QED BY <1>1, <1>2

\* The inductive invariant holds: timelines go on, syncs are on their grid and
\* phasors show the positions of their clocks.
THEOREM Invariance == Spec => []Inv
BY InitInv, NextInv, PTL DEF Spec

-----------------------------------------------------------------------------
(***************************************************************************)
(* The theorems                                                             *)
(***************************************************************************)

\* Whatever tempi are set in a tree of clocks of any depth, each clock goes on
\* from the beats it has counted, and keeps the ratio to its parent unless its
\* own tempo was set after the last change above it.
THEOREM TempoReachesEveryClock == Spec => []TempoReachesAll
<1>1. Inv => TempoReachesAll
  <2> SUFFICES ASSUME Inv PROVE TempoReachesAll
    OBVIOUS
  <2>1. \A c \in DOMAIN clocks :
          /\ clocks[c].bpm \in 1..Beat /\ Beat % clocks[c].bpm = 0
          /\ clocks[c].parent \in 0..(c - 1)
          /\ clocks[c].epoch \in 0..now /\ clocks[c].offset \in Nat
    <3> SUFFICES ASSUME NEW c \in DOMAIN clocks
                 PROVE  /\ clocks[c].bpm \in 1..Beat /\ Beat % clocks[c].bpm = 0
                        /\ clocks[c].parent \in 0..(c - 1)
                        /\ clocks[c].epoch \in 0..now /\ clocks[c].offset \in Nat
      OBVIOUS
    <3>1. clocks[c] \in Node /\ c \in Nat /\ now \in Nat
      BY ClocksAssumption DEF Inv, Types
    <3>2. clocks[c].parent < c /\ clocks[c].epoch <= now /\ Beat % clocks[c].bpm = 0
      BY DEF Inv, Tree
    <3> QED BY <3>1, <3>2 DEF Node
  <2>2. \A i \in DOMAIN insts : insts[i].kind \in Kinds /\ insts[i].next >= now
    <3> SUFFICES ASSUME NEW i \in DOMAIN insts PROVE insts[i].kind \in Kinds /\ insts[i].next >= now
      OBVIOUS
    <3>1. insts[i] \in Made
      BY DEF Inv, Types
    <3> QED BY <3>1 DEF Inv, OnGrid, Made
  <2>3. TypeOK
    BY <2>1, <2>2 DEF TypeOK, Inv, Types
  <2> QED BY <2>3 DEF TempoReachesAll, Inv, Timelines
<1> QED BY <1>1, Invariance, PTL

\* Syncs of one interval are due at the same times, whenever their processes
\* started.
THEOREM SyncsShareAGrid == Spec => []SyncsAlign
<1>1. Inv => SyncsAlign
  <2> SUFFICES ASSUME Inv, NEW i \in DOMAIN insts, NEW j \in DOMAIN insts,
                      insts[i].kind = "sync", insts[j].kind = "sync", insts[i].dt = insts[j].dt,
                      insts[i].next > now, insts[j].next > now
               PROVE  insts[i].next = insts[j].next
    BY DEF SyncsAlign, Alike
  <2>1. insts[i] \in Made /\ now \in Nat
    BY ClocksAssumption DEF Inv, Types
  <2> PICK d \in Nat \ {0} : d = insts[i].dt
    BY <2>1 DEF Made
  <2>2. PICK k \in Nat : insts[i].next = k * d
    BY DEF Inv, OnGrid
  <2>3. PICK m \in Nat : insts[j].next = m * d
    BY DEF Inv, OnGrid
  <2>4. k * d > now /\ k * d <= now + d /\ m * d > now /\ m * d <= now + d
    BY <2>2, <2>3 DEF Inv, OnGrid
  <2>5. k = m
    BY <2>1, <2>4, OneMultiple
  <2> QED BY <2>2, <2>3, <2>5
<1> QED BY <1>1, Invariance, PTL

\* Phasors of as many beats on one clock show the same phase at the same time,
\* whatever tempo they were made at.
THEOREM PhasorsShareAPhase == Spec => []PhasorsAgree
<1>1. Inv => PhasorsAgree
  BY DEF Inv
<1> QED BY <1>1, Invariance, PTL

=============================================================================
