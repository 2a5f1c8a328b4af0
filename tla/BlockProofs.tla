----------------------------- MODULE BlockProofs -----------------------------
(***************************************************************************)
(* Theorems about what a process block is made of, for every value of the   *)
(* constants: the instances its bindings make (module Instances), the       *)
(* segments its reactions are placed in (modules Segments and Placement),   *)
(* the flows they read (module Flows) and what an edit makes of all that    *)
(* (module HotReload).  The four specifications are separate; each theorem  *)
(* is about one.                                                           *)
(***************************************************************************)
EXTENDS Instances, Placement, Flows, HotReload, FiniteSetTheorems, SequenceTheorems,
        WellFoundedInduction, TLAPS

-----------------------------------------------------------------------------
(***************************************************************************)
(* Instances: the inductive invariant                                       *)
(***************************************************************************)
NamesIn   == UNION {{b[c].def : c \in DOMAIN b} : b \in Bindings}
Inst    == [def: NamesIn, call: Nat, dt: Nat \ {0}, n: Nat, age: Nat, made: Nat,
            active: BOOLEAN, subs: SUBSET Nat, next: Nat]
Reading == [inst: Nat, out: Nat]

Types ==
    /\ binding \in Bindings /\ now \in 0..MaxTime /\ running \in BOOLEAN
    /\ insts \in Seq(Inst)
    /\ driver \in 0..Len(insts) /\ pool = 1..driver
    /\ owned \subseteq DOMAIN insts
    /\ reads \in [Calls -> Reading]
    /\ \A c \in Calls : reads[c].inst <= Len(insts)
    /\ driver = 0 => insts = <<>> /\ ~running

\* What an instance was made for; it ticks at most once in a unit of time.
Sound(is, i) ==
    /\ is[i].call \in Calls /\ is[i].def = binding[is[i].call].def
    /\ is[i].subs \subseteq 1..(i - 1)
    /\ is[i].made <= now
    /\ is[i].n + is[i].made <= now + 1

AllSound == \A i \in DOMAIN insts : Sound(insts, i)

\* What is subscribed is due at the end of its interval and belongs to the
\* process while that runs.
Armed ==
    \A i \in Subscribed :
        /\ running /\ i \in owned
        /\ insts[i].next >= now
        /\ insts[i].n + insts[i].dt + insts[i].made <= insts[i].next + 1

\* The instances that the driver ticks have ticked no later than itself.
Together ==
    driver # 0 /\ insts[driver].next # 0 =>
        \A i \in pool : insts[i].active /\ insts[i].next = 0 =>
            insts[i].n + insts[driver].dt + insts[i].made <= insts[driver].next + 1

\* The driver is the only one of the binding's instances that was made for its
\* call.
Alone == \A i \in pool : insts[i].call = insts[driver].call => i = driver

\* i is the first instance that the start of the process made for call c.
FirstFor(c, i) == insts[i].call = c /\ \A j \in pool : insts[j].call = c => i <= j

\* Where no other call has the name of its function, a call gave what its first
\* instance has.
OwnRead ==
    \A c \in Calls : (\A d \in Calls \ {c} : binding[d].def # binding[c].def) =>
        \A i \in pool : FirstFor(c, i) /\ insts[i].active => reads[c].inst = i

Inv == Types /\ AllSound /\ Armed /\ Together /\ Alone /\ OwnRead /\ AgeIsElapsed

-----------------------------------------------------------------------------
(***************************************************************************)
(* Sets and recursive functions                                             *)
(***************************************************************************)

\* A set of natural numbers with a bound has a greatest element.
LEMMA MaxIn ==
  ASSUME NEW N \in Nat, NEW S \in SUBSET (0..N), S # {}
  PROVE  Max(S) \in S /\ \A y \in S : y <= Max(S)
<1> DEFINE T == {N - x : x \in S}
           R == {ss \in Nat \X Nat : ss[1] < ss[2]}
<1>1. T \subseteq Nat /\ T # {}
  <2>1. \A x \in S : N - x \in Nat
    OBVIOUS
  <2> QED BY <2>1
<1>2. IsWellFoundedOn(R, Nat)
  BY NatLessThanWellFounded DEF OpToRel
<1>3. PICK t \in T : \A m \in T : ~(<<m, t>> \in R)
  <2> HIDE DEF T, R
  <2> QED BY <1>1, <1>2, WFMin
<1>4. PICK x \in S : t = N - x
  OBVIOUS
<1>5. \A y \in S : x >= y
  <2> SUFFICES ASSUME NEW y \in S PROVE x >= y
    OBVIOUS
  <2>1. N - y \in T /\ N - y \in Nat /\ t \in Nat
    BY <1>1
  <2>2. ~(N - y < t)
    BY <1>3, <2>1
  <2> QED BY <1>4, <2>2
<1>6. Max(S) \in S /\ \A y \in S : Max(S) >= y
  BY <1>5 DEF Max
<1> QED BY <1>6

\* A set of natural numbers has a least element.
LEMMA MinIn ==
  ASSUME NEW S \in SUBSET Nat, S # {}
  PROVE  Min(S) \in S /\ \A y \in S : Min(S) <= y
<1> DEFINE R == {ss \in Nat \X Nat : ss[1] < ss[2]}
<1>1. IsWellFoundedOn(R, Nat)
  BY NatLessThanWellFounded DEF OpToRel
<1>2. PICK x \in S : \A m \in S : ~(<<m, x>> \in R)
  <2> HIDE DEF R
  <2> QED BY <1>1, WFMin
<1>3. \A y \in S : x <= y
  <2> SUFFICES ASSUME NEW y \in S PROVE x <= y
    OBVIOUS
  <2>1. x \in Nat /\ y \in Nat /\ ~(<<y, x>> \in R)
    BY <1>2
  <2> QED BY <2>1
<1> QED BY <1>2, <1>3 DEF Min

\* The elements of a finite set, in some order.
LEMMA SetToSeqIs ==
  ASSUME NEW S, IsFiniteSet(S)
  PROVE  SetToSeq(S) \in Seq(S)
<1>1. Cardinality(S) \in Nat /\ ExistsBijection(1..Cardinality(S), S)
  BY FS_CardinalityType
<1>2. \E f \in [1..Cardinality(S) -> S] : IsInjective(f)
  BY <1>1 DEF ExistsBijection, Bijection, Injection
<1>3. SetToSeq(S) \in [1..Cardinality(S) -> S]
  BY <1>2 DEF SetToSeq
<1> QED BY <1>1, <1>3

\* What holds of a value that is computed step by step, if it holds at the start
\* and every step keeps it.
LEMMA Stepwise ==
  ASSUME NEW n \in Nat, NEW V, NEW h, h[0] \in V[0],
         \A k \in 1..n : h[k - 1] \in V[k - 1] => h[k] \in V[k]
  PROVE  \A k \in 0..n : h[k] \in V[k]
<1> DEFINE T == {k \in Nat : k <= n /\ h[k] \notin V[k]}
           R == {ss \in Nat \X Nat : ss[1] < ss[2]}
<1>1. T = {}
  <2> SUFFICES ASSUME T # {} PROVE FALSE
    OBVIOUS
  <2>1. IsWellFoundedOn(R, Nat)
    BY NatLessThanWellFounded DEF OpToRel
  <2>2. T \subseteq Nat
    OBVIOUS
  <2>3. PICK k \in T : \A m \in T : ~(<<m, k>> \in R)
    <3> HIDE DEF T, R
    <3> QED BY <2>1, <2>2, WFMin
  <2>4. k \in Nat /\ k <= n /\ h[k] \notin V[k]
    OBVIOUS
  <2>5. k # 0
    BY <2>4
  <2>6. k - 1 \in Nat /\ k - 1 < k /\ k \in 1..n
    BY <2>4, <2>5
  <2>7. k - 1 \notin T
    <3> HIDE DEF T
    <3> QED BY <2>3, <2>4, <2>6
  <2>8. h[k - 1] \in V[k - 1]
    BY <2>4, <2>6, <2>7
  <2> QED BY <2>4, <2>6, <2>8
<1> QED BY <1>1

\* Steps that stay in the sets given for them.
Closed(n, U, V, v, Step) ==
    /\ n \in Nat /\ v \in V[0]
    /\ \A k \in 0..n : V[k] \subseteq U
    /\ \A k \in 1..n : \A u \in V[k - 1] : Step[<<k, u>>] \in V[k]

\* A function that records the steps from a value.
Records(f, n, V, v, Step) ==
    /\ f = [k \in 0..n |-> f[k]] /\ f[0] = v
    /\ \A k \in 1..n : f[k - 1] \in V[k - 1] /\ f[k] = Step[<<k, f[k - 1]>>]

\* Such a computation comes to an end.
LEMMA StepsExist ==
  ASSUME NEW n, NEW U, NEW V, NEW v, NEW Step, Closed(n, U, V, v, Step)
  PROVE  \E f : Records(f, n, V, v, Step)
<1> SUFFICES ASSUME n \in Nat, v \in V[0], \A k \in 0..n : V[k] \subseteq U,
                    \A k \in 1..n : \A u \in V[k - 1] : Step[<<k, u>>] \in V[k]
             PROVE  \E f : Records(f, n, V, v, Step)
  BY DEF Closed
<1> DEFINE Upto(m) == \E f \in [0..m -> U] :
                         /\ f[0] = v
                         /\ \A k \in 0..m : f[k] \in V[k]
                         /\ \A k \in 1..m : f[k] = Step[<<k, f[k - 1]>>]
           T == {m \in Nat : m <= n /\ ~Upto(m)}
           R == {ss \in Nat \X Nat : ss[1] < ss[2]}
<1>1. T = {}
  <2> SUFFICES ASSUME T # {} PROVE FALSE
    OBVIOUS
  <2>1. IsWellFoundedOn(R, Nat)
    BY NatLessThanWellFounded DEF OpToRel
  <2>2. T \subseteq Nat
    OBVIOUS
  <2>3. PICK m \in T : \A k \in T : ~(<<k, m>> \in R)
    <3> HIDE DEF T, R
    <3> QED BY <2>1, <2>2, WFMin
  <2>4. m \in Nat /\ m <= n /\ ~Upto(m)
    OBVIOUS
  <2>5. m # 0
    <3>1. Upto(0)
      <4> DEFINE f == [k \in 0..0 |-> v]
      <4>1. v \in U /\ f \in [0..0 -> U] /\ f[0] = v
        OBVIOUS
      <4>2. \A k \in 0..0 : k = 0
        OBVIOUS
      <4>3. 1..0 = {}
        OBVIOUS
      <4> HIDE DEF f
      <4> QED BY <4>1, <4>2, <4>3
    <3> HIDE DEF Upto
    <3> QED BY <3>1, <2>4
  <2>6. m - 1 \in Nat /\ m - 1 < m /\ m - 1 <= n /\ m \in 1..n
    BY <2>4, <2>5
  <2>7. Upto(m - 1)
    <3>1. m - 1 \notin T
      <4> HIDE DEF T, Upto
      <4> QED BY <2>3, <2>4, <2>6
    <3> HIDE DEF Upto
    <3> QED BY <3>1, <2>6
  <2>8. PICK f \in [0..(m - 1) -> U] :
           /\ f[0] = v
           /\ \A k \in 0..(m - 1) : f[k] \in V[k]
           /\ \A k \in 1..(m - 1) : f[k] = Step[<<k, f[k - 1]>>]
    BY <2>7
  <2> DEFINE w == Step[<<m, f[m - 1]>>]
             g == [k \in 0..m |-> IF k = m THEN w ELSE f[k]]
  <2>9. w \in V[m] /\ w \in U
    BY <2>6, <2>8
  <2>10. \A k \in 0..m : k # m => k \in 0..(m - 1)
    BY <2>4
  <2>11. g \in [0..m -> U] /\ g[m] = w /\ \A k \in 0..(m - 1) : g[k] = f[k]
    <3> HIDE DEF w
    <3> QED BY <2>4, <2>8, <2>9, <2>10
  <2>12. 0 \in 0..(m - 1)
    BY <2>6
  <2>13. g[0] = v
    BY <2>8, <2>11, <2>12
  <2> HIDE DEF g
  <2>14. \A k \in 0..m : g[k] \in V[k]
    BY <2>8, <2>9, <2>10, <2>11
  <2>15. ASSUME NEW k \in 1..m PROVE g[k] = Step[<<k, g[k - 1]>>]
    <3>1. k - 1 \in 0..(m - 1)
      BY <2>6
    <3>2. g[k - 1] = f[k - 1]
      BY <3>1, <2>11
    <3>3. CASE k = m
      BY <3>2, <3>3, <2>11
    <3>4. CASE k # m
      <4>1. k \in 1..(m - 1) /\ k \in 0..(m - 1)
        BY <3>4, <2>6
      <4> QED BY <3>2, <4>1, <2>8, <2>11
    <3> QED BY <3>3, <3>4
  <2>16. Upto(m)
    BY <2>11, <2>13, <2>14, <2>15
  <2> HIDE DEF Upto
  <2> QED BY <2>4, <2>16
<1>2. Upto(n)
  <2> HIDE DEF Upto
  <2> QED BY <1>1
<1>3. PICK f \in [0..n -> U] :
         /\ f[0] = v
         /\ \A k \in 0..n : f[k] \in V[k]
         /\ \A k \in 1..n : f[k] = Step[<<k, f[k - 1]>>]
  BY <1>2
<1>4. \A k \in 1..n : k - 1 \in 0..n
  OBVIOUS
<1> QED BY <1>3, <1>4 DEF Records

-----------------------------------------------------------------------------
(***************************************************************************)
(* Instances: keeping what is known of each                                 *)
(***************************************************************************)

\* What the constants and the binding give.
LEMMA BindingIs ==
  ASSUME Types
  PROVE  /\ now \in Nat /\ MaxTime \in Nat /\ now <= MaxTime
         /\ Len(binding) \in Nat /\ Calls = 1..Len(binding)
         /\ \A c \in Calls :
               /\ binding[c].def \in NamesIn
               /\ binding[c].dt \in Nat \ {0}
               /\ binding[c].into \in {0} \cup (c + 1)..Len(binding)
               /\ binding[c].into # 0 => binding[c].on = binding[binding[c].into].on
<1>1. binding \in Bindings /\ IsBinding(binding) /\ MaxTime \in Nat /\ now \in 0..MaxTime
  BY InstancesAssumption DEF Types
<1>2. \A c \in Calls : binding[c].def \in NamesIn
  BY <1>1 DEF NamesIn, Calls
<1> QED BY <1>1, <1>2 DEF IsBinding, Calls

\* A new instance.
LEMMA SeededIs ==
  ASSUME Types, NEW c \in Calls, NEW d \in Nat \ {0}, NEW s, s = Seeded(c, d)
  PROVE  /\ s \in Inst
         /\ s.def = binding[c].def /\ s.call = c /\ s.dt = d /\ s.n \in {0, 1}
         /\ s.age = d /\ s.made = now /\ s.subs = {} /\ s.next = 0
<1>1. now \in Nat /\ binding[c].def \in NamesIn /\ c \in Nat
  BY BindingIs
<1> QED BY <1>1 DEF Seeded, Inst

\* s becomes t in a tick: it stays what it is, counts, and its age grows by the
\* interval that it then has.
TickOf(s, t) ==
    /\ t.def = s.def /\ t.call = s.call /\ t.made = s.made /\ t.subs = s.subs
    /\ t.next = s.next
    /\ t.n = s.n + 1 /\ t.age = s.age + t.dt
    /\ t.active => s.active

\* Ticked changes one instance, by such a tick.
LEMMA TickedIs ==
  ASSUME Types, NEW is \in Seq(Inst), NEW i \in DOMAIN is,
         is[i].subs \subseteq 1..(i - 1), \A j \in DOMAIN is : is[j].n <= MaxTime + 1,
         NEW u, u = Ticked(is, i)
  PROVE  /\ u \in Seq(Inst) /\ Len(u) = Len(is)
         /\ \A j \in DOMAIN is : j # i => u[j] = is[j]
         /\ TickOf(is[i], u[i])
<1> DEFINE s == is[i]
           d == IF s.subs = {} THEN s.dt ELSE Interval[is[Max(s.subs)].n]
           n == s.n + 1
           t == [s EXCEPT !.dt = d, !.n = n, !.age = @ + d, !.active = @ /\ n # StopAt[s.def]]
<1>1. s \in Inst /\ DOMAIN is = 1..Len(is) /\ Len(is) \in Nat /\ i \in Nat \ {0}
  OBVIOUS
<1>2. d \in Nat \ {0}
  <2>1. CASE s.subs = {}
    BY <2>1, <1>1 DEF Inst
  <2>2. CASE s.subs # {}
    <3>1. i \in Nat /\ s.subs \in SUBSET (0..i)
      BY <1>1
    <3>2. Max(s.subs) \in s.subs
      BY <3>1, <2>2, MaxIn
    <3>3. Max(s.subs) \in DOMAIN is
      BY <3>2, <1>1
    <3>4. is[Max(s.subs)] \in Inst
      BY <3>3
    <3>5. is[Max(s.subs)].n \in Nat /\ is[Max(s.subs)].n <= MaxTime + 1
      BY <3>3, <3>4 DEF Inst
    <3>6. MaxTime \in Nat
      BY InstancesAssumption
    <3>7. is[Max(s.subs)].n \in 0..(MaxTime + 1)
      BY <3>5, <3>6
    <3> QED BY <3>7, <2>2, InstancesAssumption
  <2> QED BY <2>1, <2>2
<1>3. u = [is EXCEPT ![i] = t]
  BY DEF Ticked
<1> HIDE DEF d
<1>4. t \in Inst /\ TickOf(s, t)
  <2>1. n \in Nat /\ s.age + d \in Nat
    <3>1. s.n \in Nat /\ s.age \in Nat
      BY <1>1 DEF Inst
    <3> HIDE DEF s
    <3> QED BY <3>1, <1>2
  <2>2. t \in Inst
    <3> HIDE DEF s, n
    <3> QED BY <1>1, <1>2, <2>1 DEF Inst
  <2>3. TickOf(s, t)
    <3> HIDE DEF s
    <3> QED BY <1>1 DEF Inst, TickOf
  <2> QED BY <2>2, <2>3
<1> HIDE DEF t
<1> QED BY <1>1, <1>3, <1>4

\* The ticks of several instances.
LEMMA AllTickedIs ==
  ASSUME Types, NEW is \in Seq(Inst), NEW ticks,
         \A j \in DOMAIN is : /\ is[j].subs \subseteq 1..(j - 1)
                              /\ is[j].n <= MaxTime + 1
                              /\ j \in ticks => is[j].n <= MaxTime,
         NEW u, u = AllTicked(is, ticks)
  PROVE  /\ u \in Seq(Inst) /\ Len(u) = Len(is)
         /\ \A j \in DOMAIN is : IF j \in ticks THEN TickOf(is[j], u[j]) ELSE u[j] = is[j]
<1> DEFINE N == Len(is)
           To(v, k) == /\ Len(v) = N
                       /\ \A j \in DOMAIN is : IF j <= k /\ j \in ticks THEN TickOf(is[j], v[j])
                                               ELSE v[j] = is[j]
           U == Seq(Inst)
           V == [k \in 0..N |-> {v \in U : To(v, k)}]
           One(v, k) == IF k \in ticks THEN Ticked(v, k) ELSE v
           Step == [x \in (1..N) \X U |-> One(x[2], x[1])]
           Body(g) == [k \in 0..N |-> IF k = 0 THEN is ELSE One(g[k - 1], k)]
<1>1. N \in Nat /\ DOMAIN is = 1..N /\ MaxTime \in Nat
  BY InstancesAssumption
<1>2. is \in V[0]
  <2>1. To(is, 0)
    BY <1>1
  <2> HIDE DEF To
  <2> QED BY <1>1, <2>1
<1>3. ASSUME NEW k \in 1..N, NEW v \in V[k - 1]
      PROVE  One(v, k) \in V[k]
  <2>1. k - 1 \in 0..N /\ k \in 0..N /\ k \in DOMAIN is
    BY <1>1
  <2>2. v \in Seq(Inst) /\ To(v, k - 1)
    <3> HIDE DEF To
    <3> QED BY <2>1
  <2>3. DOMAIN v = 1..N /\ v[k] = is[k]
    <3>1. ~(k <= k - 1)
      BY <1>1
    <3> QED BY <1>1, <2>1, <2>2, <3>1
  <2>4. \A j \in DOMAIN is : j <= k - 1 \/ j = k \/ ~(j <= k)
    BY <1>1
  <2>5. CASE k \notin ticks
    <3>1. To(v, k)
      BY <2>2, <2>3, <2>4, <2>5
    <3> HIDE DEF To
    <3> QED BY <2>1, <2>2, <2>5, <3>1
  <2>6. CASE k \in ticks
    <3>1. \A j \in DOMAIN v : v[j].n <= MaxTime + 1
      <4> SUFFICES ASSUME NEW j \in DOMAIN v PROVE v[j].n <= MaxTime + 1
        OBVIOUS
      <4>1. j \in DOMAIN is /\ is[j] \in Inst
        BY <1>1, <2>3
      <4>2. CASE j <= k - 1 /\ j \in ticks
        <5>1. v[j].n = is[j].n + 1 /\ is[j].n <= MaxTime /\ is[j].n \in Nat
          BY <2>2, <4>1, <4>2 DEF TickOf, Inst
        <5> QED BY <5>1, <1>1
      <4>3. CASE ~(j <= k - 1 /\ j \in ticks)
        <5>1. v[j] = is[j]
          BY <2>2, <4>1, <4>3
        <5> QED BY <5>1, <4>1
      <4> QED BY <4>2, <4>3
    <3>2. k \in DOMAIN v /\ v[k].subs \subseteq 1..(k - 1)
      BY <2>1, <2>3, <1>1
    <3> DEFINE w == Ticked(v, k)
    <3>3. /\ w \in Seq(Inst) /\ Len(w) = Len(v)
          /\ \A j \in DOMAIN v : j # k => w[j] = v[j]
          /\ TickOf(v[k], w[k])
      <4> HIDE DEF w
      <4>1. w = Ticked(v, k)
        BY DEF w
      <4> QED BY <2>2, <3>1, <3>2, <4>1, TickedIs
    <3> HIDE DEF w
    <3>4. Len(w) = N
      BY <3>3, <2>2
    <3>5. ASSUME NEW j \in DOMAIN is
          PROVE  IF j <= k /\ j \in ticks THEN TickOf(is[j], w[j]) ELSE w[j] = is[j]
      <4>1. CASE j = k
        BY <4>1, <2>3, <2>6, <3>3, <1>1
      <4>2. CASE j # k
        <5>1. w[j] = v[j] /\ (j <= k <=> j <= k - 1)
          BY <4>2, <1>1, <2>3, <3>3
        <5>2. IF j <= k - 1 /\ j \in ticks THEN TickOf(is[j], v[j]) ELSE v[j] = is[j]
          BY <2>2
        <5> QED BY <5>1, <5>2
      <4> QED BY <4>1, <4>2
    <3>6. To(w, k)
      BY <3>4, <3>5
    <3>7. One(v, k) = w
      BY <2>6 DEF w
    <3> HIDE DEF To, One
    <3> QED BY <2>1, <3>3, <3>6, <3>7
  <2> QED BY <2>5, <2>6
<1>4. \A k \in 0..N : V[k] \subseteq U
  OBVIOUS
<1>5. ASSUME NEW k \in 1..N, NEW v \in V[k - 1]
      PROVE  Step[<<k, v>>] = One(v, k)
  <2>1. k - 1 \in 0..N
    BY <1>1
  <2>2. v \in U
    BY <2>1, <1>4
  <2>3. <<k, v>> \in (1..N) \X U
    BY <2>2
  <2> HIDE DEF One, U
  <2> QED BY <2>3
<1> HIDE DEF V, Step, One
<1>6. PICK f : Records(f, N, V, is, Step)
  <2>1. Closed(N, U, V, is, Step)
    <3>1. \A k \in 1..N : \A v \in V[k - 1] : Step[<<k, v>>] \in V[k]
      BY <1>3, <1>5
    <3> HIDE DEF U
    <3> QED BY <1>1, <1>2, <1>4, <3>1 DEF Closed
  <2> HIDE DEF U, N
  <2> QED BY <2>1, StepsExist
<1>7. f = Body(f)
  <2>1. f = [k \in 0..N |-> f[k]] /\ f[0] = is /\ \A k \in 1..N : f[k] = One(f[k - 1], k)
    BY <1>5, <1>6 DEF Records
  <2>2. \A k \in 0..N : k # 0 => k \in 1..N
    BY <1>1
  <2> QED BY <2>1, <2>2
<1> DEFINE h == CHOOSE g : g = Body(g)
<1>8. h = Body(h)
  <2> HIDE DEF Body
  <2> QED BY <1>7
<1>9. u = h[N]
  BY DEF AllTicked, One
<1> HIDE DEF h
<1>10. h[0] \in V[0] /\ \A k \in 1..N : h[k] = One(h[k - 1], k)
  <2>1. 0 \in 0..N /\ \A k \in 1..N : k \in 0..N /\ k # 0
    BY <1>1
  <2> QED BY <1>2, <1>8, <2>1
<1>11. \A k \in 0..N : h[k] \in V[k]
  <2>1. \A k \in 1..N : h[k - 1] \in V[k - 1] => h[k] \in V[k]
    BY <1>3, <1>10
  <2> QED BY <1>1, <1>10, <2>1, Stepwise
<1>12. u \in Seq(Inst) /\ To(u, N)
  <2>1. N \in 0..N
    BY <1>1
  <2>2. u \in {v \in U : To(v, N)}
    BY <1>9, <1>11, <2>1 DEF V
  <2> HIDE DEF To
  <2> QED BY <2>2
<1> QED BY <1>1, <1>12

-----------------------------------------------------------------------------
(***************************************************************************)
(* Instances: evaluating the binding                                        *)
(***************************************************************************)
Evaluator == [insts: Seq(Inst), made: SUBSET Nat, owned: SUBSET Nat, reads: [Calls -> Reading]]
Live(c) == (now % 2) \in binding[c].on

\* The instances and the segment that an evaluation starts from.
Base(is, seg) ==
    /\ is \in Seq(Inst)
    /\ owned \subseteq DOMAIN is
    /\ \A i \in DOMAIN is : is[i].n <= MaxTime + 1
    /\ \A c \in Calls : reads[c].inst <= Len(is)
    /\ seg.driver \in 0..Len(is) /\ seg.others \subseteq DOMAIN is

Fresh(e, is) == (Len(is) + 1)..Len(e.insts)

\* An instance that an evaluation created, up to its call k.
Created(e, i, k) ==
    /\ e.insts[i].call \in 1..k /\ Live(e.insts[i].call)
    /\ e.insts[i].def = binding[e.insts[i].call].def
    /\ e.insts[i].made = now /\ e.insts[i].n <= 1 /\ e.insts[i].age = e.insts[i].dt
    /\ e.insts[i].subs \subseteq 1..(i - 1)
    /\ e.insts[i].next # 0 => i \in e.owned /\ e.insts[i].next = now + e.insts[i].dt

\* What a call gave: the instance that was found, or the first one made for it.
Given(e, c, is, seg) ==
    /\ e.reads[c].inst \in 1..Len(e.insts)
    /\ Found(is, c, seg) # 0 => e.reads[c].inst = Found(is, c, seg)
    /\ Found(is, c, seg) = 0 =>
         /\ e.reads[c].inst \in e.made
         /\ e.insts[e.reads[c].inst].call = c
         /\ \A i \in Fresh(e, is) : e.insts[i].call = c => e.reads[c].inst <= i

\* How far an evaluation has come after its call k: what was there is untouched.
Upto(e, k, is, seg) ==
    /\ Len(is) <= Len(e.insts) /\ \A i \in DOMAIN is : e.insts[i] = is[i]
    /\ \A i \in Fresh(e, is) : Created(e, i, k)
    /\ e.made \subseteq Fresh(e, is)
    /\ \A m \in e.made : e.reads[e.insts[m].call].inst = m
    /\ owned \subseteq e.owned /\ e.owned \subseteq DOMAIN e.insts
    /\ \A c \in Calls : IF c <= k /\ Live(c) THEN Given(e, c, is, seg)
                                             ELSE e.reads[c] = reads[c]

\* A call finds an instance of those that were there.
LEMMA FoundIs ==
  ASSUME NEW is \in Seq(Inst), NEW c, NEW seg,
         seg.driver \in 0..Len(is), seg.others \subseteq DOMAIN is
  PROVE  Found(is, c, seg) \in 0..Len(is)
<1> DEFINE like == {i \in seg.others : is[i].def = binding[c].def}
<1>1. like \in SUBSET Nat /\ like \subseteq 1..Len(is) /\ Len(is) \in Nat
  OBVIOUS
<1>2. like # {} => Min(like) \in like
  <2> HIDE DEF like
  <2> QED BY <1>1, MinIn
<1>3. Found(is, c, seg) = IF seg.driver # 0 /\ is[seg.driver].def = binding[c].def THEN seg.driver
                          ELSE IF like = {} THEN 0 ELSE Min(like)
  BY DEF Found
<1> HIDE DEF like
<1>4. like # {} => Min(like) \in 0..Len(is)
  <2>1. \A i \in 1..Len(is) : i \in 0..Len(is)
    BY <1>1
  <2> QED BY <1>1, <1>2, <2>1
<1>5. 0 \in 0..Len(is)
  BY <1>1
<1> QED BY <1>3, <1>4, <1>5

\* What was created in between is not found.
LEMMA FoundSame ==
  ASSUME NEW is \in Seq(Inst), NEW new, NEW c, NEW seg,
         seg.driver \in 0..Len(is), seg.others \subseteq DOMAIN is,
         \A i \in DOMAIN is : new[i] = is[i]
  PROVE  Found(new, c, seg) = Found(is, c, seg)
<1>1. {i \in seg.others : new[i].def = binding[c].def} = {i \in seg.others : is[i].def = binding[c].def}
  OBVIOUS
<1>2. seg.driver # 0 => new[seg.driver] = is[seg.driver]
  OBVIOUS
<1> QED BY <1>1, <1>2 DEF Found

\* The instances in the arguments of a call, and its interval.
ArgsOf(e, c) == {e.reads[a].inst : a \in {x \in Calls : binding[x].into = c}}
DtOf(e, c)   == IF ArgsOf(e, c) = {} THEN binding[c].dt
                ELSE Interval[e.insts[Max(ArgsOf(e, c))].n]

\* What a new instance counts and its interval, from the instances in its
\* arguments.
LEMMA ArgumentsAre ==
  ASSUME Types, NEW is, NEW seg, Base(is, seg), NEW c \in Calls,
         NEW e \in Evaluator, Upto(e, c - 1, is, seg), Live(c)
  PROVE  ArgsOf(e, c) \subseteq 1..Len(e.insts) /\ DtOf(e, c) \in Nat \ {0}
<1> DEFINE args == ArgsOf(e, c)
<1>1. /\ e.insts \in Seq(Inst) /\ Len(e.insts) \in Nat /\ DOMAIN e.insts = 1..Len(e.insts)
      /\ is \in Seq(Inst) /\ Len(is) \in Nat /\ DOMAIN is = 1..Len(is) /\ MaxTime \in Nat
  BY InstancesAssumption DEF Evaluator, Base
<1>2. ASSUME NEW a \in Calls, binding[a].into = c
      PROVE  e.reads[a].inst \in 1..Len(e.insts)
  <2>1. a \in Nat /\ c \in Nat \ {0} /\ c \in (a + 1)..Len(binding) /\ binding[a].on = binding[c].on
    <3>1. c \in Nat \ {0} /\ a \in Nat /\ Len(binding) \in Nat
      BY BindingIs
    <3> QED BY <3>1, <1>2, BindingIs
  <2>2. a <= c - 1 /\ Live(a)
    BY <2>1 DEF Live
  <2>3. Given(e, a, is, seg)
    BY <2>2 DEF Upto
  <2> QED BY <2>3 DEF Given
<1>3. args \subseteq 1..Len(e.insts)
  BY <1>2 DEF ArgsOf
<1> HIDE DEF args
<1>4. ASSUME NEW i \in 1..Len(e.insts)
      PROVE  Interval[e.insts[i].n] \in Nat \ {0}
  <2>1. e.insts[i] \in Inst
    BY <1>1
  <2>2. e.insts[i].n \in Nat
    BY <2>1 DEF Inst
  <2>3. e.insts[i].n <= MaxTime + 1
    <3>1. CASE i \in DOMAIN is
      BY <3>1 DEF Upto, Base
    <3>2. CASE i \notin DOMAIN is
      <4>1. i \in Fresh(e, is)
        BY <3>2, <1>1 DEF Fresh
      <4>2. e.insts[i].n <= 1
        BY <4>1 DEF Upto, Created
      <4> QED BY <4>2, <2>2, <1>1
    <3> QED BY <3>1, <3>2
  <2>4. e.insts[i].n \in 0..(MaxTime + 1)
    BY <2>2, <2>3, <1>1
  <2> QED BY <2>4, InstancesAssumption
<1>5. args # {} => Max(args) \in args
  <2>1. args \in SUBSET (0..Len(e.insts))
    <3>1. \A i \in 1..Len(e.insts) : i \in 0..Len(e.insts)
      BY <1>1
    <3> QED BY <1>3, <3>1
  <2> QED BY <1>1, <2>1, MaxIn
<1>6. args # {} => Interval[e.insts[Max(args)].n] \in Nat \ {0}
  BY <1>3, <1>4, <1>5
<1>7. binding[c].dt \in Nat \ {0}
  BY BindingIs
<1> QED BY <1>3, <1>6, <1>7 DEF DtOf, args

\* One sequence after another.
LEMMA ConcatIs ==
  ASSUME NEW S, NEW a \in Seq(S), NEW b \in Seq(S)
  PROVE  /\ a \o b \in Seq(S) /\ Len(a \o b) = Len(a) + Len(b)
         /\ \A i \in 1..Len(a) : (a \o b)[i] = a[i]
         /\ \A j \in 1..Len(b) : (a \o b)[Len(a) + j] = b[j]
OBVIOUS

\* What is created a second time, for the instances subs.
Again(e, subs) == SetToSeq({Seeded(e.insts[a].call, e.insts[a].dt) : a \in subs})

\* What is created a second time in the arguments of a new instance.
LEMMA LostIs ==
  ASSUME Types, NEW e \in Evaluator, NEW subs, subs \subseteq DOMAIN e.insts,
         \A a \in subs : e.insts[a].call \in Calls, NEW lost, lost = Again(e, subs)
  PROVE  /\ lost \in Seq(Inst)
         /\ \A j \in DOMAIN lost : \E a \in subs : lost[j] = Seeded(e.insts[a].call, e.insts[a].dt)
<1> DEFINE S == {Seeded(e.insts[a].call, e.insts[a].dt) : a \in subs}
           f == [a \in subs |-> Seeded(e.insts[a].call, e.insts[a].dt)]
<1>1. e.insts \in Seq(Inst) /\ Len(e.insts) \in Nat /\ DOMAIN e.insts = 1..Len(e.insts)
  BY DEF Evaluator
<1>2. IsFiniteSet(subs)
  <2>1. IsFiniteSet(1..Len(e.insts))
    BY <1>1, FS_Interval
  <2> QED BY <1>1, <2>1, FS_Subset
<1>3. IsFiniteSet(S)
  <2>1. f \in Surjection(subs, S)
    BY DEF Surjection
  <2> HIDE DEF S, f
  <2> QED BY <1>2, <2>1, FS_Surjection
<1>4. lost \in Seq(S)
  <2> HIDE DEF S
  <2>1. lost = SetToSeq(S)
    BY DEF Again, S
  <2> QED BY <1>3, <2>1, SetToSeqIs
<1>5. S \subseteq Inst
  <2> SUFFICES ASSUME NEW a \in subs PROVE Seeded(e.insts[a].call, e.insts[a].dt) \in Inst
    OBVIOUS
  <2>1. e.insts[a] \in Inst
    BY <1>1
  <2>2. e.insts[a].dt \in Nat \ {0} /\ e.insts[a].call \in Calls
    BY <2>1 DEF Inst
  <2> QED BY <2>2, SeededIs
<1>6. \A j \in DOMAIN lost : lost[j] \in S
  <2> HIDE DEF S
  <2> QED BY <1>4
<1>7. lost \in Seq(Inst)
  BY <1>4, <1>5
<1> QED BY <1>6, <1>7

\* A call that finds or creates its instance.
LEMMA EvaluatedIs ==
  ASSUME Types, NEW is, NEW seg, Base(is, seg), NEW c \in Calls,
         NEW e \in Evaluator, Upto(e, c - 1, is, seg),
         NEW u, u = Evaluated(e, c, seg)
  PROVE  u \in Evaluator /\ Upto(u, c, is, seg)
<1> DEFINE M == Len(e.insts)
           old == Found(e.insts, c, seg)
           args == ArgsOf(e, c)
           subs == args \cap e.made
           dt == DtOf(e, c)
           this == [Seeded(c, dt) EXCEPT !.subs = subs]
           lost == IF binding[c].def \in HasInit THEN <<>>
                   ELSE Again(e, subs)
           kept == [i \in DOMAIN e.insts |->
                      IF i \in subs THEN [e.insts[i] EXCEPT !.next = now + e.insts[i].dt]
                      ELSE e.insts[i]]
           K == M + 1
<1>1. /\ e.insts \in Seq(Inst) /\ M \in Nat /\ DOMAIN e.insts = 1..M
      /\ is \in Seq(Inst) /\ Len(is) \in Nat /\ DOMAIN is = 1..Len(is) /\ Len(is) <= M
      /\ e.reads \in [Calls -> Reading] /\ e.made \subseteq Nat /\ e.owned \subseteq Nat
      /\ now \in Nat /\ c \in Nat \ {0} /\ Calls = 1..Len(binding)
  BY BindingIs DEF Evaluator, Base, Upto
<1>2. old = Found(is, c, seg) /\ old \in 0..Len(is)
  <2>1. \A i \in DOMAIN is : e.insts[i] = is[i]
    BY DEF Upto
  <2>2. is \in Seq(Inst) /\ seg.driver \in 0..Len(is) /\ seg.others \subseteq DOMAIN is
    BY DEF Base
  <2> QED BY <2>1, <2>2, FoundIs, FoundSame
<1>3. u = IF (now % 2) \notin binding[c].on THEN e
          ELSE IF old # 0
          THEN [e EXCEPT !.reads[c] = [inst |-> old, out |-> e.insts[old].n]]
          ELSE [insts |-> Append(kept, this) \o lost, made |-> e.made \cup {K},
                owned |-> e.owned \cup subs,
                reads |-> [e.reads EXCEPT ![c] = [inst |-> K, out |-> this.n]]]
  BY DEF Evaluated, ArgsOf, DtOf, Again
<1> HIDE DEF old
<1>4. \A i \in Fresh(e, is) : Created(e, i, c - 1) /\ Created(e, i, c) /\ e.insts[i].call # c
  <2> SUFFICES ASSUME NEW i \in Fresh(e, is)
               PROVE  Created(e, i, c - 1) /\ Created(e, i, c) /\ e.insts[i].call # c
    OBVIOUS
  <2>1. Created(e, i, c - 1)
    BY DEF Upto
  <2>2. e.insts[i].call \in 1..(c - 1)
    BY <2>1 DEF Created
  <2>3. e.insts[i].call \in 1..c /\ e.insts[i].call # c
    BY <2>2, <1>1
  <2> QED BY <2>1, <2>3 DEF Created
<1>5. \A x \in Calls : x # c => (x <= c <=> x <= c - 1)
  BY <1>1
<1>6. CASE ~Live(c)
  <2>1. u = e
    BY <1>3, <1>6 DEF Live
  <2>2. ASSUME NEW x \in Calls
        PROVE  IF x <= c /\ Live(x) THEN Given(e, x, is, seg) ELSE e.reads[x] = reads[x]
    <3>1. CASE x = c
      <4>1. ~(c <= c - 1)
        BY <1>1
      <4> QED BY <3>1, <4>1, <1>6 DEF Upto
    <3>2. CASE x # c
      BY <3>2, <1>5 DEF Upto
    <3> QED BY <3>1, <3>2
  <2>3. Upto(e, c, is, seg)
    BY <1>4, <2>2 DEF Upto
  <2> QED BY <2>1, <2>3
<1>7. CASE Live(c) /\ old # 0
  <2> DEFINE r == [inst |-> old, out |-> e.insts[old].n]
  <2>1. u = [e EXCEPT !.reads[c] = r]
    BY <1>3, <1>7 DEF Live
  <2>2. old \in 1..M /\ old \in 1..Len(is)
    BY <1>1, <1>2, <1>7
  <2>3. r \in Reading /\ r.inst = old
    <3>1. e.insts[old] \in Inst
      BY <1>1, <2>2
    <3> QED BY <3>1, <2>2 DEF Inst, Reading
  <2> HIDE DEF r
  <2>4. /\ u.insts = e.insts /\ u.made = e.made /\ u.owned = e.owned
        /\ u.reads = [e.reads EXCEPT ![c] = r]
    BY <2>1 DEF Evaluator
  <2>5. u \in Evaluator
    BY <1>1, <2>1, <2>3, <2>4 DEF Evaluator
  <2>6. u.reads[c] = r /\ \A x \in Calls : x # c => u.reads[x] = e.reads[x]
    BY <2>4, <1>1
  <2>7. ASSUME NEW x \in Calls
        PROVE  IF x <= c /\ Live(x) THEN Given(u, x, is, seg) ELSE u.reads[x] = reads[x]
    <3>1. CASE x = c
      <4>1. c <= c
        BY <1>1
      <4>2. Given(u, c, is, seg)
        BY <2>2, <2>3, <2>4, <2>6, <1>2, <1>7 DEF Given
      <4> QED BY <3>1, <4>1, <4>2, <1>7
    <3>2. CASE x # c
      <4>1. IF x <= c /\ Live(x) THEN Given(e, x, is, seg) ELSE e.reads[x] = reads[x]
        BY <3>2, <1>5 DEF Upto
      <4>2. Given(e, x, is, seg) => Given(u, x, is, seg)
        BY <3>2, <2>4, <2>6 DEF Given, Fresh
      <4> QED BY <3>2, <4>1, <4>2, <2>6
    <3> QED BY <3>1, <3>2
  <2>8. \A m \in u.made : u.reads[u.insts[m].call].inst = m
    <3> SUFFICES ASSUME NEW m \in e.made PROVE u.reads[e.insts[m].call].inst = m
      BY <2>4
    <3>1. m \in Fresh(e, is) /\ e.reads[e.insts[m].call].inst = m
      BY DEF Upto
    <3>2. e.insts[m].call # c /\ e.insts[m].call \in 1..(c - 1)
      BY <1>4, <3>1 DEF Created
    <3>3. e.insts[m].call \in Calls
      BY <3>2, <1>1
    <3> QED BY <3>1, <3>2, <3>3, <2>6
  <2>9. \A i \in Fresh(u, is) : Created(u, i, c)
    BY <1>4, <2>4 DEF Created, Fresh
  <2>10. Upto(u, c, is, seg)
    BY <2>4, <2>7, <2>8, <2>9 DEF Upto, Fresh
  <2> QED BY <2>5, <2>10
<1>8. CASE Live(c) /\ old = 0
  <2>1. args \subseteq 1..M /\ dt \in Nat \ {0}
    BY <1>8, ArgumentsAre
  <2>2. subs \subseteq 1..M /\ subs \subseteq Fresh(e, is)
    BY <2>1 DEF Upto
  <2> DEFINE seed == Seeded(c, dt)
  <2>3. /\ seed \in Inst /\ seed.def = binding[c].def /\ seed.call = c /\ seed.dt = dt
        /\ seed.n \in {0, 1} /\ seed.age = dt /\ seed.made = now /\ seed.next = 0
    <3> HIDE DEF dt
    <3> QED BY <2>1, SeededIs
  <2>4. this = [seed EXCEPT !.subs = subs]
    OBVIOUS
  <2>5. lost \in Seq(Inst) /\ Len(lost) \in Nat /\ DOMAIN lost = 1..Len(lost)
        /\ \A j \in DOMAIN lost : \E a \in subs : lost[j] = Seeded(e.insts[a].call, e.insts[a].dt)
    <3> DEFINE l == Again(e, subs)
    <3>1. \A a \in subs : e.insts[a].call \in Calls
      <4> SUFFICES ASSUME NEW a \in subs PROVE e.insts[a].call \in Calls
        OBVIOUS
      <4>1. e.insts[a].call \in 1..(c - 1)
        BY <1>4, <2>2 DEF Created
      <4> QED BY <4>1, <1>1
    <3>2. l \in Seq(Inst) /\ \A j \in DOMAIN l : \E a \in subs : l[j] = Seeded(e.insts[a].call, e.insts[a].dt)
      <4>1. subs \subseteq DOMAIN e.insts
        BY <1>1, <2>2
      <4> HIDE DEF subs
      <4> QED BY <3>1, <4>1, LostIs
    <3>3. CASE binding[c].def \in HasInit
      <4>1. lost = <<>>
        BY <3>3
      <4> HIDE DEF lost, subs
      <4> QED BY <4>1
    <3>4. CASE binding[c].def \notin HasInit
      <4>1. lost = l
        BY <3>4
      <4> HIDE DEF lost, l, subs
      <4> QED BY <4>1, <3>2
    <3> QED BY <3>3, <3>4
  <2>6. kept \in Seq(Inst) /\ Len(kept) = M
    <3>1. ASSUME NEW i \in 1..M
          PROVE  (IF i \in subs THEN [e.insts[i] EXCEPT !.next = now + e.insts[i].dt]
                  ELSE e.insts[i]) \in Inst
      <4>1. e.insts[i] \in Inst
        BY <1>1
      <4>2. now + e.insts[i].dt \in Nat
        <5>1. e.insts[i].dt \in Nat
          BY <4>1 DEF Inst
        <5> QED BY <5>1, <1>1
      <4>3. [e.insts[i] EXCEPT !.next = now + e.insts[i].dt] \in Inst
        BY <4>1, <4>2 DEF Inst
      <4> QED BY <4>1, <4>3
    <3> HIDE DEF subs
    <3>2. kept \in [1..M -> Inst]
      BY <3>1, <1>1
    <3> HIDE DEF kept
    <3>3. M \in Nat
      BY <1>1
    <3> HIDE DEF M
    <3>4. kept \in Seq(Inst) /\ DOMAIN kept = 1..M
      BY <3>2, <3>3
    <3> QED BY <3>3, <3>4
  <2> HIDE DEF seed, dt, lost, args
  <2>7. /\ this \in Inst /\ this.def = binding[c].def /\ this.call = c /\ this.dt = dt
        /\ this.n \in {0, 1} /\ this.age = dt /\ this.made = now /\ this.next = 0
        /\ this.subs = subs
    <3>1. subs \in SUBSET Nat
      BY <2>2
    <3> HIDE DEF subs
    <3> QED BY <2>3, <2>4, <3>1 DEF Inst
  <2>8. \A i \in 1..M : i \notin subs => kept[i] = e.insts[i]
    BY <1>1
  <2>9. ASSUME NEW i \in subs
        PROVE  /\ kept[i].call = e.insts[i].call /\ kept[i].def = e.insts[i].def
               /\ kept[i].made = e.insts[i].made /\ kept[i].n = e.insts[i].n
               /\ kept[i].age = e.insts[i].age /\ kept[i].dt = e.insts[i].dt
               /\ kept[i].subs = e.insts[i].subs
               /\ kept[i].next = now + e.insts[i].dt
    <3>1. i \in DOMAIN e.insts /\ e.insts[i] \in Inst
      BY <1>1, <2>2
    <3>2. kept[i] = [e.insts[i] EXCEPT !.next = now + e.insts[i].dt]
      BY <3>1
    <3> HIDE DEF kept, subs
    <3> QED BY <3>1, <3>2 DEF Inst
  <2> DEFINE all == Append(kept, this) \o lost
             L == Len(lost)
  <2> HIDE DEF this, kept
  <2>10. /\ all \in Seq(Inst) /\ Len(all) = K + L
         /\ \A i \in 1..M : all[i] = kept[i]
         /\ all[K] = this
         /\ \A j \in 1..L : all[K + j] = lost[j]
    <3>1. Append(kept, this) \in Seq(Inst) /\ Len(Append(kept, this)) = K
      BY <2>6, <2>7, <1>1
    <3>2. (\A i \in 1..M : Append(kept, this)[i] = kept[i]) /\ Append(kept, this)[K] = this
      BY <2>6, <2>7, <1>1
    <3> DEFINE ap == Append(kept, this)
    <3> HIDE DEF ap
    <3>3. ap \in Seq(Inst) /\ Len(ap) = K /\ (\A i \in 1..M : ap[i] = kept[i]) /\ ap[K] = this
      BY <3>1, <3>2 DEF ap
    <3>4. all = ap \o lost
      BY DEF ap
    <3> HIDE DEF all
    <3>5. /\ ap \o lost \in Seq(Inst) /\ Len(ap \o lost) = Len(ap) + Len(lost)
          /\ \A i \in 1..Len(ap) : (ap \o lost)[i] = ap[i]
          /\ \A j \in 1..Len(lost) : (ap \o lost)[Len(ap) + j] = lost[j]
      <4>1. ap \in Seq(Inst) /\ lost \in Seq(Inst)
        BY <3>3, <2>5
      <4> QED BY ONLY <4>1, ConcatIs
    <3>6. all \in Seq(Inst) /\ Len(all) = K + L /\ \A i \in 1..K : all[i] = ap[i]
      BY <3>3, <3>4, <3>5
    <3>7. \A j \in 1..L : all[K + j] = lost[j]
      BY <3>3, <3>4, <3>5
    <3>8. K \in 1..K /\ \A i \in 1..M : i \in 1..K
      BY <1>1
    <3> QED BY <3>3, <3>6, <3>7, <3>8
  <2>11. u = [insts |-> all, made |-> e.made \cup {K}, owned |-> e.owned \cup subs,
              reads |-> [e.reads EXCEPT ![c] = [inst |-> K, out |-> this.n]]]
    BY <1>3, <1>8 DEF Live, this, kept, lost, dt, args, seed
  <2> HIDE DEF all, subs
  <2> DEFINE g == [inst |-> K, out |-> this.n]
  <2>12. /\ u.insts = all /\ u.made = e.made \cup {K} /\ u.owned = e.owned \cup subs
         /\ u.reads = [e.reads EXCEPT ![c] = g]
    BY <2>11
  <2>13. /\ L \in Nat /\ K \in Nat /\ K = M + 1 /\ Len(u.insts) = K + L
         /\ g \in Reading /\ g.inst = K
    <3>1. L \in Nat /\ K \in Nat
      BY <1>1, <2>5
    <3>2. this.n \in Nat
      BY <2>7
    <3> QED BY <3>1, <3>2, <2>10, <2>12 DEF Reading
  <2> HIDE DEF M, K, L, g
  <2>14. u \in Evaluator
    <3>1. u.reads \in [Calls -> Reading]
      BY <1>1, <2>12, <2>13
    <3>2. u.made \subseteq Nat /\ u.insts \in Seq(Inst)
      BY <1>1, <2>10, <2>12, <2>13
    <3>3. u.owned \subseteq Nat
      <4>1. subs \subseteq Nat
        BY <1>1, <2>2
      <4> QED BY <1>1, <2>12, <4>1
    <3> QED BY <2>11, <2>12, <3>1, <3>2, <3>3 DEF Evaluator
  <2>15. u.reads[c] = g /\ \A x \in Calls : x # c => u.reads[x] = e.reads[x]
    BY <1>1, <2>12
  <2>16. ASSUME NEW i \in 1..M
         PROVE  /\ u.insts[i].call = e.insts[i].call /\ u.insts[i].def = e.insts[i].def
                /\ u.insts[i].made = e.insts[i].made /\ u.insts[i].n = e.insts[i].n
                /\ u.insts[i].age = e.insts[i].age /\ u.insts[i].dt = e.insts[i].dt
                /\ u.insts[i].subs = e.insts[i].subs
                /\ i \in subs => u.insts[i].next = now + e.insts[i].dt
                /\ i \notin subs => u.insts[i] = e.insts[i]
    <3>1. u.insts[i] = kept[i]
      BY <2>10, <2>12
    <3>2. CASE i \in subs
      BY <3>1, <3>2, <2>9
    <3>3. CASE i \notin subs
      BY <3>1, <3>3, <2>8
    <3> QED BY <3>2, <3>3
  <2>17. \A i \in Fresh(u, is) : i \in Fresh(e, is) \/ i = K \/ \E j \in 1..L : i = K + j
    <3> SUFFICES ASSUME NEW i \in Fresh(u, is), ~(i \in Fresh(e, is)), i # K
                 PROVE  \E j \in 1..L : i = K + j
      OBVIOUS
    <3>1. i \in (Len(is) + 1)..(K + L) /\ ~(i \in (Len(is) + 1)..M)
      BY <2>13 DEF Fresh, M
    <3>2. i - K \in 1..L /\ i = K + (i - K)
      BY <1>1, <2>13, <3>1
    <3> QED BY <3>2
  <2>18. \A i \in Fresh(e, is) : i \in 1..M /\ i \in Fresh(u, is)
    BY <1>1, <2>13 DEF Fresh, M
  <2>19. K \in Fresh(u, is) /\ u.insts[K] = this
    BY <1>1, <2>10, <2>12, <2>13 DEF Fresh
  <2>20. ASSUME NEW j \in 1..L
         PROVE  /\ Created(u, K + j, c) /\ K + j > K
    <3>1. u.insts[K + j] = lost[j] /\ j \in DOMAIN lost
      BY <2>5, <2>10, <2>12 DEF L
    <3>2. PICK a \in subs : lost[j] = Seeded(e.insts[a].call, e.insts[a].dt)
      BY <2>5, <3>1
    <3>3. a \in 1..M /\ Created(e, a, c - 1) /\ Created(e, a, c)
      BY <1>4, <2>2
    <3>4. e.insts[a].call \in Calls /\ e.insts[a].dt \in Nat \ {0}
      <4>1. e.insts[a] \in Inst
        BY <1>1, <3>3
      <4>2. e.insts[a].call \in 1..c
        BY <3>3 DEF Created
      <4>3. e.insts[a].dt \in Nat \ {0}
        BY <4>1 DEF Inst
      <4> QED BY <1>1, <4>2, <4>3
    <3> DEFINE s == u.insts[K + j]
    <3>5. /\ s.def = binding[e.insts[a].call].def /\ s.call = e.insts[a].call
          /\ s.dt = e.insts[a].dt /\ s.n \in {0, 1} /\ s.age = e.insts[a].dt /\ s.made = now
          /\ s.subs = {} /\ s.next = 0
      BY <3>1, <3>2, <3>4, SeededIs
    <3>6. s.n <= 1
      BY <3>5
    <3>7. s.call \in 1..c /\ Live(s.call)
      BY <3>3, <3>5 DEF Created
    <3>8. Created(u, K + j, c)
      BY <3>5, <3>6, <3>7 DEF Created
    <3> QED BY <2>13, <3>8
  <2>21. Created(u, K, c)
    <3>1. this.n <= 1 /\ c \in 1..c
      BY <1>1, <2>7
    <3>2. K - 1 = M
      BY <1>1, <2>13
    <3> QED BY <1>8, <2>2, <2>7, <2>19, <3>1, <3>2 DEF Created
  <2>22. ASSUME NEW i \in Fresh(e, is)
         PROVE  Created(u, i, c)
    <3>1. Created(e, i, c) /\ i \in 1..M
      BY <1>4, <2>18
    <3>2. u.insts[i].next # 0 => i \in u.owned /\ u.insts[i].next = now + u.insts[i].dt
      <4>1. CASE i \in subs
        BY <2>12, <2>16, <3>1, <4>1
      <4>2. CASE i \notin subs
        BY <2>12, <2>16, <3>1, <4>2 DEF Created
      <4> QED BY <4>1, <4>2
    <3> QED BY <2>16, <3>1, <3>2 DEF Created
  <2>23. \A i \in Fresh(u, is) : Created(u, i, c)
    BY <2>17, <2>20, <2>21, <2>22
  <2>24. Len(is) <= Len(u.insts) /\ \A i \in DOMAIN is : u.insts[i] = is[i]
    <3>1. Len(is) <= Len(u.insts)
      BY <1>1, <2>13
    <3>2. \A i \in DOMAIN is : i \in 1..M /\ i \notin Fresh(e, is) /\ e.insts[i] = is[i]
      BY <1>1 DEF Fresh, Upto
    <3> QED BY <2>2, <2>16, <3>1, <3>2
  <2>25. u.made \subseteq Fresh(u, is)
    <3>1. e.made \subseteq Fresh(e, is)
      BY DEF Upto
    <3> QED BY <2>12, <2>18, <2>19, <3>1
  <2>26. \A m \in u.made : u.reads[u.insts[m].call].inst = m
    <3>1. u.insts[K].call = c
      BY <2>7, <2>19
    <3>2. u.reads[u.insts[K].call].inst = K
      BY <2>13, <2>15, <3>1
    <3>3. ASSUME NEW m \in e.made PROVE u.reads[u.insts[m].call].inst = m
      <4>1. m \in Fresh(e, is) /\ e.reads[e.insts[m].call].inst = m
        BY DEF Upto
      <4>2. e.insts[m].call # c /\ e.insts[m].call \in 1..(c - 1)
        BY <1>4, <4>1 DEF Created
      <4>3. e.insts[m].call \in Calls
        BY <4>2, <1>1
      <4>4. u.insts[m].call = e.insts[m].call
        BY <2>16, <2>18, <4>1
      <4> QED BY <4>1, <4>2, <4>3, <4>4, <2>15
    <3> QED BY <2>12, <3>2, <3>3
  <2>27. owned \subseteq u.owned /\ u.owned \subseteq DOMAIN u.insts
    <3>1. owned \subseteq e.owned /\ e.owned \subseteq 1..M
      BY <1>1 DEF Upto
    <3>2. u.insts \in Seq(Inst) /\ DOMAIN u.insts = 1..(K + L)
      BY <2>10, <2>12, <2>13
    <3>3. \A i \in 1..M : i \in 1..(K + L)
      BY <1>1, <2>13
    <3> QED BY <2>2, <2>12, <3>1, <3>2, <3>3
  <2>28. ASSUME NEW x \in Calls
         PROVE  IF x <= c /\ Live(x) THEN Given(u, x, is, seg) ELSE u.reads[x] = reads[x]
    <3>1. CASE x = c
      <4>1. u.reads[c].inst = K /\ K \in 1..Len(u.insts) /\ K \in u.made
        BY <1>1, <2>12, <2>13, <2>15
      <4>2. Found(is, c, seg) = 0
        BY <1>2, <1>8
      <4>3. ASSUME NEW i \in Fresh(u, is), u.insts[i].call = c PROVE K <= i
        <5>1. i \notin Fresh(e, is)
          BY <1>4, <2>16, <2>18, <4>3
        <5> QED BY <2>13, <2>17, <5>1
      <4>4. Given(u, c, is, seg)
        BY <2>7, <2>19, <4>1, <4>2, <4>3 DEF Given
      <4>5. c <= c
        BY <1>1
      <4> QED BY <3>1, <1>8, <4>4, <4>5
    <3>2. CASE x # c
      <4>1. IF x <= c /\ Live(x) THEN Given(e, x, is, seg) ELSE e.reads[x] = reads[x]
        BY <3>2, <1>5 DEF Upto
      <4>2. u.reads[x] = e.reads[x]
        BY <2>15, <3>2
      <4>3. ASSUME Given(e, x, is, seg) PROVE Given(u, x, is, seg)
        <5> DEFINE r == e.reads[x].inst
        <5>1. r \in 1..M
          BY <4>3 DEF Given, M
        <5>2. r \in 1..Len(u.insts)
          <6> HIDE DEF r
          <6> QED BY <5>1, <1>1, <2>13
        <5>3. ASSUME Found(is, x, seg) = 0
              PROVE  /\ r \in u.made /\ u.insts[r].call = x
                     /\ \A i \in Fresh(u, is) : u.insts[i].call = x => r <= i
          <6>1. r \in e.made /\ e.insts[r].call = x
                /\ \A i \in Fresh(e, is) : e.insts[i].call = x => r <= i
            BY <4>3, <5>3 DEF Given
          <6>2. \A i \in Fresh(u, is) : u.insts[i].call = x => r <= i
            <7> SUFFICES ASSUME NEW i \in Fresh(u, is), u.insts[i].call = x PROVE r <= i
              OBVIOUS
            <7>1. CASE i \in Fresh(e, is)
              BY <6>1, <7>1, <2>16, <2>18
            <7>2. CASE i \notin Fresh(e, is)
              <8>1. i >= K
                BY <2>13, <2>17, <7>2
              <8> HIDE DEF r
              <8> QED BY <8>1, <5>1, <1>1, <2>13 DEF Fresh
            <7> QED BY <7>1, <7>2
          <6> QED BY <6>1, <6>2, <5>1, <2>12, <2>16
        <5> QED BY <4>2, <4>3, <5>2, <5>3 DEF Given
      <4> QED BY <4>1, <4>2, <4>3
    <3> QED BY <3>1, <3>2
  <2>29. Upto(u, c, is, seg)
    BY <2>23, <2>24, <2>25, <2>26, <2>27, <2>28 DEF Upto
  <2> QED BY <2>14, <2>29
<1> QED BY <1>6, <1>7, <1>8

\* The evaluation of a binding, call after call.
LEMMA EvaluationIs ==
  ASSUME Types, NEW is, NEW seg, Base(is, seg), NEW u, u = Evaluation(is, seg)
  PROVE  u \in Evaluator /\ Upto(u, Len(binding), is, seg)
<1> DEFINE N == Len(binding)
           start == [insts |-> is, made |-> {}, owned |-> owned, reads |-> reads]
           V == [k \in 0..N |-> {e \in Evaluator : Upto(e, k, is, seg)}]
           Step == [x \in (1..N) \X Evaluator |-> Evaluated(x[2], x[1], seg)]
           Body(g) == [k \in 0..N |-> IF k = 0 THEN start ELSE Evaluated(g[k - 1], k, seg)]
<1>1. N \in Nat /\ Calls = 1..N /\ is \in Seq(Inst) /\ Len(is) \in Nat /\ owned \subseteq DOMAIN is
  BY BindingIs DEF Base
<1>2. start \in V[0]
  <2>1. start \in Evaluator
    <3>1. reads \in [Calls -> Reading]
      BY DEF Types
    <3>2. owned \subseteq Nat
      BY <1>1
    <3> QED BY <1>1, <3>1, <3>2 DEF Evaluator
  <2>2. start.insts = is /\ start.made = {} /\ start.owned = owned /\ start.reads = reads
    OBVIOUS
  <2>3. Fresh(start, is) = {}
    BY <1>1, <2>2 DEF Fresh
  <2>4. \A c \in Calls : ~(c <= 0)
    BY <1>1
  <2> HIDE DEF start
  <2>5. Upto(start, 0, is, seg)
    BY <1>1, <2>2, <2>3, <2>4 DEF Upto
  <2>6. 0 \in 0..N
    BY <1>1
  <2> QED BY <2>1, <2>5, <2>6
<1>3. ASSUME NEW k \in 1..N, NEW e \in V[k - 1]
      PROVE  Evaluated(e, k, seg) \in V[k]
  <2>1. k - 1 \in 0..N /\ k \in 0..N /\ k \in Calls
    BY <1>1
  <2>2. e \in Evaluator /\ Upto(e, k - 1, is, seg)
    BY <2>1
  <2>3. Evaluated(e, k, seg) \in Evaluator /\ Upto(Evaluated(e, k, seg), k, is, seg)
    BY <2>1, <2>2, EvaluatedIs
  <2> QED BY <2>1, <2>3
<1>4. \A k \in 0..N : V[k] \subseteq Evaluator
  OBVIOUS
<1>5. ASSUME NEW k \in 1..N, NEW e \in V[k - 1]
      PROVE  Step[<<k, e>>] = Evaluated(e, k, seg)
  <2>1. k - 1 \in 0..N
    BY <1>1
  <2>2. e \in Evaluator
    BY <2>1, <1>4
  <2>3. <<k, e>> \in (1..N) \X Evaluator
    BY <2>2
  <2> QED BY <2>3
<1> HIDE DEF V, Step, start
<1>6. PICK f : Records(f, N, V, start, Step)
  <2>1. Closed(N, Evaluator, V, start, Step)
    <3>1. \A k \in 1..N : \A e \in V[k - 1] : Step[<<k, e>>] \in V[k]
      BY <1>3, <1>5
    <3> QED BY <1>1, <1>2, <1>4, <3>1 DEF Closed
  <2> HIDE DEF N
  <2> QED BY <2>1, StepsExist
<1>7. f = Body(f)
  <2>1. f = [k \in 0..N |-> f[k]] /\ f[0] = start
        /\ \A k \in 1..N : f[k] = Evaluated(f[k - 1], k, seg)
    BY <1>5, <1>6 DEF Records
  <2>2. \A k \in 0..N : k # 0 => k \in 1..N
    BY <1>1
  <2> QED BY <2>1, <2>2
<1> DEFINE h == CHOOSE g : g = Body(g)
<1>8. h = Body(h)
  <2> HIDE DEF Body
  <2> QED BY <1>7
<1>9. u = h[N]
  BY DEF Evaluation, start
<1> HIDE DEF h
<1>10. h[0] \in V[0] /\ \A k \in 1..N : h[k] = Evaluated(h[k - 1], k, seg)
  <2>1. 0 \in 0..N /\ \A k \in 1..N : k \in 0..N /\ k # 0
    BY <1>1
  <2> QED BY <1>2, <1>8, <2>1
<1>11. \A k \in 0..N : h[k] \in V[k]
  <2>1. \A k \in 1..N : h[k - 1] \in V[k - 1] => h[k] \in V[k]
    BY <1>3, <1>10
  <2> QED BY <1>1, <1>10, <2>1, Stepwise
<1>12. u \in {e \in Evaluator : Upto(e, N, is, seg)}
  <2>1. N \in 0..N
    BY <1>1
  <2> QED BY <1>9, <1>11, <2>1 DEF V
<1> QED BY <1>12

-----------------------------------------------------------------------------
(***************************************************************************)
(* Instances: the steps                                                     *)
(***************************************************************************)

\* The initial states satisfy the invariant.
LEMMA InitInv == Init => Inv
<1> SUFFICES ASSUME Init PROVE Inv
  OBVIOUS
<1>1. /\ binding \in Bindings /\ now = 0 /\ insts = <<>> /\ driver = 0 /\ pool = {} /\ owned = {}
      /\ reads = [c \in Calls |-> None] /\ running = FALSE
  BY DEF Init
<1>2. MaxTime \in Nat /\ None \in Reading /\ None.inst = 0
  BY InstancesAssumption DEF None, Reading
<1>3. insts \in Seq(Inst) /\ Len(insts) = 0 /\ DOMAIN insts = {} /\ 1..0 = {}
  BY <1>1
<1>4. Types
  <2>1. reads \in [Calls -> Reading] /\ \A c \in Calls : reads[c].inst <= Len(insts)
    BY <1>1, <1>2, <1>3
  <2>2. owned \subseteq DOMAIN insts /\ driver \in 0..Len(insts) /\ pool = 1..driver
    BY <1>1, <1>3
  <2>3. running \in BOOLEAN /\ ~running
    BY <1>1
  <2>4. now \in 0..MaxTime
    BY <1>1, <1>2
  <2> QED BY <1>1, <1>3, <2>1, <2>2, <2>3, <2>4 DEF Types
<1>5. AllSound /\ Armed /\ Together /\ Alone /\ OwnRead /\ AgeIsElapsed
  BY <1>1, <1>3 DEF AllSound, Armed, Together, Alone, OwnRead, AgeIsElapsed, Subscribed
<1> QED BY <1>4, <1>5 DEF Inv

\* An instance's record.
LEMMA InstIs ==
  ASSUME Types, NEW i \in DOMAIN insts
  PROVE  /\ insts[i] \in Inst /\ i \in Nat \ {0} /\ i <= Len(insts)
         /\ insts[i].dt \in Nat \ {0} /\ insts[i].n \in Nat /\ insts[i].age \in Nat
         /\ insts[i].made \in Nat /\ insts[i].next \in Nat /\ insts[i].active \in BOOLEAN
         /\ insts[i].call \in Nat
<1>1. insts \in Seq(Inst) /\ DOMAIN insts = 1..Len(insts) /\ Len(insts) \in Nat
  BY DEF Types
<1>2. insts[i] \in Inst /\ i \in Nat \ {0} /\ i <= Len(insts)
  BY <1>1
<1>3. /\ insts[i].dt \in Nat \ {0} /\ insts[i].n \in Nat /\ insts[i].age \in Nat
      /\ insts[i].made \in Nat /\ insts[i].next \in Nat /\ insts[i].active \in BOOLEAN
      /\ insts[i].call \in Nat
  BY <1>2 DEF Inst
<1> QED BY <1>2, <1>3

\* A step that evaluates nothing and brings no instance back to life.
LEMMA KeepsReads ==
  ASSUME Inv, UNCHANGED <<binding, driver, pool, reads>>,
         driver \in 0..Len(insts),
         \A i \in DOMAIN insts : /\ insts'[i].call = insts[i].call
                                 /\ insts'[i].active => insts[i].active
  PROVE  Alone' /\ OwnRead'
<1>1. pool = 1..driver /\ insts \in Seq(Inst) /\ Len(insts) \in Nat
  BY DEF Inv, Types
<1>2. \A i \in pool : i \in DOMAIN insts
  BY <1>1
<1>3. Alone'
  <2> SUFFICES ASSUME NEW i \in pool, insts'[i].call = insts'[driver].call PROVE i = driver
    BY DEF Alone
  <2>1. driver \in DOMAIN insts
    BY <1>1
  <2> QED BY <1>2, <2>1 DEF Inv, Alone
<1>4. OwnRead'
  <2> SUFFICES ASSUME NEW c \in Calls, \A d \in Calls \ {c} : binding[d].def # binding[c].def,
                      NEW i \in pool, FirstFor(c, i)', insts'[i].active
               PROVE  reads[c].inst = i
    BY DEF OwnRead, Calls
  <2>1. FirstFor(c, i)
    BY <1>2 DEF FirstFor
  <2> QED BY <1>2, <2>1 DEF Inv, OwnRead
<1> QED BY <1>3, <1>4

\* What ticked at most once when it was made is due after its interval.
LEMMA FirstDue ==
  ASSUME NEW t \in Nat, NEW n \in Nat, n <= 1, NEW d \in Nat \ {0}
  PROVE  t + d >= t /\ n + d + t <= (t + d) + 1
OBVIOUS

\* A process starts: everything is made now, and is due after its interval.
LEMMA StartInv == ASSUME Inv, Start PROVE Inv'
<1> DEFINE seg == [driver |-> 0, others |-> {}]
           e == Evaluation(<<>>, seg)
           d == Max(e.made)
           N == Len(binding)
<1>1. /\ ~running /\ driver = 0 /\ e.made # {}
      /\ insts' = IF e.insts[d].active THEN [e.insts EXCEPT ![d].next = now + e.insts[d].dt]
                  ELSE e.insts
      /\ driver' = d /\ pool' = 1..d /\ owned' = e.owned \cup {d} /\ reads' = e.reads
      /\ running' = TRUE /\ UNCHANGED <<binding, dur, now>>
  BY DEF Start
<1>2. Types /\ insts = <<>> /\ owned = {}
  BY <1>1 DEF Inv, Types
<1>3. Base(<<>>, seg)
  <2>1. seg.driver = 0 /\ seg.others = {}
    OBVIOUS
  <2>2. <<>> \in Seq(Inst) /\ Len(<<>>) = 0 /\ DOMAIN <<>> = {}
    OBVIOUS
  <2>3. \A c \in Calls : reads[c].inst <= Len(<<>>)
    BY <1>2 DEF Types
  <2> HIDE DEF seg
  <2> QED BY <1>2, <2>1, <2>2, <2>3 DEF Base
<1>4. e \in Evaluator /\ Upto(e, N, <<>>, seg)
  <2> HIDE DEF seg
  <2> QED BY <1>2, <1>3, EvaluationIs
<1>5. \A c \in Calls : Found(<<>>, c, seg) = 0
  BY DEF Found
<1> HIDE DEF seg, e
<1> DEFINE L == Len(e.insts)
<1>6. /\ e.insts \in Seq(Inst) /\ L \in Nat /\ DOMAIN e.insts = 1..L /\ e.reads \in [Calls -> Reading]
      /\ Calls = 1..N /\ N \in Nat /\ now \in Nat /\ now <= MaxTime /\ MaxTime \in Nat
  BY <1>2, <1>4, BindingIs DEF Evaluator
<1>7. Fresh(e, <<>>) = 1..L
  BY <1>6 DEF Fresh
<1>8. e.made \subseteq 1..L
  BY <1>4, <1>7 DEF Upto
<1>9. d \in e.made /\ \A m \in e.made : m <= d
  <2>1. e.made \in SUBSET (0..L)
    <3>1. \A i \in 1..L : i \in 0..L
      BY <1>6
    <3> QED BY <1>8, <3>1
  <2> HIDE DEF L
  <2> QED BY <1>1, <1>6, <2>1, MaxIn
<1>10. d \in 1..L /\ d \in Nat \ {0}
  BY <1>6, <1>8, <1>9
<1> HIDE DEF d
<1>11. ASSUME NEW i \in 1..L
       PROVE  /\ e.insts[i] \in Inst /\ e.insts[i].dt \in Nat \ {0} /\ e.insts[i].n \in Nat
              /\ e.insts[i].call \in Calls /\ Live(e.insts[i].call)
              /\ e.insts[i].def = binding[e.insts[i].call].def
              /\ e.insts[i].made = now /\ e.insts[i].n <= 1 /\ e.insts[i].age = e.insts[i].dt
              /\ e.insts[i].subs \subseteq 1..(i - 1)
              /\ e.insts[i].next # 0 => i \in e.owned /\ e.insts[i].next = now + e.insts[i].dt
  <2>1. e.insts[i] \in Inst
    BY <1>6
  <2>2. Created(e, i, N)
    BY <1>4, <1>7 DEF Upto
  <2> QED BY <1>6, <2>1, <2>2 DEF Inst, Created
<1>12. /\ insts' \in Seq(Inst) /\ Len(insts') = L /\ DOMAIN insts' = 1..L
       /\ \A i \in 1..L : i # d => insts'[i] = e.insts[i]
       /\ insts'[d] = IF e.insts[d].active THEN [e.insts[d] EXCEPT !.next = now + e.insts[d].dt]
                      ELSE e.insts[d]
  <2>1. [e.insts[d] EXCEPT !.next = now + e.insts[d].dt] \in Inst
    <3>1. e.insts[d] \in Inst /\ now + e.insts[d].dt \in Nat
      BY <1>6, <1>10, <1>11
    <3> QED BY <3>1 DEF Inst
  <2>2. CASE e.insts[d].active
    BY <1>1, <1>6, <1>10, <2>1, <2>2
  <2>3. CASE ~e.insts[d].active
    BY <1>1, <1>6, <1>10, <2>3
  <2> QED BY <2>2, <2>3
<1>13. ASSUME NEW i \in 1..L
       PROVE  /\ insts'[i].call = e.insts[i].call /\ insts'[i].def = e.insts[i].def
              /\ insts'[i].made = now /\ insts'[i].n = e.insts[i].n
              /\ insts'[i].age = e.insts[i].dt /\ insts'[i].dt = e.insts[i].dt
              /\ insts'[i].subs = e.insts[i].subs
              /\ insts'[i].next # 0 => i \in owned' /\ insts'[i].next = now + e.insts[i].dt
  <2>1. CASE i # d
    BY <1>1, <1>11, <1>12, <2>1
  <2>2. CASE i = d /\ ~e.insts[d].active
    BY <1>1, <1>11, <1>12, <2>2
  <2>3. CASE i = d /\ e.insts[d].active
    <3>1. insts'[i] = [e.insts[i] EXCEPT !.next = now + e.insts[i].dt]
      BY <1>12, <2>3
    <3>2. e.insts[i] \in Inst /\ e.insts[i].made = now /\ e.insts[i].age = e.insts[i].dt
      BY <1>11
    <3>3. i \in owned'
      BY <1>1, <2>3
    <3> QED BY <3>1, <3>2, <3>3 DEF Inst
  <2> QED BY <2>1, <2>2, <2>3
<1>14. Types'
  <2>1. owned' \subseteq DOMAIN insts'
    <3>1. e.owned \subseteq 1..L
      BY <1>4, <1>6 DEF Upto
    <3> QED BY <1>1, <1>10, <1>12, <3>1
  <2>2. ASSUME NEW c \in Calls PROVE reads'[c].inst <= Len(insts')
    <3>1. CASE Live(c)
      <4>1. Given(e, c, <<>>, seg)
        BY <1>4, <1>6, <3>1 DEF Upto
      <4> QED BY <1>1, <1>6, <1>12, <4>1 DEF Given
    <3>2. CASE ~Live(c)
      <4>1. e.reads[c] = reads[c]
        BY <1>4, <3>2 DEF Upto
      <4>2. reads[c].inst \in Nat /\ reads[c].inst <= 0
        BY <1>2 DEF Types, Reading
      <4> QED BY <1>1, <1>6, <1>12, <4>1, <4>2
    <3> QED BY <3>1, <3>2
  <2>3. driver' \in 0..Len(insts') /\ pool' = 1..driver' /\ driver' # 0
    BY <1>1, <1>6, <1>10, <1>12
  <2>4. binding' \in Bindings /\ now' \in 0..MaxTime /\ running' \in BOOLEAN /\ Calls' = Calls
    BY <1>1, <1>2 DEF Types, Calls
  <2> QED BY <1>1, <1>6, <1>12, <2>1, <2>2, <2>3, <2>4 DEF Types
<1>15. AllSound'
  <2> SUFFICES ASSUME NEW i \in 1..L PROVE Sound(insts, i)'
    BY <1>12 DEF AllSound
  <2>1. insts'[i].n + insts'[i].made <= now + 1 /\ now <= now
    BY <1>6, <1>11, <1>13
  <2> QED BY <1>1, <1>11, <1>13, <2>1 DEF Sound, Calls
<1>16. Armed'
  <2> SUFFICES ASSUME NEW i \in 1..L, insts'[i].next # 0
               PROVE  /\ running' /\ i \in owned'
                      /\ insts'[i].next >= now
                      /\ insts'[i].n + insts'[i].dt + insts'[i].made <= insts'[i].next + 1
    BY <1>1, <1>12 DEF Armed, Subscribed
  <2>1. /\ insts'[i].n \in Nat /\ insts'[i].n <= 1 /\ insts'[i].dt \in Nat \ {0} /\ insts'[i].made = now
        /\ insts'[i].next = now + insts'[i].dt /\ i \in owned'
    BY <1>11, <1>13
  <2>2. insts'[i].next >= now /\ insts'[i].n + insts'[i].dt + insts'[i].made <= insts'[i].next + 1
    BY <1>6, <2>1, FirstDue
  <2> QED BY <1>1, <2>1, <2>2
<1>17. Together'
  <2> SUFFICES ASSUME insts'[d].next # 0, NEW i \in 1..d
               PROVE  insts'[i].n + insts'[d].dt + insts'[i].made <= insts'[d].next + 1
    BY <1>1 DEF Together
  <2>1. i \in 1..L
    BY <1>6, <1>10
  <2>2. /\ insts'[i].n \in Nat /\ insts'[i].n <= 1 /\ insts'[d].dt \in Nat \ {0} /\ insts'[i].made = now
        /\ insts'[d].next = now + insts'[d].dt
    BY <1>10, <1>11, <1>13, <2>1
  <2> QED BY <1>6, <2>2, FirstDue
<1>18. ASSUME NEW m \in e.made
       PROVE  /\ e.reads[e.insts[m].call].inst = m
              /\ \A i \in 1..L : e.insts[i].call = e.insts[m].call => m <= i
  <2>1. e.reads[e.insts[m].call].inst = m
    BY <1>4 DEF Upto
  <2>2. e.insts[m].call \in Calls /\ Live(e.insts[m].call)
    BY <1>8, <1>11
  <2>3. Given(e, e.insts[m].call, <<>>, seg)
    BY <1>4, <1>6, <2>2 DEF Upto
  <2> QED BY <1>5, <1>7, <2>1, <2>2, <2>3 DEF Given
<1>19. Alone'
  <2> SUFFICES ASSUME NEW i \in 1..d, insts'[i].call = insts'[d].call PROVE i = d
    BY <1>1 DEF Alone
  <2>1. i \in 1..L /\ e.insts[i].call = e.insts[d].call
    BY <1>6, <1>10, <1>13
  <2>2. d <= i
    BY <1>9, <1>18, <2>1
  <2> QED BY <1>10, <2>2
<1>20. OwnRead'
  <2> SUFFICES ASSUME NEW c \in Calls, NEW i \in 1..d, FirstFor(c, i)'
               PROVE  e.reads[c].inst = i
    BY <1>1 DEF OwnRead, Calls
  <2>1. i \in 1..L /\ e.insts[i].call = c /\ Live(c)
    BY <1>6, <1>10, <1>11, <1>13 DEF FirstFor
  <2> DEFINE r == e.reads[c].inst
  <2>2. Given(e, c, <<>>, seg)
    BY <1>4, <1>6, <2>1 DEF Upto
  <2>3. r \in e.made /\ e.insts[r].call = c /\ r <= i
    BY <1>5, <1>7, <2>1, <2>2 DEF Given
  <2>4. r \in 1..L /\ r <= d
    BY <1>8, <1>9, <2>3
  <2> HIDE DEF r
  <2>5. r \in 1..d /\ insts'[r].call = c
    BY <1>6, <1>10, <1>13, <2>3, <2>4
  <2>6. i <= r
    BY <1>1, <2>5 DEF FirstFor
  <2> QED BY <1>6, <2>1, <2>3, <2>4, <2>6 DEF r
<1>21. AgeIsElapsed'
  <2> SUFFICES ASSUME NEW i \in 1..L, insts'[i].next # 0
               PROVE  insts'[i].made + insts'[i].age = insts'[i].next
    BY <1>12 DEF AgeIsElapsed, Subscribed
  <2> QED BY <1>13
<1> QED BY <1>14, <1>15, <1>16, <1>17, <1>19, <1>20, <1>21 DEF Inv

\* A count that fits before now fits before the end of the next interval.
LEMMA NextDue ==
  ASSUME NEW t \in Nat, NEW n \in Nat, NEW d \in Nat \ {0}, NEW m \in Nat,
         n + m <= t + 1
  PROVE  n + d + m <= (t + d) + 1
OBVIOUS

\* A count that fits before the next interval ends fits before it began.
LEMMA BeforeDue ==
  ASSUME NEW t \in Nat, NEW n \in Nat, NEW d \in Nat \ {0}, NEW m \in Nat,
         n + d + m <= t + 1
  PROVE  n + m <= t
OBVIOUS

\* What is due is due now, and it has not ticked since its interval began.
LEMMA DueIs ==
  ASSUME Inv, NEW i \in DOMAIN insts, Due(i)
  PROVE  /\ insts[i].next = now /\ running /\ i \in owned
         /\ insts[i].n + insts[i].made <= now
         /\ insts[i].subs \subseteq 1..(i - 1)
         /\ insts[i].active => insts[i].made + insts[i].age = now
<1>1. insts[i].next # 0 /\ insts[i].next <= now
  BY DEF Due
<1>2. i \in Subscribed /\ Types
  BY <1>1 DEF Subscribed, Inv
<1>3. /\ insts[i].dt \in Nat \ {0} /\ insts[i].n \in Nat /\ insts[i].made \in Nat
      /\ insts[i].next \in Nat /\ now \in Nat
  BY <1>2, InstIs, BindingIs
<1>4. /\ running /\ i \in owned /\ insts[i].next >= now
      /\ insts[i].n + insts[i].dt + insts[i].made <= insts[i].next + 1
  BY <1>2 DEF Inv, Armed
<1>5. insts[i].next = now
  <2> \A a, b \in Nat : a <= b /\ a >= b => a = b
    OBVIOUS
  <2> QED BY <1>1, <1>3, <1>4
<1>6. insts[i].n + insts[i].made <= now
  <2>1. insts[i].n + insts[i].dt + insts[i].made <= now + 1
    BY <1>4, <1>5
  <2> QED BY <1>3, <2>1, BeforeDue
<1>7. insts[i].active => insts[i].made + insts[i].age = now
  BY <1>2, <1>5 DEF Inv, AgeIsElapsed
<1>8. insts[i].subs \subseteq 1..(i - 1)
  BY DEF Inv, AllSound, Sound
<1> QED BY <1>4, <1>5, <1>6, <1>7, <1>8

\* The counts stay where intervals are given for them.
LEMMA CountIs ==
  ASSUME Inv, NEW i \in DOMAIN insts
  PROVE  /\ insts[i].n <= MaxTime + 1
         /\ insts[i].n + insts[i].made <= now => insts[i].n <= MaxTime
<1>1. insts[i].n \in Nat /\ insts[i].made \in Nat /\ now \in Nat /\ MaxTime \in Nat /\ now <= MaxTime
  BY InstIs, BindingIs DEF Inv
<1>2. insts[i].n + insts[i].made <= now + 1
  BY DEF Inv, AllSound, Sound
<1> QED BY <1>1, <1>2

\* A subscription that is dropped, with what it belongs to.
LEMMA DropInv ==
  ASSUME Inv, NEW i \in DOMAIN insts, NEW a \in BOOLEAN, a => insts[i].active,
         i = driver \/ ~a,
         insts' = [insts EXCEPT ![i] = [insts[i] EXCEPT !.next = 0, !.active = a]],
         UNCHANGED <<binding, dur, now, driver, pool, owned, reads, running>>
  PROVE  Inv'
<1> DEFINE t == [insts[i] EXCEPT !.next = 0, !.active = a]
<1>1. Types /\ insts \in Seq(Inst) /\ insts[i] \in Inst
  BY InstIs DEF Inv, Types
<1>2. /\ t \in Inst /\ t.call = insts[i].call /\ t.def = insts[i].def /\ t.subs = insts[i].subs
      /\ t.made = insts[i].made /\ t.n = insts[i].n /\ t.next = 0 /\ t.active = a
  BY <1>1 DEF Inst
<1> HIDE DEF t
<1>3. /\ insts' \in Seq(Inst) /\ Len(insts') = Len(insts) /\ DOMAIN insts' = DOMAIN insts
      /\ insts'[i] = t /\ \A j \in DOMAIN insts : j # i => insts'[j] = insts[j]
  BY <1>1, <1>2 DEF t
<1>4. Types'
  <2>1. insts = <<>> => insts' = <<>>
    BY <1>1, <1>3
  <2> QED BY <1>1, <1>3, <2>1 DEF Types, Calls
<1>5. AllSound'
  <2> SUFFICES ASSUME NEW j \in DOMAIN insts PROVE Sound(insts, j)'
    BY <1>3 DEF AllSound
  <2>1. Sound(insts, j)
    BY DEF Inv, AllSound
  <2>2. CASE j = i
    BY <1>2, <1>3, <2>1, <2>2 DEF Sound, Calls
  <2>3. CASE j # i
    BY <1>3, <2>1, <2>3 DEF Sound, Calls
  <2> QED BY <2>2, <2>3
<1>6. \A j \in DOMAIN insts' : insts'[j].next # 0 => j # i /\ j \in Subscribed /\ insts'[j] = insts[j]
  BY <1>2, <1>3 DEF Subscribed
<1>7. Armed'
  BY <1>6 DEF Inv, Armed, Subscribed
<1>8. Together'
  <2> SUFFICES ASSUME driver # 0, insts'[driver].next # 0, NEW j \in pool,
                      insts'[j].active, insts'[j].next = 0
               PROVE  insts'[j].n + insts'[driver].dt + insts'[j].made <= insts'[driver].next + 1
    BY DEF Together
  <2>1. driver \in DOMAIN insts /\ j \in DOMAIN insts
    BY <1>1 DEF Types
  <2>2. driver # i /\ insts'[driver] = insts[driver]
    BY <1>3, <1>6, <2>1
  <2>3. j # i
    BY <1>2, <1>3, <2>2
  <2> QED BY <1>3, <2>1, <2>2, <2>3 DEF Inv, Together
<1>9. Alone' /\ OwnRead'
  <2>1. \A j \in DOMAIN insts : /\ insts'[j].call = insts[j].call
                                /\ insts'[j].active => insts[j].active
    BY <1>2, <1>3
  <2>2. driver \in 0..Len(insts)
    BY <1>1 DEF Types
  <2> QED BY <2>1, <2>2, KeepsReads
<1>10. AgeIsElapsed'
  BY <1>6 DEF Inv, AgeIsElapsed, Subscribed
<1> QED BY <1>4, <1>5, <1>7, <1>8, <1>9, <1>10 DEF Inv

\* An instance of an argument ticks on its own, or is dropped.
LEMMA SubTickInv ==
  ASSUME Inv, NEW i \in DOMAIN insts, SubTick(i)
  PROVE  Inv'
<1>1. /\ i # driver /\ Due(i) /\ UNCHANGED <<binding, dur, now, driver, pool, owned, reads, running>>
      /\ insts' = IF insts[i].active THEN Rearmed(Ticked(insts, i), i, TRUE) ELSE Rearmed(insts, i, FALSE)
  BY DEF SubTick
<1>2. Types /\ insts \in Seq(Inst) /\ insts[i] \in Inst /\ insts[i].active \in BOOLEAN
  BY InstIs DEF Inv, Types
<1>3. CASE ~insts[i].active
  <2>1. insts' = [insts EXCEPT ![i] = [insts[i] EXCEPT !.next = 0, !.active = FALSE]]
    <3>1. insts' = [insts EXCEPT ![i].next = 0]
      BY <1>1, <1>3 DEF Rearmed
    <3>2. [insts[i] EXCEPT !.next = 0] = [insts[i] EXCEPT !.next = 0, !.active = FALSE]
      BY <1>2, <1>3 DEF Inst
    <3> QED BY <1>2, <3>1, <3>2
  <2> QED BY <1>1, <2>1, DropInv
<1>4. CASE insts[i].active
  <2> DEFINE u == Ticked(insts, i)
             t == [u[i] EXCEPT !.next = now + u[i].dt]
  <2>1. /\ insts[i].next = now /\ running /\ i \in owned
        /\ insts[i].n + insts[i].made <= now
        /\ insts[i].subs \subseteq 1..(i - 1)
        /\ insts[i].made + insts[i].age = now
    BY <1>1, <1>4, DueIs
  <2>2. /\ u \in Seq(Inst) /\ Len(u) = Len(insts)
        /\ \A j \in DOMAIN insts : j # i => u[j] = insts[j]
        /\ TickOf(insts[i], u[i])
    <3>1. \A j \in DOMAIN insts : insts[j].n <= MaxTime + 1
      BY CountIs
    <3> QED BY <1>2, <2>1, <3>1, TickedIs
  <2>3. insts' = [u EXCEPT ![i].next = @ + u[i].dt]
    BY <1>1, <1>4 DEF Rearmed
  <2> HIDE DEF u
  <2>4. DOMAIN u = DOMAIN insts /\ i \in DOMAIN u /\ u[i] \in Inst
    BY <1>2, <2>2
  <2>5. /\ u[i].next = now /\ u[i].dt \in Nat \ {0} /\ now + u[i].dt \in Nat /\ now \in Nat
        /\ u[i].call = insts[i].call /\ u[i].def = insts[i].def /\ u[i].subs = insts[i].subs
        /\ u[i].made = insts[i].made /\ u[i].n = insts[i].n + 1 /\ u[i].age = insts[i].age + u[i].dt
        /\ u[i].active => insts[i].active
    <3>1. u[i].dt \in Nat \ {0} /\ now \in Nat
      BY <1>2, <2>4, BindingIs DEF Inst
    <3> QED BY <2>1, <2>2, <3>1 DEF TickOf
  <2>6. /\ t \in Inst /\ t.call = insts[i].call /\ t.def = insts[i].def /\ t.subs = insts[i].subs
        /\ t.made = insts[i].made /\ t.n = insts[i].n + 1 /\ t.age = insts[i].age + u[i].dt
        /\ t.active = u[i].active /\ t.dt = u[i].dt /\ t.next = now + u[i].dt
    BY <2>4, <2>5 DEF Inst
  <2> HIDE DEF t
  <2>7. /\ insts' \in Seq(Inst) /\ Len(insts') = Len(insts) /\ DOMAIN insts' = DOMAIN insts
        /\ insts'[i] = t /\ \A j \in DOMAIN insts : j # i => insts'[j] = insts[j]
    <3>1. insts' = [u EXCEPT ![i] = t]
      BY <2>3, <2>5 DEF t
    <3> QED BY <2>2, <2>4, <2>6, <3>1
  <2>8. /\ insts[i].n \in Nat /\ insts[i].made \in Nat /\ insts[i].age \in Nat
        /\ insts[i].made <= now
    BY <1>2, InstIs DEF Inv, AllSound, Sound
  <2>9. /\ t.n + t.made <= now + 1 /\ t.next >= now /\ t.n + t.dt + t.made <= t.next + 1
        /\ t.made + t.age = t.next
    BY <2>1, <2>5, <2>6, <2>8
  <2>10. Types'
    <3>1. insts = <<>> => insts' = <<>>
      BY <1>2, <2>7
    <3> QED BY <1>1, <1>2, <2>7, <3>1 DEF Types, Calls
  <2>11. AllSound'
    <3> SUFFICES ASSUME NEW j \in DOMAIN insts PROVE Sound(insts, j)'
      BY <2>7 DEF AllSound
    <3>1. Sound(insts, j)
      BY DEF Inv, AllSound
    <3>2. CASE j = i
      BY <1>1, <2>6, <2>7, <2>9, <3>1, <3>2 DEF Sound, Calls
    <3>3. CASE j # i
      BY <1>1, <2>7, <3>1, <3>3 DEF Sound, Calls
    <3> QED BY <3>2, <3>3
  <2>12. Armed'
    <3> SUFFICES ASSUME NEW j \in DOMAIN insts, insts'[j].next # 0
                 PROVE  /\ running /\ j \in owned
                        /\ insts'[j].next >= now
                        /\ insts'[j].n + insts'[j].dt + insts'[j].made <= insts'[j].next + 1
      BY <1>1, <2>7 DEF Armed, Subscribed
    <3>1. CASE j = i
      BY <2>1, <2>7, <2>9, <3>1
    <3>2. CASE j # i
      BY <2>7, <3>2 DEF Inv, Armed, Subscribed
    <3> QED BY <3>1, <3>2
  <2>13. Together'
    <3> SUFFICES ASSUME driver # 0, insts'[driver].next # 0, NEW j \in pool,
                        insts'[j].active, insts'[j].next = 0
                 PROVE  insts'[j].n + insts'[driver].dt + insts'[j].made <= insts'[driver].next + 1
      BY <1>1 DEF Together
    <3>1. driver \in DOMAIN insts /\ j \in DOMAIN insts
      BY <1>2 DEF Types
    <3>2. insts'[driver] = insts[driver]
      BY <1>1, <2>7, <3>1
    <3>3. j # i
      BY <2>5, <2>6, <2>7
    <3> QED BY <2>7, <3>1, <3>2, <3>3 DEF Inv, Together
  <2>14. Alone' /\ OwnRead'
    <3>1. \A j \in DOMAIN insts : /\ insts'[j].call = insts[j].call
                                  /\ insts'[j].active => insts[j].active
      BY <2>5, <2>6, <2>7
    <3>2. driver \in 0..Len(insts)
      BY <1>2 DEF Types
    <3> QED BY <1>1, <3>1, <3>2, KeepsReads
  <2>15. AgeIsElapsed'
    <3> SUFFICES ASSUME NEW j \in DOMAIN insts, insts'[j].next # 0, insts'[j].active
                 PROVE  insts'[j].made + insts'[j].age = insts'[j].next
      BY <2>7 DEF AgeIsElapsed, Subscribed
    <3>1. CASE j = i
      BY <2>7, <2>9, <3>1
    <3>2. CASE j # i
      BY <2>7, <3>2 DEF Inv, AgeIsElapsed, Subscribed
    <3> QED BY <3>1, <3>2
  <2> QED BY <2>10, <2>11, <2>12, <2>13, <2>14, <2>15 DEF Inv
<1> QED BY <1>3, <1>4

\* A stop ends every subscription, as everything that has one is owned.
LEMMA StopInv == ASSUME Inv, Stop PROVE Inv'
<1>1. /\ UNCHANGED <<binding, dur, now, driver, pool, reads>> /\ owned' = {} /\ running' = FALSE
      /\ insts' = [i \in DOMAIN insts |->
                     IF i \in owned THEN [insts[i] EXCEPT !.active = FALSE, !.next = 0]
                     ELSE insts[i]]
  BY DEF Stop
<1>2. Types /\ insts \in Seq(Inst) /\ Len(insts) \in Nat /\ DOMAIN insts = 1..Len(insts)
  BY DEF Inv, Types
<1>3. ASSUME NEW i \in DOMAIN insts
      PROVE  /\ insts'[i] \in Inst /\ insts'[i].call = insts[i].call /\ insts'[i].def = insts[i].def
             /\ insts'[i].subs = insts[i].subs /\ insts'[i].made = insts[i].made
             /\ insts'[i].n = insts[i].n /\ insts'[i].next = 0
             /\ insts'[i].active => insts[i].active
  <2>1. insts[i] \in Inst
    BY <1>2, InstIs
  <2>2. CASE i \in owned
    <3> DEFINE t == [insts[i] EXCEPT !.active = FALSE, !.next = 0]
    <3>1. insts'[i] = t
      BY <1>1, <2>2
    <3>2. /\ t \in Inst /\ t.call = insts[i].call /\ t.def = insts[i].def
          /\ t.subs = insts[i].subs /\ t.made = insts[i].made
          /\ t.n = insts[i].n /\ t.next = 0 /\ t.active = FALSE
      BY <2>1 DEF Inst
    <3> HIDE DEF t
    <3> QED BY <3>1, <3>2
  <2>3. CASE i \notin owned
    <3>1. insts'[i] = insts[i]
      BY <1>1, <2>3
    <3>2. insts[i].next = 0
      BY <2>3 DEF Inv, Armed, Subscribed
    <3> QED BY <2>1, <3>1, <3>2
  <2> QED BY <2>2, <2>3
<1>4. insts' \in Seq(Inst) /\ Len(insts') = Len(insts) /\ DOMAIN insts' = DOMAIN insts
  <2>1. insts' \in [1..Len(insts) -> Inst]
    BY <1>1, <1>2, <1>3
  <2> QED BY <1>2, <2>1
<1>5. Types'
  <2>1. insts = <<>> => insts' = <<>>
    BY <1>2, <1>4
  <2> QED BY <1>1, <1>2, <1>4, <2>1 DEF Types, Calls
<1>6. AllSound'
  <2> SUFFICES ASSUME NEW j \in DOMAIN insts PROVE Sound(insts, j)'
    BY <1>4 DEF AllSound
  <2>1. Sound(insts, j)
    BY DEF Inv, AllSound
  <2> QED BY <1>1, <1>3, <2>1 DEF Sound, Calls
<1>7. Armed' /\ AgeIsElapsed' /\ Together'
  <2>1. Subscribed' = {}
    BY <1>3, <1>4 DEF Subscribed
  <2>2. driver # 0 => driver \in DOMAIN insts
    BY <1>2 DEF Types
  <2> QED BY <1>1, <1>3, <2>1, <2>2 DEF Armed, AgeIsElapsed, Together
<1>8. Alone' /\ OwnRead'
  <2>1. driver \in 0..Len(insts)
    BY <1>2 DEF Types
  <2> QED BY <1>1, <1>3, <2>1, KeepsReads
<1> QED BY <1>5, <1>6, <1>7, <1>8 DEF Inv

\* Time goes on once nothing is due any more.
LEMMA AdvanceInv == ASSUME Inv, Advance PROVE Inv'
<1>1. /\ now < MaxTime /\ now' = now + 1
      /\ UNCHANGED <<binding, dur, insts, driver, pool, owned, reads, running>>
      /\ \A i \in DOMAIN insts : ~Due(i)
  BY DEF Advance
<1>2. Types /\ now \in Nat /\ MaxTime \in Nat
  BY BindingIs DEF Inv
<1>3. Types'
  <2>1. now' \in 0..MaxTime
    BY <1>1, <1>2
  <2> QED BY <1>1, <1>2, <2>1 DEF Types, Calls
<1>4. AllSound'
  <2> SUFFICES ASSUME NEW i \in DOMAIN insts PROVE Sound(insts, i)'
    BY <1>1 DEF AllSound
  <2>1. Sound(insts, i) /\ insts[i].n \in Nat /\ insts[i].made \in Nat
    BY <1>2, InstIs DEF Inv, AllSound
  <2>2. insts[i].made <= now + 1 /\ insts[i].n + insts[i].made <= (now + 1) + 1
    BY <1>2, <2>1 DEF Sound
  <2> QED BY <1>1, <2>1, <2>2 DEF Sound, Calls
<1>5. Armed'
  <2> SUFFICES ASSUME NEW i \in DOMAIN insts, insts[i].next # 0
               PROVE  /\ running /\ i \in owned
                      /\ insts[i].next >= now + 1
                      /\ insts[i].n + insts[i].dt + insts[i].made <= insts[i].next + 1
    BY <1>1 DEF Armed, Subscribed
  <2>1. insts[i].next \in Nat /\ ~(insts[i].next <= now)
    BY <1>1, <1>2, InstIs DEF Due
  <2>2. insts[i].next >= now + 1
    BY <1>2, <2>1
  <2> QED BY <2>2 DEF Inv, Armed, Subscribed
<1>6. Together' /\ Alone' /\ OwnRead' /\ AgeIsElapsed'
  BY <1>1 DEF Inv, Together, Alone, OwnRead, AgeIsElapsed, FirstFor, Subscribed, Calls
<1> QED BY <1>3, <1>4, <1>5, <1>6 DEF Inv

\* The driver's tick: the instances of the binding tick, and the binding is
\* evaluated with them.
LEMMA DriverTickInv == ASSUME Inv, DriverTick PROVE Inv'
<1> DEFINE D == driver
           over == dur > 0 /\ now - insts[D].made >= dur
           one == Ticked(insts, D)
           others == {i \in pool \ {D} : insts[i].active}
           ticks == {i \in others : insts[i].next = 0}
           all == AllTicked(one, ticks)
           seg == [driver |-> D, others |-> others]
           e == Evaluation(all, seg)
           M == Len(insts)
           N == Len(binding)
<1>1. /\ D # 0 /\ Due(D) /\ UNCHANGED <<binding, dur, now, driver, pool, running>>
      /\ IF over \/ ~insts[D].active
         THEN /\ insts' = [Rearmed(insts, D, FALSE) EXCEPT ![D].active = FALSE]
              /\ UNCHANGED <<owned, reads>>
         ELSE /\ insts' = Rearmed(e.insts, D, one[D].active)
              /\ owned' = e.owned /\ reads' = e.reads
  BY DEF DriverTick
<1>2. /\ Types /\ insts \in Seq(Inst) /\ M \in Nat /\ DOMAIN insts = 1..M
      /\ D \in 1..M /\ D \in DOMAIN insts /\ pool = 1..D
      /\ now \in Nat /\ now <= MaxTime /\ MaxTime \in Nat /\ N \in Nat /\ Calls = 1..N
  BY <1>1, BindingIs DEF Inv, Types
<1>3. insts[D] \in Inst /\ insts[D].active \in BOOLEAN
  BY <1>2, InstIs
<1>4. CASE over \/ ~insts[D].active
  <2>1. insts' = [insts EXCEPT ![D] = [insts[D] EXCEPT !.next = 0, !.active = FALSE]]
    <3>1. insts' = [Rearmed(insts, D, FALSE) EXCEPT ![D].active = FALSE]
      BY <1>1, <1>4
    <3>2. Rearmed(insts, D, FALSE) = [insts EXCEPT ![D] = [insts[D] EXCEPT !.next = 0]]
      BY <1>2 DEF Rearmed
    <3> QED BY <1>2, <3>1, <3>2
  <2>2. UNCHANGED <<binding, dur, now, driver, pool, owned, reads, running>>
    BY <1>1, <1>4
  <2> QED BY <1>2, <2>1, <2>2, DropInv
<1>5. CASE ~over /\ insts[D].active
  <2>1. /\ insts' = Rearmed(e.insts, D, one[D].active)
        /\ owned' = e.owned /\ reads' = e.reads
    BY <1>1, <1>5
  <2>2. /\ insts[D].next = now /\ running /\ D \in owned
        /\ insts[D].n + insts[D].made <= now
        /\ insts[D].subs \subseteq 1..(D - 1)
        /\ insts[D].made + insts[D].age = now
    BY <1>1, <1>2, <1>5, DueIs
  <2>3. /\ one \in Seq(Inst) /\ Len(one) = M
        /\ \A j \in DOMAIN insts : j # D => one[j] = insts[j]
        /\ TickOf(insts[D], one[D])
    <3>1. \A j \in DOMAIN insts : insts[j].n <= MaxTime + 1
      BY CountIs
    <3> QED BY <1>2, <2>2, <3>1, TickedIs
  <2> HIDE DEF one
  <2>4. ASSUME NEW i \in ticks
        PROVE  /\ i \in DOMAIN insts /\ i # D /\ insts[i].active /\ insts[i].next = 0
               /\ insts[i].n + insts[i].made <= now
    <3>1. i \in DOMAIN insts /\ i # D /\ i \in pool /\ insts[i].active /\ insts[i].next = 0
      BY <1>2
    <3>2. insts[D].next # 0
      BY <1>1 DEF Due
    <3>3. insts[i].n + insts[D].dt + insts[i].made <= insts[D].next + 1
      BY <1>1, <3>1, <3>2 DEF Inv, Together
    <3>4. insts[i].n + insts[D].dt + insts[i].made <= now + 1
      BY <2>2, <3>3
    <3>5. insts[i].n \in Nat /\ insts[i].made \in Nat /\ insts[D].dt \in Nat \ {0}
      BY <1>2, <3>1, InstIs
    <3>6. insts[i].n + insts[i].made <= now
      BY <1>2, <3>4, <3>5, BeforeDue
    <3> QED BY <3>1, <3>6
  <2>5. others \subseteq DOMAIN insts /\ ticks \subseteq others /\ D \notin others
    BY <1>2
  <2>6. D \notin ticks
    BY <2>5
  <2> HIDE DEF ticks
  <2>7. /\ all \in Seq(Inst) /\ Len(all) = M
        /\ \A j \in DOMAIN insts : IF j \in ticks THEN TickOf(one[j], all[j]) ELSE all[j] = one[j]
    <3>1. DOMAIN one = DOMAIN insts
      BY <1>2, <2>3
    <3>2. ASSUME NEW j \in DOMAIN insts
          PROVE  /\ one[j].subs \subseteq 1..(j - 1)
                 /\ one[j].n <= MaxTime + 1
                 /\ j \in ticks => one[j].n <= MaxTime
      <4>1. CASE j = D
        <5>1. insts[D].n <= MaxTime /\ insts[D].n \in Nat
          BY <1>2, <2>2, CountIs, InstIs
        <5>2. one[D].n = insts[D].n + 1 /\ one[D].subs = insts[D].subs
          BY <2>3 DEF TickOf
        <5>3. one[D].n <= MaxTime + 1
          BY <1>2, <5>1, <5>2
        <5> QED BY <2>2, <2>6, <4>1, <5>2, <5>3
      <4>2. CASE j # D
        <5>1. one[j] = insts[j]
          BY <2>3, <4>2
        <5>2. insts[j].subs \subseteq 1..(j - 1)
          BY DEF Inv, AllSound, Sound
        <5>3. j \in ticks => insts[j].n <= MaxTime
          BY <2>4, CountIs
        <5> QED BY <5>1, <5>2, <5>3, CountIs
      <4> QED BY <4>1, <4>2
    <3> QED BY <1>2, <2>3, <3>1, <3>2, AllTickedIs
  <2> HIDE DEF all
  <2>8. ASSUME NEW j \in DOMAIN insts
        PROVE  IF j = D \/ j \in ticks THEN TickOf(insts[j], all[j]) ELSE all[j] = insts[j]
    <3>1. CASE j = D
      <4>1. all[j] = one[D]
        BY <2>6, <2>7, <3>1
      <4> QED BY <2>3, <3>1, <4>1
    <3>2. CASE j # D
      <4>1. one[j] = insts[j]
        BY <2>3, <3>2
      <4> QED BY <2>7, <3>2, <4>1
    <3> QED BY <3>1, <3>2
  <2>9. DOMAIN all = DOMAIN insts /\ all[D] = one[D]
    BY <1>2, <2>6, <2>7
  <2>10. ASSUME NEW j \in DOMAIN insts
         PROVE  /\ all[j] \in Inst /\ all[j].n \in Nat /\ all[j].made \in Nat /\ all[j].dt \in Nat \ {0}
                /\ all[j].call = insts[j].call /\ all[j].def = insts[j].def
                /\ all[j].subs = insts[j].subs /\ all[j].made = insts[j].made
                /\ all[j].next = insts[j].next /\ (all[j].active => insts[j].active)
                /\ all[j].n + all[j].made <= now + 1
    <3>1. all[j] \in Inst
      BY <1>2, <2>7
    <3>2. insts[j].n \in Nat /\ insts[j].made \in Nat /\ insts[j].n + insts[j].made <= now + 1
      BY <1>2, InstIs DEF Inv, AllSound, Sound
    <3>3. CASE j = D \/ j \in ticks
      <4>1. insts[j].n + insts[j].made <= now
        BY <2>2, <2>4, <3>3
      <4>2. TickOf(insts[j], all[j])
        BY <2>8, <3>3
      <4>3. all[j].n + all[j].made <= now + 1
        BY <1>2, <3>2, <4>1, <4>2 DEF TickOf
      <4> QED BY <3>1, <4>2, <4>3 DEF TickOf, Inst
    <3>4. CASE ~(j = D \/ j \in ticks)
      <4>1. all[j] = insts[j]
        BY <2>8, <3>4
      <4> QED BY <3>1, <3>2, <4>1 DEF Inst
    <3> QED BY <3>3, <3>4
  <2>11. seg.driver = D /\ seg.others = others
    OBVIOUS
  <2> HIDE DEF seg
  <2>12. Base(all, seg)
    <3>1. \A j \in DOMAIN all : all[j].n <= MaxTime + 1
      <4>1. DOMAIN all = DOMAIN insts
        BY <2>9
      <4> QED BY <1>2, <2>10, <4>1, SMTT(30)
    <3>2. owned \subseteq DOMAIN all /\ \A c \in Calls : reads[c].inst <= Len(all)
      BY <1>2, <2>7, <2>9 DEF Types
    <3>3. seg.driver \in 0..Len(all) /\ seg.others \subseteq DOMAIN all
      BY <1>2, <2>5, <2>7, <2>9, <2>11
    <3> QED BY <2>7, <3>1, <3>2, <3>3 DEF Base
  <2>13. e \in Evaluator /\ Upto(e, N, all, seg)
    BY <1>2, <2>12, EvaluationIs
  <2> HIDE DEF e, others, over
  <2> DEFINE L == Len(e.insts)
             nx == IF one[D].active THEN now + all[D].dt ELSE 0
             t == [all[D] EXCEPT !.next = nx]
  <2>14. /\ e.insts \in Seq(Inst) /\ L \in Nat /\ DOMAIN e.insts = 1..L /\ M <= L
         /\ e.reads \in [Calls -> Reading] /\ \A j \in DOMAIN insts : e.insts[j] = all[j]
    BY <2>7, <2>9, <2>13 DEF Evaluator, Upto
  <2>15. D \in 1..L /\ \A j \in 1..M : j \in 1..L
    BY <1>2, <2>14
  <2>16. /\ t \in Inst /\ t.call = insts[D].call /\ t.def = insts[D].def /\ t.subs = insts[D].subs
         /\ t.made = insts[D].made /\ t.n = all[D].n /\ t.dt = all[D].dt /\ t.age = all[D].age
         /\ t.active = all[D].active /\ t.next = nx /\ nx \in Nat
    <3>1. now + all[D].dt \in Nat
      BY <1>2, <2>10
    <3>2. nx \in Nat
      BY <3>1
    <3> HIDE DEF nx
    <3> QED BY <1>2, <2>10, <3>2 DEF Inst
  <2>17. /\ insts' \in Seq(Inst) /\ Len(insts') = L /\ DOMAIN insts' = 1..L
         /\ insts'[D] = t /\ \A j \in 1..L : j # D => insts'[j] = e.insts[j]
    <3>1. e.insts[D] = all[D] /\ all[D].next = now
      BY <1>2, <2>2, <2>10, <2>14
    <3>2. insts' = [e.insts EXCEPT ![D].next = IF one[D].active THEN @ + e.insts[D].dt ELSE 0]
      BY <2>1 DEF Rearmed
    <3>3. insts' = [e.insts EXCEPT ![D] = t]
      BY <3>1, <3>2
    <3> HIDE DEF t
    <3> QED BY <2>14, <2>15, <2>16, <3>3
  <2> HIDE DEF t
  <2>18. \A j \in DOMAIN insts : j # D => insts'[j] = all[j]
    BY <1>2, <2>14, <2>15, <2>17
  <2>19. ASSUME NEW j \in DOMAIN insts
         PROVE  /\ insts'[j].call = insts[j].call /\ insts'[j].def = insts[j].def
                /\ insts'[j].subs = insts[j].subs /\ insts'[j].made = insts[j].made
                /\ insts'[j].active => insts[j].active
                /\ insts'[j].n + insts'[j].made <= now + 1
    <3>1. CASE j = D
      BY <2>10, <2>16, <2>17, <3>1
    <3>2. CASE j # D
      BY <2>10, <2>18, <3>2
    <3> QED BY <3>1, <3>2
  <2>20. ASSUME NEW i \in 1..L, i \notin DOMAIN insts
         PROVE  insts'[i] = e.insts[i] /\ Created(e, i, N)
    <3>1. i # D /\ i \in Fresh(e, all)
      BY <1>2, <2>7, <2>14, <2>20 DEF Fresh
    <3> QED BY <2>13, <2>17, <3>1 DEF Upto
  <2>21. Types'
    <3>1. owned' \subseteq DOMAIN insts'
      BY <2>1, <2>13, <2>14, <2>17 DEF Upto
    <3>2. ASSUME NEW c \in Calls PROVE reads'[c].inst <= Len(insts')
      <4>1. CASE Live(c)
        <5>1. Given(e, c, all, seg)
          BY <1>2, <2>13, <4>1 DEF Upto
        <5> QED BY <2>1, <2>14, <2>17, <5>1 DEF Given
      <4>2. CASE ~Live(c)
        <5>1. e.reads[c] = reads[c]
          BY <2>13, <4>2 DEF Upto
        <5>2. reads[c].inst \in Nat /\ reads[c].inst <= M
          BY <1>2 DEF Types, Reading
        <5> QED BY <1>2, <2>1, <2>14, <2>17, <5>1, <5>2
      <4> QED BY <4>1, <4>2
    <3>3. driver' \in 0..Len(insts') /\ pool' = 1..driver' /\ driver' # 0
      BY <1>1, <1>2, <2>14, <2>15, <2>17
    <3>4. binding' \in Bindings /\ now' \in 0..MaxTime /\ running' \in BOOLEAN /\ Calls' = Calls
      BY <1>1, <1>2 DEF Types, Calls
    <3> QED BY <2>1, <2>14, <2>17, <3>1, <3>2, <3>3, <3>4 DEF Types
  <2>22. AllSound'
    <3> SUFFICES ASSUME NEW j \in 1..L PROVE Sound(insts, j)'
      BY <2>17 DEF AllSound
    <3>1. CASE j \in DOMAIN insts
      <4>1. Sound(insts, j)
        BY <3>1 DEF Inv, AllSound
      <4> QED BY <1>1, <2>19, <3>1, <4>1 DEF Sound, Calls
    <3>2. CASE j \notin DOMAIN insts
      <4>1. insts'[j] = e.insts[j] /\ Created(e, j, N)
        BY <2>20, <3>2
      <4>2. e.insts[j] \in Inst
        BY <2>14
      <4>3. e.insts[j].n + now <= now + 1 /\ now <= now
        <5>1. e.insts[j].n \in Nat /\ e.insts[j].n <= 1
          BY <4>1, <4>2 DEF Created, Inst
        <5> QED BY <1>2, <5>1
      <4> QED BY <1>1, <1>2, <4>1, <4>3 DEF Sound, Created, Calls
    <3> QED BY <3>1, <3>2
  <2>23. Armed'
    <3> SUFFICES ASSUME NEW j \in 1..L, insts'[j].next # 0
                 PROVE  /\ running /\ j \in e.owned
                        /\ insts'[j].next >= now
                        /\ insts'[j].n + insts'[j].dt + insts'[j].made <= insts'[j].next + 1
      BY <1>1, <2>1, <2>17 DEF Armed, Subscribed
    <3>1. owned \subseteq e.owned
      BY <2>13 DEF Upto
    <3>2. CASE j = D
      <4>1. t.next = now + t.dt /\ t.dt \in Nat \ {0} /\ t.n \in Nat /\ t.made \in Nat
            /\ t.n + t.made <= now + 1
        BY <1>2, <2>10, <2>16, <2>17, <3>2
      <4>2. t.next >= now /\ t.n + t.dt + t.made <= t.next + 1
        <5>1. now \in Nat
          BY <1>2
        <5>2. now + t.dt >= now
          BY <4>1, <5>1
        <5>3. t.n + t.dt + t.made <= (now + t.dt) + 1
          BY <4>1, <5>1, NextDue
        <5> QED BY <4>1, <5>2, <5>3
      <4>3. insts'[j] = t
        BY <2>17, <3>2
      <4>4. running /\ j \in e.owned
        BY <2>2, <3>1, <3>2
      <4> QED BY <4>2, <4>3, <4>4
    <3>3. CASE j # D /\ j \in DOMAIN insts
      <4>1. insts'[j] = all[j] /\ insts[j].next # 0
        BY <2>10, <2>18, <3>3
      <4>2. all[j] = insts[j]
        BY <2>4, <2>8, <3>3, <4>1
      <4>3. j \in Subscribed
        BY <3>3, <4>1 DEF Subscribed
      <4> QED BY <3>1, <4>1, <4>2, <4>3 DEF Inv, Armed
    <3>4. CASE j \notin DOMAIN insts
      <4>1. insts'[j] = e.insts[j] /\ Created(e, j, N) /\ e.insts[j] \in Inst
        BY <2>14, <2>20, <3>4
      <4>2. /\ e.insts[j].n \in Nat /\ e.insts[j].n <= 1 /\ e.insts[j].dt \in Nat \ {0}
            /\ e.insts[j].made = now /\ j \in e.owned /\ e.insts[j].next = now + e.insts[j].dt
        BY <4>1 DEF Created, Inst
      <4> QED BY <1>2, <2>2, <4>1, <4>2, FirstDue
    <3> QED BY <3>2, <3>3, <3>4
  <2>24. Together'
    <3> SUFFICES ASSUME insts'[D].next # 0, NEW j \in pool, insts'[j].active, insts'[j].next = 0
                 PROVE  insts'[j].n + insts'[D].dt + insts'[j].made <= insts'[D].next + 1
      BY <1>1 DEF Together
    <3>1. j \in DOMAIN insts /\ j # D
      BY <1>2
    <3>2. insts'[j] = all[j] /\ all[j].n \in Nat /\ all[j].made \in Nat
          /\ all[j].n + all[j].made <= now + 1
      BY <2>10, <2>18, <3>1
    <3>3. insts'[D].next = now + insts'[D].dt /\ insts'[D].dt \in Nat \ {0}
      BY <1>2, <2>10, <2>16, <2>17
    <3> QED BY <1>2, <3>2, <3>3, NextDue
  <2>25. Alone'
    <3> SUFFICES ASSUME NEW i \in pool, insts'[i].call = insts'[D].call PROVE i = D
      BY <1>1 DEF Alone
    <3>1. insts[i].call = insts[D].call
      BY <1>2, <2>19
    <3> QED BY <3>1 DEF Inv, Alone
  <2>26. OwnRead'
    <3> SUFFICES ASSUME NEW c \in Calls, \A x \in Calls \ {c} : binding[x].def # binding[c].def,
                        NEW i \in pool, FirstFor(c, i)', insts'[i].active
                 PROVE  e.reads[c].inst = i
      BY <1>1, <2>1 DEF OwnRead, Calls
    <3>1. \A j \in pool : j \in DOMAIN insts
      BY <1>2
    <3>2. FirstFor(c, i)
      BY <1>1, <2>19, <3>1 DEF FirstFor
    <3>3. i \in DOMAIN insts /\ insts[i].call = c /\ insts[i].active
      BY <2>19, <3>1, <3>2 DEF FirstFor
    <3>4. CASE ~Live(c)
      <4>1. e.reads[c] = reads[c]
        BY <2>13, <3>4 DEF Upto
      <4> QED BY <3>2, <3>3, <4>1 DEF Inv, OwnRead
    <3>5. CASE Live(c)
      <4>1. Given(e, c, all, seg)
        BY <1>2, <2>13, <3>5 DEF Upto
      <4>2. \A j \in DOMAIN insts : all[j].def = binding[c].def <=> insts[j].call = c
        <5> SUFFICES ASSUME NEW j \in DOMAIN insts
                     PROVE  all[j].def = binding[c].def <=> insts[j].call = c
          OBVIOUS
        <5>1. insts[j].call \in Calls /\ all[j].def = binding[insts[j].call].def
          BY <2>10 DEF Inv, AllSound, Sound
        <5> QED BY <5>1
      <4>3. CASE i = D
        <5>1. Found(all, c, seg) = D
          BY <1>1, <2>11, <3>3, <4>2, <4>3 DEF Found
        <5> QED BY <1>1, <4>1, <4>3, <5>1 DEF Given
      <4>4. CASE i # D
        <5>1. all[D].def # binding[c].def
          <6>1. insts[D].call # c
            BY <3>3, <4>4 DEF Inv, Alone
          <6> QED BY <1>2, <4>2, <6>1
        <5> DEFINE like == {j \in seg.others : all[j].def = binding[c].def}
        <5>2. i \in like
          BY <2>11, <3>3, <4>2, <4>4 DEF others
        <5>3. \A j \in like : j \in pool /\ i <= j
          <6> SUFFICES ASSUME NEW j \in like PROVE j \in pool /\ i <= j
            OBVIOUS
          <6>1. j \in pool /\ j \in DOMAIN insts
            BY <2>11, <3>1 DEF others
          <6>2. insts[j].call = c
            BY <4>2, <6>1
          <6> QED BY <3>2, <6>1, <6>2 DEF FirstFor
        <5>4. like \in SUBSET Nat
          BY <1>2, <5>3
        <5>5. Found(all, c, seg) = IF like = {} THEN 0 ELSE Min(like)
          BY <1>1, <2>11, <5>1 DEF Found
        <5> HIDE DEF like
        <5>6. Min(like) \in like /\ Min(like) <= i
          BY <5>2, <5>4, MinIn
        <5>7. Min(like) = i /\ i # 0
          <6>1. Min(like) \in Nat
            BY <5>4, <5>6
          <6>3. i \in Nat /\ i # 0
            BY <1>2, <3>3, InstIs
          <6>2. i <= Min(like)
            BY <5>3, <5>6
          <6> QED BY <5>6, <6>1, <6>2, <6>3
        <5>8. Found(all, c, seg) = i
          BY <5>2, <5>5, <5>7
        <5> QED BY <4>1, <5>7, <5>8 DEF Given
      <4> QED BY <4>3, <4>4
    <3> QED BY <3>4, <3>5
  <2>27. AgeIsElapsed'
    <3> SUFFICES ASSUME NEW j \in 1..L, insts'[j].next # 0, insts'[j].active
                 PROVE  insts'[j].made + insts'[j].age = insts'[j].next
      BY <2>17 DEF AgeIsElapsed, Subscribed
    <3>1. CASE j = D
      <4>1. all[D].age = insts[D].age + all[D].dt
        BY <1>2, <2>8 DEF TickOf
      <4>2. t.made = insts[D].made /\ t.age = insts[D].age + all[D].dt /\ t.next = now + all[D].dt
        BY <2>16, <2>17, <3>1, <4>1
      <4>3. insts[D].made \in Nat /\ insts[D].age \in Nat /\ all[D].dt \in Nat
        BY <1>2, <2>10, InstIs
      <4>4. insts'[j] = t /\ insts[D].made + insts[D].age = now
        BY <2>2, <2>17, <3>1
      <4>5. t.made + t.age = now + all[D].dt
        <5>1. \A x, y, z \in Nat : x + (y + z) = (x + y) + z
          OBVIOUS
        <5> QED BY <4>2, <4>3, <4>4, <5>1
      <4> QED BY <4>2, <4>4, <4>5
    <3>2. CASE j # D /\ j \in DOMAIN insts
      <4>1. insts'[j] = all[j] /\ insts[j].next # 0
        BY <2>10, <2>18, <3>2
      <4>2. all[j] = insts[j]
        BY <2>4, <2>8, <3>2, <4>1
      <4>3. j \in Subscribed
        BY <3>2, <4>1 DEF Subscribed
      <4> QED BY <4>1, <4>2, <4>3 DEF Inv, AgeIsElapsed
    <3>3. CASE j \notin DOMAIN insts
      BY <2>20, <3>3 DEF Created
    <3> QED BY <3>1, <3>2, <3>3
  <2> QED BY <2>21, <2>22, <2>23, <2>24, <2>25, <2>26, <2>27 DEF Inv
<1> QED BY <1>3, <1>4, <1>5

\* Every step keeps the invariant.
LEMMA NextInv == Inv /\ [Next]_vars => Inv'
<1> SUFFICES ASSUME Inv, [Next]_vars PROVE Inv'
  OBVIOUS
<1>1. CASE UNCHANGED vars
  <2>1. UNCHANGED <<binding, dur, now, insts, driver, pool, owned, reads, running>>
    BY <1>1 DEF vars
  <2>2. Types'
    BY <2>1 DEF Inv, Types, Calls
  <2>3. AllSound'
    BY <2>1 DEF Inv, AllSound, Sound, Calls
  <2>4. Armed' /\ Together' /\ Alone' /\ AgeIsElapsed'
    BY <2>1 DEF Inv, Armed, Together, Alone, AgeIsElapsed, Subscribed
  <2>5. OwnRead'
    BY <2>1 DEF Inv, OwnRead, FirstFor, Calls
  <2> QED BY <2>2, <2>3, <2>4, <2>5 DEF Inv
<1>2. CASE Next
  BY <1>2, StartInv, DriverTickInv, SubTickInv, StopInv, AdvanceInv DEF Next
<1> QED BY <1>1, <1>2

\* The inductive invariant holds.
THEOREM Invariance == Spec => []Inv
BY InitInv, NextInv, PTL DEF Spec

-----------------------------------------------------------------------------
(***************************************************************************)
(* Instances: the theorems                                                  *)
(***************************************************************************)

\* Whatever a binding calls and whenever it is evaluated again, a call whose
\* function no other call names goes on reading its own instance.
THEOREM CallsReadTheirOwn == Spec => []EachReadsItsOwn
<1>1. Inv => EachReadsItsOwn
  <2> SUFFICES ASSUME Inv, NEW c \in Calls,
                      \A d \in Calls \ {c} : binding[d].def # binding[c].def,
                      MadeFor(c) \cap pool # {},
                      insts[Min(MadeFor(c) \cap pool)].active
               PROVE  reads[c].inst = Min(MadeFor(c) \cap pool)
    BY DEF EachReadsItsOwn
  <2> DEFINE mine == MadeFor(c) \cap pool
  <2>1. mine \in SUBSET Nat /\ \A j \in pool : insts[j].call = c => j \in mine
    <3>1. pool = 1..driver /\ driver \in 0..Len(insts) /\ DOMAIN insts = 1..Len(insts)
          /\ Len(insts) \in Nat
      BY DEF Inv, Types
    <3> QED BY <3>1 DEF MadeFor
  <2>2. \A j \in mine : insts[j].call = c /\ j \in pool
    BY DEF MadeFor
  <2> HIDE DEF mine
  <2>3. Min(mine) \in mine /\ \A j \in mine : Min(mine) <= j
    BY <2>1, MinIn DEF mine
  <2>4. FirstFor(c, Min(mine)) /\ Min(mine) \in pool
    BY <2>1, <2>2, <2>3 DEF FirstFor
  <2>5. insts[Min(mine)].active
    BY DEF mine
  <2> QED BY <2>4, <2>5 DEF Inv, OwnRead, mine
<1> QED BY <1>1, Invariance, PTL

\* What an instance counts as its age is the time since it was made, however its
\* interval changes.
THEOREM AgesAreElapsed == Spec => []AgeIsElapsed
<1>1. Inv => AgeIsElapsed
  BY DEF Inv
<1> QED BY <1>1, Invariance, PTL

\* A stop takes down all that the evaluations of a binding have subscribed.
THEOREM StopIsComplete == Spec => []StopIsQuiet
<1>1. Inv => StopIsQuiet
  <2> SUFFICES ASSUME Inv PROVE StopIsQuiet
    OBVIOUS
  <2>1. Types /\ Len(insts) \in Nat
    BY DEF Inv, Types
  <2>2. \A i \in DOMAIN insts :
          /\ insts[i].call \in Calls /\ insts[i].dt > 0 /\ insts[i].made \in 0..now
          /\ insts[i].subs \subseteq 1..(i - 1)
    <3> SUFFICES ASSUME NEW i \in DOMAIN insts
                 PROVE  /\ insts[i].call \in Calls /\ insts[i].dt > 0 /\ insts[i].made \in 0..now
                        /\ insts[i].subs \subseteq 1..(i - 1)
      OBVIOUS
    <3>1. Sound(insts, i) /\ insts[i].dt \in Nat \ {0} /\ insts[i].made \in Nat /\ now \in Nat
      BY <2>1, InstIs, BindingIs DEF Inv, AllSound
    <3> QED BY <3>1 DEF Sound
  <2>3. \A c \in Calls : reads[c].inst \in 0..Len(insts)
    <3> SUFFICES ASSUME NEW c \in Calls PROVE reads[c].inst \in 0..Len(insts)
      OBVIOUS
    <3>1. reads[c].inst \in Nat /\ reads[c].inst <= Len(insts)
      BY <2>1 DEF Types, Reading
    <3> QED BY <2>1, <3>1
  <2>4. \A i \in Subscribed : insts[i].next >= now /\ running
    BY DEF Inv, Armed
  <2> QED BY <2>1, <2>2, <2>3, <2>4 DEF StopIsQuiet, TypeOK, Types
<1> QED BY <1>1, Invariance, PTL

-----------------------------------------------------------------------------
(***************************************************************************)
(* Segments: sequences                                                      *)
(***************************************************************************)

\* The least of some numbers.
LEMMA LeastExists ==
  ASSUME NEW T \in SUBSET Nat, T # {}
  PROVE  \E k \in T : \A m \in T : k <= m
<1> DEFINE R == {ss \in Nat \X Nat : ss[1] < ss[2]}
<1>1. IsWellFoundedOn(R, Nat)
  BY NatLessThanWellFounded DEF OpToRel
<1>2. PICK k \in T : \A m \in T : ~(<<m, k>> \in R)
  <2> HIDE DEF R
  <2> QED BY <1>1, WFMin
<1>3. ASSUME NEW m \in T PROVE k <= m
  <2>1. m \in Nat /\ k \in Nat /\ ~(<<m, k>> \in R)
    BY <1>2
  <2> QED BY <2>1
<1> QED BY <1>3

\* q is what stands at the places K of s.
Selection(q, s, K) ==
    \E o \in [1..Len(q) -> K] :
        /\ \A j \in 1..Len(q) : q[j] = s[o[j]]
        /\ \A i, j \in 1..Len(q) : i < j => o[i] < o[j]
        /\ \A k \in K : \E j \in 1..Len(q) : o[j] = k

Chosen(q, s, K, k) == IF k \in K THEN Append(q, s[k]) ELSE q

\* One more place.
LEMMA ChosenIs ==
  ASSUME NEW S, NEW s \in Seq(S), NEW k \in 1..Len(s), NEW K \in SUBSET (1..Len(s)),
         NEW q \in Seq(S), Selection(q, s, K \cap 1..(k - 1))
  PROVE  /\ Chosen(q, s, K, k) \in Seq(S)
         /\ Selection(Chosen(q, s, K, k), s, K \cap 1..k)
<1>1. PICK o \in [1..Len(q) -> K \cap 1..(k - 1)] :
        /\ \A j \in 1..Len(q) : q[j] = s[o[j]]
        /\ \A i, j \in 1..Len(q) : i < j => o[i] < o[j]
        /\ \A m \in K \cap 1..(k - 1) : \E j \in 1..Len(q) : o[j] = m
  BY DEF Selection
<1>2. k \in Nat \ {0} /\ s[k] \in S /\ Len(q) \in Nat
  OBVIOUS
<1>3. CASE k \notin K
  <2>1. K \cap 1..k = K \cap 1..(k - 1)
    BY <1>2, <1>3
  <2> QED BY <1>3, <2>1 DEF Chosen
<1>4. CASE k \in K
  <2> DEFINE n == Len(q)
             r == Append(q, s[k])
             w == [j \in 1..(n + 1) |-> IF j = n + 1 THEN k ELSE o[j]]
  <2>1. r \in Seq(S) /\ Len(r) = n + 1 /\ r[n + 1] = s[k] /\ \A j \in 1..n : r[j] = q[j]
    BY <1>2
  <2>2. \A j \in 1..(n + 1) : j = n + 1 \/ j \in 1..n
    BY <1>2
  <2>3. \A j \in 1..n : o[j] \in K /\ o[j] \in 1..(k - 1) /\ o[j] \in 1..k /\ o[j] < k
    <3>1. \A j \in 1..n : o[j] \in K \cap 1..(k - 1)
      OBVIOUS
    <3> QED BY <1>2, <3>1
  <2>4. w \in [1..(n + 1) -> K \cap 1..k]
    BY <1>2, <1>4, <2>2, <2>3
  <2>5. w[n + 1] = k /\ \A j \in 1..n : w[j] = o[j]
    BY <1>2
  <2> HIDE DEF w, r
  <2>6. \A j \in 1..(n + 1) : r[j] = s[w[j]]
    BY <1>1, <2>1, <2>2, <2>5
  <2>7. ASSUME NEW i \in 1..(n + 1), NEW j \in 1..(n + 1), i < j
        PROVE  w[i] < w[j]
    <3>1. i \in 1..n
      BY <1>2, <2>7
    <3>2. CASE j = n + 1
      BY <2>3, <2>5, <3>1, <3>2
    <3>3. CASE j # n + 1
      <4>1. j \in 1..n
        BY <2>2, <3>3
      <4>2. o[i] < o[j]
        BY <1>1, <2>7, <3>1, <4>1
      <4> QED BY <2>5, <3>1, <4>1, <4>2
    <3> QED BY <3>2, <3>3
  <2>8. ASSUME NEW m \in K \cap 1..k PROVE \E j \in 1..(n + 1) : w[j] = m
    <3>1. CASE m = k
      <4>1. n + 1 \in 1..(n + 1)
        BY <1>2
      <4> QED BY <2>5, <3>1, <4>1
    <3>2. CASE m # k
      <4>1. m \in K \cap 1..(k - 1)
        BY <1>2, <3>2
      <4>2. PICK j \in 1..n : o[j] = m
        BY <1>1, <4>1
      <4>3. j \in 1..(n + 1)
        BY <1>2
      <4> QED BY <2>5, <4>2, <4>3
    <3> QED BY <3>1, <3>2
  <2>9. Selection(r, s, K \cap 1..k)
    <3>1. Len(r) = n + 1 /\ \A j \in 1..(n + 1) : r[j] = s[w[j]]
      BY <2>1, <2>6
    <3>2. \A i, j \in 1..(n + 1) : i < j => w[i] < w[j]
      BY <2>7
    <3>3. \A m \in K \cap 1..k : \E j \in 1..(n + 1) : w[j] = m
      BY <2>8
    <3>4. w \in [1..Len(r) -> K \cap 1..k]
      BY <2>4, <3>1, Zenon
    <3>5. \A j \in 1..Len(r) : r[j] = s[w[j]]
      BY <3>1, Zenon
    <3>6. \A i, j \in 1..Len(r) : i < j => w[i] < w[j]
      BY <3>1, <3>2, Zenon
    <3>7. \A m \in K \cap 1..k : \E j \in 1..Len(r) : w[j] = m
      BY <3>1, <3>3, Zenon
    <3> QED BY <3>4, <3>5, <3>6, <3>7, Zenon DEF Selection
  <2> QED BY <1>4, <2>1, <2>9 DEF Chosen, r
<1> QED BY <1>3, <1>4

\* Picked() picks.
LEMMA PickedIs ==
  ASSUME NEW S, NEW s \in Seq(S), NEW K \in SUBSET (1..Len(s)),
         NEW q, q = Picked(s, K)
  PROVE  q \in Seq(S) /\ Selection(q, s, K)
<1> DEFINE N == Len(s)
           U == Seq(S)
           V == [k \in 0..N |-> {v \in U : Selection(v, s, K \cap 1..k)}]
           Step == [p \in (1..N) \X U |-> Chosen(p[2], s, K, p[1])]
           Body(f) == [k \in 0..N |-> IF k = 0 THEN <<>> ELSE Chosen(f[k - 1], s, K, k)]
<1>1. N \in Nat
  OBVIOUS
<1>2. <<>> \in V[0]
  <2>1. <<>> \in Seq(S) /\ Len(<<>>) = 0 /\ 1..0 = {}
    OBVIOUS
  <2>2. [j \in {} |-> 0] \in [{} -> K \cap {}]
    OBVIOUS
  <2>3. Selection(<<>>, s, K \cap 1..0)
    BY <2>1, <2>2 DEF Selection
  <2> QED BY <2>1, <2>3
<1>3. ASSUME NEW k \in 1..N, NEW v \in V[k - 1]
      PROVE  Chosen(v, s, K, k) \in V[k]
  <2>1. k - 1 \in 0..N /\ k \in 0..N
    BY <1>1
  <2>2. v \in Seq(S) /\ Selection(v, s, K \cap 1..(k - 1))
    BY <2>1
  <2>3. Chosen(v, s, K, k) \in Seq(S) /\ Selection(Chosen(v, s, K, k), s, K \cap 1..k)
    BY <2>2, ChosenIs
  <2> QED BY <2>1, <2>3
<1>4. \A k \in 0..N : V[k] \subseteq U
  OBVIOUS
<1>5. ASSUME NEW k \in 1..N, NEW v \in V[k - 1]
      PROVE  Step[<<k, v>>] = Chosen(v, s, K, k)
  <2>1. k - 1 \in 0..N
    BY <1>1
  <2>2. v \in U
    BY <2>1, <1>4
  <2>3. <<k, v>> \in (1..N) \X U
    BY <2>2
  <2> HIDE DEF U
  <2> QED BY <2>3
<1> HIDE DEF V, Step
<1>6. PICK f : Records(f, N, V, <<>>, Step)
  <2>1. Closed(N, U, V, <<>>, Step)
    <3>1. \A k \in 1..N : \A v \in V[k - 1] : Step[<<k, v>>] \in V[k]
      BY <1>3, <1>5
    <3> HIDE DEF U
    <3> QED BY <1>1, <1>2, <1>4, <3>1 DEF Closed
  <2> HIDE DEF U, N
  <2> QED BY <2>1, StepsExist
<1>7. f = Body(f)
  <2>1. f = [k \in 0..N |-> f[k]] /\ f[0] = <<>>
        /\ \A k \in 1..N : f[k] = Chosen(f[k - 1], s, K, k)
    BY <1>5, <1>6 DEF Records
  <2>2. \A k \in 0..N : k # 0 => k \in 1..N
    BY <1>1
  <2> QED BY <2>1, <2>2
<1> DEFINE h == CHOOSE g : g = Body(g)
<1>8. h = Body(h)
  <2> HIDE DEF Body
  <2> QED BY <1>7
<1>9. q = h[N]
  BY DEF Picked, Chosen
<1> HIDE DEF h
<1>10. h[0] \in V[0] /\ \A k \in 1..N : h[k] = Chosen(h[k - 1], s, K, k)
  <2>1. 0 \in 0..N /\ \A k \in 1..N : k \in 0..N /\ k # 0
    BY <1>1
  <2> QED BY <1>2, <1>8, <2>1
<1>11. \A k \in 0..N : h[k] \in V[k]
  <2>1. \A k \in 1..N : h[k - 1] \in V[k - 1] => h[k] \in V[k]
    BY <1>3, <1>10
  <2> QED BY <1>1, <1>10, <2>1, Stepwise
<1>12. q \in U /\ Selection(q, s, K \cap 1..N)
  <2>1. N \in 0..N
    BY <1>1
  <2> QED BY <1>9, <1>11, <2>1 DEF V
<1>13. K \cap 1..N = K
  OBVIOUS
<1> QED BY <1>12, <1>13

Single(s) == \A i, j \in DOMAIN s : s[i] = s[j] => i = j

\* Every y of s has an x before it.
Precedes(s, x, y) == \A j \in DOMAIN s : s[j] = y => \E i \in DOMAIN s : i < j /\ s[i] = x

\* Every x of s is before every y.
Ahead(s, x, y) == \A i, j \in DOMAIN s : s[i] = x /\ s[j] = y => i < j

\* What is picked is what stood there,
LEMMA PickedContains ==
  ASSUME NEW S, NEW s \in Seq(S), NEW K \in SUBSET (1..Len(s)), NEW x
  PROVE  Contains(Picked(s, K), x) <=> \E k \in K : s[k] = x
<1> DEFINE q == Picked(s, K)
<1> HIDE DEF q
<1>1. q \in Seq(S) /\ Selection(q, s, K)
  BY PickedIs DEF q
<1>2. Len(q) \in Nat /\ DOMAIN q = 1..Len(q) /\ \A k \in K : k \in DOMAIN s /\ k \in Nat
  BY <1>1
<1>3. PICK o \in [1..Len(q) -> K] :
        /\ \A j \in 1..Len(q) : q[j] = s[o[j]]
        /\ \A k \in K : \E j \in 1..Len(q) : o[j] = k
  BY <1>1 DEF Selection
<1>4. ASSUME NEW j \in 1..Len(q), q[j] = x PROVE \E k \in K : s[k] = x
  <2>1. o[j] \in K /\ q[j] = s[o[j]]
    BY <1>3
  <2> QED BY <1>4, <2>1
<1>5. ASSUME NEW k \in K, s[k] = x PROVE \E j \in 1..Len(q) : q[j] = x
  <2>1. PICK j \in 1..Len(q) : o[j] = k
    BY <1>3
  <2> QED BY <1>3, <1>5, <2>1
<1> QED BY <1>4, <1>5 DEF q, Contains

\* as often as it was,
LEMMA PickedSingle ==
  ASSUME NEW S, NEW s \in Seq(S), NEW K \in SUBSET (1..Len(s)),
         \A i, j \in K : s[i] = s[j] => i = j
  PROVE  Single(Picked(s, K))
<1> DEFINE q == Picked(s, K)
<1> HIDE DEF q
<1>1. q \in Seq(S) /\ Selection(q, s, K)
  BY PickedIs DEF q
<1>2. Len(q) \in Nat /\ DOMAIN q = 1..Len(q) /\ \A k \in K : k \in DOMAIN s /\ k \in Nat
  BY <1>1
<1>3. PICK o \in [1..Len(q) -> K] :
        /\ \A j \in 1..Len(q) : q[j] = s[o[j]]
        /\ \A i, j \in 1..Len(q) : i < j => o[i] < o[j]
  BY <1>1 DEF Selection
<1>4. ASSUME NEW i \in 1..Len(q), NEW j \in 1..Len(q), q[i] = q[j]
      PROVE  i = j
  <2>1. o[i] \in K /\ o[j] \in K /\ s[o[i]] = s[o[j]]
    BY <1>3, <1>4
  <2>2. o[i] = o[j]
    BY <2>1
  <2>3. i \in Nat /\ j \in Nat /\ o[i] \in Nat
    <3>1. o[i] \in Nat
      BY <1>2, <2>1
    <3> QED BY <3>1
  <2>4. ~(i < j) /\ ~(j < i)
    BY <1>3, <2>2, <2>3
  <2> QED BY <2>3, <2>4
<1> QED BY <1>2, <1>4 DEF q, Single

\* and where it was.
LEMMA PickedAhead ==
  ASSUME NEW S, NEW s \in Seq(S), NEW K \in SUBSET (1..Len(s)), NEW x, NEW y, Ahead(s, x, y)
  PROVE  Ahead(Picked(s, K), x, y)
<1> DEFINE q == Picked(s, K)
<1> HIDE DEF q
<1>1. q \in Seq(S) /\ Selection(q, s, K)
  BY PickedIs DEF q
<1>2. Len(q) \in Nat /\ DOMAIN q = 1..Len(q) /\ \A k \in K : k \in DOMAIN s /\ k \in Nat
  BY <1>1
<1>3. PICK o \in [1..Len(q) -> K] :
        /\ \A j \in 1..Len(q) : q[j] = s[o[j]]
        /\ \A i, j \in 1..Len(q) : i < j => o[i] < o[j]
  BY <1>1 DEF Selection
<1>4. ASSUME NEW i \in 1..Len(q), NEW j \in 1..Len(q), q[i] = x, q[j] = y
      PROVE  i < j
  <2>1. o[i] \in K /\ o[j] \in K /\ s[o[i]] = x /\ s[o[j]] = y
    BY <1>3, <1>4
  <2>2. o[i] < o[j]
    BY <1>2, <2>1 DEF Ahead
  <2>3. i \in Nat /\ j \in Nat /\ o[i] \in Nat /\ o[j] \in Nat
    <3>1. o[i] \in Nat /\ o[j] \in Nat
      BY <1>2, <2>1
    <3> QED BY <3>1
  <2>4. ~(j < i) /\ i # j
    BY <1>3, <2>2, <2>3
  <2> QED BY <2>3, <2>4
<1> QED BY <1>2, <1>4 DEF q, Ahead

\* If an x is picked before every y that is, they stay so.
LEMMA PickedPrecedes ==
  ASSUME NEW S, NEW s \in Seq(S), NEW K \in SUBSET (1..Len(s)), NEW x, NEW y,
         \A j \in K : s[j] = y => \E i \in K : i < j /\ s[i] = x
  PROVE  Precedes(Picked(s, K), x, y)
<1> DEFINE q == Picked(s, K)
<1> HIDE DEF q
<1>1. q \in Seq(S) /\ Selection(q, s, K)
  BY PickedIs DEF q
<1>2. Len(q) \in Nat /\ DOMAIN q = 1..Len(q) /\ \A k \in K : k \in DOMAIN s /\ k \in Nat
  BY <1>1
<1>3. PICK o \in [1..Len(q) -> K] :
        /\ \A j \in 1..Len(q) : q[j] = s[o[j]]
        /\ \A i, j \in 1..Len(q) : i < j => o[i] < o[j]
        /\ \A k \in K : \E j \in 1..Len(q) : o[j] = k
  BY <1>1 DEF Selection
<1>4. ASSUME NEW j \in 1..Len(q), q[j] = y
      PROVE  \E i \in 1..Len(q) : i < j /\ q[i] = x
  <2>1. o[j] \in K /\ s[o[j]] = y
    BY <1>3, <1>4
  <2>2. PICK k \in K : k < o[j] /\ s[k] = x
    BY <2>1
  <2>3. PICK i \in 1..Len(q) : o[i] = k
    BY <1>3
  <2>4. i \in Nat /\ j \in Nat /\ o[i] \in Nat /\ o[j] \in Nat
    <3>1. o[i] \in Nat /\ o[j] \in Nat
      BY <1>2, <2>1, <2>3
    <3> QED BY <3>1
  <2>5. o[i] < o[j]
    BY <2>2, <2>3
  <2>6. ~(j < i) /\ i # j
    BY <1>3, <2>4, <2>5
  <2>7. i < j
    BY <2>4, <2>6
  <2> QED BY <1>3, <2>2, <2>3, <2>7
<1> QED BY <1>2, <1>4 DEF q, Precedes

\* What occurs once and has an x before its y has every x there.
LEMMA SingleAhead ==
  ASSUME NEW s, Single(s), NEW x, NEW y, Precedes(s, x, y)
  PROVE  Ahead(s, x, y)
BY DEF Single, Precedes, Ahead

\* The first of what is equal.
LEMMA FirstExists ==
  ASSUME NEW S, NEW s \in Seq(S), NEW i \in DOMAIN s
  PROVE  \E k \in DOMAIN s : /\ k <= i /\ s[k] = s[i]
                             /\ \A m \in DOMAIN s : m < k => s[m] # s[k]
<1> DEFINE T == {m \in DOMAIN s : m <= i /\ s[m] = s[i]}
<1>1. \A m \in DOMAIN s : m \in Nat
  OBVIOUS
<1>2. T \in SUBSET Nat /\ i \in T
  BY <1>1
<1>3. PICK k \in T : \A m \in T : k <= m
  <2> HIDE DEF T
  <2> QED BY <1>2, LeastExists
<1>4. k \in DOMAIN s /\ k <= i /\ s[k] = s[i]
  OBVIOUS
<1>5. ASSUME NEW m \in DOMAIN s, m < k PROVE s[m] # s[k]
  <2> SUFFICES ASSUME s[m] = s[k] PROVE FALSE
    OBVIOUS
  <2>1. m \in Nat /\ k \in Nat /\ i \in Nat
    BY <1>1, <1>4
  <2>2. m <= i
    BY <1>4, <1>5, <2>1
  <2>3. m \in T
    BY <1>4, <2>2
  <2>4. k <= m
    BY <1>3, <2>3
  <2> QED BY <1>5, <2>1, <2>4
<1> QED BY <1>4, <1>5

\* Without the later ones of what is equal the same is left, each once, and what
\* was preceded still is.
LEMMA DeduplicatedIs ==
  ASSUME NEW S, NEW s \in Seq(S), NEW q, q = Deduplicated(s)
  PROVE  /\ q \in Seq(S) /\ Single(q)
         /\ \A x : Contains(q, x) <=> Contains(s, x)
         /\ \A x, y : Precedes(s, x, y) => Precedes(q, x, y)
<1> DEFINE K == {j \in DOMAIN s : \A i \in DOMAIN s : i < j => s[i] # s[j]}
<1>1. K \in SUBSET (1..Len(s)) /\ q = Picked(s, K) /\ DOMAIN s = 1..Len(s)
  BY DEF Deduplicated
<1>2. \A j \in K : j \in DOMAIN s /\ \A i \in DOMAIN s : i < j => s[i] # s[j]
  OBVIOUS
<1>3. \A j \in DOMAIN s : (\A i \in DOMAIN s : i < j => s[i] # s[j]) => j \in K
  OBVIOUS
<1> HIDE DEF K
<1>4. q \in Seq(S)
  BY <1>1, PickedIs
<1>5. Single(q)
  <2>1. ASSUME NEW i \in K, NEW j \in K, s[i] = s[j] PROVE i = j
    <3>1. i \in DOMAIN s /\ j \in DOMAIN s /\ ~(i < j) /\ ~(j < i)
      BY <1>2, <2>1
    <3>2. i \in Nat /\ j \in Nat
      BY <3>1
    <3> QED BY <3>1, <3>2
  <2> QED BY <1>1, <2>1, PickedSingle
<1>6. ASSUME NEW i \in DOMAIN s
      PROVE  \E k \in K : k <= i /\ s[k] = s[i]
  <2>1. PICK k \in DOMAIN s : /\ k <= i /\ s[k] = s[i]
                              /\ \A m \in DOMAIN s : m < k => s[m] # s[k]
    BY FirstExists
  <2>2. k \in K
    BY <1>3, <2>1
  <2> QED BY <2>1, <2>2
<1>7. ASSUME NEW x PROVE Contains(q, x) <=> Contains(s, x)
  <2>1. Contains(q, x) <=> \E k \in K : s[k] = x
    BY <1>1, PickedContains
  <2>2. Contains(s, x) <=> \E i \in DOMAIN s : s[i] = x
    BY <1>1 DEF Contains
  <2>3. (\E k \in K : s[k] = x) <=> \E i \in DOMAIN s : s[i] = x
    <3>1. ASSUME NEW i \in DOMAIN s, s[i] = x PROVE \E k \in K : s[k] = x
      BY <1>6, <3>1
    <3> QED BY <1>2, <3>1
  <2> QED BY <2>1, <2>2, <2>3
<1>8. ASSUME NEW x, NEW y, Precedes(s, x, y) PROVE Precedes(q, x, y)
  <2>1. ASSUME NEW j \in K, s[j] = y PROVE \E i \in K : i < j /\ s[i] = x
    <3>1. PICK i \in DOMAIN s : i < j /\ s[i] = x
      BY <1>2, <1>8, <2>1 DEF Precedes
    <3>2. PICK k \in K : k <= i /\ s[k] = s[i]
      BY <1>6
    <3>3. k \in Nat /\ i \in Nat /\ j \in Nat
      <4>1. k \in DOMAIN s /\ j \in DOMAIN s
        BY <1>2
      <4> QED BY <4>1
    <3>4. k < j
      BY <3>1, <3>2, <3>3
    <3> QED BY <3>1, <3>2, <3>4
  <2> QED BY <1>1, <2>1, PickedPrecedes
<1> QED BY <1>4, <1>5, <1>7, <1>8

\* Some lists one after the other: every y of the k-th has an x before it, in the
\* same list or in an earlier one.
LedBy(lists, k, x, y) ==
    \A j \in DOMAIN lists[k] : lists[k][j] = y =>
        \/ \E i \in DOMAIN lists[k] : i < j /\ lists[k][i] = x
        \/ \E m \in 1..(k - 1) : Contains(lists[m], x)

Led(lists, n, x, y) == \A k \in 1..n : LedBy(lists, k, x, y)

\* s is the first k of the lists, as far as that goes.
Flat(s, lists, k) ==
    /\ \A x : Contains(s, x) <=> \E m \in 1..k : Contains(lists[m], x)
    /\ \A x, y : Led(lists, k, x, y) => Precedes(s, x, y)

\* What two sequences contain, the second behind the first.
LEMMA ConcatContains ==
  ASSUME NEW S, NEW s \in Seq(S), NEW t \in Seq(S), NEW x
  PROVE  Contains(s \o t, x) <=> Contains(s, x) \/ Contains(t, x)
<1>1. Len(s) \in Nat /\ Len(t) \in Nat /\ Len(s \o t) = Len(s) + Len(t)
  OBVIOUS
<1>2. \A i \in 1..Len(s) : i \in 1..(Len(s) + Len(t)) /\ (s \o t)[i] = s[i]
  OBVIOUS
<1>3. \A j \in 1..Len(t) : Len(s) + j \in 1..(Len(s) + Len(t)) /\ (s \o t)[Len(s) + j] = t[j]
  OBVIOUS
<1>4. \A i \in 1..(Len(s) + Len(t)) :
         i \in 1..Len(s) \/ \E j \in 1..Len(t) : i = Len(s) + j
  <2>1. ASSUME NEW i \in 1..(Len(s) + Len(t)), i \notin 1..Len(s)
        PROVE  \E j \in 1..Len(t) : i = Len(s) + j
    <3>1. i - Len(s) \in 1..Len(t) /\ i = Len(s) + (i - Len(s))
      BY <1>1, <2>1
    <3> QED BY <3>1
  <2> QED BY <2>1
<1>5. ASSUME NEW i \in 1..(Len(s) + Len(t)), (s \o t)[i] = x
      PROVE  (\E k \in 1..Len(s) : s[k] = x) \/ (\E k \in 1..Len(t) : t[k] = x)
  BY <1>2, <1>3, <1>4, <1>5
<1>6. ASSUME NEW i \in 1..Len(s), s[i] = x
      PROVE  \E k \in 1..(Len(s) + Len(t)) : (s \o t)[k] = x
  BY <1>2, <1>6
<1>7. ASSUME NEW j \in 1..Len(t), t[j] = x
      PROVE  \E k \in 1..(Len(s) + Len(t)) : (s \o t)[k] = x
  BY <1>3, <1>7
<1> QED BY <1>1, <1>5, <1>6, <1>7 DEF Contains

\* What stays preceded when a list is put behind.
LEMMA ConcatPrecedes ==
  ASSUME NEW S, NEW s \in Seq(S), NEW t \in Seq(S), NEW x, NEW y, Precedes(s, x, y),
         \A j \in DOMAIN t : t[j] = y =>
            (\E i \in DOMAIN t : i < j /\ t[i] = x) \/ Contains(s, x)
  PROVE  Precedes(s \o t, x, y)
<1> DEFINE n == Len(s)
           u == s \o t
<1>1. n \in Nat /\ Len(t) \in Nat /\ DOMAIN u = 1..(n + Len(t))
      /\ DOMAIN s = 1..n /\ DOMAIN t = 1..Len(t)
  OBVIOUS
<1>2. \A i \in 1..n : i \in 1..(n + Len(t)) /\ u[i] = s[i]
  OBVIOUS
<1>3. \A j \in 1..Len(t) : n + j \in 1..(n + Len(t)) /\ u[n + j] = t[j]
  OBVIOUS
<1> HIDE DEF u, n
<1>4. ASSUME NEW j \in 1..(n + Len(t)), u[j] = y
      PROVE  \E i \in 1..(n + Len(t)) : i < j /\ u[i] = x
  <2>1. CASE j \in 1..n
    <3>1. s[j] = y
      BY <1>2, <1>4, <2>1
    <3>2. PICK i \in 1..n : i < j /\ s[i] = x
      BY <1>1, <2>1, <3>1 DEF Precedes
    <3> QED BY <1>2, <3>2
  <2>2. CASE j \notin 1..n
    <3> DEFINE k == j - n
    <3>1. k \in 1..Len(t) /\ j = n + k
      BY <1>1, <2>2
    <3> HIDE DEF k
    <3>2. t[k] = y
      BY <1>3, <1>4, <3>1
    <3>3. CASE Contains(s, x)
      <4>1. PICK i \in 1..n : s[i] = x
        BY <3>3 DEF Contains, n
      <4>2. i < j
        BY <1>1, <3>1, <4>1
      <4> QED BY <1>2, <4>1, <4>2
    <3>4. CASE \E i \in 1..Len(t) : i < k /\ t[i] = x
      <4>1. PICK i \in 1..Len(t) : i < k /\ t[i] = x
        BY <3>4
      <4>2. n + i < j
        BY <1>1, <3>1, <4>1
      <4> QED BY <1>3, <4>1, <4>2
    <3> QED BY <1>1, <3>1, <3>2, <3>3, <3>4
  <2> QED BY <2>1, <2>2
<1> QED BY <1>1, <1>4 DEF Precedes, u

\* One more list.
LEMMA FlatStep ==
  ASSUME NEW S, NEW lists \in Seq(Seq(S)), NEW k \in 1..Len(lists), NEW s \in Seq(S),
         Flat(s, lists, k - 1)
  PROVE  s \o lists[k] \in Seq(S) /\ Flat(s \o lists[k], lists, k)
<1> DEFINE t == lists[k]
<1>1. t \in Seq(S) /\ k \in Nat \ {0}
  OBVIOUS
<1>2. \A m \in 1..k : m = k \/ m \in 1..(k - 1)
  OBVIOUS
<1>3. \A m \in 1..(k - 1) : m \in 1..k
  OBVIOUS
<1>4. k \in 1..k
  OBVIOUS
<1>5. \A x : Contains(s, x) <=> \E m \in 1..(k - 1) : Contains(lists[m], x)
  BY DEF Flat
<1>6. ASSUME NEW x PROVE Contains(s \o t, x) <=> \E m \in 1..k : Contains(lists[m], x)
  <2> HIDE DEF t
  <2>1. Contains(s \o t, x) <=> Contains(s, x) \/ Contains(t, x)
    BY <1>1, ConcatContains
  <2>2. t = lists[k]
    BY DEF t
  <2> QED BY <1>2, <1>3, <1>4, <1>5, <2>1, <2>2
<1>7. ASSUME NEW x, NEW y, Led(lists, k, x, y) PROVE Precedes(s \o t, x, y)
  <2>1. Led(lists, k - 1, x, y) /\ LedBy(lists, k, x, y)
    BY <1>3, <1>4, <1>7 DEF Led
  <2>2. Precedes(s, x, y)
    BY <2>1 DEF Flat
  <2>3. \A j \in DOMAIN t : t[j] = y =>
            (\E i \in DOMAIN t : i < j /\ t[i] = x) \/ Contains(s, x)
    BY <1>5, <2>1 DEF LedBy
  <2> HIDE DEF t
  <2> QED BY <1>1, <2>2, <2>3, ConcatPrecedes
<1>8. Flat(s \o t, lists, k)
  <2> HIDE DEF t
  <2> QED BY <1>6, <1>7 DEF Flat
<1> QED BY <1>1, <1>8

\* FlattenSeq() flattens.
LEMMA FlattenSeqIs ==
  ASSUME NEW S, NEW lists \in Seq(Seq(S)), Len(lists) # 0, NEW q, q = FlattenSeq(lists)
  PROVE  q \in Seq(S) /\ Flat(q, lists, Len(lists))
<1> DEFINE N == Len(lists)
           U == Seq(S)
           V == [k \in 0..N |-> {v \in U : Flat(v, lists, k)}]
           Step == [p \in (1..N) \X U |-> p[2] \o lists[p[1]]]
           Body(f) == [i \in 1..N |-> IF i = 1 THEN lists[i] ELSE f[i - 1] \o lists[i]]
<1>1. N \in Nat \ {0} /\ \A k \in 1..N : lists[k] \in Seq(S)
  OBVIOUS
<1>2. <<>> \in V[0]
  <2>1. <<>> \in Seq(S) /\ \A x : ~Contains(<<>>, x)
    BY DEF Contains
  <2>2. \A x, y : Precedes(<<>>, x, y)
    BY DEF Precedes
  <2>3. Flat(<<>>, lists, 0)
    BY <2>1, <2>2 DEF Flat
  <2> QED BY <1>1, <2>1, <2>3
<1>3. ASSUME NEW k \in 1..N, NEW v \in V[k - 1]
      PROVE  v \o lists[k] \in V[k]
  <2>1. k - 1 \in 0..N /\ k \in 0..N
    BY <1>1
  <2>2. v \in Seq(S) /\ Flat(v, lists, k - 1)
    BY <2>1
  <2>3. v \o lists[k] \in Seq(S) /\ Flat(v \o lists[k], lists, k)
    BY <2>2, FlatStep
  <2> QED BY <2>1, <2>3
<1>4. \A k \in 0..N : V[k] \subseteq U
  OBVIOUS
<1>5. ASSUME NEW k \in 1..N, NEW v \in V[k - 1]
      PROVE  Step[<<k, v>>] = v \o lists[k]
  <2>1. k - 1 \in 0..N
    BY <1>1
  <2>2. v \in U
    BY <2>1, <1>4
  <2>3. <<k, v>> \in (1..N) \X U
    BY <2>2
  <2> HIDE DEF U
  <2> QED BY <2>3
<1> HIDE DEF V, Step
<1>6. PICK f : Records(f, N, V, <<>>, Step)
  <2>1. Closed(N, U, V, <<>>, Step)
    <3>1. \A k \in 1..N : \A v \in V[k - 1] : Step[<<k, v>>] \in V[k]
      BY <1>3, <1>5
    <3> HIDE DEF U
    <3> QED BY <1>1, <1>2, <1>4, <3>1 DEF Closed
  <2> HIDE DEF U, N
  <2> QED BY <2>1, StepsExist
<1>7. [k \in 1..N |-> f[k]] = Body([k \in 1..N |-> f[k]])
  <2> DEFINE g == [k \in 1..N |-> f[k]]
  <2>1. f[0] = <<>> /\ \A k \in 1..N : f[k] = f[k - 1] \o lists[k]
    BY <1>5, <1>6 DEF Records
  <2>2. 1 \in 1..N /\ lists[1] \in Seq(S)
    BY <1>1
  <2>3. <<>> \o lists[1] = lists[1]
    BY <2>2
  <2>4. f[1] = lists[1]
    <3>1. f[1] = f[1 - 1] \o lists[1] /\ 1 - 1 = 0
      <4>1. f[1] = f[1 - 1] \o lists[1]
        <5> HIDE DEF N, g
        <5> QED BY <2>1, <2>2, Zenon
      <4>2. 1 - 1 = 0
        OBVIOUS
      <4> QED BY <4>1, <4>2
    <3>2. f[1 - 1] = <<>>
      BY <2>1, <3>1
    <3> QED BY <2>3, <3>1, <3>2
  <2>5. \A k \in 1..N : k # 1 => k - 1 \in 1..N
    BY <1>1
  <2>6. ASSUME NEW k \in 1..N
        PROVE  g[k] = IF k = 1 THEN lists[k] ELSE g[k - 1] \o lists[k]
    <3>1. CASE k = 1
      BY <2>4, <3>1
    <3>2. CASE k # 1
      <4>1. g[k] = f[k] /\ g[k - 1] = f[k - 1]
        BY <2>5, <3>2
      <4> QED BY <2>1, <3>2, <4>1
    <3> QED BY <3>1, <3>2
  <2>7. g = [k \in 1..N |-> g[k]]
    OBVIOUS
  <2> HIDE DEF g
  <2>8. g = Body(g)
    BY <2>6, <2>7
  <2> QED BY <2>8 DEF g
<1> DEFINE h == CHOOSE g : g = Body(g)
<1>8. h = Body(h)
  <2> HIDE DEF Body
  <2> QED BY <1>7
<1>9. q = h[N]
  BY DEF FlattenSeq
<1> HIDE DEF h
<1>10. h[1] = lists[1] /\ \A k \in 1..N : k # 1 => h[k] = h[k - 1] \o lists[k]
  <2>1. \A k \in 1..N : h[k] = IF k = 1 THEN lists[k] ELSE h[k - 1] \o lists[k]
    BY <1>8
  <2>2. 1 \in 1..N
    BY <1>1
  <2> QED BY <2>1, <2>2
<1> DEFINE g == [k \in 0..N |-> IF k = 0 THEN <<>> ELSE h[k]]
<1>11. g[0] = <<>> /\ \A k \in 1..N : g[k] = h[k]
  BY <1>1
<1>12. \A k \in 1..N : g[k] = g[k - 1] \o lists[k]
  <2> SUFFICES ASSUME NEW k \in 1..N PROVE g[k] = g[k - 1] \o lists[k]
    OBVIOUS
  <2> HIDE DEF g
  <2>1. CASE k = 1
    <3>1. lists[1] \in Seq(S)
      BY <1>1, <2>1
    <3>2. <<>> \o lists[1] = lists[1]
      BY <3>1
    <3>3. g[k] = lists[1] /\ k - 1 = 0
      BY <1>10, <1>11, <2>1
    <3>4. g[k - 1] = <<>>
      BY <1>11, <3>3
    <3> QED BY <2>1, <3>2, <3>3, <3>4
  <2>2. CASE k # 1
    <3>1. k - 1 \in 1..N
      BY <1>1, <2>2
    <3> QED BY <1>10, <1>11, <2>2, <3>1
  <2> QED BY <2>1, <2>2
<1> HIDE DEF g
<1>13. \A k \in 0..N : g[k] \in V[k]
  <2>1. \A k \in 1..N : g[k - 1] \in V[k - 1] => g[k] \in V[k]
    BY <1>3, <1>12
  <2>2. g[0] \in V[0]
    BY <1>2, <1>11
  <2> QED BY <1>1, <2>1, <2>2, Stepwise
<1>14. N \in 0..N /\ N \in 1..N /\ g[N] = q
  BY <1>1, <1>9, <1>11
<1> QED BY <1>13, <1>14 DEF V

\* A function on 1..n is a sequence.
LEMMA IsSequence ==
  ASSUME NEW n \in Nat, NEW S, NEW f \in [1..n -> S]
  PROVE  f \in Seq(S) /\ Len(f) = n /\ DOMAIN f = 1..n
OBVIOUS

\* A function on 1..n is the sequence of its values.
LEMMA ListedIs ==
  ASSUME NEW n \in Nat, NEW S, NEW f \in [1..n -> S]
  PROVE  Listed(f) = f
<1>1. Cardinality(DOMAIN f) = n
  <2>1. DOMAIN f = 1..n
    OBVIOUS
  <2>2. Cardinality(1..n) = n
    <3>1. 1 \in Int /\ n \in Int
      OBVIOUS
    <3>2. Cardinality(1..n) = IF 1 > n THEN 0 ELSE n - 1 + 1
      BY <3>1, FS_Interval
    <3> QED BY <3>2
  <2> QED BY <2>1, <2>2
<1>2. f \in Seq(S) /\ Len(f) = n
  OBVIOUS
<1> QED BY <1>1, <1>2 DEF Listed

\* Ordered() puts in order.
LEMMA OrderedIs ==
  ASSUME NEW n \in Nat, NEW K \in SUBSET (1..n), NEW q, q = Ordered(K, n)
  PROVE  /\ q \in Seq(K) /\ Len(q) = Cardinality(K)
         /\ \A i, j \in DOMAIN q : i < j => q[i] < q[j]
         /\ \A k \in K : \E j \in DOMAIN q : q[j] = k
<1> DEFINE s == [k \in 1..n |-> k]
<1>1. s \in Seq(1..n) /\ Len(s) = n /\ \A k \in 1..n : s[k] = k
  OBVIOUS
<1> HIDE DEF s
<1>2. q \in Seq(1..n) /\ Selection(q, s, K)
  <2>1. q = Picked(s, K)
    BY DEF Ordered, s
  <2> QED BY <1>1, <2>1, PickedIs
<1>3. PICK o \in [1..Len(q) -> K] :
        /\ \A j \in 1..Len(q) : q[j] = s[o[j]]
        /\ \A i, j \in 1..Len(q) : i < j => o[i] < o[j]
        /\ \A k \in K : \E j \in 1..Len(q) : o[j] = k
  BY <1>2 DEF Selection
<1>4. Len(q) \in Nat /\ DOMAIN q = 1..Len(q)
  BY <1>2
<1>5. \A j \in 1..Len(q) : q[j] = o[j] /\ q[j] \in K
  <2> SUFFICES ASSUME NEW j \in 1..Len(q) PROVE q[j] = o[j] /\ q[j] \in K
    OBVIOUS
  <2>1. o[j] \in K /\ o[j] \in 1..n
    <3>1. o[j] \in K
      OBVIOUS
    <3> QED BY <3>1
  <2> QED BY <1>1, <1>3, <2>1
<1>6. q \in Seq(K)
  <2>1. q = [j \in 1..Len(q) |-> q[j]]
    BY <1>2
  <2> QED BY <1>4, <1>5, <2>1
<1>7. Len(q) = Cardinality(K)
  <2>1. IsFiniteSet(1..n)
    BY FS_Interval
  <2>2. IsFiniteSet(K)
    BY <2>1, FS_Subset
  <2>3. \A i, j \in 1..Len(q) : o[i] = o[j] => i = j
    <3> SUFFICES ASSUME NEW i \in 1..Len(q), NEW j \in 1..Len(q), o[i] = o[j] PROVE i = j
      OBVIOUS
    <3>1. o[i] \in 1..n
      BY <1>5
    <3>2. i \in Nat /\ j \in Nat /\ o[i] \in Nat
      BY <1>4, <3>1
    <3>3. ~(i < j) /\ ~(j < i)
      BY <1>3, <3>2
    <3> QED BY <3>2, <3>3
  <2>4. o \in Bijection(1..Len(q), K)
    <3>1. o \in Injection(1..Len(q), K)
      BY <2>3 DEF Injection, IsInjective
    <3>2. o \in Surjection(1..Len(q), K)
      BY <1>3 DEF Surjection
    <3> QED BY <3>1, <3>2 DEF Bijection
  <2>5. ExistsBijection(1..Len(q), K)
    BY <2>4 DEF ExistsBijection
  <2>6. Cardinality(K) = Len(q)
    BY <1>4, <2>5, FS_CountingElements
  <2> QED BY <2>6
<1> QED BY <1>3, <1>4, <1>5, <1>6, <1>7

\* What segment i sends to segment t.
LEMMA SentIs ==
  ASSUME NEW S, NEW work \in Seq(Seq(S)), NEW i \in 1..Len(work), NEW t,
         NEW homes, NEW all, NEW drop,
         NEW q, q = Sent(work, i, t, homes, all, drop)
  PROVE  /\ q \in Seq(S)
         /\ \A x : Contains(q, x) <=> Contains(work[i], x) /\ t \in Targets(x, i, homes, all, drop)
         /\ \A x, y : Precedes(work[i], x, y) /\ t \in Targets(x, i, homes, all, drop)
                        => Precedes(q, x, y)
<1> DEFINE s == work[i]
           K == {j \in DOMAIN s : t \in Targets(s[j], i, homes, all, drop)}
<1>1. s \in Seq(S) /\ DOMAIN s = 1..Len(s)
  OBVIOUS
<1>2. q = Picked(s, K) /\ K \in SUBSET (1..Len(s))
  BY <1>1 DEF Sent
<1>3. \A j \in DOMAIN s : j \in K <=> t \in Targets(s[j], i, homes, all, drop)
  OBVIOUS
<1> HIDE DEF K, s
<1>4. \A j \in K : j \in DOMAIN s
  BY <1>1, <1>2
<1>5. q \in Seq(S)
  BY <1>1, <1>2, PickedIs
<1>6. ASSUME NEW x
      PROVE  Contains(q, x) <=> Contains(s, x) /\ t \in Targets(x, i, homes, all, drop)
  <2>1. Contains(q, x) <=> \E k \in K : s[k] = x
    BY <1>1, <1>2, PickedContains
  <2>2. Contains(s, x) <=> \E k \in DOMAIN s : s[k] = x
    BY <1>1 DEF Contains
  <2> QED BY <1>3, <1>4, <2>1, <2>2
<1>7. ASSUME NEW x, NEW y, Precedes(s, x, y), t \in Targets(x, i, homes, all, drop)
      PROVE  Precedes(q, x, y)
  <2>1. ASSUME NEW j \in K, s[j] = y PROVE \E k \in K : k < j /\ s[k] = x
    <3>1. PICK k \in DOMAIN s : k < j /\ s[k] = x
      BY <1>4, <1>7, <2>1 DEF Precedes
    <3>2. k \in K
      BY <1>3, <1>7, <3>1
    <3> QED BY <3>1, <3>2
  <2> QED BY <1>1, <1>2, <2>1, PickedPrecedes
<1> QED BY <1>5, <1>6, <1>7 DEF s

\* The reaction y of a segment i that goes to t has an x before it, which goes
\* there too: in the same segment or in an earlier one.
Follows(work, x, y, t, homes, all, drop) ==
    \A i \in DOMAIN work :
        Contains(work[i], y) /\ t \in Targets(y, i, homes, all, drop) =>
            \/ Precedes(work[i], x, y) /\ t \in Targets(x, i, homes, all, drop)
            \/ \E m \in 1..(i - 1) : Contains(work[m], x) /\ t \in Targets(x, m, homes, all, drop)

\* Where one pass puts the reactions, and in which order.
Passed(lists, work, homes, all, drop) ==
    /\ \A t \in DOMAIN work : Single(lists[t])
    /\ \A t \in DOMAIN work : \A x :
         Contains(lists[t], x) <=>
            \E i \in DOMAIN work : Contains(work[i], x) /\ t \in Targets(x, i, homes, all, drop)
    /\ \A t \in DOMAIN work : \A x, y :
         Follows(work, x, y, t, homes, all, drop) => Precedes(lists[t], x, y)

\* A pass over the reactions of the segments.
LEMMA OnePassIs ==
  ASSUME NEW S, NEW work \in Seq(Seq(S)), NEW ss, DOMAIN ss = DOMAIN work,
         NEW homes, NEW all, NEW drop,
         NEW lists, lists = OnePass(ss, work, homes, all, drop)
  PROVE  /\ lists \in Seq(Seq(S)) /\ DOMAIN lists = DOMAIN work
         /\ Passed(lists, work, homes, all, drop)
<1> DEFINE n == Len(work)
           Lines(t) == [i \in DOMAIN ss |-> Sent(work, i, t, homes, all, drop)]
           List(t) == Deduplicated(FlattenSeq(Lines(t)))
<1>1. n \in Nat /\ DOMAIN ss = 1..n /\ DOMAIN work = 1..n
  OBVIOUS
<1>2. lists = Listed([t \in 1..n |-> List(t)])
  BY <1>1 DEF OnePass
<1>3. ASSUME NEW t \in 1..n
      PROVE  /\ List(t) \in Seq(S) /\ Single(List(t))
             /\ \A x : Contains(List(t), x) <=>
                   \E i \in 1..n : Contains(work[i], x) /\ t \in Targets(x, i, homes, all, drop)
             /\ \A x, y : Follows(work, x, y, t, homes, all, drop) => Precedes(List(t), x, y)
  <2> DEFINE L == Lines(t)
             F == FlattenSeq(L)
  <2>1. ASSUME NEW i \in 1..n
        PROVE  /\ L[i] \in Seq(S)
               /\ \A x : Contains(L[i], x) <=>
                    Contains(work[i], x) /\ t \in Targets(x, i, homes, all, drop)
               /\ \A x, y : Precedes(work[i], x, y) /\ t \in Targets(x, i, homes, all, drop)
                    => Precedes(L[i], x, y)
    <3>1. L[i] = Sent(work, i, t, homes, all, drop)
      BY <1>1
    <3> HIDE DEF L
    <3> QED BY <3>1, SentIs
  <2>2. L \in Seq(Seq(S)) /\ Len(L) = n /\ n # 0
    <3>1. L \in [1..n -> Seq(S)]
      <4>1. L = [i \in 1..n |-> L[i]]
        BY <1>1
      <4> HIDE DEF L
      <4> QED BY <2>1, <4>1
    <3>2. L \in Seq(Seq(S)) /\ Len(L) = n
      <4> HIDE DEF L, n
      <4> QED BY <1>1, <3>1, IsSequence
    <3> QED BY <1>1, <3>2
  <2> HIDE DEF L
  <2>3. F \in Seq(S) /\ Flat(F, L, n)
    BY <2>2, FlattenSeqIs
  <2> HIDE DEF F
  <2>4. /\ Deduplicated(F) \in Seq(S) /\ Single(Deduplicated(F))
        /\ \A x : Contains(Deduplicated(F), x) <=> Contains(F, x)
        /\ \A x, y : Precedes(F, x, y) => Precedes(Deduplicated(F), x, y)
    BY <2>3, DeduplicatedIs
  <2>5. \A x : Contains(F, x) <=> \E i \in 1..n : Contains(L[i], x)
    BY <2>3 DEF Flat
  <2>6. \A x : Contains(F, x) <=>
             \E i \in 1..n : Contains(work[i], x) /\ t \in Targets(x, i, homes, all, drop)
    BY <2>1, <2>5
  <2>7. ASSUME NEW x, NEW y, Follows(work, x, y, t, homes, all, drop)
        PROVE  Precedes(F, x, y)
    <3>1. ASSUME NEW i \in 1..n PROVE LedBy(L, i, x, y)
      <4>1. SUFFICES ASSUME NEW j \in DOMAIN L[i], L[i][j] = y
                     PROVE  \/ \E k \in DOMAIN L[i] : k < j /\ L[i][k] = x
                            \/ \E m \in 1..(i - 1) : Contains(L[m], x)
        BY DEF LedBy
      <4>2. Contains(L[i], y)
        <5>1. DOMAIN L[i] = 1..Len(L[i])
          BY <2>1
        <5> QED BY <4>1, <5>1 DEF Contains
      <4>3. Contains(work[i], y) /\ t \in Targets(y, i, homes, all, drop)
        BY <2>1, <4>2
      <4>4. CASE Precedes(work[i], x, y) /\ t \in Targets(x, i, homes, all, drop)
        <5>1. Precedes(L[i], x, y)
          BY <2>1, <4>4
        <5> QED BY <4>1, <5>1 DEF Precedes
      <4>5. CASE \E m \in 1..(i - 1) :
                    Contains(work[m], x) /\ t \in Targets(x, m, homes, all, drop)
        <5>1. PICK m \in 1..(i - 1) :
                    Contains(work[m], x) /\ t \in Targets(x, m, homes, all, drop)
          BY <4>5
        <5>2. m \in 1..n
          BY <1>1
        <5>3. Contains(L[m], x)
          BY <2>1, <5>1, <5>2
        <5> QED BY <5>3
      <4>6. i \in DOMAIN work
        BY <1>1
      <4> QED BY <2>7, <4>3, <4>4, <4>5, <4>6 DEF Follows
    <3>2. Led(L, n, x, y)
      BY <3>1 DEF Led
    <3> QED BY <2>3, <3>2 DEF Flat
  <2>8. List(t) = Deduplicated(F)
    BY DEF F, L
  <2> HIDE DEF List
  <2> QED BY <2>4, <2>6, <2>7, <2>8
<1> HIDE DEF List
<1>4. [t \in 1..n |-> List(t)] \in [1..n -> Seq(S)]
  BY <1>3
<1>5. lists = [t \in 1..n |-> List(t)]
  BY <1>1, <1>2, <1>4, ListedIs
<1>6. lists \in Seq(Seq(S)) /\ DOMAIN lists = 1..n /\ \A t \in 1..n : lists[t] = List(t)
  <2>1. lists \in [1..n -> Seq(S)] /\ \A t \in 1..n : lists[t] = List(t)
    BY <1>4, <1>5
  <2> HIDE DEF n
  <2> QED BY <1>1, <2>1, IsSequence
<1>7. Passed(lists, work, homes, all, drop)
  <2>1. \A t \in 1..n : Single(lists[t])
    BY <1>3, <1>6
  <2>2. \A t \in 1..n : \A x : Contains(lists[t], x) <=>
                   \E i \in 1..n : Contains(work[i], x) /\ t \in Targets(x, i, homes, all, drop)
    BY <1>3, <1>6
  <2>3. \A t \in 1..n : \A x, y :
            Follows(work, x, y, t, homes, all, drop) => Precedes(lists[t], x, y)
    BY <1>3, <1>6
  <2> HIDE DEF n
  <2> QED BY <1>1, <2>1, <2>2, <2>3 DEF Passed
<1> QED BY <1>1, <1>6, <1>7

-----------------------------------------------------------------------------
(***************************************************************************)
(* Placement: the inductive invariant                                       *)
(***************************************************************************)
Statement ==
    [kind: {"bind", "drive", "react"}, var: Bound \cup Assigned \cup {NoVar},
     fn: {"fn", ""}, dt: Intervals \cup {0}, stated: BOOLEAN, reads: SUBSET (Bound \cup Assigned)]

\* What the statement at place k may be.
Allowed(k) ==
    /\ block[k].kind = "bind" => block[k].var \in Bound /\ block[k].dt \in Intervals
    /\ block[k].kind = "drive" => block[k].var = NoVar /\ block[k].dt \in Intervals
    /\ block[k].kind = "react" =>
         /\ block[k].var \in Assigned \cup {NoVar}
         /\ \A v \in block[k].reads : \E i \in DOMAIN block : i < k /\ block[i].var = v
         /\ \E i \in DOMAIN block : i < k /\ block[i].kind # "react"

\* A name is bound once, and what a reaction reads stands before it.
WellFormed ==
    /\ block \in Seq(Statement) /\ Len(block) <= MaxLength
    /\ \A k \in DOMAIN block : Allowed(k)
    /\ \A i, j \in DOMAIN block :
         block[i].kind = "bind" /\ block[j].kind = "bind" /\ block[i].var = block[j].var => i = j

Written == WellFormed /\ block # <<>> /\ segs = Started(block, 0)

PlacementInv == Written \/ (block = <<>> /\ segs = <<>>)

-----------------------------------------------------------------------------
(***************************************************************************)
(* Segments: the segments as they are collected                             *)
(***************************************************************************)
Ast       == Parsed(block, 0)
Statements == {Node(k) : k \in DOMAIN block}
Temporals == Places(Ast, Temporal)
Order     == Ordered(Temporals, Len(Ast))
Size      == Len(Order)
Raw       == Collected(Ast)

\* The statement k stands under segment i.
Under(i, k) == Order[i] < k /\ \A m \in Temporals : m <= Order[i] \/ m > k

\* A statement has its own node.
LEMMA NodeIs ==
  ASSUME NEW i, NEW j, Node(i) = Node(j)
  PROVE  i = j
BY DEF Node

\* The statements are records.
LEMMA BlockIs ==
  ASSUME WellFormed
  PROVE  /\ Len(block) \in Nat /\ DOMAIN block = 1..Len(block)
         /\ \A k \in DOMAIN block :
              /\ k \in Nat /\ Allowed(k)
              /\ block[k].kind \in {"bind", "drive", "react"}
              /\ block[k].reads \subseteq Bound \cup Assigned
              /\ block[k].dt \in Nat
<1>1. block \in Seq(Statement)
  BY DEF WellFormed
<1>2. ASSUME NEW k \in DOMAIN block
      PROVE  /\ k \in Nat /\ Allowed(k)
             /\ block[k].kind \in {"bind", "drive", "react"}
             /\ block[k].reads \subseteq Bound \cup Assigned
             /\ block[k].dt \in Nat
  <2>1. k \in Nat /\ block[k] \in Statement
    BY <1>1
  <2>2. block[k].dt \in Nat
    <3>1. \A d \in Intervals \cup {0} : d \in Nat
      <4>1. \A d \in Intervals : d \in Nat
        BY PlacementAssumption DEF PlacementAssumption
      <4>2. 0 \in Nat
        OBVIOUS
      <4> QED BY <4>1, <4>2, Zenon
    <3>2. block[k].dt \in Intervals \cup {0}
      BY <2>1 DEF Statement
    <3> QED BY <3>1, <3>2
  <2> QED BY <2>1, <2>2 DEF WellFormed, Statement
<1> QED BY <1>1, <1>2

\* The nodes of the block.
LEMMA AstIs ==
  ASSUME WellFormed
  PROVE  /\ Ast \in Seq(Statements) /\ Len(Ast) = Len(block) /\ DOMAIN Ast = DOMAIN block
         /\ \A k \in DOMAIN block : Ast[k] = Node(k)
<1>1. Ast = [k \in DOMAIN block |-> Node(k)]
  BY DEF Ast, Parsed, Node
<1>2. Ast \in [1..Len(block) -> Statements]
  BY <1>1, BlockIs DEF Statements
<1> HIDE DEF Ast
<1>3. Ast \in Seq(Statements) /\ Len(Ast) = Len(block) /\ DOMAIN Ast = 1..Len(block)
  BY <1>2, BlockIs, IsSequence
<1> QED BY <1>1, <1>3, BlockIs

\* Where its temporal statements stand, and where the others do.
LEMMA TemporalsIs ==
  ASSUME WellFormed
  PROVE  /\ Temporals \subseteq DOMAIN block
         /\ \A k \in DOMAIN block : k \in Temporals <=> block[k].kind # "react"
         /\ \A k \in DOMAIN block : k \in Reactions <=> block[k].kind = "react"
         /\ Reactions \subseteq DOMAIN block
<1>1. ASSUME NEW k \in DOMAIN block
      PROVE  (Ast[k].st.kind \in Temporal) <=> block[k].kind # "react"
  <2>1. Ast[k].st = block[k]
    BY AstIs DEF Node
  <2>2. block[k].kind \in {"bind", "drive", "react"}
    BY BlockIs
  <2> QED BY <2>1, <2>2 DEF Temporal
<1>2. Temporals = {k \in DOMAIN block : Ast[k].st.kind \in Temporal}
  BY AstIs DEF Temporals, Places
<1>3. Reactions = {k \in DOMAIN block : block[k].kind = "react"}
  BY DEF Reactions
<1> QED BY <1>1, <1>2, <1>3

\* The temporal statements in order.
LEMMA OrderIs ==
  ASSUME WellFormed
  PROVE  /\ Size \in Nat /\ Size = Cardinality(Temporals) /\ DOMAIN Order = 1..Size
         /\ \A i \in 1..Size : Order[i] \in Temporals /\ Order[i] \in Nat
         /\ \A i, j \in 1..Size : i < j <=> Order[i] < Order[j]
         /\ \A i, j \in 1..Size : Order[i] = Order[j] => i = j
         /\ \A k \in Temporals : \E i \in 1..Size : Order[i] = k
<1>1. Len(Ast) \in Nat /\ Temporals \in SUBSET (1..Len(Ast))
  BY AstIs, BlockIs, TemporalsIs
<1>2. /\ Order \in Seq(Temporals) /\ Len(Order) = Cardinality(Temporals)
      /\ \A i, j \in DOMAIN Order : i < j => Order[i] < Order[j]
      /\ \A k \in Temporals : \E j \in DOMAIN Order : Order[j] = k
  BY <1>1, OrderedIs DEF Order
<1>3. Size \in Nat /\ Size = Cardinality(Temporals) /\ DOMAIN Order = 1..Size
  BY <1>2 DEF Size
<1>4. \A i \in 1..Size : Order[i] \in Temporals /\ Order[i] \in Nat
  <2>1. \A i \in 1..Size : Order[i] \in Temporals
    BY <1>2, <1>3
  <2>2. \A k \in Temporals : k \in Nat
    BY TemporalsIs, BlockIs
  <2> QED BY <2>1, <2>2
<1>5. ASSUME NEW i \in 1..Size, NEW j \in 1..Size
      PROVE  (i < j <=> Order[i] < Order[j]) /\ (Order[i] = Order[j] => i = j)
  <2>1. i < j => Order[i] < Order[j]
    BY <1>2, <1>3
  <2>2. j < i => Order[j] < Order[i]
    BY <1>2, <1>3
  <2>3. i \in Nat /\ j \in Nat /\ Order[i] \in Nat /\ Order[j] \in Nat
    BY <1>3, <1>4
  <2> QED BY <2>1, <2>2, <2>3
<1> QED BY <1>2, <1>3, <1>4, <1>5

\* A segment is what its statement says, with the reactions that follow it.
LEMMA RawIs ==
  ASSUME WellFormed
  PROVE  /\ DOMAIN Raw = 1..Size
         /\ \A i \in 1..Size :
              /\ Raw[i].var = block[Order[i]].var /\ Raw[i].dt = block[Order[i]].dt
              /\ Raw[i].reactions = After(Ast, Temporals, Order[i])
              /\ Raw[i].shared = <<>>
              /\ DOMAIN Raw[i] = {"var", "fn", "dt", "reactions", "shared"}
<1>1. Raw = [i \in DOMAIN Order |->
                [var |-> Ast[Order[i]].st.var, fn |-> Ast[Order[i]].st.fn,
                 dt |-> Ast[Order[i]].st.dt,
                 reactions |-> After(Ast, Temporals, Order[i]), shared |-> <<>>]]
  BY DEF Raw, Collected, Temporals, Order
<1>2. DOMAIN Raw = 1..Size
  BY <1>1, OrderIs
<1>3. ASSUME NEW i \in 1..Size
      PROVE  /\ Raw[i].var = block[Order[i]].var /\ Raw[i].dt = block[Order[i]].dt
             /\ Raw[i].reactions = After(Ast, Temporals, Order[i])
             /\ Raw[i].shared = <<>>
             /\ DOMAIN Raw[i] = {"var", "fn", "dt", "reactions", "shared"}
  <2>1. Order[i] \in DOMAIN block /\ i \in DOMAIN Order
    BY OrderIs, TemporalsIs
  <2>2. Ast[Order[i]].st = block[Order[i]]
    BY <2>1, AstIs DEF Node
  <2>3. Raw[i] = [var |-> Ast[Order[i]].st.var, fn |-> Ast[Order[i]].st.fn,
                 dt |-> Ast[Order[i]].st.dt,
                 reactions |-> After(Ast, Temporals, Order[i]), shared |-> <<>>]
    BY <1>1, <2>1
  <2> QED BY <2>2, <2>3
<1> QED BY <1>2, <1>3

\* The reactions of a segment as it is collected.
LEMMA RawReactions ==
  ASSUME WellFormed, NEW i \in 1..Size
  PROVE  /\ Raw[i].reactions \in Seq(Statements)
         /\ \A x : Contains(Raw[i].reactions, x) <=> \E k \in Reactions : x = Node(k) /\ Under(i, k)
         /\ \A p, k \in Reactions : p < k /\ Under(i, p) =>
              Precedes(Raw[i].reactions, Node(p), Node(k))
<1> DEFINE K == {j \in DOMAIN Ast : /\ j > Order[i] /\ Ast[j].st.kind = "react"
                                    /\ \A m \in Temporals : m <= Order[i] \/ m > j}
<1>1. Raw[i].reactions = Picked(Ast, K)
  BY RawIs DEF After
<1>2. Ast \in Seq(Statements) /\ K \in SUBSET (1..Len(Ast)) /\ DOMAIN Ast = 1..Len(Ast)
  BY AstIs
<1>3. \A k \in DOMAIN block : k \in K <=> k \in Reactions /\ Under(i, k)
  <2> SUFFICES ASSUME NEW k \in DOMAIN block PROVE k \in K <=> k \in Reactions /\ Under(i, k)
    OBVIOUS
  <2>1. Ast[k].st = block[k] /\ k \in DOMAIN Ast
    BY AstIs DEF Node
  <2>2. k \in Reactions <=> block[k].kind = "react"
    BY TemporalsIs
  <2>3. k \in Nat /\ Order[i] \in Nat
    BY BlockIs, OrderIs
  <2>4. k > Order[i] <=> Order[i] < k
    BY <2>3
  <2> QED BY <2>1, <2>2, <2>4 DEF Under
<1> HIDE DEF K
<1>4. \A k \in K : k \in DOMAIN block /\ k \in Reactions /\ Under(i, k) /\ Ast[k] = Node(k)
  BY <1>2, <1>3, AstIs
<1>5. \A k \in Reactions : k \in DOMAIN block /\ Ast[k] = Node(k)
  BY TemporalsIs, AstIs
<1>6. Picked(Ast, K) \in Seq(Statements)
  BY <1>2, PickedIs
<1>7. ASSUME NEW x
      PROVE  Contains(Picked(Ast, K), x) <=> \E k \in Reactions : x = Node(k) /\ Under(i, k)
  <2>1. Contains(Picked(Ast, K), x) <=> \E k \in K : Ast[k] = x
    BY <1>2, PickedContains
  <2> QED BY <1>3, <1>4, <1>5, <2>1
<1>8. ASSUME NEW p \in Reactions, NEW k \in Reactions, p < k, Under(i, p)
      PROVE  Precedes(Picked(Ast, K), Node(p), Node(k))
  <2>1. p \in K /\ Ast[p] = Node(p)
    BY <1>3, <1>5, <1>8
  <2>2. ASSUME NEW j \in K, Ast[j] = Node(k)
        PROVE  \E m \in K : m < j /\ Ast[m] = Node(p)
    <3>1. Node(j) = Node(k)
      BY <1>4, <2>2
    <3>2. j = k
      BY <3>1, NodeIs
    <3> QED BY <1>8, <2>1, <3>2
  <2> QED BY <1>2, <2>2, PickedPrecedes
<1> QED BY <1>1, <1>6, <1>7, <1>8

\* A reaction stands under one segment, a later one under the same or a later one.
LEMMA UnderOne ==
  ASSUME WellFormed, NEW k \in Reactions
  PROVE  \E i \in 1..Size : Under(i, k)
<1>1. k \in DOMAIN block /\ k \in Nat /\ block[k].kind = "react"
  BY TemporalsIs, BlockIs
<1>2. PICK m \in DOMAIN block : m < k /\ block[m].kind # "react"
  BY <1>1, BlockIs DEF Allowed
<1> DEFINE T == {d \in Nat : \E t \in Temporals : t < k /\ d = k - t}
<1>3. \A t \in Temporals : t \in Nat
  BY TemporalsIs, BlockIs
<1>4. m \in Temporals /\ m \in Nat
  BY <1>2, TemporalsIs, BlockIs
<1>5. k - m \in T
  BY <1>1, <1>2, <1>4
<1>6. PICK d \in T : \A e \in T : d <= e
  <2>1. T \in SUBSET Nat /\ T # {}
    BY <1>5
  <2> HIDE DEF T
  <2> QED BY <2>1, LeastExists
<1>7. PICK t \in Temporals : t < k /\ d = k - t
  OBVIOUS
<1>8. ASSUME NEW u \in Temporals, ~(u <= t) PROVE u > k
  <2>1. u \in Nat /\ t \in Nat /\ k \in Nat /\ u # k
    BY <1>1, <1>3, TemporalsIs
  <2>2. SUFFICES ASSUME u < k PROVE FALSE
    BY <2>1
  <2>3. k - u \in T
    BY <2>1, <2>2
  <2>4. d <= k - u
    BY <1>6, <2>3
  <2> QED BY <1>7, <1>8, <2>1, <2>4
<1>9. PICK i \in 1..Size : Order[i] = t
  BY OrderIs
<1> QED BY <1>7, <1>8, <1>9 DEF Under

LEMMA UnderInOrder ==
  ASSUME WellFormed, NEW p \in Reactions, NEW k \in Reactions, p <= k,
         NEW i \in 1..Size, NEW j \in 1..Size, Under(i, p), Under(j, k)
  PROVE  i <= j
<1>1. p \in Nat /\ k \in Nat /\ i \in Nat /\ j \in Nat /\ Order[i] \in Nat /\ Order[j] \in Nat
  BY TemporalsIs, BlockIs, OrderIs
<1>2. Order[i] < p /\ (Order[i] <= Order[j] \/ Order[i] > k)
  BY OrderIs DEF Under
<1>3. ~(Order[j] < Order[i])
  BY <1>1, <1>2
<1>4. ~(j < i)
  BY <1>3, OrderIs
<1> QED BY <1>1, <1>4

\* The segment that a reaction stands under.
Own(k) == CHOOSE i \in 1..Size : Under(i, k)

LEMMA OwnIs ==
  ASSUME WellFormed, NEW k \in Reactions
  PROVE  /\ Own(k) \in 1..Size
         /\ \A i \in 1..Size : Under(i, k) <=> i = Own(k)
<1>1. Own(k) \in 1..Size /\ Under(Own(k), k)
  BY UnderOne DEF Own
<1>2. ASSUME NEW i \in 1..Size, Under(i, k) PROVE i = Own(k)
  <2>1. k \in Nat /\ i \in Nat /\ Own(k) \in Nat
    BY <1>1, TemporalsIs, BlockIs, OrderIs
  <2>2. i <= Own(k) /\ Own(k) <= i
    BY <1>1, <1>2, <2>1, UnderInOrder
  <2> QED BY <2>1, <2>2
<1> QED BY <1>1, <1>2

-----------------------------------------------------------------------------
(***************************************************************************)
(* Segments: the first pass                                                 *)
(***************************************************************************)
RawLists == [i \in DOMAIN Raw |-> Raw[i].reactions]
Homes    == BoundHomes(Raw)
Work     == OnePass(Raw, RawLists, Homes, NoneAll, FALSE)

\* The ticking segments of the bindings that reaction k reads.
Links(k) == {i \in 1..Size : Raw[i].dt > 0 /\ Raw[i].var \in block[k].reads}

\* Where the first pass puts reaction k.
FirstIn(k) == IF Links(k) = {} THEN {Own(k)} ELSE Links(k)

\* A segment has the name of a binding, or none; no two have the same.
LEMMA RawVarIs ==
  ASSUME WellFormed, NEW i \in 1..Size
  PROVE  /\ Order[i] \in DOMAIN block /\ Order[i] \in Nat
         /\ Raw[i].var \in Bound \cup {NoVar} /\ Raw[i].dt \in Intervals /\ Raw[i].dt \in Nat
         /\ Raw[i].var # NoVar => block[Order[i]].kind = "bind"
         /\ \A j \in 1..Size : Raw[i].var # NoVar /\ Raw[j].var = Raw[i].var => j = i
<1>1. ASSUME NEW j \in 1..Size
      PROVE  /\ Order[j] \in DOMAIN block /\ Order[j] \in Nat
             /\ Raw[j].var \in Bound \cup {NoVar} /\ Raw[j].dt \in Intervals /\ Raw[j].dt \in Nat
             /\ Raw[j].var # NoVar => block[Order[j]].kind = "bind"
  <2>1. Order[j] \in Temporals
    BY OrderIs
  <2>2. Order[j] \in DOMAIN block /\ block[Order[j]].kind # "react"
    BY <2>1, TemporalsIs
  <2>3. /\ Allowed(Order[j]) /\ block[Order[j]].kind \in {"bind", "drive", "react"}
        /\ block[Order[j]].dt \in Nat /\ Order[j] \in Nat
    BY <2>2, BlockIs
  <2>4. Raw[j].var = block[Order[j]].var /\ Raw[j].dt = block[Order[j]].dt
    BY RawIs
  <2> QED BY <2>2, <2>3, <2>4 DEF Allowed
<1>2. ASSUME NEW j \in 1..Size, Raw[i].var # NoVar, Raw[j].var = Raw[i].var
      PROVE  j = i
  <2>1. block[Order[i]].kind = "bind" /\ block[Order[j]].kind = "bind"
    BY <1>1, <1>2
  <2>2. block[Order[i]].var = block[Order[j]].var
    BY <1>2, RawIs
  <2>3. Order[i] = Order[j]
    BY <1>1, <2>1, <2>2 DEF WellFormed
  <2> QED BY <2>3, OrderIs
<1> QED BY <1>1, <1>2

\* No name of the block is the missing one, and a binding is not assigned.
LEMMA NamesApart ==
  /\ NoVar \notin Bound /\ NoVar \notin Assigned
  /\ \A v \in Bound : v \notin Assigned
BY PlacementAssumption DEF PlacementAssumption

\* Each binding has its segment for a home.
LEMMA HomesIs ==
  ASSUME WellFormed
  PROVE  /\ \A v : v \in DOMAIN Homes <=> v # NoVar /\ \E i \in 1..Size : Raw[i].var = v
         /\ \A i \in 1..Size : Raw[i].var # NoVar =>
              Homes[Raw[i].var].seg = i /\ Homes[Raw[i].var].dt = Raw[i].dt
<1> DEFINE SegIn(v) == CHOOSE i \in DOMAIN Raw :
                        Raw[i].var = v /\ \A j \in DOMAIN Raw : Raw[j].var = v => j <= i
           Homed == {Raw[i].var : i \in DOMAIN Raw} \ {NoVar}
<1>1. Homes = [v \in Homed |-> [seg |-> SegIn(v), dt |-> Raw[SegIn(v)].dt]]
  BY DEF Homes, BoundHomes
<1>2. \A v : v \in Homed <=> v # NoVar /\ \E i \in 1..Size : Raw[i].var = v
  BY RawIs
<1>3. ASSUME NEW i \in 1..Size, Raw[i].var # NoVar
      PROVE  SegIn(Raw[i].var) = i
  <2>1. \A j \in 1..Size : Raw[j].var = Raw[i].var => j = i
    BY <1>3, RawVarIs
  <2>2. i <= i
    BY OrderIs
  <2>3. DOMAIN Raw = 1..Size
    BY RawIs
  <2> QED BY <2>1, <2>2, <2>3
<1> HIDE DEF SegIn, Homed
<1>4. ASSUME NEW i \in 1..Size, Raw[i].var # NoVar
      PROVE  Homes[Raw[i].var].seg = i /\ Homes[Raw[i].var].dt = Raw[i].dt
  <2>1. Raw[i].var \in Homed
    BY <1>2, <1>4
  <2>2. SegIn(Raw[i].var) = i
    BY <1>3, <1>4
  <2> QED BY <1>1, <2>1, <2>2
<1> QED BY <1>1, <1>2, <1>4

\* The segments that a name leads to.
Leads(v, homes, all) ==
    IF v \in DOMAIN all /\ Cardinality(all[v]) > 1 THEN all[v]
    ELSE IF homes[v].dt > 0 THEN {homes[v].seg} ELSE {}

LEMMA RefSegsIs ==
  ASSUME NEW r, NEW homes, NEW all, NEW i
  PROVE  i \in RefSegs(r, homes, all) <=>
            \E v \in r.st.reads : v \in DOMAIN homes /\ i \in Leads(v, homes, all)
BY DEF RefSegs, Leads

\* A binding leads to its segment if that ticks.
LEMMA HomeLeads ==
  ASSUME WellFormed, NEW v \in DOMAIN Homes, NEW i
  PROVE  (i \in IF Homes[v].dt > 0 THEN {Homes[v].seg} ELSE {}) <=>
            i \in 1..Size /\ Raw[i].var = v /\ Raw[i].dt > 0
<1>1. v # NoVar /\ \E j \in 1..Size : Raw[j].var = v
  BY HomesIs
<1>2. PICK j \in 1..Size : Raw[j].var = v
  BY <1>1
<1>3. Homes[v].seg = j /\ Homes[v].dt = Raw[j].dt
  BY <1>1, <1>2, HomesIs
<1>4. \A m \in 1..Size : Raw[m].var = v => m = j
  BY <1>1, <1>2, RawVarIs
<1> QED BY <1>2, <1>3, <1>4

\* What a reaction depends on in the first pass.
LEMMA FirstRefs ==
  ASSUME WellFormed, NEW k \in Reactions
  PROVE  RefSegs(Node(k), Homes, NoneAll) = Links(k)
<1>1. Node(k).st.reads = block[k].reads /\ block[k].reads \subseteq Bound \cup Assigned
  BY TemporalsIs, BlockIs DEF Node
<1>2. ASSUME NEW v \in DOMAIN Homes
      PROVE  Leads(v, Homes, NoneAll) = IF Homes[v].dt > 0 THEN {Homes[v].seg} ELSE {}
  <2>1. DOMAIN NoneAll = {}
    BY DEF NoneAll
  <2> QED BY <2>1 DEF Leads
<1>3. ASSUME NEW i
      PROVE  i \in RefSegs(Node(k), Homes, NoneAll) <=>
                \E v \in block[k].reads : v \in DOMAIN Homes /\ i \in 1..Size
                                          /\ Raw[i].var = v /\ Raw[i].dt > 0
  <2>1. i \in RefSegs(Node(k), Homes, NoneAll) <=>
            \E v \in Node(k).st.reads : v \in DOMAIN Homes /\ i \in Leads(v, Homes, NoneAll)
    BY RefSegsIs
  <2>2. \A v \in DOMAIN Homes :
          i \in Leads(v, Homes, NoneAll) <=> i \in 1..Size /\ Raw[i].var = v /\ Raw[i].dt > 0
    BY <1>2, HomeLeads
  <2> QED BY <1>1, <2>1, <2>2
<1>4. ASSUME NEW i \in 1..Size, Raw[i].var \in block[k].reads
      PROVE  Raw[i].var \in DOMAIN Homes
  <2>1. Raw[i].var # NoVar
    BY <1>1, <1>4, NamesApart
  <2> QED BY <2>1, HomesIs
<1>5. \A i : i \in RefSegs(Node(k), Homes, NoneAll) <=> i \in Links(k)
  BY <1>3, <1>4 DEF Links
<1> QED BY <1>5

\* The targets of the first pass.
LEMMA FirstTargets ==
  ASSUME WellFormed, NEW k \in Reactions, NEW i \in 1..Size, Under(i, k)
  PROVE  Targets(Node(k), i, Homes, NoneAll, FALSE) = FirstIn(k)
<1>1. i = Own(k)
  BY OwnIs
<1> QED BY <1>1, FirstRefs DEF Targets, FirstIn

LEMMA FirstIs ==
  ASSUME WellFormed, NEW k \in Reactions
  PROVE  FirstIn(k) \subseteq 1..Size /\ FirstIn(k) # {}
BY OwnIs DEF FirstIn, Links

\* The lists that the first pass begins with.
LEMMA RawListsIs ==
  ASSUME WellFormed
  PROVE  /\ RawLists \in Seq(Seq(Statements)) /\ DOMAIN RawLists = 1..Size
         /\ \A i \in 1..Size : RawLists[i] = Raw[i].reactions
<1>1. RawLists = [i \in 1..Size |-> Raw[i].reactions]
  BY RawIs DEF RawLists
<1>2. RawLists \in [1..Size -> Seq(Statements)]
  BY <1>1, RawReactions
<1>3. RawLists \in Seq(Seq(Statements)) /\ DOMAIN RawLists = 1..Size
  BY <1>2, OrderIs, IsSequence
<1> QED BY <1>1, <1>3

\* Where the first pass puts the reactions; in each segment they stay in the order
\* of the text.
LEMMA WorkIs ==
  ASSUME WellFormed
  PROVE  /\ Work \in Seq(Seq(Statements)) /\ DOMAIN Work = 1..Size
         /\ \A t \in 1..Size : \A x :
              Contains(Work[t], x) <=> \E k \in Reactions : x = Node(k) /\ t \in FirstIn(k)
         /\ \A t \in 1..Size : \A p, k \in Reactions :
              p < k /\ t \in FirstIn(p) => Precedes(Work[t], Node(p), Node(k))
<1>1. /\ Work \in Seq(Seq(Statements)) /\ DOMAIN Work = DOMAIN RawLists
      /\ Passed(Work, RawLists, Homes, NoneAll, FALSE)
  <2>1. DOMAIN Raw = DOMAIN RawLists
    BY RawIs, RawListsIs
  <2> QED BY <2>1, RawListsIs, OnePassIs DEF Work
<1>2. DOMAIN RawLists = 1..Size
  BY RawListsIs
<1>3. ASSUME NEW i \in 1..Size, NEW x
      PROVE  Contains(RawLists[i], x) <=> \E k \in Reactions : x = Node(k) /\ Under(i, k)
  BY RawListsIs, RawReactions
<1>4. ASSUME NEW t \in 1..Size, NEW x
      PROVE  Contains(Work[t], x) <=> \E k \in Reactions : x = Node(k) /\ t \in FirstIn(k)
  <2>1. Contains(Work[t], x) <=>
           \E i \in 1..Size : Contains(RawLists[i], x) /\ t \in Targets(x, i, Homes, NoneAll, FALSE)
    BY <1>1, <1>2 DEF Passed
  <2>2. ASSUME NEW i \in 1..Size, Contains(RawLists[i], x),
               t \in Targets(x, i, Homes, NoneAll, FALSE)
        PROVE  \E k \in Reactions : x = Node(k) /\ t \in FirstIn(k)
    <3>1. PICK k \in Reactions : x = Node(k) /\ Under(i, k)
      BY <1>3, <2>2
    <3> QED BY <2>2, <3>1, FirstTargets
  <2>3. ASSUME NEW k \in Reactions, x = Node(k), t \in FirstIn(k)
        PROVE  \E i \in 1..Size :
                 Contains(RawLists[i], x) /\ t \in Targets(x, i, Homes, NoneAll, FALSE)
    <3>1. Own(k) \in 1..Size /\ Under(Own(k), k)
      BY OwnIs
    <3>2. Contains(RawLists[Own(k)], x)
      BY <1>3, <2>3, <3>1
    <3>3. t \in Targets(x, Own(k), Homes, NoneAll, FALSE)
      BY <2>3, <3>1, FirstTargets
    <3> QED BY <3>1, <3>2, <3>3
  <2> QED BY <2>1, <2>2, <2>3
<1>5. ASSUME NEW t \in 1..Size, NEW p \in Reactions, NEW k \in Reactions, p < k, t \in FirstIn(p)
      PROVE  Precedes(Work[t], Node(p), Node(k))
  <2> DEFINE o == Own(p)
  <2>1. o \in 1..Size /\ Under(o, p) /\ o \in Nat
    BY OwnIs, OrderIs
  <2>2. Contains(RawLists[o], Node(p)) /\ t \in Targets(Node(p), o, Homes, NoneAll, FALSE)
    BY <1>3, <1>5, <2>1, FirstTargets
  <2> HIDE DEF o
  <2>3. ASSUME NEW i \in 1..Size, Contains(RawLists[i], Node(k))
        PROVE  \/ Precedes(RawLists[i], Node(p), Node(k))
                  /\ t \in Targets(Node(p), i, Homes, NoneAll, FALSE)
               \/ \E m \in 1..(i - 1) : Contains(RawLists[m], Node(p))
                                        /\ t \in Targets(Node(p), m, Homes, NoneAll, FALSE)
    <3>1. Under(i, k)
      <4>1. PICK j \in Reactions : Node(k) = Node(j) /\ Under(i, j)
        BY <1>3, <2>3
      <4> QED BY <4>1, NodeIs
    <3>2. p \in Nat /\ k \in Nat /\ i \in Nat
      BY TemporalsIs, BlockIs, OrderIs
    <3>3. o <= i
      BY <1>5, <2>1, <3>1, <3>2, UnderInOrder
    <3>4. CASE o = i
      <4>1. Precedes(RawLists[i], Node(p), Node(k))
        BY <1>5, <2>1, <3>4, RawListsIs, RawReactions
      <4> QED BY <2>2, <3>4, <4>1
    <3>5. CASE o # i
      <4>1. o \in 1..(i - 1)
        BY <2>1, <3>2, <3>3, <3>5
      <4> QED BY <2>2, <4>1
    <3> QED BY <3>4, <3>5
  <2>4. Follows(RawLists, Node(p), Node(k), t, Homes, NoneAll, FALSE)
    BY <1>2, <2>3 DEF Follows
  <2> QED BY <1>1, <1>2, <2>4 DEF Passed
<1> QED BY <1>1, <1>2, <1>4, <1>5

-----------------------------------------------------------------------------
(***************************************************************************)
(* Segments: the second pass                                                *)
(***************************************************************************)
AllHomes  == AllSegs(Raw, Work)
Augmented == AugmentedHomes(Raw, Homes, AllHomes)
Lists     == OnePass(Raw, Work, Augmented, AllHomes, TRUE)

\* The ticking segments with a reaction that assigns v, after the first pass.
Makers(v) == {i \in 1..Size : Raw[i].dt > 0 /\ \E p \in Producers(v) : i \in FirstIn(p)}

\* Where the second pass puts reaction k.
Final(k) == Links(k) \cup {i \in 1..Size : \E v \in block[k].reads : i \in Makers(v)}

\* The reactions that assign a variable.
LEMMA ProducersIs ==
  ASSUME WellFormed, NEW v, NEW p
  PROVE  p \in Producers(v) <=> p \in Reactions /\ block[p].var = v
BY DEF Producers

LEMMA AssignedIs ==
  ASSUME WellFormed, NEW p \in Reactions
  PROVE  p \in DOMAIN block /\ p \in Nat /\ block[p].var \in Assigned \cup {NoVar}
BY TemporalsIs, BlockIs DEF Allowed

LEMMA AssignersIs ==
  ASSUME WellFormed, NEW v
  PROVE  Assigners(Raw, Work, v) = Makers(v)
<1>1. ASSUME NEW i \in 1..Size
      PROVE  (\E r \in ToSet(Work[i]) : r.st.var = v) <=> \E p \in Producers(v) : i \in FirstIn(p)
  <2>1. \A r : r \in ToSet(Work[i]) <=> Contains(Work[i], r)
    <3>1. DOMAIN Work[i] = 1..Len(Work[i])
      BY WorkIs
    <3> QED BY <3>1 DEF ToSet, Contains
  <2>2. \A r : Contains(Work[i], r) <=> \E k \in Reactions : r = Node(k) /\ i \in FirstIn(k)
    BY WorkIs
  <2>3. \A k : Node(k).st = block[k]
    BY DEF Node
  <2>4. ASSUME NEW r \in ToSet(Work[i]), r.st.var = v
        PROVE  \E p \in Producers(v) : i \in FirstIn(p)
    <3>1. PICK k \in Reactions : r = Node(k) /\ i \in FirstIn(k)
      BY <2>1, <2>2
    <3>2. k \in Producers(v)
      BY <2>3, <2>4, <3>1, ProducersIs
    <3> QED BY <3>1, <3>2
  <2>5. ASSUME NEW p \in Producers(v), i \in FirstIn(p)
        PROVE  \E r \in ToSet(Work[i]) : r.st.var = v
    <3>1. p \in Reactions /\ block[p].var = v
      BY ProducersIs
    <3>2. Node(p) \in ToSet(Work[i])
      BY <2>1, <2>2, <2>5, <3>1
    <3> QED BY <2>3, <3>1, <3>2
  <2> QED BY <2>4, <2>5
<1>2. DOMAIN Raw = 1..Size
  BY RawIs
<1>3. \A i : i \in Assigners(Raw, Work, v) <=> i \in Makers(v)
  BY <1>1, <1>2 DEF Assigners, Makers
<1> QED BY <1>3

\* The segments that a variable is assigned in.
LEMMA AllIs ==
  ASSUME WellFormed
  PROVE  /\ \A v : v \in DOMAIN AllHomes <=> v # NoVar /\ Makers(v) # {}
         /\ \A v \in DOMAIN AllHomes : v \in Assigned /\ AllHomes[v] = Makers(v)
<1> DEFINE Homed == (UNION {{r.st.var : r \in ToSet(Work[i])} : i \in DOMAIN Raw}) \ {NoVar}
           Made == {v \in Homed : Assigners(Raw, Work, v) # {}}
<1>1. AllHomes = [v \in Made |-> Assigners(Raw, Work, v)]
  BY DEF AllHomes, AllSegs
<1>2. ASSUME NEW v, v # NoVar, Makers(v) # {} PROVE v \in Homed
  <2>1. PICK i \in Assigners(Raw, Work, v) : TRUE
    BY <1>2, AssignersIs
  <2>2. i \in DOMAIN Raw /\ \E r \in ToSet(Work[i]) : r.st.var = v
    BY <2>1 DEF Assigners
  <2> QED BY <1>2, <2>2
<1>3. ASSUME NEW v PROVE v \in Made <=> v # NoVar /\ Makers(v) # {}
  <2>1. v \in Made <=> v \in Homed /\ Makers(v) # {}
    BY AssignersIs
  <2>2. v \in Homed => v # NoVar
    OBVIOUS
  <2> HIDE DEF Homed, Made
  <2> QED BY <1>2, <2>1, <2>2
<1> HIDE DEF Made
<1>4. ASSUME NEW v \in Made PROVE v \in Assigned
  <2>1. v # NoVar /\ Makers(v) # {}
    BY <1>3
  <2>2. PICK p \in Producers(v) : TRUE
    BY <2>1 DEF Makers
  <2>3. p \in Reactions /\ block[p].var = v
    BY <2>2, ProducersIs
  <2> QED BY <2>1, <2>3, AssignedIs
<1> QED BY <1>1, <1>3, <1>4, AssignersIs

\* A set of more than one member, or of one.
LEMMA OneOrMore ==
  ASSUME NEW n \in Nat, NEW S \in SUBSET (1..n), S # {}, ~(Cardinality(S) > 1)
  PROVE  \E i \in S : S = {i}
<1>1. IsFiniteSet(S)
  <2>1. IsFiniteSet(1..n)
    BY FS_Interval
  <2> QED BY <2>1, FS_Subset
<1>2. Cardinality(S) \in Nat /\ Cardinality(S) # 0
  BY <1>1, FS_CardinalityType, FS_EmptySet
<1>3. Cardinality(S) = 1
  BY <1>2
<1>4. \E x : S = {x}
  BY <1>1, <1>3, FS_Singleton
<1> QED BY <1>4

\* The fastest of one segment is that.
LEMMA FastestIs ==
  ASSUME NEW ss, NEW i
  PROVE  Fastest(ss, {i}) = i
BY DEF Fastest

\* A variable that reactions assign leads to all the segments they are in.
LEMMA AssignedLeads ==
  ASSUME WellFormed, NEW v \in DOMAIN AllHomes
  PROVE  v \in DOMAIN Augmented /\ Leads(v, Augmented, AllHomes) = Makers(v)
<1>1. v \in Assigned /\ AllHomes[v] = Makers(v) /\ Makers(v) # {}
  BY AllIs
<1>2. v \notin DOMAIN Homes
  <2> SUFFICES ASSUME v \in DOMAIN Homes PROVE FALSE
    OBVIOUS
  <2>1. PICK i \in 1..Size : Raw[i].var = v /\ v # NoVar
    BY HomesIs
  <2>2. v \in Bound
    BY <2>1, RawVarIs
  <2> QED BY <1>1, <2>2, NamesApart
<1>3. v \in DOMAIN Augmented
      /\ Augmented[v] = [seg |-> Fastest(Raw, AllHomes[v]), dt |-> Raw[Fastest(Raw, AllHomes[v])].dt]
  BY <1>2 DEF Augmented, AugmentedHomes
<1>4. CASE Cardinality(AllHomes[v]) > 1
  BY <1>1, <1>3, <1>4 DEF Leads
<1>5. CASE ~(Cardinality(AllHomes[v]) > 1)
  <2>1. Makers(v) \in SUBSET (1..Size) /\ Size \in Nat
    BY OrderIs DEF Makers
  <2>2. PICK i \in Makers(v) : Makers(v) = {i}
    BY <1>1, <1>5, <2>1, OneOrMore
  <2>3. Augmented[v].seg = i /\ Augmented[v].dt = Raw[i].dt
    <3>1. Fastest(Raw, AllHomes[v]) = i
      <4>1. AllHomes[v] = {i}
        BY <1>1, <2>2
      <4>2. Fastest(Raw, {i}) = i
        BY FastestIs
      <4> QED BY <4>1, <4>2
    <3> QED BY <1>3, <3>1
  <2>4. Raw[i].dt > 0
    BY DEF Makers
  <2> QED BY <1>3, <1>5, <2>2, <2>3, <2>4 DEF Leads
<1> QED BY <1>4, <1>5

\* A binding leads where it did.
LEMMA BoundLeads ==
  ASSUME WellFormed, NEW v \in DOMAIN Homes, NEW i
  PROVE  /\ v \in DOMAIN Augmented
         /\ i \in Leads(v, Augmented, AllHomes) <=>
              i \in 1..Size /\ Raw[i].var = v /\ Raw[i].dt > 0
<1>1. v \notin DOMAIN AllHomes
  <2> SUFFICES ASSUME v \in DOMAIN AllHomes PROVE FALSE
    OBVIOUS
  <2>1. PICK j \in 1..Size : Raw[j].var = v /\ v # NoVar
    BY HomesIs
  <2>2. v \in Bound
    BY <2>1, RawVarIs
  <2> QED BY <2>2, AllIs, NamesApart
<1>2. v \in DOMAIN Augmented /\ Augmented[v] = Homes[v]
  BY <1>1 DEF Augmented, AugmentedHomes
<1> QED BY <1>1, <1>2, HomeLeads DEF Leads

\* What a reaction depends on in the second pass.
LEMMA FinalRefs ==
  ASSUME WellFormed, NEW k \in Reactions
  PROVE  RefSegs(Node(k), Augmented, AllHomes) = Final(k)
<1>1. Node(k).st.reads = block[k].reads /\ block[k].reads \subseteq Bound \cup Assigned
  BY TemporalsIs, BlockIs DEF Node
<1>2. \A v : v \in DOMAIN Augmented <=> v \in DOMAIN Homes \/ v \in DOMAIN AllHomes
  BY DEF Augmented, AugmentedHomes
<1>3. \A v \in block[k].reads : v # NoVar
  BY <1>1, NamesApart
<1>4. ASSUME NEW i, i \in RefSegs(Node(k), Augmented, AllHomes) PROVE i \in Final(k)
  <2>1. PICK v \in block[k].reads : v \in DOMAIN Augmented /\ i \in Leads(v, Augmented, AllHomes)
    BY <1>1, <1>4, RefSegsIs
  <2>2. CASE v \in DOMAIN Homes
    <3>1. i \in 1..Size /\ Raw[i].var = v /\ Raw[i].dt > 0
      BY <2>1, <2>2, BoundLeads
    <3> QED BY <3>1 DEF Final, Links
  <2>3. CASE v \in DOMAIN AllHomes
    <3>1. i \in Makers(v)
      BY <2>1, <2>3, AssignedLeads
    <3>2. i \in 1..Size
      BY <3>1 DEF Makers
    <3> QED BY <3>1, <3>2 DEF Final
  <2> QED BY <1>2, <2>1, <2>2, <2>3
<1>5. ASSUME NEW i \in Links(k) PROVE i \in RefSegs(Node(k), Augmented, AllHomes)
  <2>1. i \in 1..Size /\ Raw[i].dt > 0 /\ Raw[i].var \in block[k].reads
    BY DEF Links
  <2>2. Raw[i].var \in DOMAIN Homes
    BY <1>3, <2>1, HomesIs
  <2>3. Raw[i].var \in DOMAIN Augmented /\ i \in Leads(Raw[i].var, Augmented, AllHomes)
    BY <2>1, <2>2, BoundLeads
  <2> QED BY <1>1, <2>1, <2>3, RefSegsIs
<1>6. ASSUME NEW i \in 1..Size, NEW v \in block[k].reads, i \in Makers(v)
      PROVE  i \in RefSegs(Node(k), Augmented, AllHomes)
  <2>1. v \in DOMAIN AllHomes
    BY <1>3, <1>6, AllIs
  <2>2. v \in DOMAIN Augmented /\ i \in Leads(v, Augmented, AllHomes)
    BY <1>6, <2>1, AssignedLeads
  <2> QED BY <1>1, <2>2, RefSegsIs
<1>7. \A i : i \in RefSegs(Node(k), Augmented, AllHomes) <=> i \in Final(k)
  BY <1>4, <1>5, <1>6 DEF Final
<1> QED BY <1>7

LEMMA FinalTargets ==
  ASSUME WellFormed, NEW k \in Reactions, NEW i
  PROVE  Targets(Node(k), i, Augmented, AllHomes, TRUE) = Final(k)
BY FinalRefs DEF Targets

\* Where the second pass puts the reactions, and what it keeps in order: p before k
\* if each list of the first pass with k has p in it or before it.
LEMMA ListsIs ==
  ASSUME WellFormed
  PROVE  /\ Lists \in Seq(Seq(Statements)) /\ DOMAIN Lists = 1..Size
         /\ \A t \in 1..Size : Single(Lists[t])
         /\ \A t \in 1..Size : \A x :
              Contains(Lists[t], x) <=> \E k \in Reactions : x = Node(k) /\ t \in Final(k)
         /\ \A t \in 1..Size : \A p, k \in Reactions :
              p < k /\ t \in Final(p) /\ (\A i \in FirstIn(k) : \E m \in FirstIn(p) : m <= i)
                => Precedes(Lists[t], Node(p), Node(k))
<1>1. DOMAIN Work = 1..Size /\ Work \in Seq(Seq(Statements))
  BY WorkIs
<1>2. /\ Lists \in Seq(Seq(Statements)) /\ DOMAIN Lists = DOMAIN Work
      /\ Passed(Lists, Work, Augmented, AllHomes, TRUE)
  <2>1. DOMAIN Raw = DOMAIN Work
    BY <1>1, RawIs
  <2> QED BY <1>1, <2>1, OnePassIs DEF Lists
<1>3. ASSUME NEW i \in 1..Size, NEW k \in Reactions
      PROVE  Contains(Work[i], Node(k)) <=> i \in FirstIn(k)
  <2>1. Contains(Work[i], Node(k)) <=> \E j \in Reactions : Node(k) = Node(j) /\ i \in FirstIn(j)
    BY WorkIs
  <2>2. \A j : Node(k) = Node(j) <=> j = k
    BY NodeIs
  <2> QED BY <2>1, <2>2
<1>4. ASSUME NEW t \in 1..Size, NEW x
      PROVE  Contains(Lists[t], x) <=> \E k \in Reactions : x = Node(k) /\ t \in Final(k)
  <2>1. Contains(Lists[t], x) <=>
           \E i \in 1..Size : Contains(Work[i], x) /\ t \in Targets(x, i, Augmented, AllHomes, TRUE)
    BY <1>1, <1>2 DEF Passed
  <2>2. ASSUME NEW i \in 1..Size, Contains(Work[i], x), t \in Targets(x, i, Augmented, AllHomes, TRUE)
        PROVE  \E k \in Reactions : x = Node(k) /\ t \in Final(k)
    <3>1. PICK k \in Reactions : x = Node(k)
      BY <2>2, WorkIs
    <3> QED BY <2>2, <3>1, FinalTargets
  <2>3. ASSUME NEW k \in Reactions, x = Node(k), t \in Final(k)
        PROVE  \E i \in 1..Size : Contains(Work[i], x) /\ t \in Targets(x, i, Augmented, AllHomes, TRUE)
    <3>1. PICK i \in 1..Size : i \in FirstIn(k)
      BY FirstIs
    <3>2. Contains(Work[i], x)
      BY <1>3, <2>3, <3>1
    <3> QED BY <2>3, <3>2, FinalTargets
  <2> QED BY <2>1, <2>2, <2>3
<1>5. ASSUME NEW t \in 1..Size, NEW p \in Reactions, NEW k \in Reactions, p < k, t \in Final(p),
             \A i \in FirstIn(k) : \E m \in FirstIn(p) : m <= i
      PROVE  Precedes(Lists[t], Node(p), Node(k))
  <2>1. \A m : t \in Targets(Node(p), m, Augmented, AllHomes, TRUE)
    BY <1>5, FinalTargets
  <2>2. ASSUME NEW i \in 1..Size, Contains(Work[i], Node(k))
        PROVE  \/ Precedes(Work[i], Node(p), Node(k))
               \/ \E m \in 1..(i - 1) : Contains(Work[m], Node(p))
    <3>1. i \in FirstIn(k)
      BY <1>3, <2>2
    <3>2. PICK m \in FirstIn(p) : m <= i
      BY <1>5, <3>1
    <3>3. m \in 1..Size /\ Contains(Work[m], Node(p))
      BY <1>3, FirstIs
    <3>4. CASE m = i
      BY <1>5, <3>2, <3>4, WorkIs
    <3>5. CASE m # i
      <4>1. m \in 1..(i - 1)
        BY <3>2, <3>3, <3>5, OrderIs
      <4> QED BY <3>3, <4>1
    <3> QED BY <3>4, <3>5
  <2>3. Follows(Work, Node(p), Node(k), t, Augmented, AllHomes, TRUE)
    BY <1>1, <2>1, <2>2 DEF Follows
  <2> QED BY <1>1, <1>2, <2>3 DEF Passed
<1> QED BY <1>1, <1>2, <1>4, <1>5 DEF Passed

-----------------------------------------------------------------------------
(***************************************************************************)
(* Segments: the segments as they are started                               *)
(***************************************************************************)
Shared(i) == {j \in DOMAIN Lists[i] : \E k \in DOMAIN Raw \ {i} : Contains(Lists[k], Lists[i][j])}

\* What is placed once is local, what is placed more often is shared.
LEMMA SegsIs ==
  ASSUME Written
  PROVE  /\ DOMAIN segs = 1..Size /\ segs = [i \in 1..Size |-> segs[i]]
         /\ \A i \in 1..Size :
              /\ segs[i].var = Raw[i].var /\ segs[i].dt = Raw[i].dt
              /\ segs[i].reactions = Picked(Lists[i], DOMAIN Lists[i] \ Shared(i))
              /\ segs[i].shared = Picked(Lists[i], Shared(i))
<1>1. WellFormed /\ segs = Redistributed(Raw)
  BY DEF Written, Started, Raw, Ast
<1>2. Distributed(Raw) = Lists
  <2>1. RawLists \in [1..Size -> Seq(Statements)] /\ Size \in Nat
    <3>1. RawLists = [i \in 1..Size |-> Raw[i].reactions]
      BY <1>1, RawIs DEF RawLists
    <3> QED BY <1>1, <3>1, RawReactions, OrderIs
  <2>2. Listed(RawLists) = RawLists
    BY <2>1, ListedIs
  <2> QED BY <2>2 DEF Distributed, Lists, Augmented, AllHomes, Work, Homes, RawLists
<1>3. segs = [i \in DOMAIN Raw |->
                 [Raw[i] EXCEPT !.reactions = Picked(Lists[i], DOMAIN Lists[i] \ Shared(i)),
                                !.shared    = Picked(Lists[i], Shared(i))]]
  BY <1>1, <1>2 DEF Redistributed, Shared
<1>4. DOMAIN Raw = 1..Size
      /\ \A i \in 1..Size : DOMAIN Raw[i] = {"var", "fn", "dt", "reactions", "shared"}
  BY <1>1, RawIs
<1>5. ASSUME NEW i \in 1..Size
      PROVE  /\ segs[i].var = Raw[i].var /\ segs[i].dt = Raw[i].dt
             /\ segs[i].reactions = Picked(Lists[i], DOMAIN Lists[i] \ Shared(i))
             /\ segs[i].shared = Picked(Lists[i], Shared(i))
  <2> DEFINE a == Picked(Lists[i], DOMAIN Lists[i] \ Shared(i))
             b == Picked(Lists[i], Shared(i))
  <2>1. segs[i] = [Raw[i] EXCEPT !.reactions = a, !.shared = b]
    BY <1>3, <1>4
  <2>2. DOMAIN Raw[i] = {"var", "fn", "dt", "reactions", "shared"}
    BY <1>4
  <2> HIDE DEF a, b
  <2>3. segs[i].var = Raw[i].var /\ segs[i].dt = Raw[i].dt
        /\ segs[i].reactions = a /\ segs[i].shared = b
    BY <2>1, <2>2
  <2> QED BY <2>3 DEF a, b
<1>6. segs = [i \in 1..Size |-> segs[i]]
  BY <1>3, <1>4
<1> QED BY <1>3, <1>4, <1>5, <1>6

\* In what a node of reaction k is placed, as local or as shared.
LEMMA PlacedIs ==
  ASSUME Written, NEW i \in 1..Size
  PROVE  /\ Single(segs[i].reactions) /\ Single(segs[i].shared)
         /\ DOMAIN segs[i].reactions = 1..Len(segs[i].reactions)
         /\ DOMAIN segs[i].shared = 1..Len(segs[i].shared)
         /\ \A x : Contains(segs[i].reactions, x) <=>
              Contains(Lists[i], x) /\ ~\E j \in 1..Size : j # i /\ Contains(Lists[j], x)
         /\ \A x : Contains(segs[i].shared, x) <=>
              Contains(Lists[i], x) /\ \E j \in 1..Size : j # i /\ Contains(Lists[j], x)
         /\ \A x, y : Ahead(Lists[i], x, y) =>
              Ahead(segs[i].reactions, x, y) /\ Ahead(segs[i].shared, x, y)
<1> DEFINE s == Lists[i]
           C == Shared(i)
           L == DOMAIN s \ C
<1>1. /\ segs[i].reactions = Picked(s, L) /\ segs[i].shared = Picked(s, C)
      /\ WellFormed
  BY SegsIs DEF Written
<1>2. s \in Seq(Statements) /\ Single(s) /\ DOMAIN s = 1..Len(s)
  <2>1. Lists \in Seq(Seq(Statements)) /\ i \in DOMAIN Lists /\ Single(s)
    BY <1>1, ListsIs
  <2>2. s \in Seq(Statements)
    BY <2>1
  <2> QED BY <2>1, <2>2
<1>3. C \in SUBSET (1..Len(s)) /\ L \in SUBSET (1..Len(s))
  BY <1>2 DEF Shared
<1>4. \A k \in DOMAIN s : k \in C <=> \E j \in 1..Size : j # i /\ Contains(Lists[j], s[k])
  BY <1>1, RawIs DEF Shared
<1>5. \A k \in DOMAIN s : k \in L <=> k \notin C
  OBVIOUS
<1>6. \A x : Contains(s, x) <=> \E k \in DOMAIN s : s[k] = x
  BY <1>2 DEF Contains
<1> HIDE DEF C, L, s
<1>7. Picked(s, L) \in Seq(Statements) /\ Picked(s, C) \in Seq(Statements)
  BY <1>2, <1>3, PickedIs
<1>8. Single(Picked(s, L)) /\ Single(Picked(s, C))
  <2>1. \A m, n \in 1..Len(s) : s[m] = s[n] => m = n
    BY <1>2 DEF Single
  <2>2. (\A m, n \in L : s[m] = s[n] => m = n) /\ (\A m, n \in C : s[m] = s[n] => m = n)
    BY <1>3, <2>1
  <2> QED BY <1>2, <1>3, <2>2, PickedSingle
<1>9. ASSUME NEW x
      PROVE  /\ Contains(Picked(s, L), x) <=>
                  Contains(s, x) /\ ~\E j \in 1..Size : j # i /\ Contains(Lists[j], x)
             /\ Contains(Picked(s, C), x) <=>
                  Contains(s, x) /\ \E j \in 1..Size : j # i /\ Contains(Lists[j], x)
  <2>1. (Contains(Picked(s, L), x) <=> \E k \in L : s[k] = x)
        /\ (Contains(Picked(s, C), x) <=> \E k \in C : s[k] = x)
    BY <1>2, <1>3, PickedContains
  <2>2. (\A k \in L : k \in DOMAIN s) /\ (\A k \in C : k \in DOMAIN s)
    BY <1>2, <1>3
  <2>3. (\E k \in L : s[k] = x) <=> \E k \in DOMAIN s : s[k] = x /\ k \notin C
    BY <1>5, <2>2
  <2>4. (\E k \in C : s[k] = x) <=> \E k \in DOMAIN s : s[k] = x /\ k \in C
    BY <2>2
  <2> QED BY <1>4, <1>6, <2>1, <2>3, <2>4
<1>10. ASSUME NEW x, NEW y, Ahead(s, x, y)
       PROVE  Ahead(Picked(s, L), x, y) /\ Ahead(Picked(s, C), x, y)
  BY <1>2, <1>3, <1>10, PickedAhead
<1>11. s = Lists[i]
  BY DEF s
<1>12. DOMAIN Picked(s, L) = 1..Len(Picked(s, L)) /\ DOMAIN Picked(s, C) = 1..Len(Picked(s, C))
  BY <1>7
<1> QED BY <1>1, <1>8, <1>9, <1>10, <1>11, <1>12

\* The segments a reaction is in.
LEMMA PlacedInIs ==
  ASSUME Written, NEW k \in Reactions
  PROVE  /\ LocalIn(k) = {i \in Final(k) : Final(k) = {i}}
         /\ SharedIn(k) = {i \in Final(k) : Final(k) # {i}}
         /\ PlacedIn(k) = Final(k)
         /\ Final(k) \subseteq 1..Size
<1>1. WellFormed /\ DOMAIN segs = 1..Size
  BY SegsIs DEF Written
<1>2. \A i \in 1..Size : Contains(Lists[i], Node(k)) <=> i \in Final(k)
  <2>1. \A i \in 1..Size :
           Contains(Lists[i], Node(k)) <=> \E j \in Reactions : Node(k) = Node(j) /\ i \in Final(j)
    BY <1>1, ListsIs
  <2>2. \A j : Node(k) = Node(j) <=> j = k
    BY NodeIs
  <2> QED BY <2>1, <2>2
<1>3. Final(k) \subseteq 1..Size
  BY DEF Final, Links
<1>4. \A i \in 1..Size : i \in LocalIn(k) <=> i \in Final(k) /\ Final(k) = {i}
  <2> SUFFICES ASSUME NEW i \in 1..Size
               PROVE  i \in LocalIn(k) <=> i \in Final(k) /\ Final(k) = {i}
    OBVIOUS
  <2>1. i \in LocalIn(k) <=> Contains(segs[i].reactions, Node(k))
    BY <1>1 DEF LocalIn
  <2>2. i \in LocalIn(k) <=> i \in Final(k) /\ ~\E j \in 1..Size : j # i /\ j \in Final(k)
    BY <1>2, <2>1, PlacedIs
  <2> QED BY <1>3, <2>2
<1>5. \A i \in 1..Size : i \in SharedIn(k) <=> i \in Final(k) /\ Final(k) # {i}
  <2> SUFFICES ASSUME NEW i \in 1..Size
               PROVE  i \in SharedIn(k) <=> i \in Final(k) /\ Final(k) # {i}
    OBVIOUS
  <2>1. i \in SharedIn(k) <=> Contains(segs[i].shared, Node(k))
    BY <1>1 DEF SharedIn
  <2>2. i \in SharedIn(k) <=> i \in Final(k) /\ \E j \in 1..Size : j # i /\ j \in Final(k)
    BY <1>2, <2>1, PlacedIs
  <2> QED BY <1>3, <2>2
<1>6. LocalIn(k) \subseteq 1..Size /\ SharedIn(k) \subseteq 1..Size
  BY <1>1 DEF LocalIn, SharedIn
<1> QED BY <1>3, <1>4, <1>5, <1>6 DEF PlacedIn

\* The segments of the bindings that a statement reads.
LEMMA BindingsOfIs ==
  ASSUME Written, NEW k \in Reactions
  PROVE  BindingsOf(k) = Links(k)
<1>1. /\ WellFormed /\ DOMAIN segs = 1..Size
      /\ \A i \in 1..Size : segs[i].var = Raw[i].var /\ segs[i].dt = Raw[i].dt
  BY SegsIs DEF Written
<1>2. block[k].reads \subseteq Bound \cup Assigned /\ NoVar \notin Bound \cup Assigned
  BY <1>1, TemporalsIs, BlockIs, NamesApart
<1>3. ASSUME NEW i \in 1..Size, Raw[i].var # NoVar PROVE SegOf(Raw[i].var) = i
  <2>1. \A j \in 1..Size : Raw[j].var = Raw[i].var => j = i
    BY <1>1, <1>3, RawVarIs
  <2> QED BY <1>1, <2>1 DEF SegOf
<1>4. ASSUME NEW i \in Links(k) PROVE i \in BindingsOf(k)
  <2>1. i \in 1..Size /\ Raw[i].dt > 0 /\ Raw[i].var \in block[k].reads /\ Raw[i].var # NoVar
    BY <1>2 DEF Links
  <2>2. Raw[i].var \in Bound
    BY <1>1, <2>1, RawVarIs
  <2>3. Raw[i].var \in Names
    BY <1>1, <2>1, RawVarIs, RawIs DEF Names
  <2>4. Raw[i].var \in Ticking
    BY <1>1, <2>1, <2>2, <2>3 DEF Ticking
  <2>5. SegOf(Raw[i].var) = i
    BY <1>3, <2>1
  <2> QED BY <2>1, <2>4, <2>5 DEF BindingsOf
<1>5. ASSUME NEW i \in BindingsOf(k) PROVE i \in Links(k)
  <2>1. PICK v \in block[k].reads \cap Ticking : i = SegOf(v)
    BY DEF BindingsOf
  <2>2. v # NoVar
    BY <1>2
  <2>3. PICK j \in 1..Size : Raw[j].var = v /\ Raw[j].dt > 0
    BY <1>1, <2>1 DEF Ticking
  <2>4. i = j
    BY <1>3, <2>1, <2>2, <2>3
  <2> QED BY <2>1, <2>3, <2>4 DEF Links
<1> QED BY <1>4, <1>5

\* What reaction k depends on by another one.
LEMMA ProducingIs ==
  ASSUME WellFormed, NEW k \in Reactions, NEW p
  PROVE  p \in Producing(k) <=> \E v \in block[k].reads : p \in Producers(v)
BY DEF Producing

LEMMA ShallowIs ==
  ASSUME Written, NEW k \in Reactions, Shallow(k), NEW p \in Producing(k)
  PROVE  p \in Reactions /\ FirstIn(p) = Links(p) /\ Links(p) # {} /\ Final(p) = Links(p)
<1>1. WellFormed
  BY DEF Written
<1>2. PICK v \in block[k].reads : p \in Producers(v)
  BY <1>1, ProducingIs
<1>3. p \in Reactions
  BY <1>1, <1>2, ProducersIs
<1>4. block[p].reads \subseteq Bound /\ Links(p) # {}
  BY <1>3, BindingsOfIs DEF Shallow
<1>5. ASSUME NEW u \in block[p].reads PROVE Makers(u) = {}
  <2>1. u \in Bound /\ u # NoVar /\ u \notin Assigned
    BY <1>4, NamesApart
  <2>2. \A q \in Producers(u) : FALSE
    <3> SUFFICES ASSUME NEW q \in Producers(u) PROVE FALSE
      OBVIOUS
    <3>1. q \in Reactions /\ block[q].var = u
      BY <1>1, ProducersIs
    <3> QED BY <1>1, <2>1, <3>1, AssignedIs
  <2> QED BY <2>2 DEF Makers
<1>6. Final(p) = Links(p)
  BY <1>5 DEF Final
<1> QED BY <1>3, <1>4, <1>6 DEF FirstIn

\* The reference, of a reaction that depends on bindings by others at most.
LEMMA FinalIs ==
  ASSUME Written, NEW k \in Reactions, Shallow(k)
  PROVE  Final(k) = BindingsOf(k) \cup UNION {BindingsOf(p) : p \in Producing(k)}
<1>1. WellFormed
  BY DEF Written
<1>2. BindingsOf(k) = Links(k)
  BY BindingsOfIs
<1>3. ASSUME NEW i \in 1..Size, NEW v \in block[k].reads, i \in Makers(v)
      PROVE  \E p \in Producing(k) : i \in BindingsOf(p)
  <2>1. PICK p \in Producers(v) : i \in FirstIn(p)
    BY <1>3 DEF Makers
  <2>2. p \in Producing(k)
    BY <1>1, <2>1, ProducingIs
  <2> QED BY <2>1, <2>2, ShallowIs, BindingsOfIs
<1>4. ASSUME NEW p \in Producing(k), NEW i \in BindingsOf(p)
      PROVE  i \in 1..Size /\ \E v \in block[k].reads : i \in Makers(v)
  <2>1. p \in Reactions /\ FirstIn(p) = Links(p) /\ i \in Links(p)
    BY ShallowIs, BindingsOfIs
  <2>2. i \in 1..Size /\ Raw[i].dt > 0
    BY <2>1 DEF Links
  <2>3. PICK v \in block[k].reads : p \in Producers(v)
    BY <1>1, ProducingIs
  <2> QED BY <2>1, <2>2, <2>3 DEF Makers
<1>5. \A i : i \in Final(k) <=> i \in Links(k) \/ \E p \in Producing(k) : i \in BindingsOf(p)
  BY <1>3, <1>4 DEF Final
<1> QED BY <1>2, <1>5

\* Unless the later one reads an earlier binding too, an assignment that it reads
\* stays before it.
LEMMA AheadIs ==
  ASSUME Written, NEW k \in Reactions, Shallow(k), NEW p \in Producing(k), p < k,
         ~ReadsEarlier(k, p), NEW t \in 1..Size
  PROVE  Ahead(Lists[t], Node(p), Node(k))
<1>1. WellFormed
  BY DEF Written
<1>2. p \in Reactions /\ FirstIn(p) = Links(p) /\ Links(p) # {} /\ Final(p) = Links(p)
  BY ShallowIs
<1>3. Links(p) \subseteq 1..Size
  BY DEF Links
<1>4. p \in Nat /\ k \in Nat /\ \A i \in 1..Size : i \in Nat
  BY <1>1, <1>2, AssignedIs, OrderIs
<1>5. CASE t \notin Final(p)
  <2>1. ~Contains(Lists[t], Node(p))
    <3> SUFFICES ASSUME Contains(Lists[t], Node(p)) PROVE FALSE
      OBVIOUS
    <3>1. PICK j \in Reactions : Node(p) = Node(j) /\ t \in Final(j)
      BY <1>1, ListsIs
    <3>2. j = p
      BY <3>1, NodeIs
    <3> QED BY <1>5, <3>1, <3>2
  <2>2. DOMAIN Lists[t] = 1..Len(Lists[t])
    BY <1>1, ListsIs
  <2> QED BY <2>1, <2>2 DEF Ahead, Contains
<1>6. CASE t \in Final(p)
  <2>1. ASSUME NEW i \in FirstIn(k) PROVE \E m \in FirstIn(p) : m <= i
    <3>1. i \in 1..Size
      BY <1>1, FirstIs
    <3>2. CASE Links(k) # {}
      <4>1. i \in BindingsOf(k) /\ BindingsOf(p) = Links(p)
        BY <1>2, <2>1, <3>2, BindingsOfIs DEF FirstIn
      <4>2. PICK m \in Links(p) : ~(i < m)
        BY <4>1 DEF ReadsEarlier
      <4>3. m \in Nat /\ i \in Nat
        BY <1>3, <1>4, <3>1
      <4>4. m <= i
        BY <4>2, <4>3
      <4> QED BY <1>2, <4>4
    <3>3. CASE Links(k) = {}
      <4>1. i = Own(k)
        BY <2>1, <3>3 DEF FirstIn
      <4>2. PICK m \in Links(p) : TRUE
        BY <1>2
      <4>3. m \in 1..Size /\ Raw[m].var \in block[p].reads /\ Raw[m].var # NoVar
        <5>1. block[p].reads \subseteq Bound \cup Assigned
          BY <1>1, <1>2, AssignedIs, BlockIs
        <5> QED BY <5>1, NamesApart DEF Links
      <4>4. Order[m] < p
        <5>1. block[p].kind = "react" /\ Allowed(p)
          BY <1>1, <1>2, TemporalsIs, BlockIs
        <5>2. PICK j \in DOMAIN block : j < p /\ block[j].var = Raw[m].var
          BY <4>3, <5>1 DEF Allowed
        <5>3. Raw[m].var \in Bound /\ Raw[m].var \notin Assigned
          BY <1>1, <4>3, RawVarIs, NamesApart
        <5>4. block[j].kind = "bind"
          BY <1>1, <5>2, <5>3, BlockIs, NamesApart DEF Allowed
        <5>5. block[Order[m]].kind = "bind" /\ block[Order[m]].var = Raw[m].var
              /\ Order[m] \in DOMAIN block
          BY <1>1, <4>3, RawVarIs, RawIs
        <5>6. Order[m] = j
          BY <1>1, <5>2, <5>4, <5>5 DEF WellFormed
        <5> QED BY <5>2, <5>6
      <4>5. Under(Own(k), k) /\ Own(k) \in 1..Size
        BY <1>1, OwnIs
      <4>6. Order[m] \in Temporals /\ Order[m] \in Nat /\ Order[Own(k)] \in Nat
        BY <1>1, <4>3, <4>5, OrderIs
      <4>7. Order[m] <= Order[Own(k)]
        <5>1. Order[m] <= Order[Own(k)] \/ Order[m] > k
          BY <4>5, <4>6 DEF Under
        <5> QED BY <1>4, <4>4, <4>6, <5>1
      <4>8. ~(Own(k) < m)
        <5>1. ~(Order[Own(k)] < Order[m])
          BY <4>6, <4>7
        <5> QED BY <1>1, <4>3, <4>5, <5>1, OrderIs
      <4>9. m <= i
        BY <1>4, <4>1, <4>3, <4>5, <4>8
      <4> QED BY <1>2, <4>9
    <3> QED BY <3>2, <3>3
  <2>2. Precedes(Lists[t], Node(p), Node(k)) /\ Single(Lists[t])
    BY <1>1, <1>2, <1>6, <2>1, ListsIs
  <2> QED BY <2>2, SingleAhead
<1> QED BY <1>5, <1>6

-----------------------------------------------------------------------------
(***************************************************************************)
(* Placement: the theorems                                                  *)
(***************************************************************************)

\* A block grows by one statement.
LEMMA WriteKeeps ==
  ASSUME PlacementInv, NEW st \in Statement, Write(st),
         st.kind = "bind" => st.var \in Bound \ Names /\ st.dt \in Intervals,
         st.kind = "drive" => st.var = NoVar /\ st.dt \in Intervals,
         st.kind = "react" =>
            /\ st.var \in Assigned \cup {NoVar} /\ st.reads \subseteq Names
            /\ \E k \in DOMAIN block : block[k].kind # "react"
  PROVE  PlacementInv'
<1> DEFINE n == Len(block)
<1>1. /\ block \in Seq(Statement) /\ n \in Nat /\ DOMAIN block = 1..n
      /\ \A k \in 1..n : Allowed(k)
      /\ \A i, j \in 1..n : block[i].kind = "bind" /\ block[j].kind = "bind"
                            /\ block[i].var = block[j].var => i = j
  <2>1. CASE Written
    <3>1. WellFormed /\ block \in Seq(Statement)
      BY <2>1 DEF Written, WellFormed
    <3> QED BY <3>1, BlockIs DEF WellFormed
  <2>2. CASE block = <<>>
    <3>1. block \in Seq(Statement) /\ n = 0 /\ DOMAIN block = 1..n /\ 1..n = {}
      BY <2>2
    <3> QED BY <3>1
  <2> QED BY <2>1, <2>2 DEF PlacementInv
<1>2. /\ block' = Append(block, st) /\ segs' = Started(block', 0)
      /\ n < MaxLength /\ MaxLength \in Nat
  BY PlacementAssumption DEF Write, PlacementAssumption
<1>3. /\ block' \in Seq(Statement) /\ Len(block') = n + 1 /\ DOMAIN block' = 1..(n + 1)
      /\ block'[n + 1] = st /\ \A k \in 1..n : block'[k] = block[k]
  BY <1>1, <1>2
<1>4. /\ \A k \in 1..(n + 1) : k = n + 1 \/ k \in 1..n
      /\ \A k \in 1..n : k \in 1..(n + 1) /\ k < n + 1
      /\ n + 1 \in 1..(n + 1)
  BY <1>1
<1>5. \A v : v \in Names <=> v # NoVar /\ \E k \in 1..n : block[k].var = v
  BY <1>1 DEF Names
<1> HIDE DEF n
<1>6. ASSUME NEW k \in 1..(n + 1) PROVE Allowed(k)'
  <2>1. CASE k \in 1..n
    <3>1. Allowed(k) /\ block'[k] = block[k]
      BY <1>1, <1>3, <2>1
    <3>2. block[k].kind = "bind" => block[k].var \in Bound /\ block[k].dt \in Intervals
      BY <3>1 DEF Allowed
    <3>3. block[k].kind = "drive" => block[k].var = NoVar /\ block[k].dt \in Intervals
      BY <3>1 DEF Allowed
    <3>4. ASSUME block[k].kind = "react"
          PROVE  /\ block[k].var \in Assigned \cup {NoVar}
                 /\ \A v \in block[k].reads : \E i \in 1..(n + 1) : i < k /\ block'[i].var = v
                 /\ \E i \in 1..(n + 1) : i < k /\ block'[i].kind # "react"
      <4>1. /\ block[k].var \in Assigned \cup {NoVar}
            /\ \A v \in block[k].reads : \E i \in 1..n : i < k /\ block[i].var = v
            /\ \E i \in 1..n : i < k /\ block[i].kind # "react"
        BY <1>1, <3>1, <3>4 DEF Allowed
      <4> QED BY <1>3, <1>4, <4>1
    <3> QED BY <1>3, <3>1, <3>2, <3>3, <3>4 DEF Allowed
  <2>2. CASE k = n + 1
    <3>1. block'[k] = st
      BY <1>3, <2>2
    <3>2. ASSUME st.kind = "react"
          PROVE  /\ \A v \in st.reads : \E i \in 1..(n + 1) : i < k /\ block'[i].var = v
                 /\ \E i \in 1..(n + 1) : i < k /\ block'[i].kind # "react"
      <4>1. \A v \in st.reads : \E i \in 1..n : block[i].var = v
        BY <1>5, <3>2
      <4>2. \E i \in 1..n : block[i].kind # "react"
        BY <1>1, <3>2
      <4> QED BY <1>3, <1>4, <2>2, <4>1, <4>2
    <3> QED BY <1>3, <3>1, <3>2 DEF Allowed
  <2> QED BY <1>4, <2>1, <2>2
<1>7. ASSUME NEW i \in 1..(n + 1), NEW j \in 1..(n + 1), block'[i].kind = "bind",
             block'[j].kind = "bind", block'[i].var = block'[j].var
      PROVE  i = j
  <2>1. st.kind = "bind" => \A k \in 1..n : block[k].var # st.var
    <3>1. st.kind = "bind" => st.var # NoVar /\ st.var \notin Names
      BY NamesApart
    <3> QED BY <1>5, <3>1
  <2>2. CASE i \in 1..n /\ j \in 1..n
    BY <1>1, <1>3, <1>7, <2>2
  <2>3. CASE i = n + 1 /\ j \in 1..n
    BY <1>3, <1>7, <2>1, <2>3
  <2>4. CASE i \in 1..n /\ j = n + 1
    BY <1>3, <1>7, <2>1, <2>4
  <2>5. CASE i = n + 1 /\ j = n + 1
    BY <2>5
  <2> QED BY <1>4, <2>2, <2>3, <2>4, <2>5
<1>8. Len(block') <= MaxLength /\ block' # <<>>
  <2>1. Len(block') # 0 /\ Len(block') <= MaxLength
    BY <1>1, <1>2, <1>3
  <2>2. Len(<<>>) = 0
    OBVIOUS
  <2> QED BY <2>1, <2>2
<1>9. WellFormed'
  <2>1. Statement' = Statement
    BY DEF Statement
  <2>2. \A k \in DOMAIN block' : Allowed(k)'
    BY <1>3, <1>6
  <2>3. \A i, j \in DOMAIN block' :
         block'[i].kind = "bind" /\ block'[j].kind = "bind" /\ block'[i].var = block'[j].var => i = j
    BY <1>3, <1>7
  <2> QED BY <1>3, <1>8, <2>1, <2>2, <2>3 DEF WellFormed
<1> QED BY <1>2, <1>8, <1>9 DEF PlacementInv, Written

\* Of every block that can be written: a name is bound once, what a reaction reads
\* stands before it, and the segments are what redistribute_reactions() makes of it.
THEOREM PlacementInvariance == PlacementSpec => []PlacementInv
<1>1. PlacementInit => PlacementInv
  BY DEF PlacementInit, PlacementInv
<1>2. PlacementInv /\ [PlacementNext]_<<block, segs>> => PlacementInv'
  <2> SUFFICES ASSUME PlacementInv, [PlacementNext]_<<block, segs>> PROVE PlacementInv'
    OBVIOUS
  <2>1. CASE WriteBinding
    <3>1. PICK v \in Bound \ Names, dt \in Intervals : Write(Bind(v, "fn", dt))
      BY <2>1 DEF WriteBinding
    <3>2. Bind(v, "fn", dt) \in Statement
      BY DEF Bind, Creating, Statement
    <3>3. Bind(v, "fn", dt).kind = "bind" /\ Bind(v, "fn", dt).var = v /\ Bind(v, "fn", dt).dt = dt
      BY DEF Bind, Creating
    <3> QED BY <3>1, <3>2, <3>3, WriteKeeps
  <2>2. CASE WriteDriver
    <3>1. PICK dt \in Intervals \ {0} : Write(Drive("fn", dt))
      BY <2>2 DEF WriteDriver
    <3>2. Drive("fn", dt) \in Statement
      BY DEF Drive, Creating, Statement
    <3>3. /\ Drive("fn", dt).kind = "drive" /\ Drive("fn", dt).var = NoVar
          /\ Drive("fn", dt).dt = dt
      BY DEF Drive, Creating
    <3> QED BY <3>1, <3>2, <3>3, WriteKeeps
  <2>3. CASE WriteReaction
    <3>1. PICK rds \in SUBSET Names, v \in Assigned \cup {NoVar} : Write(React(v, rds))
      BY <2>3 DEF WriteReaction
    <3>2. Places(Ast, Temporal) # {}
      BY <2>3 DEF WriteReaction, Ast
    <3>3. WellFormed
      <4>1. block # <<>>
        <5> SUFFICES ASSUME block = <<>> PROVE FALSE
          OBVIOUS
        <5>1. DOMAIN Ast = {}
          BY DEF Ast, Parsed
        <5> QED BY <3>2, <5>1 DEF Places
      <4> QED BY <4>1 DEF PlacementInv, Written
    <3>4. \E k \in DOMAIN block : block[k].kind # "react"
      BY <3>2, <3>3, TemporalsIs DEF Temporals
    <3>5. rds \subseteq Bound \cup Assigned
      <4>1. ASSUME NEW k \in DOMAIN block, block[k].var # NoVar
            PROVE  block[k].var \in Bound \cup Assigned
        <5>1. block[k] \in Statement
          BY <3>3 DEF WellFormed
        <5> QED BY <4>1, <5>1 DEF Statement
      <4>2. \A u \in Names : u \in Bound \cup Assigned
        BY <4>1 DEF Names
      <4> QED BY <4>2
    <3>6. React(v, rds) \in Statement
      BY <3>5 DEF React, Statement
    <3>7. React(v, rds).kind = "react" /\ React(v, rds).var = v /\ React(v, rds).reads = rds
      BY DEF React
    <3> QED BY <3>1, <3>4, <3>6, <3>7, WriteKeeps
  <2>4. CASE UNCHANGED <<block, segs>>
    BY <2>4 DEF PlacementInv, Written, WellFormed, Allowed
  <2> QED BY <2>1, <2>2, <2>3, <2>4 DEF PlacementNext
<1> QED BY <1>1, <1>2, PTL DEF PlacementSpec

\* With nothing written nothing is placed.
LEMMA EmptyIs ==
  ASSUME block = <<>>, segs = <<>>
  PROVE  PlacementTypeOK /\ Reactions = {}
<1>1. DOMAIN block = {} /\ DOMAIN segs = {} /\ Len(block) = 0 /\ Len(segs) = 0
  OBVIOUS
<1>2. Places(Parsed(block, 0), Temporal) = {}
  BY <1>1 DEF Places, Parsed
<1>3. Cardinality({}) = 0 /\ 0 <= MaxLength
  BY FS_EmptySet, PlacementAssumption DEF PlacementAssumption
<1>4. PlacementTypeOK
  BY <1>1, <1>2, <1>3 DEF PlacementTypeOK
<1> QED BY <1>1, <1>4 DEF Reactions

\* The types that the invariant gives.
LEMMA TypesHold ==
  ASSUME PlacementInv
  PROVE  PlacementTypeOK
<1>1. CASE Written
  <2>1. WellFormed /\ Len(block) <= MaxLength
    BY <1>1 DEF Written, WellFormed
  <2>2. ASSUME NEW k \in DOMAIN block PROVE block[k] \in Statement
    BY <2>1 DEF WellFormed
  <2>3. DOMAIN segs = 1..Size /\ Size \in Nat /\ Size = Cardinality(Places(Parsed(block, 0), Temporal))
    BY <1>1, <2>1, SegsIs, OrderIs DEF Temporals, Ast
  <2>4. Len(segs) = Size
    <3>1. segs = [i \in 1..Size |-> segs[i]]
      BY <1>1, SegsIs
    <3>2. segs \in [1..Size -> {segs[i] : i \in 1..Size}]
      BY <3>1
    <3> QED BY <2>3, <3>2, IsSequence
  <2>5. ASSUME NEW i \in DOMAIN segs
        PROVE  segs[i].var \in Bound \cup {NoVar} /\ segs[i].dt \in Intervals
    BY <1>1, <2>1, <2>3, SegsIs, RawVarIs
  <2> QED BY <2>1, <2>2, <2>3, <2>4, <2>5 DEF PlacementTypeOK, Statement
<1>2. CASE block = <<>> /\ segs = <<>>
  BY <1>2, EmptyIs
<1> QED BY <1>1, <1>2 DEF PlacementInv

\* A reaction runs whenever a binding ticks that it depends on, by itself or by a
\* variable another reaction assigns, and at no other time: redistribute_reactions()
\* puts it in just those segments, in every block.
THEOREM PlacedAsDrivenAlways == PlacementSpec => []PlacedAsDriven
<1>1. PlacementInv => PlacedAsDriven
  <2> SUFFICES ASSUME PlacementInv PROVE PlacedAsDriven
    OBVIOUS
  <2>1. ASSUME NEW k \in Reactions, Shallow(k)
        PROVE  PlacedIn(k) = BindingsOf(k) \cup UNION {BindingsOf(p) : p \in Producing(k)}
    <3>1. Written
      BY EmptyIs DEF PlacementInv
    <3> QED BY <2>1, <3>1, PlacedInIs, FinalIs
  <2> QED BY <2>1, TypesHold DEF PlacedAsDriven
<1> QED BY <1>1, PlacementInvariance, PTL

\* A set without two members has at most one.
LEMMA AtMostOne ==
  ASSUME NEW S, \A i, j \in S : i = j
  PROVE  Cardinality(S) <= 1
<1>1. CASE S = {}
  BY <1>1, FS_EmptySet
<1>2. CASE S # {}
  <2>1. PICK x \in S : TRUE
    BY <1>2
  <2>2. S = {x}
    BY <2>1
  <2>3. Cardinality({x}) = 1
    BY FS_Singleton
  <2> QED BY <2>2, <2>3
<1> QED BY <1>1, <1>2

\* However many of its segments tick together a reaction runs once: it is local to
\* one segment, or shared by all it is in, and in none of them twice.
THEOREM OncePerEpochAlways == PlacementSpec => []OncePerEpoch
<1>1. PlacementInv => OncePerEpoch
  <2> SUFFICES ASSUME PlacementInv, NEW k \in Reactions
               PROVE  /\ Cardinality(LocalIn(k)) <= 1
                      /\ LocalIn(k) = {} \/ SharedIn(k) = {}
                      /\ \A i \in DOMAIN segs :
                           Cardinality({j \in DOMAIN segs[i].reactions \cup DOMAIN segs[i].shared :
                             \/ j \in DOMAIN segs[i].reactions /\ segs[i].reactions[j] = Node(k)
                             \/ j \in DOMAIN segs[i].shared /\ segs[i].shared[j] = Node(k)}) <= 1
    BY DEF OncePerEpoch
  <2>1. Written
    BY EmptyIs DEF PlacementInv
  <2>2. LocalIn(k) = {i \in Final(k) : Final(k) = {i}} /\ SharedIn(k) = {i \in Final(k) : Final(k) # {i}}
    BY <2>1, PlacedInIs
  <2>3. Cardinality(LocalIn(k)) <= 1
    <3>1. \A i, j \in LocalIn(k) : i = j
      BY <2>2
    <3> QED BY <3>1, AtMostOne
  <2>4. LocalIn(k) = {} \/ SharedIn(k) = {}
    BY <2>2
  <2>5. ASSUME NEW i \in DOMAIN segs
        PROVE  Cardinality({j \in DOMAIN segs[i].reactions \cup DOMAIN segs[i].shared :
                             \/ j \in DOMAIN segs[i].reactions /\ segs[i].reactions[j] = Node(k)
                             \/ j \in DOMAIN segs[i].shared /\ segs[i].shared[j] = Node(k)}) <= 1
    <3> DEFINE a == segs[i].reactions
               b == segs[i].shared
               T == {j \in DOMAIN a \cup DOMAIN b : \/ j \in DOMAIN a /\ a[j] = Node(k)
                                                    \/ j \in DOMAIN b /\ b[j] = Node(k)}
    <3>1. i \in 1..Size
      BY <2>1, SegsIs
    <3>2. /\ Single(a) /\ Single(b) /\ DOMAIN a = 1..Len(a) /\ DOMAIN b = 1..Len(b)
          /\ ~(Contains(a, Node(k)) /\ Contains(b, Node(k)))
      BY <2>1, <3>1, PlacedIs
    <3> HIDE DEF a, b
    <3>3. ~((\E j \in DOMAIN a : a[j] = Node(k)) /\ (\E j \in DOMAIN b : b[j] = Node(k)))
      BY <3>2 DEF Contains
    <3>4. \A j, m \in T : j = m
      BY <3>2, <3>3 DEF Single
    <3>5. Cardinality(T) <= 1
      <4> HIDE DEF T
      <4> QED BY <3>4, AtMostOne
    <3> QED BY <3>5 DEF a, b
  <2> QED BY <2>3, <2>4, <2>5
<1> QED BY <1>1, PlacementInvariance, PTL

\* A tick computes a variable before it uses it: of two reactions of one segment,
\* the one that assigns what the other reads comes first if it was written first,
\* unless the other reads an earlier binding, too.
THEOREM SourceOrderAlways == PlacementSpec => []SourceOrder
<1>1. PlacementInv => SourceOrder
  <2> SUFFICES ASSUME PlacementInv, NEW k \in Reactions, Shallow(k), NEW p \in Producing(k),
                      p < k, ~ReadsEarlier(k, p), NEW i \in DOMAIN segs
               PROVE  Before(segs[i].reactions, p, k) /\ Before(segs[i].shared, p, k)
    BY DEF SourceOrder
  <2>1. Written
    BY EmptyIs DEF PlacementInv
  <2>2. i \in 1..Size
    BY <2>1, SegsIs
  <2>3. Ahead(segs[i].reactions, Node(p), Node(k)) /\ Ahead(segs[i].shared, Node(p), Node(k))
    BY <2>1, <2>2, AheadIs, PlacedIs
  <2> QED BY <2>3 DEF Ahead, Before
<1> QED BY <1>1, PlacementInvariance, PTL

-----------------------------------------------------------------------------
(***************************************************************************)
(* Flows: the inductive invariant                                           *)
(***************************************************************************)

\* The functions from some of A to B.
Functions(A, B) == UNION {[D -> B] : D \in SUBSET A}

Keys  == Parametric \X Args
Nodes == Nat \X Nat \X Nat
Sites == [node: Nodes, r: Reader]

\* The cache and its order agree, and no call is of an old definition.
CallsOk(c, o) ==
    /\ Len(o) <= MaxCache
    /\ \A k \in Keys : k \in DOMAIN c <=> \E j \in 1..Len(o) : o[j] = k
    /\ \A i, j \in 1..Len(o) : o[i] = o[j] => i = j
    /\ \A k \in DOMAIN c : c[k] = defs[k[1]]

\* What the evaluator reads flows with; every node has a map.
Kept == [cache: Functions(Keys, Nat), order: Seq(Keys), cell: Functions(Nodes, Nodes),
         pos: Functions(Nodes, Nat)]
Sane == {s \in Kept : CallsOk(s.cache, s.order) /\ s.cell \in Functions(Nodes, DOMAIN s.pos)}

\* The text is made of reactions, and what is compiled has no parameter.
TextOk ==
    /\ ver \in 1..MaxTexts
    /\ own \in [Segs -> Seq(Sites)] /\ shared \in Seq(Sites)
    /\ \A i \in Segs : \A k \in DOMAIN own[i] : own[i][k].r.comp => own[i][k].r.flow \in Static

Deferrals == [q: Sites, alive: BOOLEAN]

RunOk ==
    /\ up \in BOOLEAN /\ trig \in [Range(Vars) -> BOOLEAN]
    /\ deferred \in Seq(Deferrals)

\* Every segment that is compiled has its slots while the process runs.
SlotsOk ==
    /\ slots \in [Segs -> Seq(Nat)]
    /\ up => \A i \in Segs : Len(slots[i]) = IF Compiles(own[i]) THEN Len(own[i]) ELSE 0

DefsOk == defs \in [Static \cup Parametric -> 1..(MaxDefs + 1)]

FlowsInv ==
    /\ TextOk /\ RunOk /\ SlotsOk /\ DefsOk
    /\ State \in Sane /\ Range(cell) = DOMAIN pos

-----------------------------------------------------------------------------
(***************************************************************************)
(* Flows: partial functions                                                 *)
(***************************************************************************)

\* What a partial function is.
LEMMA FunctionIs ==
  ASSUME NEW A, NEW B, NEW f
  PROVE  f \in Functions(A, B) <=> f \in [DOMAIN f -> B] /\ DOMAIN f \subseteq A
<1>1. ASSUME f \in Functions(A, B) PROVE f \in [DOMAIN f -> B] /\ DOMAIN f \subseteq A
  <2>1. PICK D \in SUBSET A : f \in [D -> B]
    BY <1>1 DEF Functions
  <2> QED BY <2>1
<1>2. ASSUME f \in [DOMAIN f -> B], DOMAIN f \subseteq A PROVE f \in Functions(A, B)
  BY <1>2 DEF Functions
<1> QED BY <1>1, <1>2

\* With() adds or changes one value.
LEMMA WithIs ==
  ASSUME NEW A, NEW B, NEW f \in Functions(A, B), NEW x \in A, NEW v \in B
  PROVE  With(f, x, v) \in Functions(A, B)
<1>1. f \in [DOMAIN f -> B] /\ DOMAIN f \subseteq A
  BY FunctionIs
<1>2. /\ With(f, x, v) \in [DOMAIN f \cup {x} -> B] /\ DOMAIN With(f, x, v) = DOMAIN f \cup {x}
      /\ DOMAIN f \cup {x} \subseteq A
  BY <1>1 DEF With
<1> QED BY <1>2, FunctionIs

\* Only() forgets the others.
LEMMA OnlyIs ==
  ASSUME NEW A, NEW B, NEW f \in Functions(A, B), NEW S
  PROVE  Only(f, S) \in Functions(A, B)
<1>1. f \in [DOMAIN f -> B] /\ DOMAIN f \subseteq A
  BY FunctionIs
<1>2. /\ Only(f, S) \in [DOMAIN f \cap S -> B] /\ DOMAIN Only(f, S) = DOMAIN f \cap S
      /\ DOMAIN f \cap S \subseteq A
  BY <1>1 DEF Only
<1> QED BY <1>2, FunctionIs

\* A partial function into a larger set.
LEMMA FunctionInto ==
  ASSUME NEW A, NEW B, NEW C, NEW f \in Functions(A, B), \A x \in DOMAIN f : f[x] \in C
  PROVE  f \in Functions(A, C)
<1>1. f \in [DOMAIN f -> B] /\ DOMAIN f \subseteq A
  BY FunctionIs
<1>2. f \in [DOMAIN f -> C]
  BY <1>1
<1> QED BY <1>1, <1>2, FunctionIs

-----------------------------------------------------------------------------
(***************************************************************************)
(* Flows: the cache                                                         *)
(***************************************************************************)

\* The cache has as many calls as its order.
LEMMA AsManyCalls ==
  ASSUME NEW c \in Functions(Keys, Nat), NEW o \in Seq(Keys), CallsOk(c, o)
  PROVE  Cardinality(DOMAIN c) = Len(o) /\ Range(o) = DOMAIN c
<1> DEFINE n == Len(o)
<1>1. n \in Nat /\ DOMAIN c \subseteq Keys /\ DOMAIN o = 1..n /\ \A j \in 1..n : o[j] \in Keys
  BY FunctionIs
<1>2. \A j \in 1..n : o[j] \in DOMAIN c
  BY <1>1 DEF CallsOk
<1>3. \A k \in DOMAIN c : \E j \in 1..n : o[j] = k
  BY <1>1 DEF CallsOk
<1>4. \A i, j \in 1..n : o[i] = o[j] => i = j
  BY DEF CallsOk
<1>5. o \in [1..n -> DOMAIN c]
  BY <1>1, <1>2
<1>6. o \in Bijection(1..n, DOMAIN c)
  <2> HIDE DEF n
  <2>1. IsInjective(o)
    BY <1>1, <1>4 DEF IsInjective
  <2> QED BY <1>3, <1>4, <1>5, <2>1 DEF Bijection, Injection, Surjection, IsInjective
<1>7. Cardinality(DOMAIN c) = n
  <2> HIDE DEF n
  <2> QED BY <1>1, <1>6, FS_CountingElements DEF ExistsBijection
<1>8. Range(o) = DOMAIN c
  BY <1>1, <1>2, <1>3 DEF Range
<1> QED BY <1>7, <1>8

\* What Sane says.
LEMMA SaneIs ==
  ASSUME NEW s \in Sane
  PROVE  /\ s \in Kept /\ s.cache \in Functions(Keys, Nat) /\ s.order \in Seq(Keys)
         /\ s.cell \in Functions(Nodes, Nodes) /\ s.pos \in Functions(Nodes, Nat)
         /\ CallsOk(s.cache, s.order) /\ s.cell \in Functions(Nodes, DOMAIN s.pos)
BY DEF Sane, Kept

\* A call enters the cache c with the order o, which become d and p; old leaves.
Entered(c, o, key, d, p, old) ==
    /\ old = IF Cardinality(DOMAIN c) >= MaxCache THEN Head(o) ELSE <<>>
    /\ d = With(Only(c, DOMAIN c \ {old}), key, defs[key[1]])
    /\ p = Append(IF Cardinality(DOMAIN c) >= MaxCache THEN Tail(o) ELSE o, key)

\* A call that enters the cache keeps it and its order in agreement: the one that
\* was inserted first leaves both.
LEMMA InsertedCalls ==
  ASSUME DefsOk, NEW c \in Functions(Keys, Nat), NEW o \in Seq(Keys), CallsOk(c, o),
         NEW key \in Keys, key \notin DOMAIN c,
         NEW d, NEW p, NEW old, Entered(c, o, key, d, p, old)
  PROVE  d \in Functions(Keys, Nat) /\ p \in Seq(Keys) /\ CallsOk(d, p) /\ key \in DOMAIN d
<1> DEFINE n == Len(o)
           b == Only(c, DOMAIN c \ {old})
<1>0. MaxCache \in Nat \ {0}
  BY FlowsAssumption
<1>1. /\ n \in Nat /\ n <= MaxCache
      /\ \A j \in 1..n : o[j] \in Keys
      /\ \A k \in Keys : k \in DOMAIN c <=> \E j \in 1..n : o[j] = k
      /\ \A i, j \in 1..n : o[i] = o[j] => i = j
      /\ \A k \in DOMAIN c : c[k] = defs[k[1]]
  BY DEF CallsOk
<1>2. Cardinality(DOMAIN c) = n
  BY AsManyCalls
<1>3. key[1] \in Parametric /\ defs[key[1]] \in Nat
  BY DEF Keys, DefsOk
<1>4. DOMAIN c \subseteq Keys
  BY FunctionIs
<1>5. b \in Functions(Keys, Nat) /\ DOMAIN b = DOMAIN c \ {old} /\ \A k \in DOMAIN b : b[k] = c[k]
  <2>1. DOMAIN c \cap (DOMAIN c \ {old}) = DOMAIN c \ {old}
    OBVIOUS
  <2>2. b \in Functions(Keys, Nat) /\ DOMAIN b = DOMAIN c \cap (DOMAIN c \ {old})
        /\ \A k \in DOMAIN b : b[k] = c[k]
    <3>1. b \in Functions(Keys, Nat)
      BY OnlyIs
    <3> QED BY <3>1 DEF Only
  <2> HIDE DEF b
  <2> QED BY <2>1, <2>2
<1>6. /\ d \in Functions(Keys, Nat) /\ DOMAIN d = DOMAIN b \cup {key} /\ d[key] = defs[key[1]]
      /\ \A k \in DOMAIN b : k # key => d[k] = b[k]
  <2>1. d = With(b, key, defs[key[1]])
    BY DEF Entered
  <2> HIDE DEF b
  <2>2. d \in Functions(Keys, Nat)
    BY <1>3, <1>5, <2>1, WithIs
  <2> QED BY <2>1, <2>2 DEF With
<1> HIDE DEF b
<1>7. \A k \in DOMAIN d : d[k] = defs[k[1]]
  BY <1>1, <1>5, <1>6
<1>8. CASE n >= MaxCache
  <2> DEFINE q == Tail(o)
  <2>0. old = Head(o) /\ p = Append(q, key)
    BY <1>2, <1>8 DEF Entered
  <2>1. /\ n \in Nat \ {0} /\ old = o[1] /\ q \in Seq(Keys) /\ Len(q) = n - 1
        /\ \A j \in 1..(n - 1) : q[j] = o[j + 1]
    <3>1. n \in Nat \ {0}
      BY <1>0, <1>1, <1>8
    <3> QED BY <2>0, <3>1
  <2> HIDE DEF q
  <2>2. p \in Seq(Keys) /\ Len(p) = n /\ p[n] = key /\ \A j \in 1..(n - 1) : p[j] = o[j + 1]
    <3> HIDE DEF n
    <3> QED BY <2>0, <2>1
  <2>3. \A j \in 1..n : j = n \/ (j \in 1..(n - 1) /\ j + 1 \in 1..n /\ j + 1 # 1)
    BY <2>1
  <2>4. \A j \in 1..(n - 1) : p[j] \in DOMAIN c /\ p[j] # old /\ p[j] # key
    <3>1. 1 \in 1..n /\ \A j \in 1..(n - 1) : j + 1 \in 1..n /\ j + 1 # 1
      BY <2>1
    <3>2. \A j \in 1..n : o[j] \in DOMAIN c
      BY <1>1
    <3> HIDE DEF n
    <3> SUFFICES ASSUME NEW j \in 1..(n - 1) PROVE o[j + 1] \in DOMAIN c /\ o[j + 1] # o[1] /\ o[j + 1] # key
      BY <2>1, <2>2
    <3>3. o[j + 1] \in DOMAIN c /\ o[j + 1] # o[1]
      BY <1>1, <3>1, <3>2
    <3> QED BY <3>3
  <2>5. ASSUME NEW k \in Keys PROVE k \in DOMAIN d <=> \E j \in 1..n : p[j] = k
    <3>1. ASSUME k \in DOMAIN d PROVE \E j \in 1..n : p[j] = k
      <4>1. CASE k = key
        <5>1. n \in 1..n
          BY <2>1
        <5> QED BY <2>2, <4>1, <5>1
      <4>2. CASE k # key
        <5>1. k \in DOMAIN c /\ k # o[1]
          BY <1>5, <1>6, <2>1, <3>1, <4>2
        <5>2. PICK j \in 1..n : o[j] = k
          BY <1>1, <5>1
        <5>3. j - 1 \in 1..(n - 1) /\ j - 1 \in 1..n /\ (j - 1) + 1 = j
          BY <2>1, <5>1, <5>2
        <5> QED BY <2>2, <5>2, <5>3
      <4> QED BY <4>1, <4>2
    <3>2. ASSUME NEW j \in 1..n, p[j] = k PROVE k \in DOMAIN d
      BY <1>5, <1>6, <2>2, <2>3, <2>4, <3>2
    <3> QED BY <3>1, <3>2
  <2>6. ASSUME NEW i \in 1..n, NEW j \in 1..n, p[i] = p[j] PROVE i = j
    <3>1. CASE i = n \/ j = n
      BY <2>2, <2>3, <2>4, <2>6, <3>1
    <3>2. CASE i \in 1..(n - 1) /\ j \in 1..(n - 1)
      <4>1. o[i + 1] = o[j + 1] /\ i + 1 \in 1..n /\ j + 1 \in 1..n
        <5>1. i + 1 \in 1..n /\ j + 1 \in 1..n
          BY <2>1, <3>2
        <5> QED BY <2>2, <2>6, <3>2, <5>1
      <4>2. i + 1 = j + 1
        BY <1>1, <4>1
      <4> QED BY <4>2
    <3> QED BY <2>3, <3>1, <3>2
  <2>7. CallsOk(d, p)
    <3> HIDE DEF n
    <3>1. \A k \in Keys : k \in DOMAIN d <=> \E j \in 1..Len(p) : p[j] = k
      BY <2>2, <2>5
    <3>2. \A i, j \in 1..Len(p) : p[i] = p[j] => i = j
      BY <2>2, <2>6
    <3> QED BY <1>1, <1>7, <2>2, <3>1, <3>2 DEF CallsOk
  <2> QED BY <1>6, <2>2, <2>7
<1>9. CASE ~(n >= MaxCache)
  <2>0. old = <<>> /\ p = Append(o, key)
    BY <1>2, <1>9 DEF Entered
  <2>1. old \notin Keys
    <3>1. \A k \in Keys : k # <<>>
      <4>1. \A k \in Keys : k = <<k[1], k[2]>>
        BY DEF Keys
      <4>2. \A u, v : <<u, v>> # <<>>
        OBVIOUS
      <4> QED BY <4>1, <4>2
    <3> QED BY <2>0, <3>1
  <2>2. DOMAIN b = DOMAIN c
    BY <1>4, <1>5, <2>1
  <2>3. /\ p \in Seq(Keys) /\ Len(p) = n + 1 /\ p[n + 1] = key /\ \A j \in 1..n : p[j] = o[j]
    <3> HIDE DEF n
    <3>1. n \in Nat /\ Len(o) = n
      BY <1>1 DEF n
    <3> QED BY <2>0, <3>1
  <2>4. \A j \in 1..(n + 1) : j = n + 1 \/ j \in 1..n
    BY <1>1
  <2>5. n + 1 \in 1..(n + 1) /\ \A j \in 1..n : j \in 1..(n + 1)
    BY <1>1
  <2> HIDE DEF n
  <2>6. \A j \in 1..n : p[j] \in DOMAIN c /\ p[j] # key
    BY <1>1, <2>3
  <2>7. ASSUME NEW k \in Keys PROVE k \in DOMAIN d <=> \E j \in 1..(n + 1) : p[j] = k
    <3>1. ASSUME k \in DOMAIN d PROVE \E j \in 1..(n + 1) : p[j] = k
      BY <1>1, <1>6, <2>2, <2>3, <2>5, <3>1
    <3>2. ASSUME NEW j \in 1..(n + 1), p[j] = k PROVE k \in DOMAIN d
      BY <1>6, <2>2, <2>3, <2>4, <2>6, <3>2
    <3> QED BY <3>1, <3>2
  <2>8. ASSUME NEW i \in 1..(n + 1), NEW j \in 1..(n + 1), p[i] = p[j] PROVE i = j
    BY <1>1, <2>3, <2>4, <2>6, <2>8
  <2>9. CallsOk(d, p)
    <3>1. n + 1 <= MaxCache
      BY <1>0, <1>1, <1>9
    <3>2. \A k \in Keys : k \in DOMAIN d <=> \E j \in 1..Len(p) : p[j] = k
      BY <2>3, <2>7
    <3>3. \A i, j \in 1..Len(p) : p[i] = p[j] => i = j
      BY <2>3, <2>8
    <3> QED BY <1>7, <2>3, <3>1, <3>2, <3>3 DEF CallsOk
  <2> QED BY <1>6, <2>3, <2>9
<1> QED BY <1>8, <1>9

\* A new entry keeps all in order.
LEMMA InsertedIs ==
  ASSUME DefsOk, NEW s \in Sane, NEW key \in Keys, key \notin DOMAIN s.cache,
         NEW t, t = Inserted(s, key)
  PROVE  /\ t \in Sane /\ key \in DOMAIN t.cache /\ t.cell = s.cell /\ t.pos = s.pos
         /\ DOMAIN t.cache \subseteq DOMAIN s.cache \cup {key}
<1> DEFINE old == IF Cardinality(DOMAIN s.cache) >= MaxCache THEN Head(s.order) ELSE <<>>
           d   == With(Only(s.cache, DOMAIN s.cache \ {old}), key, defs[key[1]])
           p   == Append(IF Cardinality(DOMAIN s.cache) >= MaxCache THEN Tail(s.order) ELSE s.order, key)
<1>1. t = [s EXCEPT !.cache = d, !.order = p]
  BY DEF Inserted
<1>2. DOMAIN d \subseteq DOMAIN s.cache \cup {key}
  BY DEF With, Only
<1>3. d \in Functions(Keys, Nat) /\ p \in Seq(Keys) /\ CallsOk(d, p) /\ key \in DOMAIN d
  <2>1. Entered(s.cache, s.order, key, d, p, old)
    BY DEF Entered
  <2>2. s.cache \in Functions(Keys, Nat) /\ s.order \in Seq(Keys) /\ CallsOk(s.cache, s.order)
    BY SaneIs
  <2> HIDE DEF old, d, p
  <2> QED BY <2>1, <2>2, InsertedCalls
<1> HIDE DEF d, p
<1>4. t.cache = d /\ t.order = p /\ t.cell = s.cell /\ t.pos = s.pos /\ t \in Kept
  BY <1>1, <1>3, SaneIs DEF Kept
<1> QED BY <1>2, <1>3, <1>4, SaneIs DEF Sane

\* A call is in the cache when it returns; its elements called theirs before.
LEMMA CalledIs ==
  ASSUME DefsOk, NEW s \in Sane, NEW f \in Parametric, NEW x \in Args, NEW t, t = Called(s, f, x)
  PROVE  t \in Sane /\ <<f, x>> \in DOMAIN t.cache /\ t.cell = s.cell /\ t.pos = s.pos
<1>1. <<f, x>> \in Keys
  BY DEF Keys
<1>2. CASE <<f, x>> \in DOMAIN s.cache
  BY <1>2 DEF Called
<1>3. CASE <<f, x>> \notin DOMAIN s.cache
  <2> DEFINE u == IF Inner[f] = NoFlow THEN s ELSE Fetched(s, <<Inner[f], x>>)
  <2>1. t = Inserted(u, <<f, x>>)
    BY <1>3 DEF Called
  <2>2. u \in Sane /\ <<f, x>> \notin DOMAIN u.cache /\ u.cell = s.cell /\ u.pos = s.pos
    <3>1. CASE Inner[f] = NoFlow
      BY <1>3, <3>1
    <3>2. CASE Inner[f] # NoFlow
      <4>1. Inner[f] \in Parametric /\ Inner[Inner[f]] = NoFlow
        BY <3>2, FlowsAssumption
      <4>2. Inner[f] # f
        BY <3>2, <4>1
      <4>3. <<Inner[f], x>> \in Keys /\ <<Inner[f], x>> # <<f, x>>
        BY <4>1, <4>2 DEF Keys
      <4>4. CASE <<Inner[f], x>> \in DOMAIN s.cache
        BY <1>3, <3>2, <4>4 DEF Fetched
      <4>5. CASE <<Inner[f], x>> \notin DOMAIN s.cache
        <5>1. u = Inserted(s, <<Inner[f], x>>)
          BY <3>2, <4>5 DEF Fetched
        <5> HIDE DEF u
        <5>2. /\ u \in Sane /\ u.cell = s.cell /\ u.pos = s.pos
              /\ DOMAIN u.cache \subseteq DOMAIN s.cache \cup {<<Inner[f], x>>}
          BY <4>3, <4>5, <5>1, InsertedIs
        <5> QED BY <1>3, <4>3, <5>2
      <4> QED BY <4>4, <4>5
    <3> QED BY <3>1, <3>2
  <2> HIDE DEF u
  <2>3. t \in Sane /\ <<f, x>> \in DOMAIN t.cache /\ t.cell = u.cell /\ t.pos = u.pos
    BY <1>1, <2>1, <2>2, InsertedIs
  <2> QED BY <2>2, <2>3
<1> QED BY <1>2, <1>3

-----------------------------------------------------------------------------
(***************************************************************************)
(* Flows: reading                                                           *)
(***************************************************************************)


\* A flow has a length, and a cursor stays a position.
LEMMA LengthIs ==
  ASSUME DefsOk, NEW f \in Static \cup Parametric, NEW x \in Args,
         NEW c, NEW o, CallsOk(c, o), f \in Static \/ <<f, x>> \in DOMAIN c,
         NEW cur \in Nat, NEW fires, NEW p, p = Stepped(cur, LengthAt(c, f, x), fires)
  PROVE  p \in Nat
<1> DEFINE d == IF f \in Static THEN defs[f] ELSE c[<<f, x>>]
           n == Length[f][x][d]
<1>1. d = defs[f]
  BY DEF CallsOk
<1> HIDE DEF d
<1>2. d \in 1..(MaxDefs + 1)
  BY <1>1 DEF DefsOk
<1>3. n \in Nat /\ n # 0
  BY <1>2, FlowsAssumption
<1>4. p = IF fires THEN (cur + 1) % n ELSE cur
  BY DEF Stepped, LengthAt, d
<1> HIDE DEF n
<1>5. (cur + 1) % n \in Nat
  BY <1>3
<1> QED BY <1>4, <1>5

\* A cursor is put somewhere: its node has a map then, and the map a position.
LEMMA PutsIs ==
  ASSUME NEW s \in Sane, NEW node \in Nodes, NEW p \in Nat, NEW t, NEW m,
         m = IF node \in DOMAIN s.cell THEN s.cell[node] ELSE node,
         t = [s EXCEPT !.cell = With(@, node, m), !.pos = With(@, m, p)]
  PROVE  t \in Sane
<1> DEFINE c == With(s.cell, node, m)
           q == With(s.pos, m, p)
<1>1. s.cell \in [DOMAIN s.cell -> DOMAIN s.pos] /\ DOMAIN s.pos \subseteq Nodes
      /\ DOMAIN s.cell \subseteq Nodes
  BY SaneIs, FunctionIs
<1>2. m \in Nodes
  BY <1>1
<1>3. q \in Functions(Nodes, Nat) /\ DOMAIN q = DOMAIN s.pos \cup {m}
  <2>1. q \in Functions(Nodes, Nat)
    BY <1>2, SaneIs, WithIs
  <2> QED BY <2>1 DEF With
<1>4. c \in Functions(Nodes, Nodes)
  BY <1>2, SaneIs, WithIs
<1>5. \A k \in DOMAIN c : c[k] \in DOMAIN q
  <2> HIDE DEF q
  <2>1. DOMAIN c = DOMAIN s.cell \cup {node} /\ \A k \in DOMAIN c : c[k] = IF k = node THEN m ELSE s.cell[k]
    BY DEF With
  <2> HIDE DEF c
  <2> QED BY <1>1, <1>3, <2>1
<1>6. t = [s EXCEPT !.cell = c, !.pos = q]
  OBVIOUS
<1> HIDE DEF c, q
<1>7. c \in Functions(Nodes, DOMAIN q)
  BY <1>4, <1>5, FunctionInto
<1>8. t.cache = s.cache /\ t.order = s.order /\ t.cell = c /\ t.pos = q /\ t \in Kept
  <2>1. s \in Kept
    BY SaneIs
  <2> QED BY <1>3, <1>4, <1>6, <2>1 DEF Kept
<1> QED BY <1>7, <1>8, SaneIs DEF Sane

\* Reading a site keeps all in order.
LEMMA WalkedIs ==
  ASSUME DefsOk, NEW s \in Sane, NEW site \in Sites, NEW x \in Args, NEW tr,
         NEW u, u = Walked(s, site, x, tr)
  PROVE  u \in Sane
<1> DEFINE t == IF site.r.flow \in Static THEN s ELSE Called(s, site.r.flow, x)
           m == IF site.node \in DOMAIN t.cell THEN t.cell[site.node] ELSE site.node
           c == IF site.node \in DOMAIN t.cell THEN t.pos[m] ELSE 0
           p == Stepped(c, LengthAt(t.cache, site.r.flow, x), tr[site.r.by])
<1>1. site.node \in Nodes /\ site.r.flow \in Static \cup Parametric
  BY DEF Sites, Reader
<1>2. t \in Sane /\ (site.r.flow \in Static \/ <<site.r.flow, x>> \in DOMAIN t.cache)
  <2>1. CASE site.r.flow \in Static
    BY <2>1
  <2>2. CASE site.r.flow \notin Static
    <3>1. site.r.flow \in Parametric /\ t = Called(s, site.r.flow, x)
      BY <1>1, <2>2
    <3> HIDE DEF t
    <3> QED BY <3>1, CalledIs
  <2> QED BY <2>1, <2>2
<1>3. u = [t EXCEPT !.cell = With(@, site.node, m), !.pos = With(@, m, p)]
  BY DEF Walked
<1> HIDE DEF t
<1>4. c \in Nat
  <2>1. t.cell \in [DOMAIN t.cell -> DOMAIN t.pos] /\ t.pos \in [DOMAIN t.pos -> Nat]
    BY <1>2, SaneIs, FunctionIs
  <2> QED BY <2>1
<1> HIDE DEF c
<1>5. p \in Nat
  <2>1. CallsOk(t.cache, t.order)
    BY <1>2, SaneIs
  <2> QED BY <1>1, <1>2, <1>4, <2>1, LengthIs
<1> HIDE DEF p
<1> QED BY <1>1, <1>2, <1>3, <1>5, PutsIs

\* And so does reading several, one after the other.
LEMMA WalkedAllIs ==
  ASSUME DefsOk, NEW s \in Sane, NEW rs \in Seq(Sites), NEW x \in Args, NEW tr,
         NEW q, q = WalkedAll(s, rs, x, tr)
  PROVE  q \in Sane
<1> DEFINE n == Len(rs)
           V == [k \in 0..n |-> Sane]
           Step == [p \in (1..n) \X Sane |-> Walked(p[2], rs[p[1]], x, tr)]
           Body(f) == [k \in 0..n |-> IF k = 0 THEN s ELSE Walked(f[k - 1], rs[k], x, tr)]
<1>1. n \in Nat /\ (\A k \in 1..n : rs[k] \in Sites) /\ \A k \in 0..n : V[k] = Sane
  OBVIOUS
<1>2. ASSUME NEW k \in 1..n, NEW v \in Sane PROVE Walked(v, rs[k], x, tr) \in Sane
  BY <1>1, WalkedIs
<1>3. \A k \in 1..n : \A v \in Sane : Step[<<k, v>>] = Walked(v, rs[k], x, tr)
  OBVIOUS
<1>4. \A k \in 1..n : k - 1 \in 0..n /\ k \in 0..n /\ k # 0
  BY <1>1
<1>5. 0 \in 0..n /\ n \in 0..n
  BY <1>1
<1> HIDE DEF V, Step
<1>6. PICK f : Records(f, n, V, s, Step)
  <2>1. Closed(n, Sane, V, s, Step)
    <3> HIDE DEF n
    <3> QED BY <1>1, <1>2, <1>3, <1>4, <1>5 DEF Closed
  <2> HIDE DEF n
  <2> QED BY <2>1, StepsExist
<1>7. f = Body(f)
  <2>1. f = [k \in 0..n |-> f[k]] /\ f[0] = s /\ \A k \in 1..n : f[k] = Walked(f[k - 1], rs[k], x, tr)
    BY <1>1, <1>3, <1>4, <1>6 DEF Records
  <2>2. \A k \in 0..n : k # 0 => k \in 1..n
    BY <1>1
  <2> QED BY <2>1, <2>2
<1> DEFINE h == CHOOSE g : g = Body(g)
<1>8. h = Body(h)
  <2> HIDE DEF Body
  <2> QED BY <1>7
<1>9. q = h[n]
  BY DEF WalkedAll
<1> HIDE DEF h
<1>10. h[0] = s /\ \A k \in 1..n : h[k] = Walked(h[k - 1], rs[k], x, tr)
  BY <1>4, <1>5, <1>8
<1>11. \A k \in 0..n : h[k] \in V[k]
  <2>1. h[0] \in V[0] /\ \A k \in 1..n : h[k - 1] \in V[k - 1] => h[k] \in V[k]
    BY <1>1, <1>2, <1>4, <1>5, <1>10
  <2> HIDE DEF n
  <2> QED BY <1>1, <2>1, Stepwise
<1> QED BY <1>1, <1>5, <1>9, <1>11

-----------------------------------------------------------------------------
(***************************************************************************)
(* Flows: texts, slots and maps                                             *)
(***************************************************************************)

\* The segments are numbered.
LEMMA SegsAre == Len(Vars) \in Nat /\ Segs = 1..Len(Vars)
<1>1. Vars \in Seq(Range(Vars))
  BY FlowsAssumption
<1> QED BY <1>1 DEF Segs

\* Any lists, one after the other.
LEMMA FlattenedIs ==
  ASSUME NEW S, NEW lists \in [Segs -> Seq(S)]
  PROVE  FlattenSeq(lists) \in Seq(S)
<1>1. lists \in Seq(Seq(S))
  BY SegsAre, IsSequence
<1>2. CASE Len(lists) # 0
  BY <1>1, <1>2, FlattenSeqIs
<1>3. CASE Len(lists) = 0
  <2>1. lists = <<>> /\ Segs = {}
    BY <1>1, <1>3
  <2>2. FlattenSeq(lists) = lists
    BY <2>1 DEF FlattenSeq
  <2>3. <<>> \in Seq(S)
    OBVIOUS
  <2>4. FlattenSeq(lists) = <<>>
    BY <2>1, <2>2
  <2> QED BY <2>3, <2>4, Zenon
<1> QED BY <1>2, <1>3

\* The reactions of a block.
LEMMA AllReactions ==
  ASSUME NEW o \in [Segs -> Seq(Sites)], NEW sh \in Seq(Sites)
  PROVE  All(o, sh) \in Seq(Sites)
<1>1. FlattenSeq(o) \in Seq(Sites)
  BY FlattenedIs
<1> QED BY <1>1 DEF All

\* A list that is parsed.
LEMMA ParsedIs ==
  ASSUME NEW rs \in Seq(Reader), NEW p \in Nat, NEW v \in Nat, NEW q, q = ParsedAs(rs, p, v)
  PROVE  q \in Seq(Sites) /\ DOMAIN q = DOMAIN rs /\ \A k \in DOMAIN rs : q[k].r = rs[k]
<1>1. Len(rs) \in Nat /\ DOMAIN rs = 1..Len(rs)
  OBVIOUS
<1>2. \A k \in 1..Len(rs) : [node |-> <<v, p, k>>, r |-> rs[k]] \in Sites
  BY DEF Sites, Nodes
<1>3. q = [k \in 1..Len(rs) |-> [node |-> <<v, p, k>>, r |-> rs[k]]]
  BY <1>1 DEF ParsedAs
<1>4. q \in [1..Len(rs) -> Sites]
  BY <1>2, <1>3
<1> QED BY <1>1, <1>3, <1>4, IsSequence

\* A text that is parsed.
LEMMA TextIs ==
  ASSUME NEW t \in Texts, NEW v \in Nat
  PROVE  /\ OwnOf(t, v) \in [Segs -> Seq(Sites)] /\ SharedOf(t, v) \in Seq(Sites)
         /\ \A i \in Segs : \A k \in DOMAIN OwnOf(t, v)[i] :
               OwnOf(t, v)[i][k].r.comp => OwnOf(t, v)[i][k].r.flow \in Static
<1>1. /\ t.own \in [Segs -> Seq(Reader)] /\ t.shared \in Seq(Reader)
      /\ \A rs \in Range(t.own) : \A r \in Range(rs) : r.comp => r.flow \in Static
  BY FlowsAssumption
<1>2. \A i \in Segs : i \in Nat
  BY SegsAre
<1>3. ASSUME NEW i \in Segs
      PROVE  /\ OwnOf(t, v)[i] = ParsedAs(t.own[i], i, v)
             /\ OwnOf(t, v)[i] \in Seq(Sites)
             /\ DOMAIN OwnOf(t, v)[i] = DOMAIN t.own[i]
             /\ \A k \in DOMAIN t.own[i] : OwnOf(t, v)[i][k].r = t.own[i][k]
  <2>1. OwnOf(t, v)[i] = ParsedAs(t.own[i], i, v)
    BY DEF OwnOf
  <2>2. t.own[i] \in Seq(Reader) /\ i \in Nat
    BY <1>1, <1>2
  <2> QED BY <2>1, <2>2, ParsedIs
<1>4. OwnOf(t, v) \in [Segs -> Seq(Sites)]
  <2>1. OwnOf(t, v) = [i \in Segs |-> OwnOf(t, v)[i]]
    BY DEF OwnOf
  <2> QED BY <1>3, <2>1
<1>5. SharedOf(t, v) \in Seq(Sites)
  BY <1>1, ParsedIs DEF SharedOf
<1>6. ASSUME NEW i \in Segs, NEW k \in DOMAIN OwnOf(t, v)[i], OwnOf(t, v)[i][k].r.comp
      PROVE  OwnOf(t, v)[i][k].r.flow \in Static
  <2>1. k \in DOMAIN t.own[i] /\ OwnOf(t, v)[i][k].r = t.own[i][k]
    BY <1>3
  <2>2. t.own[i] \in Range(t.own) /\ t.own[i][k] \in Range(t.own[i])
    BY <1>1, <2>1 DEF Range
  <2>3. t.own[i][k].comp
    BY <1>6, <2>1
  <2>4. t.own[i][k].flow \in Static
    BY <1>1, <2>2, <2>3
  <2> QED BY <2>1, <2>4
<1> QED BY <1>4, <1>5, <1>6

\* What compiles has its slots.
LEMMA SlotsAre ==
  ASSUME NEW rs \in Seq(Sites), NEW p \in Functions(Nodes, Nat), NEW c \in Functions(Nodes, DOMAIN p),
         NEW sl, sl = Slots(rs, c, p)
  PROVE  sl \in Seq(Nat) /\ Len(sl) = IF Compiles(rs) THEN Len(rs) ELSE 0
<1>1. /\ p \in [DOMAIN p -> Nat] /\ c \in [DOMAIN c -> DOMAIN p]
      /\ Len(rs) \in Nat /\ DOMAIN rs = 1..Len(rs)
  BY FunctionIs
<1>2. CASE Compiles(rs)
  <2> DEFINE at(k) == IF rs[k].node \in DOMAIN c THEN p[c[rs[k].node]] ELSE 0
  <2>1. \A k \in 1..Len(rs) : at(k) \in Nat
    BY <1>1
  <2>2. sl = [k \in 1..Len(rs) |-> at(k)]
    BY <1>1, <1>2 DEF Slots
  <2> HIDE DEF at
  <2>3. sl \in [1..Len(rs) -> Nat]
    BY <2>1, <2>2
  <2> QED BY <1>1, <1>2, <2>3, IsSequence
<1>3. CASE ~Compiles(rs)
  BY <1>3 DEF Slots
<1> QED BY <1>2, <1>3

\* A reload takes the positions of the slots over.
LEMMA SyncedIs ==
  ASSUME TextOk, SlotsOk, up, NEW s \in Sane, NEW q, q = Synced(s)
  PROVE  q \in Sane
<1> DEFINE pairs(i) == [k \in DOMAIN slots[i] |-> <<own[i][k].node, slots[i][k]>>]
           at == FlattenSeq([i \in Segs |-> pairs(i)])
           n == Len(at)
           V == [k \in 0..n |-> Sane]
           Step == [p \in (1..n) \X Sane |-> Put(p[2], at[p[1]][1], at[p[1]][2])]
           Body(f) == [k \in 0..n |-> IF k = 0 THEN s ELSE Put(f[k - 1], at[k][1], at[k][2])]
<1>1. at \in Seq(Nodes \X Nat)
  <2>1. ASSUME NEW i \in Segs PROVE pairs(i) \in Seq(Nodes \X Nat)
    <3>1. /\ slots[i] \in Seq(Nat) /\ own[i] \in Seq(Sites)
          /\ Len(slots[i]) = Len(own[i]) \/ Len(slots[i]) = 0
      BY DEF SlotsOk, TextOk
    <3>2. /\ Len(slots[i]) \in Nat /\ DOMAIN slots[i] = 1..Len(slots[i])
          /\ \A k \in 1..Len(slots[i]) : slots[i][k] \in Nat
      BY <3>1
    <3>3. \A k \in 1..Len(slots[i]) : own[i][k] \in Sites
      BY <3>1
    <3>4. \A k \in 1..Len(slots[i]) : <<own[i][k].node, slots[i][k]>> \in Nodes \X Nat
      BY <3>2, <3>3 DEF Sites
    <3>5. pairs(i) \in [1..Len(slots[i]) -> Nodes \X Nat]
      BY <3>2, <3>4
    <3> HIDE DEF pairs
    <3> QED BY <3>2, <3>5, IsSequence
  <2> HIDE DEF pairs
  <2>2. [i \in Segs |-> pairs(i)] \in [Segs -> Seq(Nodes \X Nat)]
    BY <2>1
  <2> QED BY <2>2, FlattenedIs
<1>2. q = LET upTo[k \in 0..n] == IF k = 0 THEN s ELSE Put(upTo[k - 1], at[k][1], at[k][2])
          IN upTo[n]
  BY DEF Synced
<1> HIDE DEF at
<1>3. n \in Nat /\ (\A k \in 1..n : at[k][1] \in Nodes /\ at[k][2] \in Nat) /\ \A k \in 0..n : V[k] = Sane
  BY <1>1
<1>4. ASSUME NEW k \in 1..n, NEW v \in Sane PROVE Put(v, at[k][1], at[k][2]) \in Sane
  BY <1>3, PutsIs DEF Put
<1>5. \A k \in 1..n : \A v \in Sane : Step[<<k, v>>] = Put(v, at[k][1], at[k][2])
  OBVIOUS
<1>6. \A k \in 1..n : k - 1 \in 0..n /\ k \in 0..n /\ k # 0
  BY <1>3
<1>7. 0 \in 0..n /\ n \in 0..n
  BY <1>3
<1> HIDE DEF V, Step
<1>8. PICK f : Records(f, n, V, s, Step)
  <2>1. Closed(n, Sane, V, s, Step)
    <3> HIDE DEF n
    <3> QED BY <1>3, <1>4, <1>5, <1>6, <1>7 DEF Closed
  <2> HIDE DEF n
  <2> QED BY <2>1, StepsExist
<1>9. f = Body(f)
  <2>1. f = [k \in 0..n |-> f[k]] /\ f[0] = s
        /\ \A k \in 1..n : f[k] = Put(f[k - 1], at[k][1], at[k][2])
    BY <1>3, <1>5, <1>6, <1>8 DEF Records
  <2>2. \A k \in 0..n : k # 0 => k \in 1..n
    BY <1>3
  <2> QED BY <2>1, <2>2
<1> DEFINE h == CHOOSE g : g = Body(g)
<1>10. h = Body(h)
  <2> HIDE DEF Body
  <2> QED BY <1>9
<1>11. q = h[n]
  BY <1>2
<1> HIDE DEF h
<1>12. h[0] = s /\ \A k \in 1..n : h[k] = Put(h[k - 1], at[k][1], at[k][2])
  BY <1>6, <1>7, <1>10
<1>13. \A k \in 0..n : h[k] \in V[k]
  <2>1. ASSUME NEW k \in 1..n, h[k - 1] \in V[k - 1] PROVE h[k] \in V[k]
    <3>1. h[k - 1] \in Sane /\ V[k] = Sane
      BY <1>3, <1>6, <2>1
    <3>2. h[k] = Put(h[k - 1], at[k][1], at[k][2])
      BY <1>12
    <3> QED BY <1>4, <3>1, <3>2
  <2>2. h[0] \in V[0]
    BY <1>3, <1>7, <1>12
  <2> HIDE DEF n
  <2> QED BY <1>3, <2>1, <2>2, Stepwise
<1> QED BY <1>3, <1>7, <1>11, <1>13

\* New nodes take maps of old ones,
LEMMA MigratedIs ==
  ASSUME NEW D, NEW c \in Functions(Nodes, D), NEW old \in Seq(Sites), NEW new \in Seq(Sites),
         NEW q, q = Migrated(c, old, new)
  PROVE  q \in Functions(Nodes, D)
<1> DEFINE to == {k \in DOMAIN old : old[k].node \in DOMAIN c}
           at(n) == CHOOSE k \in to : new[k].node = n
<1>1. c \in [DOMAIN c -> D] /\ DOMAIN c \subseteq Nodes
  BY FunctionIs
<1>2. CASE Len(old) # Len(new)
  BY <1>2 DEF Migrated
<1>3. CASE Len(old) = Len(new)
  <2>1. /\ DOMAIN q = DOMAIN c \cup {new[k].node : k \in to}
        /\ q = [n \in DOMAIN q |-> IF \E k \in to : new[k].node = n THEN c[old[at(n)].node] ELSE c[n]]
    BY <1>3 DEF Migrated
  <2>2. ASSUME NEW k \in to PROVE new[k].node \in Nodes /\ c[old[k].node] \in D
    <3>1. k \in DOMAIN old /\ DOMAIN old = 1..Len(old) /\ DOMAIN new = 1..Len(new)
      OBVIOUS
    <3>2. new[k] \in Sites
      BY <1>3, <3>1
    <3>3. new[k].node \in Nodes
      BY <3>2 DEF Sites
    <3>4. old[k].node \in DOMAIN c
      OBVIOUS
    <3> HIDE DEF to
    <3> QED BY <1>1, <3>3, <3>4
  <2>3. \A n : (\E k \in to : new[k].node = n) => at(n) \in to
    OBVIOUS
  <2> HIDE DEF at
  <2>4. DOMAIN q \subseteq Nodes
    BY <1>1, <2>1, <2>2
  <2>5. ASSUME NEW n \in DOMAIN q PROVE q[n] \in D
    <3>1. CASE \E k \in to : new[k].node = n
      <4>1. at(n) \in to
        BY <2>3, <3>1
      <4>2. q[n] = c[old[at(n)].node]
        BY <2>1, <3>1
      <4> HIDE DEF to
      <4> QED BY <2>2, <4>1, <4>2
    <3>2. CASE ~\E k \in to : new[k].node = n
      <4>1. n \in DOMAIN c /\ q[n] = c[n]
        BY <2>1, <3>2
      <4> QED BY <1>1, <4>1
    <3> QED BY <3>1, <3>2
  <2>6. q \in [DOMAIN q -> D]
    <3>1. q = [n \in DOMAIN q |-> q[n]]
      BY <2>1
    <3> QED BY <2>5, <3>1
  <2> QED BY <2>4, <2>6, FunctionIs
<1> QED BY <1>2, <1>3

\* in each segment.
LEMMA MigratedAllIs ==
  ASSUME TextOk, NEW D, NEW c \in Functions(Nodes, D),
         NEW o \in [Segs -> Seq(Sites)], NEW sh \in Seq(Sites), NEW q, q = MigratedAll(c, o, sh)
  PROVE  q \in Functions(Nodes, D)
<1> DEFINE n == Len(Vars)
           F == Functions(Nodes, D)
           V == [i \in 0..n |-> F]
           Moved(v, i) == Migrated(v, own[i] \o shared, o[i] \o sh)
           Step == [p \in (1..n) \X F |-> Moved(p[2], p[1])]
           Body(f) == [i \in 0..n |-> IF i = 0 THEN c ELSE Moved(f[i - 1], i)]
<1>1. n \in Nat /\ Segs = 1..n /\ \A k \in 0..n : V[k] = F
  BY SegsAre
<1>2. ASSUME NEW i \in 1..n, NEW v \in F PROVE Moved(v, i) \in F
  <2>1. own[i] \o shared \in Seq(Sites) /\ o[i] \o sh \in Seq(Sites)
    <3>1. own[i] \in Seq(Sites) /\ o[i] \in Seq(Sites) /\ shared \in Seq(Sites)
      BY <1>1 DEF TextOk
    <3> QED BY <3>1
  <2> QED BY <2>1, MigratedIs
<1>3. \A i \in 1..n : \A v \in F : Step[<<i, v>>] = Moved(v, i)
  <2> HIDE DEF F, n, Moved
  <2> QED OBVIOUS
<1>4. \A k \in 1..n : k - 1 \in 0..n /\ k \in 0..n /\ k # 0
  BY <1>1
<1>5. 0 \in 0..n /\ n \in 0..n
  BY <1>1
<1>6. q = LET upTo[i \in 0..n] == IF i = 0 THEN c ELSE Moved(upTo[i - 1], i) IN upTo[n]
  BY DEF MigratedAll
<1> HIDE DEF V, Step, Moved, F
<1>7. c \in F
  BY DEF F
<1>8. PICK f : Records(f, n, V, c, Step)
  <2>1. Closed(n, F, V, c, Step)
    <3> HIDE DEF n
    <3> QED BY <1>1, <1>2, <1>3, <1>4, <1>5, <1>7 DEF Closed
  <2> HIDE DEF n
  <2> QED BY <2>1, StepsExist
<1>9. f = Body(f)
  <2>1. f = [k \in 0..n |-> f[k]] /\ f[0] = c /\ \A k \in 1..n : f[k] = Moved(f[k - 1], k)
    BY <1>1, <1>3, <1>4, <1>8 DEF Records
  <2>2. \A k \in 0..n : k # 0 => k \in 1..n
    BY <1>1
  <2> QED BY <2>1, <2>2
<1> DEFINE h == CHOOSE g : g = Body(g)
<1>10. h = Body(h)
  <2> HIDE DEF Body
  <2> QED BY <1>9
<1>11. q = h[n]
  BY <1>6
<1> HIDE DEF h
<1>12. h[0] = c /\ \A k \in 1..n : h[k] = Moved(h[k - 1], k)
  BY <1>4, <1>5, <1>10
<1>13. \A k \in 0..n : h[k] \in V[k]
  <2>1. h[0] \in V[0] /\ \A k \in 1..n : h[k - 1] \in V[k - 1] => h[k] \in V[k]
    BY <1>1, <1>2, <1>4, <1>5, <1>7, <1>12
  <2> HIDE DEF n
  <2> QED BY <1>1, <2>1, Stepwise
<1> QED BY <1>1, <1>5, <1>11, <1>13 DEF F

\* New nodes may find what freed ones left.
LEMMA FoundStaleIs ==
  ASSUME NEW s \in Sane, NEW nodes \in SUBSET Nodes, NEW at \in SUBSET Nat,
         NEW q, q = FoundStale(s, nodes, at)
  PROVE  q \in Sane
<1> DEFINE old == CHOOSE p \in at : TRUE
           c == [n \in DOMAIN s.cell \cup nodes |-> IF n \in nodes THEN n ELSE s.cell[n]]
           p == [n \in DOMAIN s.pos \cup nodes |-> IF n \in nodes THEN old ELSE s.pos[n]]
<1>1. CASE at = {}
  BY <1>1 DEF FoundStale
<1>2. CASE at # {}
  <2>1. old \in Nat
    BY <1>2
  <2>2. q = [s EXCEPT !.cell = c, !.pos = p]
    BY <1>2 DEF FoundStale
  <2> HIDE DEF old
  <2>3. /\ s.cell \in [DOMAIN s.cell -> DOMAIN s.pos] /\ DOMAIN s.cell \subseteq Nodes
        /\ s.pos \in [DOMAIN s.pos -> Nat] /\ DOMAIN s.pos \subseteq Nodes
    BY SaneIs, FunctionIs
  <2>4. p \in [DOMAIN p -> Nat] /\ DOMAIN p = DOMAIN s.pos \cup nodes /\ DOMAIN p \subseteq Nodes
    BY <2>1, <2>3
  <2> HIDE DEF p
  <2>5. c \in [DOMAIN c -> DOMAIN p] /\ DOMAIN c \subseteq Nodes /\ c \in [DOMAIN c -> Nodes]
    BY <2>3, <2>4
  <2> HIDE DEF c
  <2>6. p \in Functions(Nodes, Nat) /\ c \in Functions(Nodes, DOMAIN p) /\ c \in Functions(Nodes, Nodes)
    BY <2>4, <2>5, FunctionIs
  <2>7. q.cache = s.cache /\ q.order = s.order /\ q.cell = c /\ q.pos = p /\ q \in Kept
    BY <2>2, <2>6, SaneIs DEF Kept
  <2> QED BY <2>6, <2>7, SaneIs DEF Sane
<1> QED BY <1>1, <1>2

\* Fewer nodes, with the maps there are.
LEMMA FewerIs ==
  ASSUME NEW s \in Sane, NEW c \in Functions(Nodes, DOMAIN s.pos), NEW q, q = [s EXCEPT !.cell = c]
  PROVE  q \in Sane
<1>1. c \in Functions(Nodes, Nodes)
  <2>1. c \in [DOMAIN c -> DOMAIN s.pos] /\ DOMAIN c \subseteq Nodes /\ DOMAIN s.pos \subseteq Nodes
    BY SaneIs, FunctionIs
  <2>2. \A k \in DOMAIN c : c[k] \in Nodes
    BY <2>1
  <2> QED BY <2>2, FunctionInto
<1>2. q.cache = s.cache /\ q.order = s.order /\ q.cell = c /\ q.pos = s.pos /\ q \in Kept
  BY <1>1, SaneIs DEF Kept
<1> QED BY <1>2, SaneIs DEF Sane

\* What becomes of the evaluator's maps.
LEMMA BecomesIs ==
  ASSUME NEW s \in Sane, Becomes(s), UNCHANGED defs
  PROVE  (State \in Sane /\ Range(cell) = DOMAIN pos)'
<1> DEFINE M == {s.cell[n] : n \in DOMAIN s.cell}
<1>1. cache' = s.cache /\ order' = s.order /\ cell' = s.cell /\ pos' = Only(s.pos, M)
  BY DEF Becomes
<1>2. /\ s.cell \in [DOMAIN s.cell -> DOMAIN s.pos] /\ DOMAIN s.cell \subseteq Nodes
      /\ s.pos \in Functions(Nodes, Nat)
  BY SaneIs, FunctionIs
<1>3. M \subseteq DOMAIN s.pos
  BY <1>2
<1>4. DOMAIN pos' = M /\ pos' \in Functions(Nodes, Nat)
  <2>1. pos' \in Functions(Nodes, Nat)
    <3> HIDE DEF M
    <3> QED BY <1>1, <1>2, OnlyIs
  <2>2. DOMAIN pos' = DOMAIN s.pos \cap M
    BY <1>1 DEF Only
  <2> QED BY <1>3, <2>1, <2>2
<1>5. Range(cell') = M
  BY <1>1 DEF Range
<1>6. cell' \in Functions(Nodes, DOMAIN pos')
  <2>1. \A n \in DOMAIN s.cell : s.cell[n] \in M
    OBVIOUS
  <2> HIDE DEF M
  <2>2. s.cell \in Functions(Nodes, DOMAIN s.pos)
    BY SaneIs
  <2>3. s.cell \in Functions(Nodes, M)
    BY <2>1, <2>2, FunctionInto
  <2> QED BY <1>1, <1>4, <2>3
<1>7. CallsOk(cache, order)'
  <2>1. CallsOk(s.cache, s.order)
    BY SaneIs
  <2> QED BY <1>1, <2>1 DEF CallsOk
<1>8. (State \in Kept)'
  BY <1>1, <1>4, SaneIs DEF Kept, State
<1>9. (State \in Sane)'
  BY <1>6, <1>7, <1>8 DEF Sane, State
<1> QED BY <1>4, <1>5, <1>9

-----------------------------------------------------------------------------
(***************************************************************************)
(* Flows: the steps                                                         *)
(***************************************************************************)

\* The evaluator at first, and every step, keeps the invariant.
LEMMA FlowsInitInv == FlowsInit => FlowsInv
<1> SUFFICES ASSUME FlowsInit PROVE FlowsInv
  OBVIOUS
<1>1. PICK t \in Texts : own = OwnOf(t, 1) /\ shared = SharedOf(t, 1)
  BY DEF FlowsInit
<1>2. TextOk
  <2>1. ver \in 1..MaxTexts
    BY FlowsAssumption DEF FlowsInit
  <2> QED BY <1>1, <2>1, TextIs DEF TextOk
<1>3. Empty \in Functions(Keys, Nat) /\ Empty \in Functions(Nodes, Nodes)
      /\ Empty \in Functions(Nodes, Nat) /\ Empty \in Functions(Nodes, DOMAIN Empty)
      /\ DOMAIN Empty = {}
  <2>1. DOMAIN Empty = {} /\ \A B : Empty \in [{} -> B]
    BY DEF Empty
  <2> QED BY <2>1, FunctionIs
<1>4. RunOk
  <2>1. <<>> \in Seq(Deferrals)
    OBVIOUS
  <2> QED BY <2>1 DEF FlowsInit, RunOk, NoneFired
<1>5. SlotsOk
  BY DEF FlowsInit, SlotsOk
<1>6. DefsOk
  <2>1. 1 \in 1..(MaxDefs + 1)
    BY FlowsAssumption
  <2> QED BY <2>1 DEF FlowsInit, DefsOk
<1>7. State \in Sane
  <2>1. CallsOk(cache, order)
    BY <1>3, FlowsAssumption DEF FlowsInit, CallsOk
  <2>2. State \in Kept
    BY <1>3 DEF FlowsInit, State, Kept
  <2> QED BY <1>3, <2>1, <2>2 DEF FlowsInit, State, Sane
<1>8. Range(cell) = DOMAIN pos
  BY <1>3 DEF FlowsInit, Range
<1> QED BY <1>2, <1>4, <1>5, <1>6, <1>7, <1>8 DEF FlowsInv

\* What is kept, in parts.
LEMMA StateIs ==
  ASSUME State \in Sane
  PROVE  /\ cell \in Functions(Nodes, DOMAIN pos) /\ pos \in Functions(Nodes, Nat)
         /\ cache \in Functions(Keys, Nat) /\ order \in Seq(Keys) /\ CallsOk(cache, order)
BY SaneIs DEF State

\* What is left alone remains as it is.
LEMMA SameText ==
  ASSUME TextOk, UNCHANGED text PROVE TextOk'
BY DEF TextOk, text

LEMMA SameCursors ==
  ASSUME State \in Sane, Range(cell) = DOMAIN pos, UNCHANGED <<cell, pos, calls, defs>>
  PROVE  (State \in Sane /\ Range(cell) = DOMAIN pos)'
<1>1. State' = State
  BY DEF State, calls
<1>2. Sane' = Sane
  BY DEF Sane, CallsOk
<1> QED BY <1>1, <1>2

LEMMA StartKeeps ==
  ASSUME FlowsInv, NEW x \in Args, StartProcess(x)
  PROVE  FlowsInv'
<1> DEFINE rs == All(own, shared)
           b == [State EXCEPT !.cell = Rewound(cell)]
           tr == [v \in Range(Vars) |-> TRUE]
           s == WalkedAll(b, rs, x, tr)
<1>1. TextOk /\ RunOk /\ DefsOk /\ State \in Sane
  BY DEF FlowsInv
<1>2. /\ up' = TRUE /\ trig' = NoneFired /\ Becomes(s)
      /\ slots' = [i \in Segs |-> Slots(own[i], s.cell, s.pos)]
      /\ UNCHANGED <<text, deferred, defs>>
  BY DEF StartProcess
<1>3. rs \in Seq(Sites) /\ own \in [Segs -> Seq(Sites)]
  BY <1>1, AllReactions DEF TextOk
<1>4. b \in Sane
  <2>1. cell \in Functions(Nodes, DOMAIN pos) /\ State.cell = cell /\ State.pos = pos
    BY <1>1, StateIs DEF State
  <2>2. Rewound(cell) \in Functions(Nodes, DOMAIN pos)
    BY <2>1, OnlyIs DEF Rewound
  <2> QED BY <1>1, <2>1, <2>2, FewerIs
<1> HIDE DEF b, rs, tr
<1>5. s \in Sane
  BY <1>1, <1>3, <1>4, WalkedAllIs
<1> HIDE DEF s
<1>6. TextOk'
  BY <1>1, <1>2, SameText
<1>7. RunOk'
  BY <1>1, <1>2 DEF RunOk, NoneFired
<1>8. SlotsOk'
  <2>1. \A i \in Segs : /\ Slots(own[i], s.cell, s.pos) \in Seq(Nat)
                        /\ Len(Slots(own[i], s.cell, s.pos)) = IF Compiles(own[i]) THEN Len(own[i]) ELSE 0
    BY <1>3, <1>5, SaneIs, SlotsAre
  <2>2. own' = own
    BY <1>2 DEF text
  <2> QED BY <1>2, <2>1, <2>2 DEF SlotsOk
<1>9. DefsOk'
  BY <1>1, <1>2 DEF DefsOk
<1>10. (State \in Sane /\ Range(cell) = DOMAIN pos)'
  BY <1>2, <1>5, BecomesIs
<1> QED BY <1>6, <1>7, <1>8, <1>9, <1>10 DEF FlowsInv

LEMMA StopKeeps ==
  ASSUME FlowsInv, StopProcess
  PROVE  FlowsInv'
<1>1. TextOk /\ RunOk /\ SlotsOk /\ DefsOk /\ State \in Sane /\ Range(cell) = DOMAIN pos
  BY DEF FlowsInv
<1>2. /\ up' = FALSE /\ deferred' = [i \in DOMAIN deferred |-> [deferred[i] EXCEPT !.alive = FALSE]]
      /\ UNCHANGED <<text, trig, cursors, defs, calls>>
  BY DEF StopProcess
<1>3. TextOk'
  BY <1>1, <1>2, SameText
<1>4. RunOk'
  <2>1. deferred \in Seq(Deferrals)
    BY <1>1 DEF RunOk
  <2>2. Len(deferred) \in Nat /\ DOMAIN deferred = 1..Len(deferred)
        /\ \A i \in 1..Len(deferred) : deferred[i] \in Deferrals
    BY <2>1
  <2>3. \A i \in 1..Len(deferred) : [deferred[i] EXCEPT !.alive = FALSE] \in Deferrals
    BY <2>2 DEF Deferrals
  <2>4. deferred' \in [1..Len(deferred) -> Deferrals]
    BY <1>2, <2>2, <2>3
  <2>5. deferred' \in Seq(Deferrals)
    BY <2>2, <2>4, IsSequence
  <2> QED BY <1>1, <1>2, <2>5 DEF RunOk
<1>5. SlotsOk'
  <2>1. own' = own /\ slots' = slots
    BY <1>2 DEF text, cursors
  <2> QED BY <1>1, <1>2, <2>1 DEF SlotsOk
<1>6. DefsOk'
  BY <1>1, <1>2 DEF DefsOk
<1>7. (State \in Sane /\ Range(cell) = DOMAIN pos)'
  <2>1. UNCHANGED <<cell, pos, calls, defs>>
    BY <1>2 DEF cursors
  <2> QED BY <1>1, <2>1, SameCursors
<1> QED BY <1>3, <1>4, <1>5, <1>6, <1>7 DEF FlowsInv

\* A compiled segment keeps its slots.
LEMMA ExecutedIs ==
  ASSUME DefsOk, State \in Sane, NEW rs \in Seq(Sites), \A k \in DOMAIN rs : rs[k].r.flow \in Static,
         NEW sl \in Seq(Nat), Len(sl) = Len(rs), NEW x \in Args, NEW tr,
         NEW q, q = Executed(sl, rs, x, tr)
  PROVE  q \in Seq(Nat) /\ Len(q) = Len(rs)
<1> DEFINE P(k) == Stepped(sl[k], LengthAt(cache, rs[k].r.flow, x), tr[rs[k].r.by])
<1>1. Len(rs) \in Nat /\ DOMAIN rs = 1..Len(rs) /\ DOMAIN sl = 1..Len(rs)
      /\ \A k \in 1..Len(rs) : sl[k] \in Nat
  OBVIOUS
<1>2. ASSUME NEW k \in 1..Len(rs) PROVE P(k) \in Nat
  <2>1. CallsOk(cache, order)
    BY StateIs
  <2>2. rs[k].r.flow \in Static /\ sl[k] \in Nat
    BY <1>1
  <2> QED BY <2>1, <2>2, LengthIs
<1>3. q = [k \in 1..Len(rs) |-> P(k)]
  BY <1>1 DEF Executed
<1> HIDE DEF P
<1>4. q \in [1..Len(rs) -> Nat]
  BY <1>2, <1>3
<1> QED BY <1>1, <1>4, IsSequence

LEMMA TickKeeps ==
  ASSUME FlowsInv, NEW i \in Segs, NEW fires \in BOOLEAN, NEW x \in Args, Tick(i, fires, x)
  PROVE  FlowsInv'
<1>1. TextOk /\ RunOk /\ SlotsOk /\ DefsOk /\ State \in Sane /\ Range(cell) = DOMAIN pos
  BY DEF FlowsInv
<1>2. /\ up /\ trig' = [trig EXCEPT ![Vars[i]] = fires]
      /\ IF Compiles(own[i])
         THEN /\ slots' = [slots EXCEPT ![i] = Executed(@, own[i], x, trig')]
              /\ UNCHANGED <<cell, pos, calls>>
         ELSE Becomes(WalkedAll(State, own[i], x, trig')) /\ UNCHANGED slots
      /\ deferred' = deferred \o [k \in DOMAIN Waiting |-> [q |-> Waiting[k], alive |-> TRUE]]
      /\ UNCHANGED <<text, up, defs>>
  BY DEF Tick
<1>3. own[i] \in Seq(Sites) /\ shared \in Seq(Sites)
  BY <1>1 DEF TextOk
<1>4. TextOk'
  BY <1>1, <1>2, SameText
<1>5. RunOk'
  <2>1. Waiting \in Seq(Sites)
    <3> DEFINE K == {k \in DOMAIN shared : \A d \in Range(deferred) : d.q # shared[k]}
    <3>1. K \in SUBSET (1..Len(shared))
      BY <1>3
    <3>2. Waiting = Picked(shared, K)
      BY DEF Waiting
    <3> HIDE DEF K
    <3> QED BY <1>3, <3>1, <3>2, PickedIs
  <2> DEFINE w == [k \in DOMAIN Waiting |-> [q |-> Waiting[k], alive |-> TRUE]]
  <2>2. w \in Seq(Deferrals)
    <3>1. Len(Waiting) \in Nat /\ DOMAIN Waiting = 1..Len(Waiting)
          /\ \A k \in 1..Len(Waiting) : Waiting[k] \in Sites
      BY <2>1
    <3>2. w \in [1..Len(Waiting) -> Deferrals]
      BY <3>1 DEF Deferrals
    <3> HIDE DEF w
    <3> QED BY <3>1, <3>2, IsSequence
  <2>3. deferred' = deferred \o w
    BY <1>2
  <2> HIDE DEF w
  <2>4. deferred' \in Seq(Deferrals)
    BY <1>1, <2>2, <2>3 DEF RunOk
  <2> QED BY <1>1, <1>2, <2>4 DEF RunOk
<1>6. SlotsOk'
  <2>1. own' = own /\ up' = up
    BY <1>2 DEF text
  <2>2. CASE Compiles(own[i])
    <3> DEFINE e == Executed(slots[i], own[i], x, trig')
    <3>1. slots' = [slots EXCEPT ![i] = e]
      BY <1>2, <2>2
    <3>2. e \in Seq(Nat) /\ Len(e) = Len(own[i])
      <4>1. \A k \in DOMAIN own[i] : own[i][k].r.flow \in Static
        BY <1>1, <2>2 DEF Compiles, TextOk
      <4>2. slots[i] \in Seq(Nat) /\ Len(slots[i]) = Len(own[i])
        BY <1>1, <1>2, <2>2 DEF SlotsOk
      <4> QED BY <1>1, <1>3, <4>1, <4>2, ExecutedIs
    <3> HIDE DEF e
    <3> QED BY <1>1, <1>2, <2>1, <2>2, <3>1, <3>2 DEF SlotsOk
  <2>3. CASE ~Compiles(own[i])
    BY <1>1, <1>2, <2>1, <2>3 DEF SlotsOk
  <2> QED BY <2>2, <2>3
<1>7. DefsOk'
  BY <1>1, <1>2 DEF DefsOk
<1>8. (State \in Sane /\ Range(cell) = DOMAIN pos)'
  <2>1. CASE Compiles(own[i])
    BY <1>1, <1>2, <2>1, SameCursors
  <2>2. CASE ~Compiles(own[i])
    <3> DEFINE s == WalkedAll(State, own[i], x, trig')
    <3>1. s \in Sane
      BY <1>1, <1>3, WalkedAllIs
    <3>2. Becomes(s) /\ UNCHANGED defs
      BY <1>2, <2>2
    <3> HIDE DEF s
    <3> QED BY <3>1, <3>2, BecomesIs
  <2> QED BY <2>1, <2>2
<1> QED BY <1>4, <1>5, <1>6, <1>7, <1>8 DEF FlowsInv

LEMMA FlushKeeps ==
  ASSUME FlowsInv, NEW x \in Args, Flush(x)
  PROVE  FlowsInv'
<1> DEFINE K == {k \in DOMAIN deferred : deferred[k].alive}
           alive == Picked(deferred, K)
           rs == [k \in DOMAIN alive |-> alive[k].q]
           s == WalkedAll(State, rs, x, trig)
<1>1. TextOk /\ RunOk /\ SlotsOk /\ DefsOk /\ State \in Sane
  BY DEF FlowsInv
<1>2. /\ Becomes(s) /\ deferred' = <<>> /\ trig' = NoneFired
      /\ UNCHANGED <<text, up, slots, defs>>
  BY DEF Flush
<1>3. rs \in Seq(Sites)
  <2>1. deferred \in Seq(Deferrals)
    BY <1>1 DEF RunOk
  <2>2. K \in SUBSET (1..Len(deferred))
    BY <2>1
  <2> HIDE DEF K
  <2>3. alive \in Seq(Deferrals)
    BY <2>1, <2>2, PickedIs
  <2> HIDE DEF alive
  <2>4. Len(alive) \in Nat /\ DOMAIN alive = 1..Len(alive)
        /\ \A k \in 1..Len(alive) : alive[k] \in Deferrals
    BY <2>3
  <2>5. rs \in [1..Len(alive) -> Sites]
    BY <2>4 DEF Deferrals
  <2> HIDE DEF rs
  <2> QED BY <2>4, <2>5, IsSequence
<1> HIDE DEF rs
<1>4. s \in Sane
  BY <1>1, <1>3, WalkedAllIs
<1> HIDE DEF s
<1>5. TextOk'
  BY <1>1, <1>2, SameText
<1>6. RunOk'
  BY <1>1, <1>2 DEF RunOk, NoneFired
<1>7. SlotsOk'
  <2>1. own' = own
    BY <1>2 DEF text
  <2> QED BY <1>1, <1>2, <2>1 DEF SlotsOk
<1>8. DefsOk'
  BY <1>1, <1>2 DEF DefsOk
<1>9. (State \in Sane /\ Range(cell) = DOMAIN pos)'
  BY <1>2, <1>4, BecomesIs
<1> QED BY <1>5, <1>6, <1>7, <1>8, <1>9 DEF FlowsInv

LEMMA ReloadKeeps ==
  ASSUME FlowsInv, NEW t \in Texts, NEW at \in {{}} \cup {{p} : p \in Stale}, NEW x \in Args,
         Reload(t, at, x)
  PROVE  FlowsInv'
<1> DEFINE new == All(own', shared')
           K == {k \in DOMAIN new : new[k].r.kind = "assign"}
           assigns == Picked(new, K)
           b == FoundStale(State, NodesOf(new), at)
           w == WalkedAll(b, assigns \o assigns, x, trig)
           s == Synced(w)
           c == MigratedAll(s.cell, own', shared')
           u == [s EXCEPT !.cell = Only(c, NodesOf(new) \cup {d.q.node : d \in Range(deferred)})]
<1>1. TextOk /\ RunOk /\ SlotsOk /\ DefsOk /\ State \in Sane
  BY DEF FlowsInv
<1>2. /\ up /\ ver < MaxTexts /\ ver' = ver + 1 /\ own' = OwnOf(t, ver') /\ shared' = SharedOf(t, ver')
      /\ Becomes(u) /\ slots' = [i \in Segs |-> Slots(own'[i], c, s.pos)]
      /\ UNCHANGED <<run, defs>>
  BY DEF Reload
<1>3. ver' \in 1..MaxTexts /\ ver' \in Nat
  <2>1. ver \in 1..MaxTexts /\ ver < MaxTexts /\ ver' = ver + 1
    BY <1>1, <1>2 DEF TextOk
  <2>2. MaxTexts \in Nat
    BY FlowsAssumption
  <2> QED BY <2>1, <2>2
<1>4. /\ own' \in [Segs -> Seq(Sites)] /\ shared' \in Seq(Sites)
      /\ \A i \in Segs : \A k \in DOMAIN own'[i] : own'[i][k].r.comp => own'[i][k].r.flow \in Static
  BY <1>2, <1>3, TextIs
<1>5. TextOk'
  BY <1>3, <1>4 DEF TextOk
<1>6. new \in Seq(Sites)
  BY <1>4, AllReactions
<1> HIDE DEF new
<1>7. assigns \o assigns \in Seq(Sites)
  <2>1. K \in SUBSET (1..Len(new))
    BY <1>6
  <2> HIDE DEF K
  <2>2. assigns \in Seq(Sites)
    BY <1>6, <2>1, PickedIs
  <2> HIDE DEF assigns
  <2> QED BY <2>2
<1> HIDE DEF assigns
<1>8. b \in Sane
  <2>1. NodesOf(new) \in SUBSET Nodes
    <3>1. \A k \in DOMAIN new : new[k] \in Sites
      BY <1>6
    <3> QED BY <3>1 DEF NodesOf, Sites
  <2>2. at \in SUBSET Nat
    BY FlowsAssumption
  <2> QED BY <1>1, <2>1, <2>2, FoundStaleIs
<1> HIDE DEF b
<1>9. w \in Sane
  BY <1>1, <1>7, <1>8, WalkedAllIs
<1> HIDE DEF w
<1>10. s \in Sane
  BY <1>1, <1>2, <1>9, SyncedIs
<1> HIDE DEF s
<1>11. c \in Functions(Nodes, DOMAIN s.pos) /\ s.pos \in Functions(Nodes, Nat)
  <2>1. s.cell \in Functions(Nodes, DOMAIN s.pos) /\ s.pos \in Functions(Nodes, Nat)
    BY <1>10, SaneIs
  <2> QED BY <1>1, <1>4, <2>1, MigratedAllIs
<1> HIDE DEF c
<1>12. u \in Sane
  BY <1>10, <1>11, OnlyIs, FewerIs
<1> HIDE DEF u
<1>13. RunOk'
  BY <1>1, <1>2 DEF RunOk, run
<1>14. SlotsOk'
  <2>1. \A i \in Segs : /\ Slots(own'[i], c, s.pos) \in Seq(Nat)
                        /\ Len(Slots(own'[i], c, s.pos)) = IF Compiles(own'[i]) THEN Len(own'[i]) ELSE 0
    BY <1>4, <1>11, SlotsAre
  <2>2. slots' \in [Segs -> Seq(Nat)]
    BY <1>2, <2>1
  <2>3. \A i \in Segs : Len(slots'[i]) = IF Compiles(own'[i]) THEN Len(own'[i]) ELSE 0
    BY <1>2, <2>1
  <2>4. Segs' = Segs /\ \A i \in Segs : Compiles(own[i])' <=> Compiles(own'[i])
    BY DEF Compiles
  <2> QED BY <2>2, <2>3 DEF SlotsOk, Compiles
<1>15. DefsOk'
  BY <1>1, <1>2 DEF DefsOk
<1>16. (State \in Sane /\ Range(cell) = DOMAIN pos)'
  BY <1>2, <1>12, BecomesIs
<1> QED BY <1>5, <1>13, <1>14, <1>15, <1>16 DEF FlowsInv

\* What is picked is no longer than what it is picked from.
LEMMA PickedLen ==
  ASSUME NEW S, NEW s \in Seq(S), NEW K \in SUBSET (1..Len(s)), NEW q \in Seq(S), Selection(q, s, K)
  PROVE  Len(q) <= Len(s)
<1>1. Len(s) \in Nat /\ Len(q) \in Nat
  OBVIOUS
<1>2. PICK o \in [1..Len(q) -> K] : \A i, j \in 1..Len(q) : i < j => o[i] < o[j]
  BY DEF Selection
<1>3. ASSUME NEW i \in 1..Len(q), NEW j \in 1..Len(q), o[i] = o[j] PROVE i = j
  <2>0. \A k \in K : k \in Nat
    OBVIOUS
  <2>1. o[i] \in Nat /\ ~(o[i] < o[j]) /\ ~(o[j] < o[i])
    <3>1. o[i] \in K
      BY <1>2
    <3>2. o[i] \in Nat
      BY <2>0, <3>1
    <3> QED BY <1>3, <3>2
  <2>2. ~(i < j) /\ ~(j < i)
    BY <1>2, <2>1
  <2> QED BY <2>2
<1>4. o \in Injection(1..Len(q), 1..Len(s))
  <2>1. o \in [1..Len(q) -> 1..Len(s)] /\ DOMAIN o = 1..Len(q)
    BY <1>2
  <2>2. IsInjective(o)
    BY <1>3, <2>1 DEF IsInjective
  <2> QED BY <2>1, <2>2 DEF Injection
<1>5. /\ IsFiniteSet(1..Len(s)) /\ Cardinality(1..Len(s)) = Len(s) /\ Cardinality(1..Len(q)) = Len(q)
  <2>1. \A n \in Nat : 1..n = IF n >= 1 THEN 1..n ELSE {}
    OBVIOUS
  <2>2. \A n \in Nat : IsFiniteSet(1..n) /\ Cardinality(1..n) = n
    <3> SUFFICES ASSUME NEW n \in Nat PROVE IsFiniteSet(1..n) /\ Cardinality(1..n) = n
      OBVIOUS
    <3>1. IsFiniteSet(1..n) /\ Cardinality(1..n) = IF 1 > n THEN 0 ELSE n - 1 + 1
      BY FS_Interval
    <3> QED BY <3>1
  <2> QED BY <1>1, <2>2
<1>6. Cardinality(1..Len(q)) <= Cardinality(1..Len(s))
  BY <1>4, <1>5, FS_Injection
<1> QED BY <1>5, <1>6

\* The calls of f leave the cache c with the order o, which become d and p.
Thrown(c, o, f, d, p) ==
    /\ d = Only(c, {k \in DOMAIN c : k[1] # f})
    /\ p = Picked(o, {k \in DOMAIN o : o[k][1] # f})

\* The calls of a flow that is defined again leave the cache and its order.
LEMMA PurgedCalls ==
  ASSUME DefsOk, NEW c \in Functions(Keys, Nat), NEW o \in Seq(Keys), CallsOk(c, o),
         NEW f, NEW d, NEW p, Thrown(c, o, f, d, p)
  PROVE  /\ d \in Functions(Keys, Nat) /\ p \in Seq(Keys) /\ Len(p) <= MaxCache
         /\ \A k \in Keys : k \in DOMAIN d <=> \E j \in 1..Len(p) : p[j] = k
         /\ \A i, j \in 1..Len(p) : p[i] = p[j] => i = j
         /\ \A k \in DOMAIN d : k[1] # f /\ d[k] = defs[k[1]]
<1> DEFINE K == {k \in DOMAIN o : o[k][1] # f}
<1>1. /\ Len(o) \in Nat /\ Len(o) <= MaxCache /\ DOMAIN o = 1..Len(o)
      /\ \A k \in Keys : k \in DOMAIN c <=> \E j \in 1..Len(o) : o[j] = k
      /\ \A i, j \in 1..Len(o) : o[i] = o[j] => i = j
      /\ \A k \in DOMAIN c : c[k] = defs[k[1]]
  BY DEF CallsOk
<1>2. \A k \in 1..Len(o) : k \in K <=> o[k][1] # f
  BY <1>1
<1>3. K \in SUBSET (1..Len(o))
  BY <1>1
<1>4. p = Picked(o, K)
  BY DEF Thrown
<1> HIDE DEF K
<1>5. p \in Seq(Keys) /\ Selection(p, o, K)
  BY <1>3, <1>4, PickedIs
<1>6. Len(p) <= Len(o) /\ Len(p) \in Nat
  BY <1>3, <1>5, PickedLen
<1>7. PICK h \in [1..Len(p) -> K] :
         /\ \A j \in 1..Len(p) : p[j] = o[h[j]]
         /\ \A i, j \in 1..Len(p) : i < j => h[i] < h[j]
         /\ \A k \in K : \E j \in 1..Len(p) : h[j] = k
  BY <1>5 DEF Selection
<1>8. \A j \in 1..Len(p) : h[j] \in K /\ h[j] \in 1..Len(o) /\ h[j] \in Nat
  <2>1. \A k \in K : k \in 1..Len(o) /\ k \in Nat
    BY <1>3
  <2>2. \A j \in 1..Len(p) : h[j] \in K
    BY <1>7
  <2> QED BY <2>1, <2>2
<1>9. d \in Functions(Keys, Nat) /\ DOMAIN d = {k \in DOMAIN c : k[1] # f} /\ \A k \in DOMAIN d : d[k] = c[k]
  <2>1. d \in Functions(Keys, Nat)
    BY OnlyIs DEF Thrown
  <2> QED BY <2>1 DEF Only, Thrown
<1>10. ASSUME NEW k \in Keys PROVE k \in DOMAIN d <=> \E j \in 1..Len(p) : p[j] = k
  <2>1. ASSUME k \in DOMAIN d PROVE \E j \in 1..Len(p) : p[j] = k
    <3>1. PICK l \in 1..Len(o) : o[l] = k
      BY <1>1, <1>9, <2>1
    <3>2. l \in K
      BY <1>2, <1>9, <2>1, <3>1
    <3>3. PICK j \in 1..Len(p) : h[j] = l
      BY <1>7, <3>2
    <3> QED BY <1>7, <3>1, <3>3
  <2>2. ASSUME NEW j \in 1..Len(p), p[j] = k PROVE k \in DOMAIN d
    <3>1. h[j] \in 1..Len(o) /\ h[j] \in K /\ o[h[j]] = k
      BY <1>7, <1>8, <2>2
    <3>2. k[1] # f /\ k \in DOMAIN c
      BY <1>1, <1>2, <3>1
    <3> QED BY <1>9, <3>2
  <2> QED BY <2>1, <2>2
<1>11. ASSUME NEW i \in 1..Len(p), NEW j \in 1..Len(p), p[i] = p[j] PROVE i = j
  <2>1. h[i] \in 1..Len(o) /\ h[j] \in 1..Len(o) /\ o[h[i]] = o[h[j]]
    BY <1>7, <1>8, <1>11
  <2>2. h[i] = h[j]
    BY <1>1, <2>1
  <2>3. ~(h[i] < h[j]) /\ ~(h[j] < h[i])
    BY <1>8, <2>2
  <2>4. ~(i < j) /\ ~(j < i)
    BY <1>7, <2>3
  <2>5. i \in Nat /\ j \in Nat
    OBVIOUS
  <2> QED BY <2>4, <2>5
<1>12. Len(p) <= MaxCache
  BY <1>1, <1>6, FlowsAssumption
<1>13. \A k \in DOMAIN d : k[1] # f /\ d[k] = defs[k[1]]
  BY <1>1, <1>9
<1> QED BY <1>5, <1>9, <1>10, <1>11, <1>12, <1>13

LEMMA DefineKeeps ==
  ASSUME FlowsInv, NEW f \in Static \cup Parametric, Define(f)
  PROVE  FlowsInv'
<1>1. TextOk /\ RunOk /\ SlotsOk /\ DefsOk /\ State \in Sane /\ Range(cell) = DOMAIN pos
  BY DEF FlowsInv
<1>2. /\ \A g \in DOMAIN defs : defs[g] <= MaxDefs
      /\ defs' = [defs EXCEPT ![f] = @ + 1]
      /\ cache' = Only(cache, {k \in DOMAIN cache : k[1] # f})
      /\ order' = Picked(order, {k \in DOMAIN order : order[k][1] # f})
      /\ UNCHANGED <<text, run, cursors>>
  BY DEF Define, Purged
<1>3. TextOk'
  BY <1>1, <1>2, SameText
<1>4. RunOk'
  BY <1>1, <1>2 DEF RunOk, run
<1>5. SlotsOk'
  BY <1>1, <1>2 DEF SlotsOk, text, run, cursors
<1>6. DefsOk'
  <2>1. defs \in [Static \cup Parametric -> 1..(MaxDefs + 1)] /\ MaxDefs \in Nat
    BY <1>1, FlowsAssumption DEF DefsOk
  <2>2. defs[f] + 1 \in 1..(MaxDefs + 1)
    <3>1. defs[f] <= MaxDefs /\ defs[f] \in 1..(MaxDefs + 1)
      BY <1>2, <2>1
    <3> QED BY <2>1, <3>1
  <2> QED BY <1>2, <2>1, <2>2 DEF DefsOk
<1>7. cell \in Functions(Nodes, DOMAIN pos) /\ pos \in Functions(Nodes, Nat)
      /\ cache \in Functions(Keys, Nat) /\ order \in Seq(Keys) /\ CallsOk(cache, order)
      /\ cell \in Functions(Nodes, Nodes)
  <2>1. cell \in Functions(Nodes, Nodes)
    BY <1>1, SaneIs DEF State
  <2> QED BY <1>1, <2>1, StateIs
<1>8. /\ cache' \in Functions(Keys, Nat) /\ order' \in Seq(Keys) /\ Len(order') <= MaxCache
      /\ \A k \in Keys : k \in DOMAIN cache' <=> \E j \in 1..Len(order') : order'[j] = k
      /\ \A i, j \in 1..Len(order') : order'[i] = order'[j] => i = j
      /\ \A k \in DOMAIN cache' : k[1] # f /\ cache'[k] = defs[k[1]]
  <2>1. /\ cache \in Functions(Keys, Nat) /\ order \in Seq(Keys) /\ CallsOk(cache, order) /\ DefsOk
        /\ Thrown(cache, order, f, cache', order')
    BY <1>1, <1>2, <1>7 DEF Thrown
  <2> QED BY <2>1, PurgedCalls
<1>9. \A k \in DOMAIN cache' : cache'[k] = defs'[k[1]]
  <2>1. \A k \in DOMAIN cache' : k \in Keys
    BY <1>8, FunctionIs
  <2>2. \A k \in Keys : k[1] \in Static \cup Parametric
    BY DEF Keys
  <2>3. \A g \in Static \cup Parametric : g # f => defs'[g] = defs[g]
    BY <1>1, <1>2 DEF DefsOk
  <2> QED BY <1>8, <2>1, <2>2, <2>3
<1>10. CallsOk(cache, order)'
  BY <1>8, <1>9 DEF CallsOk
<1>11. cell' = cell /\ pos' = pos
  BY <1>2 DEF cursors
<1>12. (State \in Kept)'
  BY <1>7, <1>8, <1>11 DEF State, Kept
<1>13. (State \in Sane)'
  BY <1>7, <1>10, <1>11, <1>12 DEF State, Sane
<1>14. (Range(cell) = DOMAIN pos)'
  BY <1>1, <1>11
<1> QED BY <1>3, <1>4, <1>5, <1>6, <1>13, <1>14 DEF FlowsInv

\* flow_call_cache_ and flow_cache_order_ name the same calls, each of a current
\* definition, and every node that was read has its map with a position: through
\* starts, ticks, flushes, stops, reloads of the text and of flows (evaluator.cpp:1010,
\* 1362, 4692), in the inductive form.
THEOREM FlowsInvariance == FlowsSpec => []FlowsInv
<1>1. FlowsInit => FlowsInv
  BY FlowsInitInv
<1>2. ASSUME FlowsInv, [FlowsNext]_flowVars PROVE FlowsInv'
  <2>1. ASSUME NEW x \in Args, StartProcess(x) PROVE FlowsInv'
    BY <1>2, <2>1, StartKeeps
  <2>2. CASE StopProcess
    BY <1>2, <2>2, StopKeeps
  <2>3. ASSUME NEW i \in Segs, NEW fires \in BOOLEAN, NEW x \in Args, Tick(i, fires, x) PROVE FlowsInv'
    BY <1>2, <2>3, TickKeeps
  <2>4. ASSUME NEW x \in Args, Flush(x) PROVE FlowsInv'
    BY <1>2, <2>4, FlushKeeps
  <2>5. ASSUME NEW t \in Texts, NEW at \in {{}} \cup {{p} : p \in Stale}, NEW x \in Args, Reload(t, at, x)
        PROVE  FlowsInv'
    BY <1>2, <2>5, ReloadKeeps
  <2>6. ASSUME NEW f \in Static \cup Parametric, Define(f) PROVE FlowsInv'
    BY <1>2, <2>6, DefineKeeps
  <2>7. CASE UNCHANGED flowVars
    <3>1. UNCHANGED <<text, run, cursors, defs, calls>>
      BY <2>7 DEF flowVars
    <3>2. UNCHANGED <<ver, own, shared, up, trig, deferred, cell, pos, slots, cache, order>>
      BY <3>1 DEF text, run, cursors, calls
    <3>3. TextOk /\ RunOk /\ SlotsOk /\ DefsOk /\ State \in Sane /\ Range(cell) = DOMAIN pos
      BY <1>2 DEF FlowsInv
    <3>4. TextOk'
      BY <3>1, <3>3, SameText
    <3>5. RunOk' /\ SlotsOk' /\ DefsOk'
      BY <3>1, <3>2, <3>3 DEF RunOk, SlotsOk, DefsOk
    <3>6. (State \in Sane /\ Range(cell) = DOMAIN pos)'
      BY <3>1, <3>2, <3>3, SameCursors
    <3> QED BY <3>4, <3>5, <3>6 DEF FlowsInv
  <2> QED BY <1>2, <2>1, <2>2, <2>3, <2>4, <2>5, <2>6, <2>7 DEF FlowsNext
<1> QED BY <1>1, <1>2, PTL DEF FlowsSpec

\* evaluator.hpp:71-73: the cache never has more than FLOW_CACHE_MAX calls, the order
\* names exactly those it has, each once, and none is of a flow that was defined again.
THEOREM CacheAlwaysAgrees == FlowsSpec => []CacheAgrees
<1>1. FlowsInv => CacheAgrees
  <2> SUFFICES ASSUME FlowsInv PROVE CacheAgrees
    OBVIOUS
  <2>1. TextOk /\ RunOk /\ SlotsOk /\ DefsOk /\ State \in Sane /\ Range(cell) = DOMAIN pos
    BY DEF FlowsInv
  <2>2. /\ pos \in Functions(Nodes, Nat) /\ cache \in Functions(Keys, Nat)
        /\ order \in Seq(Keys) /\ CallsOk(cache, order)
    BY <2>1, StateIs
  <2>3. Range(pos) \subseteq Nat
    <3>1. pos \in [DOMAIN pos -> Nat]
      BY <2>2, FunctionIs
    <3> QED BY <3>1 DEF Range
  <2>4. \A k \in DOMAIN cache : k[1] \in Parametric /\ k[2] \in Args
    <3>1. \A k \in DOMAIN cache : k \in Keys
      BY <2>2, FunctionIs
    <3> QED BY <3>1 DEF Keys
  <2>5. Range(order) = DOMAIN cache /\ Cardinality(DOMAIN cache) = Len(order)
    BY <2>2, AsManyCalls
  <2>6. FlowsTypeOK
    BY <2>1, <2>3, <2>4 DEF FlowsTypeOK, TextOk, RunOk, SlotsOk
  <2> QED BY <2>2, <2>5, <2>6 DEF CacheAgrees, CallsOk
<1> QED BY <1>1, FlowsInvariance, PTL

-----------------------------------------------------------------------------
(***************************************************************************)
(* HotReload: ranks                                                         *)
(***************************************************************************)

\* The places of a set of numbers, in order, count its members.
Ranked(o, m, K) ==
    /\ m \in Nat /\ o \in [1..m -> K] /\ \A k \in K : k \in Nat /\ k >= 1
    /\ \A i, j \in 1..m : i < j <=> o[i] < o[j]
    /\ \A i, j \in 1..m : o[i] = o[j] => i = j
    /\ \A k \in K : \E p \in 1..m : o[p] = k

LEMMA OrderedRanks ==
  ASSUME NEW n \in Nat, NEW K \in SUBSET (1..n), NEW o, o = Ordered(K, n)
  PROVE  /\ Ranked(o, Len(o), K) /\ DOMAIN o = 1..Len(o) /\ Len(o) = Cardinality(K)
         /\ \A i \in 1..Len(o) : o[i] \in Nat
<1>1. /\ o \in Seq(K) /\ Len(o) = Cardinality(K)
      /\ \A i, j \in DOMAIN o : i < j => o[i] < o[j]
      /\ \A k \in K : \E j \in DOMAIN o : o[j] = k
  BY OrderedIs
<1>2. Len(o) \in Nat /\ DOMAIN o = 1..Len(o) /\ o \in [1..Len(o) -> K]
  BY <1>1
<1>3. \A i \in 1..Len(o) : o[i] \in Nat
  <2>1. \A k \in K : k \in Nat
    OBVIOUS
  <2> QED BY <1>2, <2>1
<1>4. \A k \in K : k \in Nat /\ k >= 1
  OBVIOUS
<1>5. ASSUME NEW i \in 1..Len(o), NEW j \in 1..Len(o)
      PROVE  (i < j <=> o[i] < o[j]) /\ (o[i] = o[j] => i = j)
  <2>1. (i < j => o[i] < o[j]) /\ (j < i => o[j] < o[i])
    BY <1>1, <1>2
  <2>2. i \in Nat /\ j \in Nat /\ o[i] \in Nat /\ o[j] \in Nat
    BY <1>2, <1>3
  <2> QED BY <2>1, <2>2
<1> QED BY <1>1, <1>2, <1>3, <1>4, <1>5 DEF Ranked

\* As many of K are up to a member as its place says.
LEMMA RankIs ==
  ASSUME NEW K, NEW o, NEW m, Ranked(o, m, K), NEW p \in 1..m
  PROVE  Cardinality(K \cap 1..o[p]) = p
<1> DEFINE T == K \cap 1..o[p]
           f == [i \in 1..p |-> o[i]]
<1>1. /\ m \in Nat /\ p \in Nat /\ o[p] \in K /\ \A i \in 1..p : i \in 1..m /\ i <= p
      /\ \A k \in K : k \in Nat /\ k >= 1
  BY DEF Ranked
<1>2. ASSUME NEW i \in 1..p PROVE o[i] \in T
  <2>1. i \in 1..m /\ ~(p < i) /\ o[i] \in K
    BY <1>1 DEF Ranked
  <2>2. ~(o[p] < o[i])
    BY <2>1 DEF Ranked
  <2>3. o[i] \in Nat /\ o[p] \in Nat /\ o[i] >= 1
    BY <1>1, <2>1
  <2> QED BY <2>1, <2>2, <2>3
<1>3. ASSUME NEW k \in T PROVE \E i \in 1..p : f[i] = k
  <2>1. PICK i \in 1..m : o[i] = k
    BY DEF Ranked
  <2>2. ~(o[p] < o[i])
    <3>1. o[p] \in K /\ k \in 1..o[p]
      BY <1>1
    <3>2. o[p] \in Nat
      BY <1>1, <3>1
    <3> QED BY <2>1, <3>1, <3>2
  <2>3. ~(p < i)
    BY <2>1, <2>2 DEF Ranked
  <2>4. i \in 1..p
    BY <1>1, <2>3
  <2> QED BY <2>1, <2>4
<1>4. \A i, j \in 1..p : f[i] = f[j] => i = j
  BY <1>1 DEF Ranked
<1>5. f \in [1..p -> T]
  BY <1>2
<1> HIDE DEF f, T
<1>6. f \in Bijection(1..p, T)
  <2>1. DOMAIN f = 1..p
    BY <1>5
  <2>2. IsInjective(f)
    BY <1>4, <2>1 DEF IsInjective
  <2> QED BY <1>3, <1>5, <2>2 DEF Bijection, Injection, Surjection
<1>7. IsFiniteSet(1..p) /\ Cardinality(1..p) = p
  <2>1. p \in Int /\ ~(1 > p) /\ p - 1 + 1 = p
    BY <1>1
  <2> QED BY <2>1, FS_Interval
<1>8. Cardinality(T) = p
  BY <1>6, <1>7, FS_Bijection DEF ExistsBijection
<1> QED BY <1>8 DEF T

-----------------------------------------------------------------------------
(***************************************************************************)
(* HotReload: texts and segments                                            *)
(***************************************************************************)

\* What parsing a text gives: temporal statements have an interval, and bindings
\* alone have a name.
IsText(ast) ==
    /\ ast \in Seq(Range(ast)) /\ Len(ast) \in Nat /\ DOMAIN ast = 1..Len(ast)
    /\ \A k \in DOMAIN ast :
         /\ ast[k].st.kind \in Temporal =>
              ast[k].st.dt \in Nat \ {0} /\ (ast[k].st.var = NoVar <=> ast[k].st.kind # "bind")
         /\ ast[k].st.stated => ast[k].st.kind \in Temporal

IsSegment(s) ==
    s = [id |-> s.id, var |-> s.var, fn |-> s.fn, dt |-> s.dt,
         reactions |-> s.reactions, shared |-> s.shared]

\* The segments of a process when the numbers before n have been given out.
SegmentsOk(s, n) ==
    /\ Len(s) \in Nat /\ DOMAIN s = 1..Len(s)
    /\ \A i \in DOMAIN s : IsSegment(s[i]) /\ s[i].id \in 1..(n - 1) /\ s[i].dt \in Nat
    /\ \A i, j \in DOMAIN s : s[i].id = s[j].id => i = j

LEMMA ParsedText ==
  ASSUME NEW b \in Blocks, NEW v, NEW ast, ast = Parsed(b, v)
  PROVE  IsText(ast)
<1>1. /\ b \in Seq(Range(b))
      /\ \A k \in DOMAIN b :
           /\ b[k].kind \in Temporal =>
                b[k].dt \in Nat \ {0} /\ (b[k].var = NoVar <=> b[k].kind # "bind")
           /\ b[k].stated => b[k].kind \in Temporal
  BY HotReloadAssumption
<1>2. Len(b) \in Nat /\ DOMAIN b = 1..Len(b)
  BY <1>1
<1>3. ast = [k \in 1..Len(b) |-> [node |-> <<v, k>>, st |-> b[k]]]
  BY <1>2 DEF Parsed
<1>4. DOMAIN ast = 1..Len(b) /\ \A k \in 1..Len(b) : ast[k].st = b[k]
  BY <1>3
<1>5. ast \in [1..Len(b) -> Range(ast)]
  <2>1. ast = [k \in DOMAIN ast |-> ast[k]]
    BY <1>3
  <2>2. \A k \in DOMAIN ast : ast[k] \in Range(ast)
    BY DEF Range
  <2> QED BY <1>4, <2>1, <2>2
<1>6. ast \in Seq(Range(ast)) /\ Len(ast) = Len(b)
  BY <1>2, <1>5, IsSequence
<1> QED BY <1>1, <1>2, <1>4, <1>6 DEF IsText

\* The place of an unnamed segment among the unnamed.
Position(i) == Cardinality({j \in 1..i : segments[j].var = NoVar})
Drivers(ast) == Places(ast, {"drive", "on"})
DriversOf(ast) == Picked(ast, Drivers(ast))

LEMMA DriversAre ==
  ASSUME NEW ast, IsText(ast)
  PROVE  /\ Len(DriversOf(ast)) \in Nat /\ Drivers(ast) \in SUBSET (1..Len(ast))
         /\ \A p \in 1..Len(DriversOf(ast)) : \E k \in DOMAIN ast :
              /\ DriversOf(ast)[p] = ast[k] /\ ast[k].st.kind \in {"drive", "on"}
              /\ ast[k].st.var = NoVar /\ ast[k].st.dt \in Nat \ {0}
<1>1. Drivers(ast) = {k \in DOMAIN ast : ast[k].st.kind \in {"drive", "on"}}
  BY DEF Drivers, Places
<1>2. Drivers(ast) \in SUBSET (1..Len(ast))
  BY <1>1 DEF IsText
<1>3. DriversOf(ast) \in Seq(Range(ast)) /\ Selection(DriversOf(ast), ast, Drivers(ast))
  BY <1>2, PickedIs DEF DriversOf, IsText
<1>4. PICK o \in [1..Len(DriversOf(ast)) -> Drivers(ast)] :
         \A j \in 1..Len(DriversOf(ast)) : DriversOf(ast)[j] = ast[o[j]]
  BY <1>3 DEF Selection
<1>5. ASSUME NEW p \in 1..Len(DriversOf(ast))
      PROVE  \E k \in DOMAIN ast :
              /\ DriversOf(ast)[p] = ast[k] /\ ast[k].st.kind \in {"drive", "on"}
              /\ ast[k].st.var = NoVar /\ ast[k].st.dt \in Nat \ {0}
  <2>1. o[p] \in Drivers(ast)
    BY <1>4
  <2>2. o[p] \in DOMAIN ast /\ ast[o[p]].st.kind \in {"drive", "on"}
    BY <1>1, <2>1
  <2>3. ast[o[p]].st.kind \in Temporal /\ ast[o[p]].st.kind # "bind"
    BY <2>2 DEF Temporal
  <2> QED BY <1>4, <2>2, <2>3 DEF IsText
<1> QED BY <1>2, <1>3, <1>5

\* An unnamed segment has a place.
LEMMA PositionIs ==
  ASSUME Len(segments) \in Nat, DOMAIN segments = 1..Len(segments), NEW i \in DOMAIN segments
  PROVE  Position(i) \in Nat /\ (segments[i].var = NoVar => Position(i) >= 1)
<1> DEFINE P == {j \in 1..i : segments[j].var = NoVar}
<1>1. IsFiniteSet(1..i)
  BY FS_Interval
<1>2. P \in SUBSET (1..i) /\ (segments[i].var = NoVar => i \in P)
  OBVIOUS
<1> HIDE DEF P
<1>3. IsFiniteSet(P) /\ Cardinality(P) \in Nat /\ (Cardinality(P) = 0 <=> P = {})
  BY <1>1, <1>2, FS_Subset, FS_CardinalityType, FS_EmptySet
<1>4. segments[i].var = NoVar => P # {}
  BY <1>2
<1>5. Position(i) = Cardinality(P)
  BY DEF P, Position
<1> QED BY <1>3, <1>4, <1>5

\* The statement that a segment is matched with.
Match(ast, i) == CHOOSE st \in CounterpartOf(ast, i) : TRUE

Matched(ast, i, st) ==
    /\ CounterpartOf(ast, i) = {st} /\ Match(ast, i) = st
    /\ st.kind \in Temporal => st.dt \in Nat \ {0}
    /\ st.stated => st.kind \in Temporal
    /\ IF segments[i].var = NoVar THEN st.kind \in {"drive", "on"} /\ st.var = NoVar
       ELSE st.kind \in {"bind", "react"} /\ st.var = segments[i].var

\* A name has a last anchor.
LEMMA AnchorIs ==
  ASSUME NEW ast, IsText(ast), NEW var, AnchorsOf(ast, var) # {}
  PROVE  BindingOf(ast, var) \in AnchorsOf(ast, var)
<1> DEFINE A == AnchorsOf(ast, var)
           n == Len(ast)
           o == Ordered(A, n)
           m == Len(o)
<1>1. n \in Nat /\ A \in SUBSET (1..n) /\ A # {}
  BY DEF AnchorsOf, Anchors, Places, IsText
<1> HIDE DEF A, n
<1>2. Ranked(o, m, A)
  BY <1>1, OrderedRanks
<1> HIDE DEF o, m
<1>3. PICK k \in A : TRUE
  BY <1>1
<1>4. PICK p \in 1..m : o[p] = k
  BY <1>2, <1>3 DEF Ranked
<1>5. m \in Nat /\ m \in 1..m
  BY <1>2, <1>4 DEF Ranked
<1>6. ASSUME NEW l \in A PROVE l <= o[m]
  <2>1. PICK q \in 1..m : o[q] = l
    BY <1>2 DEF Ranked
  <2>2. ~(m < q)
    BY <1>5, <2>1
  <2>3. ~(o[m] < l)
    BY <1>2, <1>5, <2>1, <2>2 DEF Ranked
  <2>4. o[m] \in A
    BY <1>2, <1>5 DEF Ranked
  <2>5. \A x \in A : x \in Nat
    BY <1>2 DEF Ranked
  <2>6. l \in Nat /\ o[m] \in Nat
    BY <2>4, <2>5
  <2> QED BY <2>3, <2>6
<1>7. o[m] \in A
  BY <1>2, <1>5 DEF Ranked
<1>8. BindingOf(ast, var) = CHOOSE x \in A : \A l \in A : l <= x
  BY DEF BindingOf, A
<1>9. BindingOf(ast, var) \in A
  BY <1>6, <1>7, <1>8
<1> QED BY <1>9 DEF A

LEMMA CounterpartIs ==
  ASSUME NEW ast, IsText(ast), Len(segments) \in Nat, DOMAIN segments = 1..Len(segments),
         NEW i \in DOMAIN segments
  PROVE  CounterpartOf(ast, i) # {} => Matched(ast, i, Match(ast, i))
<1>1. Position(i) \in Nat /\ (segments[i].var = NoVar => Position(i) >= 1)
      /\ Len(DriversOf(ast)) \in Nat
  BY PositionIs, DriversAre
<1>2. CASE segments[i].var = NoVar
  <2>1. CounterpartOf(ast, i) = IF Position(i) <= Len(DriversOf(ast))
                                THEN {DriversOf(ast)[Position(i)].st} ELSE {}
    BY <1>2 DEF CounterpartOf, DriverOf, Position, DriversOf, Drivers
  <2>2. ASSUME CounterpartOf(ast, i) # {} PROVE Matched(ast, i, Match(ast, i))
    <3> DEFINE st == DriversOf(ast)[Position(i)].st
    <3>1. Position(i) \in 1..Len(DriversOf(ast)) /\ CounterpartOf(ast, i) = {st}
      BY <1>1, <1>2, <2>1, <2>2
    <3>2. st.dt \in Nat \ {0} /\ st.kind \in {"drive", "on"} /\ st.var = NoVar
      BY <3>1, DriversAre
    <3> HIDE DEF st
    <3>3. Match(ast, i) = st
      BY <3>1 DEF Match
    <3>4. st.kind \in Temporal
      BY <3>2 DEF Temporal
    <3> QED BY <1>2, <3>1, <3>2, <3>3, <3>4 DEF Matched
  <2> QED BY <2>2
<1>3. CASE segments[i].var # NoVar
  <2> DEFINE k == BindingOf(ast, segments[i].var)
  <2>1. ASSUME CounterpartOf(ast, i) # {} PROVE Matched(ast, i, Match(ast, i))
    <3>1. AnchorsOf(ast, segments[i].var) # {} /\ CounterpartOf(ast, i) = {ast[k].st}
      BY <1>3, <2>1 DEF CounterpartOf
    <3>2. k \in Anchors(ast) /\ ast[k].st.var = segments[i].var
      BY <3>1, AnchorIs DEF AnchorsOf
    <3> HIDE DEF k
    <3>3. k \in DOMAIN ast /\ ast[k].st.kind \in {"bind", "react"}
      BY <3>2 DEF Anchors, Places
    <3>4. /\ ast[k].st.kind \in Temporal => ast[k].st.dt \in Nat \ {0}
          /\ ast[k].st.stated => ast[k].st.kind \in Temporal
      BY <3>3 DEF IsText
    <3>5. Match(ast, i) = ast[k].st
      BY <3>1 DEF Match
    <3> QED BY <1>3, <3>1, <3>2, <3>3, <3>4, <3>5 DEF Matched
  <2> QED BY <1>3, <2>1
<1> QED BY <1>2, <1>3

-----------------------------------------------------------------------------
(***************************************************************************)
(* HotReload: diff_and_apply()                                              *)
(***************************************************************************)

\* A function on 1..n is a sequence.
LEMMA AsSequence ==
  ASSUME NEW n \in Nat, NEW f, f = [i \in 1..n |-> f[i]]
  PROVE  f \in Seq({f[i] : i \in 1..n}) /\ Len(f) = n /\ DOMAIN f = 1..n
<1> DEFINE S == {f[i] : i \in 1..n}
<1>1. f \in [1..n -> S]
  OBVIOUS
<1> HIDE DEF S
<1>2. f \in Seq(S) /\ Len(f) = n /\ DOMAIN f = 1..n
  BY <1>1, IsSequence
<1> QED BY <1>2 DEF S

\* The old segments that stay or are replaced, in order.
Stays(ast) == {i \in DOMAIN segments : Survives(ast, i) \/ Replaced(ast, i)}
Stay(ast) == Ordered(Stays(ast), Len(segments))

\* The interval that segment i gets.
IntervalOf(ast, i) == IF Survives(ast, i) THEN NewDt(i, Match(ast, i)) ELSE Match(ast, i).dt

\* s is what becomes of segment i, before it has a number.
Outcome(ast, i, s) ==
    /\ IsSegment(s) /\ Matched(ast, i, Match(ast, i))
    /\ s.dt = IntervalOf(ast, i) /\ s.var = segments[i].var
    /\ s.id = IF Survives(ast, i) THEN segments[i].id ELSE 0
    /\ s.fn = IF Survives(ast, i) THEN segments[i].fn ELSE Match(ast, i).fn

LEMMA IntervalIs ==
  ASSUME NEW ast, SegmentsOk(segments, nextId), NEW i \in DOMAIN segments,
         Matched(ast, i, Match(ast, i))
  PROVE  IntervalOf(ast, i) \in Nat
<1> DEFINE st == Match(ast, i)
<1>1. segments[i].dt \in Nat
  BY DEF SegmentsOk
<1>2. /\ CounterpartOf(ast, i) = {st} /\ (st.kind \in Temporal => st.dt \in Nat)
      /\ (st.stated => st.kind \in Temporal) /\ st.kind \in {"drive", "on", "bind", "react"}
  BY DEF Matched
<1>3. IntervalOf(ast, i) = IF Survives(ast, i) THEN NewDt(i, st) ELSE st.dt
  BY DEF IntervalOf
<1> HIDE DEF st
<1>4. NewDt(i, st) \in Nat
  BY <1>1, <1>2 DEF NewDt
<1>5. ~Survives(ast, i) => st.kind \in Temporal
  BY <1>2 DEF Survives, Keeps, Temporal
<1> QED BY <1>2, <1>3, <1>4, <1>5

LEMMA StayIs ==
  ASSUME NEW ast, SegmentsOk(segments, nextId)
  PROVE  /\ Ranked(Stay(ast), Len(Stay(ast)), Stays(ast)) /\ Len(Stay(ast)) \in Nat
         /\ DOMAIN Stay(ast) = 1..Len(Stay(ast))
         /\ \A j \in 1..Len(Stay(ast)) : Stay(ast)[j] \in Stays(ast) /\ Stay(ast)[j] \in DOMAIN segments
         /\ Len(segments) \in Nat /\ Stays(ast) \in SUBSET (1..Len(segments))
<1>1. Len(segments) \in Nat /\ Stays(ast) \in SUBSET (1..Len(segments))
  BY DEF SegmentsOk, Stays
<1>2. /\ Ranked(Stay(ast), Len(Stay(ast)), Stays(ast))
      /\ DOMAIN Stay(ast) = 1..Len(Stay(ast))
  BY <1>1, OrderedRanks DEF Stay
<1>3. \A j \in 1..Len(Stay(ast)) : Stay(ast)[j] \in Stays(ast)
  BY <1>2 DEF Ranked
<1> QED BY <1>1, <1>2, <1>3 DEF Ranked, Stays

LEMMA UpdatedIs ==
  ASSUME NEW ast, IsText(ast), SegmentsOk(segments, nextId), NEW u, u = Updated(ast)
  PROVE  /\ u = [j \in 1..Len(Stay(ast)) |-> u[j]]
         /\ \A j \in 1..Len(Stay(ast)) : Outcome(ast, Stay(ast)[j], u[j])
<1>1. /\ DOMAIN Stay(ast) = 1..Len(Stay(ast)) /\ Len(segments) \in Nat
      /\ \A j \in 1..Len(Stay(ast)) : Stay(ast)[j] \in Stays(ast) /\ Stay(ast)[j] \in DOMAIN segments
      /\ DOMAIN segments = 1..Len(segments)
  BY StayIs DEF SegmentsOk
<1>2. u = [j \in 1..Len(Stay(ast)) |->
             IF Survives(ast, Stay(ast)[j]) THEN Survivor(ast, Stay(ast)[j])
             ELSE Blank(Match(ast, Stay(ast)[j]), <<>>)]
  BY <1>1 DEF Updated, Stay, Stays, Match
<1>3. ASSUME NEW j \in 1..Len(Stay(ast)), NEW i, i = Stay(ast)[j]
      PROVE  Outcome(ast, i, u[j])
  <2> DEFINE st == Match(ast, i)
  <2>1. i \in DOMAIN segments /\ (Survives(ast, i) \/ Replaced(ast, i))
    BY <1>1, <1>3 DEF Stays
  <2>2. CounterpartOf(ast, i) # {}
    BY <2>1 DEF Survives, Replaced
  <2>3. Matched(ast, i, st)
    BY <1>1, <2>1, <2>2, CounterpartIs
  <2>4. IsSegment(segments[i])
    BY <2>1 DEF SegmentsOk
  <2>5. CASE Survives(ast, i)
    <3> DEFINE r == IF segments[i].var = NoVar THEN segments[i].reactions
                    ELSE ReactionsOf(ast, segments[i].var)
               d == NewDt(i, st)
    <3>1. Survivor(ast, i) = [segments[i] EXCEPT !.dt = d, !.reactions = r]
      BY <2>4 DEF Survivor, Match
    <3>0. d = IntervalOf(ast, i)
      BY <2>5 DEF IntervalOf
    <3> HIDE DEF r, st, d
    <3>2. u[j] = [segments[i] EXCEPT !.dt = d, !.reactions = r]
      BY <1>2, <1>3, <2>5, <3>1
    <3> DEFINE seg == segments[i]
    <3>3. /\ IsSegment(u[j]) /\ u[j].id = seg.id /\ u[j].var = seg.var
          /\ u[j].fn = seg.fn /\ u[j].dt = d
      <4>1. IsSegment(seg) /\ u[j] = [seg EXCEPT !.dt = d, !.reactions = r]
        BY <2>4, <3>2
      <4> HIDE DEF seg
      <4> QED BY <4>1 DEF IsSegment
    <3> QED BY <2>3, <2>5, <3>0, <3>3 DEF Outcome, st
  <2>6. CASE ~Survives(ast, i)
    <3> HIDE DEF st
    <3>1. u[j] = Blank(st, <<>>)
      BY <1>2, <1>3, <2>6 DEF st
    <3>2. /\ IsSegment(u[j]) /\ u[j].id = 0 /\ u[j].var = st.var /\ u[j].fn = st.fn /\ u[j].dt = st.dt
      BY <3>1 DEF Blank, IsSegment
    <3>3. st.var = segments[i].var
      BY <2>3 DEF Matched
    <3>4. IntervalOf(ast, i) = st.dt
      BY <2>6 DEF IntervalOf, st
    <3> QED BY <2>3, <2>6, <3>2, <3>3, <3>4 DEF Outcome, st
  <2> QED BY <2>5, <2>6
<1>4. u = [j \in 1..Len(Stay(ast)) |-> u[j]]
  BY <1>2
<1> QED BY <1>3, <1>4

\* A named segment whose instance is new.
NewBinding(s) == IsSegment(s) /\ s.id = 0 /\ s.var # NoVar /\ s.dt \in Nat

LEMMA AddedIs ==
  ASSUME NEW ast, IsText(ast), NEW a, a = Added(ast)
  PROVE  \E m \in Nat : a = [j \in 1..m |-> a[j]] /\ \A j \in 1..m : NewBinding(a[j])
<1> DEFINE K == {k \in Places(ast, {"bind"}) :
                   ~\E i \in DOMAIN segments : segments[i].var = ast[k].st.var /\ Survives(ast, i)}
           o == Ordered(K, Len(ast))
<1>1. a = [j \in DOMAIN o |-> Blank(ast[o[j]].st, ReactionsOf(ast, ast[o[j]].st.var))]
  BY DEF Added
<1>2. Len(ast) \in Nat /\ K \in SUBSET (1..Len(ast)) /\ K \subseteq Places(ast, {"bind"})
  BY DEF IsText, Places
<1> HIDE DEF K
<1>3. Ranked(o, Len(o), K) /\ DOMAIN o = 1..Len(o)
  BY <1>2, OrderedRanks
<1> HIDE DEF o
<1>4. Len(o) \in Nat /\ \A j \in 1..Len(o) : o[j] \in K
  BY <1>3 DEF Ranked
<1>5. ASSUME NEW j \in 1..Len(o) PROVE NewBinding(a[j])
  <2>1. o[j] \in DOMAIN ast /\ ast[o[j]].st.kind = "bind"
    <3>1. o[j] \in Places(ast, {"bind"})
      BY <1>2, <1>4
    <3> QED BY <3>1 DEF Places
  <2>2. ast[o[j]].st.dt \in Nat /\ ast[o[j]].st.var # NoVar
    BY <2>1 DEF IsText, Temporal
  <2>3. a[j] = Blank(ast[o[j]].st, ReactionsOf(ast, ast[o[j]].st.var))
    BY <1>1, <1>3
  <2> QED BY <2>2, <2>3 DEF NewBinding, Blank, IsSegment
<1>6. a = [j \in 1..Len(o) |-> a[j]]
  BY <1>1, <1>3
<1> QED BY <1>4, <1>5, <1>6

\* What is new gets the numbers from nextId on.
Blanks(s) == {i \in DOMAIN s : s[i].id = 0}
Unfinished(s) ==
    /\ Len(s) \in Nat /\ DOMAIN s = 1..Len(s)
    /\ \A i \in DOMAIN s : IsSegment(s[i]) /\ s[i].id \in 0..(nextId - 1)
    /\ \A i, j \in DOMAIN s : s[i].id = s[j].id /\ s[i].id # 0 => i = j

LEMMA NumbersAre ==
  ASSUME NEW s, Unfinished(s), nextId \in Nat \ {0}, NEW w, w = WithNumbers(s),
         NEW m, m = Cardinality(Blanks(s))
  PROVE  /\ m \in Nat /\ Len(w) = Len(s) /\ DOMAIN w = DOMAIN s
         /\ \A i \in DOMAIN s :
              /\ IsSegment(w[i]) /\ w[i].var = s[i].var /\ w[i].fn = s[i].fn /\ w[i].dt = s[i].dt
              /\ w[i].id = s[i].id \/ (s[i].id = 0 /\ w[i].id \in nextId..(nextId + m - 1))
              /\ s[i].id = 0 => w[i].id \in nextId..(nextId + m - 1)
         /\ \A i, j \in DOMAIN s : w[i].id = w[j].id => i = j
         /\ \A k \in nextId..(nextId + m - 1) : \E i \in DOMAIN s : w[i].id = k
<1> DEFINE N == Len(s)
           B == Blanks(s)
           o == Ordered(B, N)
           c(i) == Cardinality({j \in 1..(i - 1) : s[j].id = 0})
<1>1. N \in Nat /\ DOMAIN s = 1..N /\ B \in SUBSET (1..N)
      /\ \A i \in 1..N : i \in B <=> s[i].id = 0
  BY DEF Unfinished, Blanks
<1>2. w = [i \in 1..N |-> IF s[i].id # 0 THEN s[i] ELSE [s[i] EXCEPT !.id = nextId + c(i)]]
  BY <1>1 DEF WithNumbers
<1>3. w = [i \in 1..N |-> w[i]]
  BY <1>2
<1>4. Len(w) = N /\ DOMAIN w = 1..N
  <2> HIDE DEF N
  <2> QED BY <1>1, <1>3, AsSequence
<1>5. Ranked(o, m, B) /\ m \in Nat
  <2> HIDE DEF B, N
  <2>1. Ranked(o, Len(o), B) /\ Len(o) = Cardinality(B)
    BY <1>1, OrderedRanks
  <2> QED BY <2>1 DEF B, Ranked
<1> HIDE DEF o, B
<1>6. ASSUME NEW p \in 1..m PROVE o[p] \in 1..N /\ s[o[p]].id = 0 /\ c(o[p]) = p - 1
  <2> DEFINE i == o[p]
             T == {j \in 1..(i - 1) : s[j].id = 0}
  <2>1. i \in B /\ i \in 1..N
    BY <1>1, <1>5 DEF Ranked
  <2>2. Cardinality(B \cap 1..i) = p
    <3> HIDE DEF N
    <3> QED BY <1>5, RankIs
  <2> HIDE DEF i
  <2>3. B \cap 1..i = T \cup {i} /\ i \notin T
    <3>1. i \in Nat /\ i >= 1 /\ i <= N /\ \A j \in 1..i : j \in 1..N /\ (j \in 1..(i - 1) <=> j # i)
      BY <1>1, <2>1
    <3>2. \A j \in 1..(i - 1) : j \in 1..i
      BY <3>1
    <3>3. ASSUME NEW j \in B \cap 1..i PROVE j \in T \cup {i}
      BY <1>1, <3>1
    <3>4. ASSUME NEW j \in T PROVE j \in B \cap 1..i
      BY <1>1, <3>1, <3>2
    <3>5. i \in B \cap 1..i /\ i \notin T
      BY <2>1, <3>1
    <3> QED BY <3>3, <3>4, <3>5
  <2>4. IsFiniteSet(T)
    <3>1. i - 1 \in Int
      BY <2>1
    <3>2. IsFiniteSet(1..(i - 1))
      BY <3>1, FS_Interval
    <3> QED BY <3>2, FS_Subset
  <2>5. Cardinality(T) \in Nat
    BY <2>4, FS_CardinalityType
  <2>6. p = Cardinality(T) + 1
    <3> HIDE DEF T
    <3> QED BY <2>2, <2>3, <2>4, FS_AddElement
  <2>7. Cardinality(T) = p - 1
    <3> HIDE DEF T
    <3> QED BY <2>5, <2>6
  <2>8. c(i) = Cardinality(T)
    OBVIOUS
  <2> HIDE DEF c, T
  <2> QED BY <1>1, <2>1, <2>7, <2>8 DEF i
<1> HIDE DEF c
<1>7. ASSUME NEW i \in 1..N
      PROVE  /\ IsSegment(w[i]) /\ w[i].var = s[i].var /\ w[i].fn = s[i].fn /\ w[i].dt = s[i].dt
             /\ w[i].id = IF s[i].id = 0 THEN nextId + c(i) ELSE s[i].id
  <2> DEFINE r == s[i]
  <2>1. IsSegment(r)
    BY <1>1 DEF Unfinished
  <2>2. w[i] = IF r.id # 0 THEN r ELSE [r EXCEPT !.id = nextId + c(i)]
    BY <1>2
  <2> HIDE DEF r
  <2>3. /\ IsSegment(w[i]) /\ w[i].var = r.var /\ w[i].fn = r.fn /\ w[i].dt = r.dt
        /\ w[i].id = IF r.id = 0 THEN nextId + c(i) ELSE r.id
    BY <2>1, <2>2 DEF IsSegment
  <2> QED BY <2>3 DEF r
<1>8. ASSUME NEW i \in 1..N, s[i].id = 0
      PROVE  \E p \in 1..m : o[p] = i /\ w[i].id = nextId + (p - 1)
  <2>1. PICK p \in 1..m : o[p] = i
    BY <1>1, <1>5, <1>8 DEF Ranked
  <2> QED BY <1>6, <1>7, <1>8, <2>1
<1>9. ASSUME NEW i \in 1..N
      PROVE  IF s[i].id = 0 THEN w[i].id \in nextId..(nextId + m - 1)
             ELSE w[i].id = s[i].id /\ w[i].id \in 1..(nextId - 1)
  <2>1. s[i].id \in 0..(nextId - 1)
    BY <1>1 DEF Unfinished
  <2>2. CASE s[i].id = 0
    <3>1. PICK p \in 1..m : w[i].id = nextId + (p - 1)
      BY <1>8, <2>2
    <3>2. nextId + (p - 1) \in nextId..(nextId + m - 1)
      BY <1>5
    <3> QED BY <2>2, <3>1, <3>2
  <2>3. CASE s[i].id # 0
    <3>1. w[i].id = s[i].id
      BY <1>7, <2>3
    <3> QED BY <2>1, <2>3, <3>1
  <2> QED BY <2>2, <2>3
<1>10. ASSUME NEW i \in 1..N, NEW j \in 1..N, w[i].id = w[j].id PROVE i = j
  <2>1. CASE s[i].id = 0 /\ s[j].id = 0
    <3>1. PICK p \in 1..m : o[p] = i /\ w[i].id = nextId + (p - 1)
      BY <1>8, <2>1
    <3>2. PICK q \in 1..m : o[q] = j /\ w[j].id = nextId + (q - 1)
      BY <1>8, <2>1
    <3>3. p = q
      <4>1. nextId + (p - 1) = nextId + (q - 1)
        BY <1>10, <3>1, <3>2
      <4>2. p \in Nat /\ q \in Nat /\ nextId \in Nat
        BY <1>5
      <4> QED BY <4>1, <4>2
    <3> QED BY <3>1, <3>2, <3>3
  <2>2. CASE s[i].id # 0 /\ s[j].id # 0
    <3>1. s[i].id = s[j].id
      BY <1>9, <1>10, <2>2
    <3> QED BY <1>1, <2>2, <3>1 DEF Unfinished
  <2>3. ASSUME NEW x \in 1..N, NEW y \in 1..N, s[x].id = 0, s[y].id # 0
        PROVE  w[x].id # w[y].id
    <3>1. w[x].id \in nextId..(nextId + m - 1) /\ w[y].id \in 1..(nextId - 1)
      BY <1>9, <2>3
    <3> QED BY <3>1, <1>5
  <2> QED BY <1>10, <2>1, <2>2, <2>3
<1>11. ASSUME NEW k \in nextId..(nextId + m - 1) PROVE \E i \in 1..N : w[i].id = k
  <2> DEFINE p == k - nextId + 1
  <2>1. p \in 1..m /\ nextId + (p - 1) = k
    BY <1>5
  <2> HIDE DEF p
  <2>2. o[p] \in 1..N /\ s[o[p]].id = 0 /\ c(o[p]) = p - 1
    BY <1>6, <2>1
  <2>3. w[o[p]].id = nextId + (p - 1)
    BY <1>7, <2>2
  <2> QED BY <2>1, <2>2, <2>3
<1> HIDE DEF N
<1> QED BY <1>1, <1>4, <1>5, <1>7, <1>9, <1>10, <1>11 DEF N

\* Reactions move between segments, and nothing else.
Rearranged(s, a, b) == [i \in DOMAIN s |-> [s[i] EXCEPT !.reactions = a[i], !.shared = b[i]]]

LEMMA RedistributedForm ==
  ASSUME NEW n \in Nat, NEW s, DOMAIN s = 1..n, NEW r, r = Redistributed(s)
  PROVE  /\ Len(r) = n /\ DOMAIN r = 1..n
         /\ \E a, b : r = Rearranged(s, a, b)
<1> DEFINE lists == Distributed(s)
           Common(i) == {j \in DOMAIN lists[i] :
                           \E k \in DOMAIN s \ {i} : Contains(lists[k], lists[i][j])}
           a == [i \in 1..n |-> Picked(lists[i], DOMAIN lists[i] \ Common(i))]
           b == [i \in 1..n |-> Picked(lists[i], Common(i))]
<1>1. r = [i \in 1..n |-> [s[i] EXCEPT !.reactions = a[i], !.shared = b[i]]]
  BY DEF Redistributed
<1> HIDE DEF a, b
<1>2. r = [i \in 1..n |-> r[i]]
  BY <1>1
<1>3. Len(r) = n /\ DOMAIN r = 1..n
  BY <1>2, AsSequence
<1>4. r = Rearranged(s, a, b)
  BY <1>1 DEF Rearranged
<1> QED BY <1>3, <1>4

LEMMA RedistributedIs ==
  ASSUME NEW n \in Nat, NEW s, DOMAIN s = 1..n, \A i \in 1..n : IsSegment(s[i]),
         NEW r, r = Redistributed(s)
  PROVE  /\ Len(r) = n /\ DOMAIN r = 1..n
         /\ \A i \in 1..n : /\ IsSegment(r[i]) /\ r[i].id = s[i].id /\ r[i].var = s[i].var
                            /\ r[i].fn = s[i].fn /\ r[i].dt = s[i].dt
<1>1. Len(r) = n /\ DOMAIN r = 1..n
  BY RedistributedForm
<1>2. PICK a, b : r = Rearranged(s, a, b)
  BY RedistributedForm
<1>3. ASSUME NEW i \in 1..n
      PROVE  /\ IsSegment(r[i]) /\ r[i].id = s[i].id /\ r[i].var = s[i].var
             /\ r[i].fn = s[i].fn /\ r[i].dt = s[i].dt
  <2> DEFINE t == s[i]
  <2>1. IsSegment(t) /\ r[i] = [t EXCEPT !.reactions = a[i], !.shared = b[i]]
    BY <1>2 DEF Rearranged
  <2> HIDE DEF t
  <2>2. IsSegment(r[i]) /\ r[i].id = t.id /\ r[i].var = t.var /\ r[i].fn = t.fn /\ r[i].dt = t.dt
    BY <2>1 DEF IsSegment
  <2> QED BY <2>2 DEF t
<1> QED BY <1>1, <1>3

\* new is what diff_and_apply() makes of the segments, with m new instances.
Result(ast, new, m) ==
    /\ m \in Nat /\ Len(new) \in Nat /\ DOMAIN new = 1..Len(new)
    /\ 1..Len(Stay(ast)) \subseteq DOMAIN new
    /\ \A j \in DOMAIN new : IsSegment(new[j]) /\ new[j].dt \in Nat
    /\ \A j \in 1..Len(Stay(ast)) :
         /\ Matched(ast, Stay(ast)[j], Match(ast, Stay(ast)[j]))
         /\ new[j].var = segments[Stay(ast)[j]].var /\ new[j].dt = IntervalOf(ast, Stay(ast)[j])
         /\ IF Survives(ast, Stay(ast)[j])
            THEN new[j].id = segments[Stay(ast)[j]].id /\ new[j].fn = segments[Stay(ast)[j]].fn
            ELSE new[j].id \in nextId..(nextId + m - 1) /\ new[j].fn = Match(ast, Stay(ast)[j]).fn
    /\ \A j \in DOMAIN new : j > Len(Stay(ast)) =>
         new[j].var # NoVar /\ new[j].id \in nextId..(nextId + m - 1)
    /\ \A i, j \in DOMAIN new : new[i].id = new[j].id => i = j
    /\ \A k \in nextId..(nextId + m - 1) : \E j \in DOMAIN new : new[j].id = k

LEMMA AppliedIs ==
  ASSUME NEW ast, IsText(ast), SegmentsOk(segments, nextId), nextId \in Nat \ {0},
         NEW new, new = Applied(ast)
  PROVE  \E m \in Nat : Result(ast, new, m)
<1> DEFINE n == Len(Stay(ast))
           u == Updated(ast)
           a == Added(ast)
           c == u \o a
           w == WithNumbers(c)
           m == Cardinality(Blanks(c))
<1>1. n \in Nat /\ \A j \in 1..n : Stay(ast)[j] \in DOMAIN segments
  BY StayIs
<1>2. u = [j \in 1..n |-> u[j]] /\ \A j \in 1..n : Outcome(ast, Stay(ast)[j], u[j])
  BY UpdatedIs
<1>3. PICK l \in Nat : a = [j \in 1..l |-> a[j]] /\ \A j \in 1..l : NewBinding(a[j])
  BY AddedIs
<1>4. new = Redistributed(w)
  BY DEF Applied
<1> HIDE DEF n, u, a
<1>5. /\ Len(c) = n + l /\ DOMAIN c = 1..(n + l)
      /\ \A j \in 1..n : c[j] = u[j]
      /\ \A j \in 1..l : c[n + j] = a[j]
  <2> DEFINE U == {u[j] : j \in 1..n}
             A == {a[j] : j \in 1..l}
             S == U \cup A
  <2>1. u \in Seq(U) /\ Len(u) = n
    BY <1>1, <1>2, AsSequence
  <2>2. a \in Seq(A) /\ Len(a) = l
    BY <1>3, AsSequence
  <2> HIDE DEF U, A
  <2>3. u \in Seq(S) /\ a \in Seq(S)
    BY <2>1, <2>2
  <2> HIDE DEF S
  <2>4. /\ c \in Seq(S) /\ Len(c) = Len(u) + Len(a)
        /\ \A i \in 1..Len(u) : c[i] = u[i]
        /\ \A j \in 1..Len(a) : c[Len(u) + j] = a[j]
    BY <2>3, ConcatIs
  <2> HIDE DEF c
  <2>5. DOMAIN c = 1..Len(c)
    BY <2>4
  <2> QED BY <1>1, <2>1, <2>2, <2>4, <2>5
<1> HIDE DEF c
<1>6. ASSUME NEW j \in DOMAIN c
      PROVE  /\ j <= n => Outcome(ast, Stay(ast)[j], c[j]) /\ j \in 1..n
             /\ j > n => NewBinding(c[j])
  <2>1. CASE j <= n
    <3>1. j \in 1..n
      BY <1>5, <2>1
    <3> QED BY <1>1, <1>2, <1>5, <2>1, <3>1
  <2>2. CASE j > n
    <3>1. j - n \in 1..l /\ n + (j - n) = j
      BY <1>1, <1>5, <2>2
    <3>2. c[j] = a[j - n]
      BY <1>5, <3>1
    <3> QED BY <1>1, <1>3, <2>2, <3>1, <3>2
  <2> QED BY <1>1, <1>5, <2>1, <2>2
<1>7. /\ n + l \in Nat /\ \A j \in 1..n : j \in DOMAIN c /\ j <= n
      /\ \A j \in DOMAIN c : j \in Nat
  BY <1>1, <1>5
<1>8. Unfinished(c)
  <2>1. ASSUME NEW j \in DOMAIN c PROVE IsSegment(c[j]) /\ c[j].id \in 0..(nextId - 1)
    <3>1. CASE j <= n
      <4>1. /\ IsSegment(c[j]) /\ Stay(ast)[j] \in DOMAIN segments
            /\ c[j].id = 0 \/ c[j].id = segments[Stay(ast)[j]].id
        BY <1>1, <1>6, <3>1 DEF Outcome
      <4>2. segments[Stay(ast)[j]].id \in 1..(nextId - 1)
        BY <4>1 DEF SegmentsOk
      <4> QED BY <4>1, <4>2
    <3>2. CASE j > n
      BY <1>6, <3>2 DEF NewBinding
    <3> QED BY <1>1, <1>7, <3>1, <3>2
  <2>2. ASSUME NEW i \in DOMAIN c, NEW j \in DOMAIN c, c[i].id = c[j].id, c[i].id # 0
        PROVE  i = j
    <3>1. i <= n /\ j <= n
      BY <1>1, <1>6, <1>7, <2>2 DEF NewBinding
    <3>2. /\ i \in 1..n /\ j \in 1..n
          /\ c[i].id = segments[Stay(ast)[i]].id /\ c[j].id = segments[Stay(ast)[j]].id
      BY <1>6, <2>2, <3>1 DEF Outcome
    <3>3. Stay(ast)[i] = Stay(ast)[j]
      BY <1>1, <2>2, <3>2 DEF SegmentsOk
    <3> QED BY <3>2, <3>3, StayIs DEF Ranked, n
  <2> QED BY <1>5, <1>7, <2>1, <2>2 DEF Unfinished
<1> HIDE DEF m, w
<1>9. /\ m \in Nat /\ Len(w) = Len(c) /\ DOMAIN w = DOMAIN c
      /\ \A i \in DOMAIN c :
           /\ IsSegment(w[i]) /\ w[i].var = c[i].var /\ w[i].fn = c[i].fn /\ w[i].dt = c[i].dt
           /\ w[i].id = c[i].id \/ (c[i].id = 0 /\ w[i].id \in nextId..(nextId + m - 1))
           /\ c[i].id = 0 => w[i].id \in nextId..(nextId + m - 1)
      /\ \A i, j \in DOMAIN c : w[i].id = w[j].id => i = j
      /\ \A k \in nextId..(nextId + m - 1) : \E i \in DOMAIN c : w[i].id = k
  BY <1>8, NumbersAre DEF w, m
<1>10. /\ Len(new) = n + l /\ DOMAIN new = DOMAIN c
       /\ \A i \in DOMAIN c : /\ IsSegment(new[i]) /\ new[i].id = w[i].id /\ new[i].var = w[i].var
                              /\ new[i].fn = w[i].fn /\ new[i].dt = w[i].dt
  <2>1. DOMAIN w = 1..(n + l) /\ \A i \in 1..(n + l) : IsSegment(w[i])
    BY <1>5, <1>9
  <2> DEFINE N == n + l
  <2>2. N \in Nat /\ DOMAIN w = 1..N /\ \A i \in 1..N : IsSegment(w[i])
    BY <1>7, <2>1
  <2> HIDE DEF N
  <2>3. /\ Len(new) = N /\ DOMAIN new = 1..N
        /\ \A i \in 1..N : /\ IsSegment(new[i]) /\ new[i].id = w[i].id /\ new[i].var = w[i].var
                           /\ new[i].fn = w[i].fn /\ new[i].dt = w[i].dt
    BY <1>4, <2>2, RedistributedIs
  <2> QED BY <1>5, <2>3 DEF N
<1>11. ASSUME NEW j \in 1..n
       PROVE  /\ Matched(ast, Stay(ast)[j], Match(ast, Stay(ast)[j]))
              /\ new[j].var = segments[Stay(ast)[j]].var /\ new[j].dt = IntervalOf(ast, Stay(ast)[j])
              /\ IF Survives(ast, Stay(ast)[j])
                 THEN new[j].id = segments[Stay(ast)[j]].id /\ new[j].fn = segments[Stay(ast)[j]].fn
                 ELSE new[j].id \in nextId..(nextId + m - 1) /\ new[j].fn = Match(ast, Stay(ast)[j]).fn
              /\ new[j].dt \in Nat
  <2> DEFINE i == Stay(ast)[j]
  <2>1. j \in DOMAIN c /\ Outcome(ast, i, c[j]) /\ i \in DOMAIN segments
    BY <1>1, <1>6, <1>7
  <2> HIDE DEF i
  <2>2. /\ Matched(ast, i, Match(ast, i)) /\ c[j].dt = IntervalOf(ast, i) /\ c[j].var = segments[i].var
        /\ c[j].id = IF Survives(ast, i) THEN segments[i].id ELSE 0
        /\ c[j].fn = IF Survives(ast, i) THEN segments[i].fn ELSE Match(ast, i).fn
    BY <2>1 DEF Outcome
  <2>3. /\ new[j].var = c[j].var /\ new[j].fn = c[j].fn /\ new[j].dt = c[j].dt /\ new[j].id = w[j].id
        /\ w[j].id = c[j].id \/ (c[j].id = 0 /\ w[j].id \in nextId..(nextId + m - 1))
        /\ c[j].id = 0 => w[j].id \in nextId..(nextId + m - 1)
    BY <1>9, <1>10, <2>1
  <2>4. IntervalOf(ast, i) \in Nat
    BY <2>1, <2>2, IntervalIs
  <2>5. segments[i].id # 0
    BY <2>1 DEF SegmentsOk
  <2>6. CASE Survives(ast, i)
    BY <2>2, <2>3, <2>4, <2>5, <2>6 DEF i
  <2>7. CASE ~Survives(ast, i)
    BY <2>2, <2>3, <2>4, <2>7 DEF i
  <2> QED BY <2>6, <2>7
<1>12. ASSUME NEW j \in DOMAIN c, j > n
       PROVE  new[j].var # NoVar /\ new[j].id \in nextId..(nextId + m - 1) /\ new[j].dt \in Nat
  <2>1. c[j].id = 0 /\ c[j].var # NoVar /\ c[j].dt \in Nat
    BY <1>6, <1>12 DEF NewBinding
  <2> QED BY <1>9, <1>10, <2>1
<1>13. ASSUME NEW j \in DOMAIN new PROVE new[j].dt \in Nat
  <2>1. j \in DOMAIN c /\ j \in Nat
    BY <1>7, <1>10
  <2>2. CASE j <= n
    <3>1. j \in 1..n
      BY <1>6, <2>1, <2>2
    <3> QED BY <1>11, <3>1
  <2>3. CASE j > n
    BY <1>12, <2>1, <2>3
  <2> QED BY <1>1, <2>1, <2>2, <2>3
<1>14. \A i, j \in DOMAIN new : new[i].id = new[j].id => i = j
  BY <1>9, <1>10
<1>15. ASSUME NEW k \in nextId..(nextId + m - 1) PROVE \E j \in DOMAIN new : new[j].id = k
  <2>1. PICK j \in DOMAIN c : w[j].id = k
    BY <1>9
  <2> QED BY <1>10, <2>1
<1>16. /\ m \in Nat /\ Len(new) \in Nat /\ DOMAIN new = 1..Len(new) /\ 1..n \subseteq DOMAIN new
       /\ \A j \in DOMAIN new : IsSegment(new[j]) /\ new[j].dt \in Nat
       /\ \A j \in DOMAIN new : j > n => new[j].var # NoVar /\ new[j].id \in nextId..(nextId + m - 1)
  BY <1>5, <1>7, <1>9, <1>10, <1>12, <1>13
<1>17. Result(ast, new, m)
  BY <1>11, <1>14, <1>15, <1>16 DEF Result, n
<1> QED BY <1>9, <1>17

\* What survives is there with its number.
Remain(ast, new) ==
    \A i \in DOMAIN segments : Survives(ast, i) =>
       \E j \in 1..Len(Stay(ast)) : Stay(ast)[j] = i /\ new[j].id = segments[i].id

\* What it leaves: new instances have new numbers, and no two segments one.
LEMMA ResultIs ==
  ASSUME NEW ast, SegmentsOk(segments, nextId), nextId \in Nat \ {0},
         NEW new, NEW m, Result(ast, new, m)
  PROVE  /\ SegmentsOk(new, nextId + m)
         /\ IdsOf(new) \ IdsOf(segments) = nextId..(nextId + m - 1)
         /\ Cardinality(IdsOf(new) \ IdsOf(segments)) = m
         /\ Remain(ast, new)
<1>1. /\ m \in Nat /\ Len(new) \in Nat /\ DOMAIN new = 1..Len(new)
      /\ \A j \in DOMAIN new : IsSegment(new[j]) /\ new[j].dt \in Nat
      /\ \A i, j \in DOMAIN new : new[i].id = new[j].id => i = j
      /\ \A k \in nextId..(nextId + m - 1) : \E j \in DOMAIN new : new[j].id = k
  BY DEF Result
<1>2. \A k \in IdsOf(segments) : k \in 1..(nextId - 1)
  BY DEF IdsOf, SegmentsOk
<1>3. ASSUME NEW j \in DOMAIN new
      PROVE  new[j].id \in IdsOf(segments) \/ new[j].id \in nextId..(nextId + m - 1)
  <2>1. CASE j \in 1..Len(Stay(ast))
    <3> DEFINE i == Stay(ast)[j]
    <3>1. i \in DOMAIN segments
      BY <2>1, StayIs
    <3>2. segments[i].id \in IdsOf(segments)
      BY <3>1 DEF IdsOf
    <3>3. new[j].id = segments[i].id \/ new[j].id \in nextId..(nextId + m - 1)
      BY <2>1 DEF Result
    <3> QED BY <3>2, <3>3
  <2>2. CASE j \notin 1..Len(Stay(ast))
    <3>1. j > Len(Stay(ast))
      <4>1. Len(Stay(ast)) \in Nat /\ j \in Nat /\ j >= 1
        BY <1>1, StayIs
      <4> QED BY <2>2, <4>1
    <3> QED BY <3>1 DEF Result
  <2> QED BY <2>1, <2>2
<1>4. ASSUME NEW j \in DOMAIN new PROVE new[j].id \in 1..(nextId + m - 1)
  <2>1. CASE new[j].id \in IdsOf(segments)
    <3>1. new[j].id \in 1..(nextId - 1)
      BY <1>2, <2>1
    <3> QED BY <1>1, <3>1
  <2>2. CASE new[j].id \in nextId..(nextId + m - 1)
    BY <1>1, <2>2
  <2> QED BY <1>3, <2>1, <2>2
<1>5. SegmentsOk(new, nextId + m)
  BY <1>1, <1>4 DEF SegmentsOk
<1>6. IdsOf(new) = {new[j].id : j \in DOMAIN new}
  BY DEF IdsOf
<1>7. IdsOf(new) \ IdsOf(segments) = nextId..(nextId + m - 1)
  <2>1. ASSUME NEW k \in nextId..(nextId + m - 1) PROVE k \in IdsOf(new) \ IdsOf(segments)
    <3>1. k \in IdsOf(new)
      BY <1>1, <1>6
    <3>2. k \notin 1..(nextId - 1)
      BY <1>1
    <3> QED BY <1>2, <3>1, <3>2
  <2>2. ASSUME NEW k \in IdsOf(new) \ IdsOf(segments) PROVE k \in nextId..(nextId + m - 1)
    BY <1>3, <1>6, <2>2
  <2> QED BY <2>1, <2>2
<1>8. Cardinality(nextId..(nextId + m - 1)) = m
  <2>1. nextId \in Int /\ nextId + m - 1 \in Int
    BY <1>1
  <2>2. Cardinality(nextId..(nextId + m - 1)) =
          IF nextId > nextId + m - 1 THEN 0 ELSE (nextId + m - 1) - nextId + 1
    BY <2>1, FS_Interval
  <2> QED BY <1>1, <2>2
<1>9. ASSUME NEW i \in DOMAIN segments, Survives(ast, i)
      PROVE  \E j \in 1..Len(Stay(ast)) : Stay(ast)[j] = i /\ new[j].id = segments[i].id
  <2>1. i \in Stays(ast)
    BY <1>9 DEF Stays
  <2>2. PICK j \in 1..Len(Stay(ast)) : Stay(ast)[j] = i
    BY <2>1, StayIs DEF Ranked
  <2> QED BY <1>9, <2>2 DEF Result
<1>10. Remain(ast, new)
  BY <1>9 DEF Remain
<1> QED BY <1>5, <1>7, <1>8, <1>10

-----------------------------------------------------------------------------
(***************************************************************************)
(* HotReload: the invariant                                                 *)
(***************************************************************************)

\* The variables are of their types, numbers are given out once, and no two
\* segments have one.
HotReloadInv ==
    /\ stored \in Blocks /\ version \in 1..MaxEdits
    /\ state \in {"none", "running", "paused", "stopped"}
    /\ inst \in [Ids -> Instance]
    /\ nextId \in 1..(MaxInstances + 1) /\ \A k \in nextId..MaxInstances : inst[k] = NoInstance
    /\ tracked \subseteq 1..(nextId - 1)
    /\ SegmentsOk(segments, nextId)
    /\ calling \in 0..(nextId - 1)

LEMMA NumbersKnown ==
  ASSUME HotReloadInv
  PROVE  /\ MaxInstances \in Nat /\ MaxEdits \in Nat \ {0} /\ nextId \in Nat \ {0}
         /\ nextId <= MaxInstances + 1
         /\ \A k \in 1..(nextId - 1) : k \in Ids /\ k \in Nat /\ k \notin nextId..MaxInstances
         /\ \A k \in tracked : k \in Ids
         /\ \A i \in DOMAIN segments : segments[i].id \in 1..(nextId - 1) /\ segments[i].id \in Ids
         /\ \A k \in IdsOf(segments) : k \in 1..(nextId - 1) /\ \E i \in DOMAIN segments : segments[i].id = k
<1>1. MaxInstances \in Nat /\ MaxEdits \in Nat \ {0}
  BY HotReloadAssumption
<1>2. nextId \in Nat \ {0} /\ nextId <= MaxInstances + 1
  BY <1>1 DEF HotReloadInv
<1>3. \A k \in 1..(nextId - 1) : k \in Ids /\ k \in Nat /\ k \notin nextId..MaxInstances
  BY <1>1, <1>2 DEF Ids
<1>4. \A i \in DOMAIN segments : segments[i].id \in 1..(nextId - 1)
  BY DEF HotReloadInv, SegmentsOk
<1>5. IdsOf(segments) = {segments[i].id : i \in DOMAIN segments}
  BY DEF IdsOf
<1>6. tracked \subseteq 1..(nextId - 1)
  BY DEF HotReloadInv
<1> QED BY <1>1, <1>2, <1>3, <1>4, <1>5, <1>6

\* Starting a text makes a segment of each temporal statement, in order.
OrderOf(ast) == Ordered(Places(ast, Temporal), Len(ast))

Begun(new, ast, n) ==
    /\ Len(new) = Len(OrderOf(ast)) /\ Len(new) \in Nat /\ DOMAIN new = 1..Len(new)
    /\ \A i \in 1..Len(new) :
         /\ IsSegment(new[i]) /\ new[i].id = n + i - 1
         /\ new[i].var = ast[OrderOf(ast)[i]].st.var /\ new[i].fn = ast[OrderOf(ast)[i]].st.fn
         /\ new[i].dt = ast[OrderOf(ast)[i]].st.dt /\ new[i].dt \in Nat

LEMMA StartedIs ==
  ASSUME NEW b \in Blocks, NEW v, NEW ast, ast = Parsed(b, v), NEW n \in Nat,
         NEW new, new = Numbered(Started(b, v), n)
  PROVE  Begun(new, ast, n)
<1> DEFINE K == Places(ast, Temporal)
           o == OrderOf(ast)
           N == Len(o)
           c == Collected(ast)
           s == Started(b, v)
<1>1. IsText(ast)
  BY ParsedText
<1>2. Len(ast) \in Nat /\ K \in SUBSET (1..Len(ast))
  BY <1>1 DEF IsText, Places
<1>3. Ranked(o, N, K) /\ DOMAIN o = 1..N
  <2> HIDE DEF K
  <2> QED BY <1>2, OrderedRanks DEF OrderOf, K
<1>4. c = [i \in 1..N |-> [var |-> ast[o[i]].st.var, fn |-> ast[o[i]].st.fn, dt |-> ast[o[i]].st.dt,
                           reactions |-> After(ast, K, o[i]), shared |-> <<>>]]
  <2> HIDE DEF o, N
  <2>1. c = [i \in DOMAIN o |-> [var |-> ast[o[i]].st.var, fn |-> ast[o[i]].st.fn, dt |-> ast[o[i]].st.dt,
                           reactions |-> After(ast, K, o[i]), shared |-> <<>>]]
    BY DEF Collected, o, OrderOf
  <2> QED BY <1>3, <2>1
<1>5. N \in Nat
  BY <1>3 DEF Ranked
<1>6. DOMAIN c = 1..N /\ s = Redistributed(c)
  BY <1>4 DEF Started
<1> HIDE DEF c, s, o, N
<1>7. DOMAIN s = 1..N /\ \E x, y : s = Rearranged(c, x, y)
  BY <1>5, <1>6, RedistributedForm
<1>8. ASSUME NEW i \in 1..N
      PROVE  /\ s[i].var = ast[o[i]].st.var /\ s[i].fn = ast[o[i]].st.fn
             /\ s[i].dt = ast[o[i]].st.dt
  <2>1. PICK x, y : s = Rearranged(c, x, y)
    BY <1>7
  <2>2. c[i] = [var |-> ast[o[i]].st.var, fn |-> ast[o[i]].st.fn, dt |-> ast[o[i]].st.dt,
                reactions |-> After(ast, K, o[i]), shared |-> <<>>]
    BY <1>4
  <2>3. s[i] = [c[i] EXCEPT !.reactions = x[i], !.shared = y[i]]
    BY <1>6, <2>1 DEF Rearranged
  <2> QED BY <2>2, <2>3
<1>9. new = [i \in 1..N |-> [id |-> n + i - 1, var |-> s[i].var, fn |-> s[i].fn, dt |-> s[i].dt,
                             reactions |-> s[i].reactions, shared |-> s[i].shared]]
  BY <1>7 DEF Numbered, s
<1>10. Len(new) = N /\ DOMAIN new = 1..N
  <2>1. new = [i \in 1..N |-> new[i]]
    BY <1>9
  <2> QED BY <1>5, <2>1, AsSequence
<1>11. ASSUME NEW i \in 1..N
       PROVE  /\ IsSegment(new[i]) /\ new[i].id = n + i - 1
              /\ new[i].var = ast[o[i]].st.var /\ new[i].fn = ast[o[i]].st.fn
              /\ new[i].dt = ast[o[i]].st.dt /\ new[i].dt \in Nat
  <2>1. /\ IsSegment(new[i]) /\ new[i].id = n + i - 1
        /\ new[i].var = s[i].var /\ new[i].fn = s[i].fn /\ new[i].dt = s[i].dt
    BY <1>9 DEF IsSegment
  <2>2. ast[o[i]].st.dt \in Nat
    <3>1. o[i] \in K
      BY <1>3 DEF Ranked
    <3> QED BY <1>1, <3>1 DEF IsText, Places
  <2> QED BY <1>8, <2>1, <2>2
<1> QED BY <1>5, <1>10, <1>11 DEF N, o, Begun

\* A start: the new instances have the next numbers.
LEMMA StartIs ==
  ASSUME HotReloadInv, StartRun
  PROVE  LET n == Len(segments') IN
         /\ n \in Nat /\ segments' = Numbered(Started(stored, version), nextId)
         /\ nextId' = nextId + n /\ nextId' <= MaxInstances + 1
         /\ IdsOf(segments') = nextId..(nextId + n - 1) /\ SegmentsOk(segments', nextId')
         /\ tracked' = tracked \cup nextId..(nextId + n - 1)
         /\ inst' = [k \in Ids |->
              IF k \in nextId..(nextId + n - 1)
              THEN FreshInstance(segments'[k - nextId + 1].fn, segments'[k - nextId + 1].dt, "start")
              ELSE inst[k]]
         /\ \A k \in nextId..(nextId + n - 1) :
              k - nextId + 1 \in DOMAIN segments' /\ segments'[k - nextId + 1].id = k
         /\ \A i \in DOMAIN segments' : segments'[i].id = nextId + i - 1
         /\ state' = "running" /\ state \in {"none", "stopped"} /\ UNCHANGED <<stored, version, calling>>
<1> DEFINE new == Numbered(Started(stored, version), nextId)
           n == Len(new)
<1>1. /\ nextId' = nextId + n /\ nextId' <= MaxInstances + 1 /\ segments' = new
      /\ inst' = [k \in Ids |-> IF k \in IdsOf(new)
                                THEN FreshInstance(new[k - nextId + 1].fn, new[k - nextId + 1].dt, "start")
                                ELSE inst[k]]
      /\ tracked' = tracked \cup IdsOf(new)
      /\ state' = "running" /\ state \in {"none", "stopped"} /\ UNCHANGED <<stored, version, calling>>
  BY DEF StartRun
<1>2. stored \in Blocks /\ nextId \in Nat \ {0}
  BY NumbersKnown DEF HotReloadInv
<1>3. /\ n \in Nat /\ DOMAIN new = 1..n
      /\ \A i \in 1..n : IsSegment(new[i]) /\ new[i].id = nextId + i - 1 /\ new[i].dt \in Nat
  <2>1. Begun(new, Parsed(stored, version), nextId)
    BY <1>2, StartedIs
  <2> QED BY <2>1 DEF Begun
<1> HIDE DEF new, n
<1>4. \A k \in nextId..(nextId + n - 1) : k - nextId + 1 \in 1..n /\ new[k - nextId + 1].id = k
  <2> SUFFICES ASSUME NEW k \in nextId..(nextId + n - 1)
               PROVE  k - nextId + 1 \in 1..n /\ new[k - nextId + 1].id = k
    OBVIOUS
  <2> DEFINE i == k - nextId + 1
  <2>1. i \in 1..n /\ nextId + i - 1 = k
    BY <1>2, <1>3
  <2> HIDE DEF i
  <2>2. new[i].id = k
    BY <1>3, <2>1
  <2> QED BY <2>1, <2>2 DEF i
<1>5. IdsOf(new) = nextId..(nextId + n - 1)
  <2>1. IdsOf(new) = {new[i].id : i \in 1..n}
    BY <1>3 DEF IdsOf
  <2>2. ASSUME NEW i \in 1..n PROVE new[i].id \in nextId..(nextId + n - 1)
    BY <1>2, <1>3
  <2> QED BY <1>4, <2>1, <2>2
<1>6. SegmentsOk(new, nextId + n)
  <2>1. ASSUME NEW i \in 1..n PROVE new[i].id \in 1..(nextId + n - 1)
    BY <1>2, <1>3
  <2>2. ASSUME NEW i \in 1..n, NEW j \in 1..n, new[i].id = new[j].id PROVE i = j
    <3>1. nextId + i - 1 = nextId + j - 1
      BY <1>3, <2>2
    <3> QED BY <1>2, <1>3, <3>1
  <2>3. Len(new) \in Nat /\ DOMAIN new = 1..Len(new)
    BY <1>3 DEF n
  <2>4. \A i \in DOMAIN new : /\ IsSegment(new[i]) /\ new[i].id \in 1..(nextId + n - 1)
                              /\ new[i].dt \in Nat
    BY <1>3, <2>1
  <2>5. \A i, j \in DOMAIN new : new[i].id = new[j].id => i = j
    BY <1>3, <2>2
  <2>6. nextId + n - 1 = (nextId + n) - 1
    BY <1>2, <1>3
  <2> QED BY <2>3, <2>4, <2>5, <2>6 DEF SegmentsOk
<1> QED BY <1>1, <1>3, <1>4, <1>5, <1>6 DEF n, new

\* A reload of a process that was started once.
NewIds(m) == nextId..(nextId + m - 1)
NewOrigin == IF state = "stopped" THEN "revived" ELSE "reload"

Reloaded(b, ast, m) ==
    /\ stored' = b /\ version' = version + 1 /\ version < MaxEdits /\ state \in ReloadStates
    /\ ast = Parsed(b, version + 1) /\ IsText(ast)
    /\ Result(ast, segments', m) /\ SegmentsOk(segments', nextId') /\ m \in Nat
    /\ nextId' = nextId + m /\ nextId' <= MaxInstances + 1 /\ nextId' \in Nat
    /\ IdsOf(segments') \ IdsOf(segments) = NewIds(m) /\ tracked' = tracked \cup NewIds(m)
    /\ inst' = [k \in Ids |-> inst'[k]]
    /\ \A k \in NewIds(m) : \E j \in DOMAIN segments' :
         segments'[j].id = k /\ inst'[k] = FreshInstance(segments'[j].fn, segments'[j].dt, NewOrigin)
    /\ \A i \in DOMAIN segments :
         inst'[segments[i].id] = IF Survives(ast, i) THEN Adjusted(ast, i) ELSE Killed(segments[i].id)
    /\ \A k \in Ids : k \notin NewIds(m) /\ k \notin IdsOf(segments) => inst'[k] = inst[k]
    /\ Remain(ast, segments')
    /\ UNCHANGED <<state, calling>>

LEMMA ReloadedIs ==
  ASSUME HotReloadInv, NEW b \in Blocks, ReloadText(b), state # "none"
  PROVE  \E m \in Nat : Reloaded(b, Parsed(b, version + 1), m)
<1> DEFINE ast == Parsed(b, version + 1)
           new == Applied(ast)
           fresh == IdsOf(new) \ IdsOf(segments)
<1>1. /\ version < MaxEdits /\ state \in ReloadStates /\ stored' = b /\ version' = version + 1
      /\ DiffAndApply(Parsed(b, version')) /\ UNCHANGED <<state, calling>>
  BY DEF ReloadText
<1>2. DiffAndApply(ast)
  BY <1>1
<1>3. /\ nextId' = nextId + Cardinality(fresh) /\ nextId' <= MaxInstances + 1
      /\ segments' = new
      /\ inst' = [k \in Ids |->
            IF k \in fresh
            THEN LET i == CHOOSE i \in DOMAIN new : new[i].id = k
                 IN FreshInstance(new[i].fn, new[i].dt, NewOrigin)
            ELSE IF k \in IdsOf(segments)
            THEN LET i == CHOOSE i \in DOMAIN segments : segments[i].id = k IN
                 IF Survives(ast, i) THEN Adjusted(ast, i) ELSE Killed(k)
            ELSE inst[k]]
      /\ tracked' = tracked \cup fresh
  <2> HIDE DEF ast
  <2> QED BY <1>2 DEF DiffAndApply, NewOrigin
<1>4. IsText(ast)
  BY ParsedText
<1> HIDE DEF ast
<1>5. SegmentsOk(segments, nextId) /\ nextId \in Nat \ {0}
  BY NumbersKnown DEF HotReloadInv
<1>6. PICK m \in Nat : Result(ast, new, m)
  BY <1>4, <1>5, AppliedIs
<1> HIDE DEF new
<1>7. /\ SegmentsOk(new, nextId + m) /\ fresh = NewIds(m) /\ Cardinality(fresh) = m
      /\ Remain(ast, new)
  BY <1>5, <1>6, ResultIs DEF NewIds
<1> HIDE DEF fresh
<1>8. nextId' = nextId + m /\ nextId' \in Nat
  BY <1>3, <1>5, <1>7
<1>9. \A k \in NewIds(m) : k \in Ids
  <2>1. MaxInstances \in Nat
    BY NumbersKnown
  <2> QED BY <1>3, <1>5, <1>8, <2>1 DEF NewIds, Ids
<1>10. ASSUME NEW k \in NewIds(m)
       PROVE  \E j \in DOMAIN new :
                new[j].id = k /\ inst'[k] = FreshInstance(new[j].fn, new[j].dt, NewOrigin)
  <2> DEFINE i == CHOOSE i \in DOMAIN new : new[i].id = k
  <2>1. \E j \in DOMAIN new : new[j].id = k
    BY <1>6 DEF Result, NewIds
  <2>2. i \in DOMAIN new /\ new[i].id = k
    BY <2>1
  <2>3. inst'[k] = FreshInstance(new[i].fn, new[i].dt, NewOrigin)
    BY <1>3, <1>7, <1>9
  <2> HIDE DEF i
  <2> QED BY <2>2, <2>3
<1>11. ASSUME NEW i \in DOMAIN segments
       PROVE  inst'[segments[i].id] = IF Survives(ast, i) THEN Adjusted(ast, i) ELSE Killed(segments[i].id)
  <2> DEFINE k == segments[i].id
             x == CHOOSE x \in DOMAIN segments : segments[x].id = k
  <2>1. k \in Ids /\ k \in 1..(nextId - 1) /\ k \in IdsOf(segments)
    BY NumbersKnown DEF IdsOf
  <2>2. k \notin fresh
    BY <1>5, <1>7, <2>1 DEF NewIds
  <2>3. x \in DOMAIN segments /\ segments[x].id = k
    OBVIOUS
  <2>4. x = i
    BY <1>5, <2>3 DEF SegmentsOk
  <2>5. inst'[k] = IF Survives(ast, x) THEN Adjusted(ast, x) ELSE Killed(k)
    BY <1>3, <2>1, <2>2
  <2> HIDE DEF x
  <2> QED BY <2>4, <2>5
<1>12. \A k \in Ids : k \notin NewIds(m) /\ k \notin IdsOf(segments) => inst'[k] = inst[k]
  BY <1>3, <1>7
<1>13. inst' = [k \in Ids |-> inst'[k]]
  BY <1>3
<1>14. Reloaded(b, ast, m)
  <2>1. segments' = new
    BY <1>3
  <2>2. /\ Result(ast, segments', m) /\ SegmentsOk(segments', nextId') /\ m \in Nat
        /\ IdsOf(segments') \ IdsOf(segments) = NewIds(m) /\ tracked' = tracked \cup NewIds(m)
    BY <1>3, <1>6, <1>7, <1>8, <2>1 DEF fresh
  <2>3. Remain(ast, segments')
    BY <1>7, <2>1
  <2>4. \A k \in NewIds(m) : \E j \in DOMAIN segments' :
          segments'[j].id = k /\ inst'[k] = FreshInstance(segments'[j].fn, segments'[j].dt, NewOrigin)
    BY <1>10, <2>1
  <2>5. /\ stored' = b /\ version' = version + 1 /\ version < MaxEdits /\ state \in ReloadStates
        /\ ast = Parsed(b, version + 1) /\ IsText(ast)
        /\ nextId' = nextId + m /\ nextId' <= MaxInstances + 1 /\ nextId' \in Nat
        /\ inst' = [k \in Ids |-> inst'[k]]
        /\ UNCHANGED <<state, calling>>
    BY <1>1, <1>3, <1>4, <1>8, <1>13 DEF ast
  <2> QED BY <1>11, <1>12, <2>2, <2>3, <2>4, <2>5 DEF Reloaded
<1> QED BY <1>6, <1>14 DEF ast

\* What may become of an instance.
LEMMA InstanceKinds ==
  /\ NoInstance \in Instance
  /\ \A fn : \A dt \in Nat : \A o \in {"none", "start", "reload", "revived"} : FreshInstance(fn, dt, o) \in Instance
  /\ \A r \in Instance : \A d \in Nat : \A e \in Nat : [r EXCEPT !.dt = d, !.expr = e] \in Instance
  /\ \A r \in Instance : \A a \in BOOLEAN : \A s, g \in {"none", "live", "paused", "gone"} :
       [r EXCEPT !.active = a, !.sub = s, !.arg = g] \in Instance
  /\ \A s \in {"none", "live", "paused", "gone"} : Unsubscribed(s) \in {"none", "live", "paused", "gone"}
<1>1. NoInstance \in Instance
  BY DEF NoInstance, Instance
<1>2. \A fn : \A dt \in Nat : \A o \in {"none", "start", "reload", "revived"} : FreshInstance(fn, dt, o) \in Instance
  BY DEF FreshInstance, Instance
<1>3. \A r \in Instance : \A d \in Nat : \A e \in Nat : [r EXCEPT !.dt = d, !.expr = e] \in Instance
  BY DEF Instance
<1>4. \A r \in Instance : \A a \in BOOLEAN : \A s, g \in {"none", "live", "paused", "gone"} :
       [r EXCEPT !.active = a, !.sub = s, !.arg = g] \in Instance
  BY DEF Instance
<1>5. \A s \in {"none", "live", "paused", "gone"} : Unsubscribed(s) \in {"none", "live", "paused", "gone"}
  BY DEF Unsubscribed
<1> QED BY <1>1, <1>2, <1>3, <1>4, <1>5

\* The invariant, when no instance is made.
LEMMA NoneMade ==
  ASSUME HotReloadInv, inst' \in [Ids -> Instance], \A k \in nextId..MaxInstances : inst'[k] = NoInstance,
         UNCHANGED <<stored, version, segments, nextId>>, tracked' \subseteq tracked,
         state' \in {"none", "running", "paused", "stopped"}, calling' \in 0..(nextId - 1)
  PROVE  HotReloadInv'
<1>1. stored' = stored /\ version' = version /\ segments' = segments /\ nextId' = nextId
  OBVIOUS
<1>2. SegmentsOk(segments', nextId')
  BY <1>1 DEF HotReloadInv
<1>3. tracked' \subseteq 1..(nextId' - 1)
  BY <1>1 DEF HotReloadInv
<1> QED BY <1>1, <1>2, <1>3 DEF HotReloadInv

LEMMA HotReloadInitInv == HotReloadInit => HotReloadInv
<1> SUFFICES ASSUME HotReloadInit PROVE HotReloadInv
  OBVIOUS
<1>1. /\ stored \in Blocks /\ version = 1 /\ state = "none" /\ segments = <<>>
      /\ inst = [k \in Ids |-> NoInstance] /\ nextId = 1 /\ tracked = {} /\ calling = 0
  BY DEF HotReloadInit
<1>2. MaxInstances \in Nat /\ MaxEdits \in Nat \ {0}
  BY HotReloadAssumption
<1>3. version \in 1..MaxEdits /\ nextId \in 1..(MaxInstances + 1) /\ calling \in 0..(nextId - 1)
  BY <1>1, <1>2
<1>4. inst \in [Ids -> Instance]
  BY <1>1, InstanceKinds
<1>5. \A k \in nextId..MaxInstances : inst[k] = NoInstance
  BY <1>1 DEF Ids
<1>6. SegmentsOk(segments, nextId)
  <2>1. Len(segments) = 0 /\ DOMAIN segments = {}
    BY <1>1
  <2>2. 1..0 = {}
    OBVIOUS
  <2> QED BY <2>1, <2>2 DEF SegmentsOk
<1> QED BY <1>1, <1>3, <1>4, <1>5, <1>6 DEF HotReloadInv

LEMMA Wider ==
  \A a, b \in Nat : a <= b =>
    /\ \A x \in 0..(a - 1) : x \in 0..(b - 1)
    /\ \A x \in 1..(a - 1) : x \in 1..(b - 1)
<1> SUFFICES ASSUME NEW a \in Nat, NEW b \in Nat, a <= b, NEW x, x \in 0..(a - 1)
             PROVE  x \in 0..(b - 1)
  OBVIOUS
<1> QED OBVIOUS

LEMMA StartRunInv == ASSUME HotReloadInv, StartRun PROVE HotReloadInv'
<1> DEFINE n == Len(segments')
           NewOne(k) == FreshInstance(segments'[k - nextId + 1].fn, segments'[k - nextId + 1].dt, "start")
<1>1. /\ n \in Nat /\ nextId' = nextId + n /\ nextId' <= MaxInstances + 1
      /\ SegmentsOk(segments', nextId') /\ tracked' = tracked \cup nextId..(nextId + n - 1)
      /\ inst' = [k \in Ids |-> IF k \in nextId..(nextId + n - 1) THEN NewOne(k) ELSE inst[k]]
      /\ \A k \in nextId..(nextId + n - 1) : k - nextId + 1 \in DOMAIN segments'
      /\ state' = "running" /\ UNCHANGED <<stored, version, calling>>
  BY StartIs
<1> HIDE DEF n
<1>2. MaxInstances \in Nat /\ nextId \in Nat \ {0}
  BY NumbersKnown
<1>3. /\ nextId' \in Nat /\ nextId' \in 1..(MaxInstances + 1) /\ nextId <= nextId'
  BY <1>1, <1>2
<1>4. inst' \in [Ids -> Instance]
  <2>1. ASSUME NEW k \in nextId..(nextId + n - 1) PROVE NewOne(k) \in Instance
    <3>1. segments'[k - nextId + 1].dt \in Nat
      BY <1>1 DEF SegmentsOk
    <3> QED BY <3>1, InstanceKinds
  <2> HIDE DEF NewOne
  <2>2. inst \in [Ids -> Instance]
    BY DEF HotReloadInv
  <2> QED BY <1>1, <2>1, <2>2
<1>5. \A k \in nextId'..MaxInstances : inst'[k] = NoInstance
  <2> SUFFICES ASSUME NEW k \in nextId'..MaxInstances PROVE inst'[k] = NoInstance
    OBVIOUS
  <2>1. k \in Ids /\ k \notin nextId..(nextId + n - 1) /\ k \in nextId..MaxInstances
    BY <1>1, <1>2, <1>3 DEF Ids
  <2> QED BY <1>1, <2>1 DEF HotReloadInv
<1>6. tracked' \subseteq 1..(nextId' - 1)
  <2>1. \A k \in tracked : k \in 1..(nextId' - 1)
    <3>1. \A k \in tracked : k \in 1..(nextId - 1)
      BY DEF HotReloadInv
    <3> QED BY <1>2, <1>3, <3>1, Wider
  <2>2. \A k \in nextId..(nextId + n - 1) : k \in 1..(nextId' - 1)
    BY <1>1, <1>2, <1>3
  <2> QED BY <1>1, <2>1, <2>2
<1>7. calling' \in 0..(nextId' - 1)
  <2>1. calling \in 0..(nextId - 1) /\ calling' = calling
    BY <1>1 DEF HotReloadInv
  <2> QED BY <1>2, <1>3, <2>1, Wider
<1>8. stored' \in Blocks /\ version' \in 1..MaxEdits
  BY <1>1 DEF HotReloadInv
<1> QED BY <1>1, <1>3, <1>4, <1>5, <1>6, <1>7, <1>8 DEF HotReloadInv

LEMMA StopRunInv == ASSUME HotReloadInv, StopRun PROVE HotReloadInv'
<1> DEFINE Down(k) == [inst[k] EXCEPT !.active = FALSE, !.sub = Unsubscribed(@),
                          !.arg = IF inst[k].origin = "start" THEN Unsubscribed(@) ELSE @]
<1>1. /\ inst' = [k \in Ids |-> IF k \notin tracked THEN inst[k] ELSE Down(k)]
      /\ tracked' = {} /\ state' = "stopped" /\ UNCHANGED <<stored, version, segments, nextId, calling>>
  BY DEF StopRun
<1>2. ASSUME NEW k \in Ids PROVE Down(k) \in Instance
  <2>1. inst[k] \in Instance
    BY DEF HotReloadInv
  <2> QED BY <2>1 DEF Instance, Unsubscribed
<1> HIDE DEF Down
<1>3. inst' \in [Ids -> Instance]
  BY <1>1, <1>2 DEF HotReloadInv
<1>4. \A k \in nextId..MaxInstances : inst'[k] = NoInstance
  <2> SUFFICES ASSUME NEW k \in nextId..MaxInstances PROVE inst'[k] = NoInstance
    OBVIOUS
  <2>1. k \in Ids /\ k \notin 1..(nextId - 1)
    BY NumbersKnown DEF Ids
  <2> QED BY <1>1, <2>1 DEF HotReloadInv
<1>5. calling' \in 0..(nextId - 1)
  BY <1>1 DEF HotReloadInv
<1> QED BY <1>1, <1>3, <1>4, <1>5, NoneMade

\* A pause and a resume change the tags of what has one.
RetaggedOne(r, from, to) ==
    [r EXCEPT !.sub = IF @ = from THEN to ELSE @,
              !.arg = IF @ = from /\ r.origin = "start" THEN to ELSE @]

LEMMA RetaggedIs ==
  ASSUME HotReloadInv, NEW from \in {"live", "paused"}, NEW to \in {"live", "paused"},
         inst' = Retagged(from, to)
  PROVE  /\ inst' \in [Ids -> Instance]
         /\ \A k \in nextId..MaxInstances : inst'[k] = NoInstance
         /\ \A k \in Ids : /\ inst'[k].active = inst[k].active /\ inst'[k].dt = inst[k].dt
                           /\ inst'[k].expr = inst[k].expr /\ inst'[k].origin = inst[k].origin
                           /\ inst'[k].sub \in {"live", "paused"} <=> inst[k].sub \in {"live", "paused"}
                           /\ inst'[k].arg \in {"live", "paused"} <=> inst[k].arg \in {"live", "paused"}
<1>1. \A k \in Ids : inst'[k] = RetaggedOne(inst[k], from, to)
  BY DEF Retagged, RetaggedOne
<1>2. inst' = [k \in Ids |-> inst'[k]]
  BY DEF Retagged
<1>3. ASSUME NEW r \in Instance, NEW t, t = RetaggedOne(r, from, to)
      PROVE  /\ t \in Instance /\ t.active = r.active /\ t.dt = r.dt /\ t.expr = r.expr /\ t.origin = r.origin
             /\ t.sub \in {"live", "paused"} <=> r.sub \in {"live", "paused"}
             /\ t.arg \in {"live", "paused"} <=> r.arg \in {"live", "paused"}
  BY <1>3 DEF RetaggedOne, Instance
<1>4. RetaggedOne(NoInstance, from, to) = NoInstance
  BY DEF RetaggedOne, NoInstance
<1>5. \A k \in Ids : inst[k] \in Instance
  BY DEF HotReloadInv
<1>6. \A k \in nextId..MaxInstances : k \in Ids
  BY NumbersKnown DEF Ids
<1>7. \A k \in nextId..MaxInstances : inst'[k] = NoInstance
  BY <1>1, <1>4, <1>6 DEF HotReloadInv
<1>8. inst' \in [Ids -> Instance]
  BY <1>1, <1>2, <1>3, <1>5
<1> QED BY <1>1, <1>3, <1>5, <1>7, <1>8

LEMMA TagsInv == ASSUME HotReloadInv, Pause \/ Resume PROVE HotReloadInv'
<1>1. /\ \E f, t \in {"live", "paused"} : inst' = Retagged(f, t)
      /\ state' \in {"running", "paused"}
      /\ UNCHANGED <<stored, version, segments, nextId, tracked, calling>>
  BY DEF Pause, Resume
<1>2. inst' \in [Ids -> Instance] /\ \A k \in nextId..MaxInstances : inst'[k] = NoInstance
  BY <1>1, RetaggedIs
<1>3. calling' \in 0..(nextId - 1)
  BY <1>1 DEF HotReloadInv
<1> QED BY <1>1, <1>2, <1>3, NoneMade

\* What a reload makes of the instance of a segment.
LEMMA AdjustedIs ==
  ASSUME HotReloadInv, NEW ast, IsText(ast), NEW i \in DOMAIN segments, Survives(ast, i),
         NEW a, a = Adjusted(ast, i), NEW st, st = Match(ast, i), NEW r, r = inst[segments[i].id]
  PROVE  /\ Matched(ast, i, st) /\ r \in Instance /\ a \in Instance
         /\ a.sub = r.sub /\ a.arg = r.arg /\ a.active = r.active /\ a.origin = r.origin
         /\ IF NewDt(i, st) = segments[i].dt THEN a = r
            ELSE /\ a.dt = NewDt(i, st)
                 /\ a.expr = IF st.kind = "drive" THEN r.expr ELSE NewDt(i, st)
<1>1. SegmentsOk(segments, nextId) /\ segments[i].id \in Ids
  BY NumbersKnown DEF HotReloadInv
<1>2. CounterpartOf(ast, i) # {}
  BY DEF Survives
<1>3. Matched(ast, i, st)
  BY <1>1, <1>2, CounterpartIs DEF SegmentsOk
<1>4. r \in Instance
  BY <1>1 DEF HotReloadInv
<1>5. a = IF NewDt(i, st) = segments[i].dt THEN r
          ELSE [r EXCEPT !.dt = st.dt, !.expr = IF st.kind = "drive" THEN r.expr ELSE st.dt]
  <2> DEFINE s == CHOOSE s \in CounterpartOf(ast, i) : TRUE
  <2>1. s = st
    BY DEF Match
  <2>2. a = IF NewDt(i, s) = segments[i].dt THEN r
            ELSE [r EXCEPT !.dt = s.dt, !.expr = IF s.kind = "drive" THEN @ ELSE s.dt]
    BY DEF Adjusted
  <2> HIDE DEF s
  <2> QED BY <2>1, <2>2
<1>6. CASE NewDt(i, st) = segments[i].dt
  BY <1>3, <1>4, <1>5, <1>6
<1>7. CASE NewDt(i, st) # segments[i].dt
  <2>1. st.stated /\ NewDt(i, st) = st.dt
    BY <1>7 DEF NewDt
  <2>2. st.dt \in Nat
    BY <1>3, <2>1 DEF Matched
  <2>3. a = [r EXCEPT !.dt = st.dt, !.expr = IF st.kind = "drive" THEN r.expr ELSE st.dt]
    BY <1>5, <1>7
  <2> DEFINE e == IF st.kind = "drive" THEN r.expr ELSE st.dt
  <2>4. e \in Nat
    BY <1>4, <2>2 DEF Instance
  <2> HIDE DEF e
  <2>5. a = [r EXCEPT !.dt = st.dt, !.expr = e]
    BY <2>3 DEF e
  <2>6. a \in Instance /\ a.sub = r.sub /\ a.arg = r.arg /\ a.active = r.active /\ a.origin = r.origin
        /\ a.dt = st.dt /\ a.expr = e
    BY <1>4, <2>2, <2>4, <2>5 DEF Instance
  <2> QED BY <1>3, <1>4, <1>7, <2>1, <2>6 DEF e
<1> QED BY <1>6, <1>7

LEMMA KilledIs ==
  ASSUME HotReloadInv, NEW k \in Ids, NEW a, a = Killed(k)
  PROVE  /\ a \in Instance /\ a.active = FALSE /\ a.origin = inst[k].origin
         /\ a.sub \notin {"live", "paused"} /\ a.arg \notin {"live", "paused"}
<1> DEFINE r == inst[k]
<1>1. r \in Instance
  BY DEF HotReloadInv
<1>2. a = [r EXCEPT !.active = FALSE, !.sub = Unsubscribed(r.sub), !.arg = Unsubscribed(r.arg)]
  BY DEF Killed
<1> HIDE DEF r
<1>3. a \in Instance /\ a.active = FALSE /\ a.origin = r.origin
      /\ a.sub = Unsubscribed(r.sub) /\ a.arg = Unsubscribed(r.arg)
  <2> DEFINE s == Unsubscribed(r.sub)
             g == Unsubscribed(r.arg)
  <2>1. s \in {"none", "live", "paused", "gone"} /\ g \in {"none", "live", "paused", "gone"}
    BY <1>1 DEF Instance, Unsubscribed
  <2>2. a = [r EXCEPT !.active = FALSE, !.sub = s, !.arg = g]
    BY <1>2
  <2> HIDE DEF s, g
  <2>3. a \in Instance /\ a.active = FALSE /\ a.origin = r.origin /\ a.sub = s /\ a.arg = g
    BY <1>1, <2>1, <2>2 DEF Instance
  <2> QED BY <2>3 DEF s, g
<1>4. /\ Unsubscribed(r.sub) \notin {"live", "paused"}
      /\ Unsubscribed(r.arg) \notin {"live", "paused"}
  BY DEF Unsubscribed
<1> QED BY <1>3, <1>4 DEF r

LEMMA ReloadTextInv == ASSUME HotReloadInv, NEW b \in Blocks, ReloadText(b) PROVE HotReloadInv'
<1>1. /\ MaxInstances \in Nat /\ MaxEdits \in Nat \ {0} /\ nextId \in Nat \ {0}
      /\ SegmentsOk(segments, nextId) /\ version \in 1..MaxEdits
  BY NumbersKnown DEF HotReloadInv
<1>2. stored' = b /\ version' = version + 1 /\ version < MaxEdits /\ UNCHANGED <<state, calling>>
  BY DEF ReloadText
<1>3. stored' \in Blocks /\ version' \in 1..MaxEdits
  BY <1>1, <1>2
<1>4. CASE state = "none"
  <2>1. UNCHANGED <<segments, inst, nextId, tracked>>
    BY <1>4 DEF ReloadText
  <2>2. SegmentsOk(segments', nextId') /\ calling' \in 0..(nextId' - 1)
    BY <1>1, <1>2, <2>1 DEF HotReloadInv
  <2> QED BY <1>2, <1>3, <2>1, <2>2 DEF HotReloadInv
<1>5. CASE state # "none"
  <2> DEFINE ast == Parsed(b, version + 1)
  <2>1. PICK m \in Nat : Reloaded(b, ast, m)
    BY <1>5, ReloadedIs
  <2>2. IsText(ast)
    BY ParsedText
  <2> HIDE DEF ast
  <2>3. /\ nextId' = nextId + m /\ nextId' <= MaxInstances + 1 /\ nextId' \in Nat
        /\ SegmentsOk(segments', nextId') /\ tracked' = tracked \cup NewIds(m)
        /\ inst' = [k \in Ids |-> inst'[k]]
    BY <2>1 DEF Reloaded
  <2>4. nextId' \in 1..(MaxInstances + 1) /\ nextId <= nextId'
    BY <1>1, <2>3
  <2>5. ASSUME NEW k \in Ids PROVE inst'[k] \in Instance
    <3>1. CASE k \in NewIds(m)
      <4>1. PICK j \in DOMAIN segments' :
              inst'[k] = FreshInstance(segments'[j].fn, segments'[j].dt, NewOrigin)
        BY <2>1, <3>1 DEF Reloaded
      <4>2. segments'[j].dt \in Nat
        BY <2>3 DEF SegmentsOk
      <4>3. NewOrigin \in {"reload", "revived"}
        BY DEF NewOrigin
      <4> HIDE DEF NewOrigin
      <4> QED BY <4>1, <4>2, <4>3 DEF FreshInstance, Instance
    <3>2. CASE k \in IdsOf(segments)
      <4>1. PICK i \in DOMAIN segments : segments[i].id = k
        BY <3>2, NumbersKnown
      <4>2. inst'[k] = IF Survives(ast, i) THEN Adjusted(ast, i) ELSE Killed(k)
        BY <2>1, <4>1 DEF Reloaded
      <4>3. Survives(ast, i) => Adjusted(ast, i) \in Instance
        BY <2>2, AdjustedIs
      <4>4. Killed(k) \in Instance
        BY KilledIs
      <4> QED BY <4>2, <4>3, <4>4
    <3>3. CASE k \notin NewIds(m) /\ k \notin IdsOf(segments)
      <4>1. inst'[k] = inst[k]
        BY <2>1, <3>3 DEF Reloaded
      <4> QED BY <4>1 DEF HotReloadInv
    <3> QED BY <3>1, <3>2, <3>3
  <2>6. inst' \in [Ids -> Instance]
    BY <2>3, <2>5
  <2>7. ASSUME NEW k \in nextId'..MaxInstances PROVE inst'[k] = NoInstance
    <3>1. k \in nextId..MaxInstances /\ k \in Ids /\ k \notin NewIds(m)
      BY <1>1, <2>3, <2>4 DEF NewIds, Ids
    <3>2. k \notin IdsOf(segments)
      BY <3>1, NumbersKnown
    <3>3. inst'[k] = inst[k]
      BY <2>1, <3>1, <3>2 DEF Reloaded
    <3> QED BY <3>1, <3>3 DEF HotReloadInv
  <2>8. tracked' \subseteq 1..(nextId' - 1)
    <3>1. \A k \in tracked : k \in 1..(nextId - 1)
      BY DEF HotReloadInv
    <3>2. \A k \in tracked : k \in 1..(nextId' - 1)
      BY <1>1, <2>3, <2>4, <3>1, Wider
    <3>3. \A k \in NewIds(m) : k \in 1..(nextId' - 1)
      BY <1>1, <2>3 DEF NewIds
    <3> QED BY <2>3, <3>2, <3>3
  <2>9. calling' \in 0..(nextId' - 1)
    <3>1. calling \in 0..(nextId - 1) /\ calling' = calling
      BY <1>2 DEF HotReloadInv
    <3> QED BY <1>1, <2>3, <2>4, <3>1, Wider
  <2>10. state' \in {"none", "running", "paused", "stopped"}
    BY <1>2 DEF HotReloadInv
  <2> QED BY <1>3, <2>3, <2>4, <2>6, <2>7, <2>8, <2>9, <2>10 DEF HotReloadInv
<1> QED BY <1>4, <1>5

\* The clock thread changes the instance it calls.
LEMMA ReturnedInv ==
  ASSUME HotReloadInv, calling # 0, NEW r \in Instance, Returned(r)
  PROVE  /\ HotReloadInv' /\ calling \in Ids /\ inst' = [inst EXCEPT ![calling] = r]
         /\ UNCHANGED <<stored, version, state, segments, nextId, tracked>>
<1>1. /\ calling' = 0 /\ inst' = [inst EXCEPT ![calling] = r]
      /\ UNCHANGED <<stored, version, state, segments, nextId, tracked>>
  BY DEF Returned
<1>2. nextId \in Nat \ {0} /\ calling \in 0..(nextId - 1)
  BY NumbersKnown DEF HotReloadInv
<1>3. calling \in 1..(nextId - 1)
  BY <1>2
<1>4. calling \in Ids /\ calling \notin nextId..MaxInstances
  BY <1>3, NumbersKnown
<1>5. inst' \in [Ids -> Instance] /\ \A k \in nextId..MaxInstances : inst'[k] = NoInstance
  <2>1. MaxInstances \in Nat /\ \A k \in nextId..MaxInstances : k \in Ids
    BY <1>2, NumbersKnown DEF Ids
  <2> QED BY <1>1, <1>4, <2>1 DEF HotReloadInv
<1>6. calling' \in 0..(nextId - 1) /\ state' \in {"none", "running", "paused", "stopped"}
  BY <1>1, <1>2 DEF HotReloadInv
<1>7. HotReloadInv'
  BY <1>1, <1>5, <1>6, NoneMade
<1> QED BY <1>1, <1>4, <1>7

\* The three ways a callback ends.
LEMMA ReturnedIs ==
  ASSUME HotReloadInv, Expire \/ InactiveTick \/ \E b \in BOOLEAN : SegmentTick(b)
  PROVE  \E r \in Instance :
           /\ calling # 0 /\ Returned(r) /\ r.arg = inst[calling].arg /\ r.origin = inst[calling].origin
           /\ r.sub = inst[calling].sub \/ (r.sub = "gone" /\ r.active = FALSE)
           /\ r.active = FALSE \/ r.active = inst[calling].active
           /\ r.expr = inst[calling].expr
           /\ r.dt = inst[calling].dt \/ r.dt = inst[calling].expr
<1> DEFINE c == inst[calling]
<1>1. calling # 0
  BY DEF Expire, InactiveTick, SegmentTick
<1>2. c \in Instance
  <2>1. nextId \in Nat \ {0} /\ calling \in 0..(nextId - 1)
    BY NumbersKnown DEF HotReloadInv
  <2>2. calling \in 1..(nextId - 1)
    BY <1>1, <2>1
  <2>3. calling \in Ids
    BY <2>2, NumbersKnown
  <2> QED BY <2>3 DEF HotReloadInv
<1> HIDE DEF c
<1>3. CASE Expire
  <2> DEFINE r == [c EXCEPT !.active = FALSE, !.sub = "gone"]
  <2>1. Returned(r)
    BY <1>3 DEF Expire, c
  <2>2. r \in Instance /\ r.arg = c.arg /\ r.origin = c.origin /\ r.sub = "gone" /\ r.active = FALSE
        /\ r.expr = c.expr /\ r.dt = c.dt
    BY <1>2 DEF Instance
  <2> HIDE DEF r
  <2> QED BY <1>1, <2>1, <2>2 DEF c
<1>4. CASE InactiveTick
  <2> DEFINE r == [c EXCEPT !.sub = "gone"]
  <2>1. Returned(r) /\ ~c.active
    BY <1>4 DEF InactiveTick, c
  <2>2. r \in Instance /\ r.arg = c.arg /\ r.origin = c.origin /\ r.sub = "gone" /\ r.active = FALSE
        /\ r.expr = c.expr /\ r.dt = c.dt
    BY <1>2, <2>1 DEF Instance
  <2> HIDE DEF r
  <2> QED BY <1>1, <2>1, <2>2 DEF c
<1>5. CASE \E b \in BOOLEAN : SegmentTick(b)
  <2>1. PICK b \in BOOLEAN : SegmentTick(b)
    BY <1>5
  <2> DEFINE s == IF b /\ c.origin = "start" THEN "gone" ELSE c.sub
             r == [c EXCEPT !.dt = c.expr, !.active = ~b, !.sub = s]
  <2>2. Returned(r) /\ c.active = TRUE
    <3>1. Returned([c EXCEPT !.dt = c.expr, !.active = ~b,
                             !.sub = IF b /\ c.origin = "start" THEN "gone" ELSE @]) /\ c.active
      BY <2>1 DEF SegmentTick, c
    <3>2. c.active = TRUE
      BY <1>2, <3>1 DEF Instance
    <3> QED BY <3>1, <3>2
  <2>3. s \in {"none", "live", "paused", "gone"}
    BY <1>2 DEF Instance
  <2>4. (s = "gone" /\ b = TRUE) \/ s = c.sub
    OBVIOUS
  <2> HIDE DEF s
  <2>5. r \in Instance /\ r.arg = c.arg /\ r.origin = c.origin /\ r.sub = s /\ r.active = ~b
        /\ r.expr = c.expr /\ r.dt = c.expr
    BY <1>2, <2>3 DEF Instance
  <2>6. r.active = FALSE \/ r.active = c.active
    BY <2>2, <2>5
  <2>7. s = "gone" /\ b = TRUE => r.active = FALSE
    BY <2>5
  <2> HIDE DEF r
  <2> QED BY <1>1, <2>2, <2>4, <2>5, <2>6, <2>7 DEF c
<1> QED BY <1>3, <1>4, <1>5

LEMMA BeginInv == ASSUME HotReloadInv, NEW k \in Ids, Begin(k) PROVE HotReloadInv'
<1>1. /\ calling' = k /\ inst[k].sub = "live"
      /\ UNCHANGED <<stored, version, state, segments, inst, nextId, tracked>>
  BY DEF Begin
<1>2. calling' \in 0..(nextId - 1)
  <2>1. nextId \in Nat \ {0} /\ MaxInstances \in Nat
    BY NumbersKnown
  <2>2. k \notin nextId..MaxInstances
    BY <1>1 DEF HotReloadInv, NoInstance
  <2>3. k \in 1..MaxInstances
    BY DEF Ids
  <2> QED BY <1>1, <2>1, <2>2, <2>3
<1> QED BY <1>1, <1>2, NoneMade DEF HotReloadInv

LEMMA HotReloadNextInv ==
  ASSUME HotReloadInv, [HotReloadNext]_reloadVars
  PROVE  HotReloadInv'
<1>1. CASE StartRun
  BY <1>1, StartRunInv
<1>2. CASE StopRun
  BY <1>2, StopRunInv
<1>3. CASE Pause \/ Resume
  BY <1>3, TagsInv
<1>4. CASE \E b \in Blocks : ReloadText(b)
  BY <1>4, ReloadTextInv
<1>5. CASE \E k \in Ids : Begin(k)
  BY <1>5, BeginInv
<1>6. CASE Expire \/ InactiveTick \/ \E b \in BOOLEAN : SegmentTick(b)
  BY <1>6, ReturnedIs, ReturnedInv
<1>7. CASE UNCHANGED reloadVars
  <2>1. UNCHANGED <<stored, version, state, segments, inst, nextId, tracked, calling>>
    BY <1>7 DEF reloadVars
  <2> QED BY <2>1, NoneMade DEF HotReloadInv
<1> QED BY <1>1, <1>2, <1>3, <1>4, <1>5, <1>6, <1>7 DEF HotReloadNext

\* A process that is edited has instances of their types, each with one number
\* that is given out once; no two segments have one, and what waits or is tracked
\* has been made.
THEOREM HotReloadInvariance == HotReloadSpec => []HotReloadInv
<1>1. HotReloadInit => HotReloadInv
  BY HotReloadInitInv
<1>2. HotReloadInv /\ [HotReloadNext]_reloadVars => HotReloadInv'
  BY HotReloadNextInv
<1> QED BY <1>1, <1>2, PTL DEF HotReloadSpec

-----------------------------------------------------------------------------
(***************************************************************************)
(* HotReload: what a reload leaves alone, and what it leaves behind         *)
(***************************************************************************)

\* Only a reload changes the version.
LEMMA OnlyReloads ==
  ASSUME [HotReloadNext]_reloadVars, version' # version
  PROVE  \E b \in Blocks : ReloadText(b)
<1>1. CASE StartRun \/ StopRun \/ Pause \/ Resume
  BY <1>1 DEF StartRun, StopRun, Pause, Resume
<1>2. CASE Expire \/ InactiveTick \/ (\E b \in BOOLEAN : SegmentTick(b)) \/ \E k \in Ids : Begin(k)
  BY <1>2 DEF Expire, InactiveTick, SegmentTick, Returned, Begin
<1>3. CASE UNCHANGED reloadVars
  BY <1>3 DEF reloadVars
<1> QED BY <1>1, <1>2, <1>3 DEF HotReloadNext

LEMMA UntouchedStep ==
  ASSUME HotReloadInv, [HotReloadNext]_reloadVars, version' # version, state # "none",
         NEW i \in DOMAIN segments, NEW k, k = segments[i].id,
         \E st \in CounterpartOf(Parsed(stored', version'), i) : st.fn = segments[i].fn
  PROVE  /\ k \in IdsOf(segments')
         /\ inst'[k].sub = inst[k].sub /\ inst'[k].arg = inst[k].arg
         /\ inst'[k].active = inst[k].active
<1>1. PICK b \in Blocks : ReloadText(b)
  BY OnlyReloads
<1>2. PICK m \in Nat : Reloaded(b, Parsed(b, version + 1), m)
  BY <1>1, ReloadedIs
<1> DEFINE ast == Parsed(b, version + 1)
<1>3. Parsed(stored', version') = ast /\ IsText(ast)
  BY <1>2, ParsedText DEF Reloaded
<1>4. Reloaded(b, ast, m)
  BY <1>2
<1> HIDE DEF ast
<1>5. Survives(ast, i)
  BY <1>3 DEF Survives, Keeps
<1>6. PICK j \in 1..Len(Stay(ast)) : segments'[j].id = segments[i].id
  BY <1>4, <1>5 DEF Reloaded, Remain
<1>7. 1..Len(Stay(ast)) \subseteq DOMAIN segments'
  BY <1>4 DEF Reloaded, Result
<1>8. k \in IdsOf(segments')
  BY <1>6, <1>7 DEF IdsOf
<1>9. inst'[k] = Adjusted(ast, i)
  BY <1>4, <1>5 DEF Reloaded
<1>10. /\ Adjusted(ast, i).sub = inst[k].sub /\ Adjusted(ast, i).arg = inst[k].arg
       /\ Adjusted(ast, i).active = inst[k].active
  BY <1>3, <1>5, AdjustedIs
<1> QED BY <1>8, <1>9, <1>10

\* Whatever the texts, a reload leaves alone the instances whose binding, or
\* driver, has the same function in the new text: it neither stops nor starts
\* them, and the process still has them.
THEOREM SurvivorsAlwaysUntouched == HotReloadSpec => SurvivorsUntouched
<1>1. HotReloadInv /\ [HotReloadNext]_reloadVars =>
      (version' # version /\ state # "none" =>
         \A i \in DOMAIN segments :
            (\E st \in CounterpartOf(Parsed(stored', version'), i) : st.fn = segments[i].fn) =>
                LET k == segments[i].id IN
                /\ k \in IdsOf(segments')
                /\ inst'[k].sub = inst[k].sub /\ inst'[k].arg = inst[k].arg
                /\ inst'[k].active = inst[k].active)
  BY UntouchedStep
<1> QED BY <1>1, HotReloadInvariance, PTL DEF HotReloadSpec, SurvivorsUntouched

\* A number per segment.
LEMMA OneEach ==
  ASSUME NEW n, SegmentsOk(segments, n)
  PROVE  Cardinality(IdsOf(segments)) = Len(segments)
<1> DEFINE f == [i \in DOMAIN segments |-> segments[i].id]
           N == Len(segments)
<1>1. N \in Nat /\ DOMAIN segments = 1..N
      /\ \A i, j \in DOMAIN segments : segments[i].id = segments[j].id => i = j
  BY DEF SegmentsOk
<1>2. IsFiniteSet(1..N) /\ Cardinality(1..N) = N
  BY <1>1, FS_Interval
<1>3. f \in [1..N -> IdsOf(segments)] /\ DOMAIN f = 1..N
  BY <1>1 DEF IdsOf
<1>4. \A k \in IdsOf(segments) : \E i \in 1..N : f[i] = k
  BY <1>1 DEF IdsOf
<1>5. \A i, j \in 1..N : f[i] = f[j] => i = j
  BY <1>1
<1> DEFINE K == IdsOf(segments)
           I == 1..N
<1>6. f \in [I -> K] /\ DOMAIN f = I /\ IsFiniteSet(I) /\ Cardinality(I) = N
      /\ (\A k \in K : \E i \in I : f[i] = k) /\ \A i, j \in I : f[i] = f[j] => i = j
  BY <1>2, <1>3, <1>4, <1>5
<1> HIDE DEF f, N, K, I
<1>7. f \in Bijection(I, K)
  <2>1. IsInjective(f)
    BY <1>6 DEF IsInjective
  <2> QED BY <1>6, <2>1 DEF Bijection, Injection, Surjection
<1>8. Cardinality(K) = Cardinality(I)
  BY <1>6, <1>7, FS_Bijection DEF ExistsBijection
<1> QED BY <1>6, <1>8 DEF N, K

LEMMA HotReloadTyped == HotReloadInv => HotReloadTypeOK
<1> SUFFICES ASSUME HotReloadInv PROVE HotReloadTypeOK
  OBVIOUS
<1>1. IdsOf(segments) \cup tracked \subseteq 1..(nextId - 1)
  <2>1. \A k \in IdsOf(segments) : k \in 1..(nextId - 1)
    BY NumbersKnown
  <2> QED BY <2>1 DEF HotReloadInv
<1>2. Cardinality(IdsOf(segments)) = Len(segments)
  BY OneEach DEF HotReloadInv
<1> QED BY <1>1, <1>2 DEF HotReloadInv, HotReloadTypeOK

\* What must be found at the next reload and at the stop.
Going(k) == \/ Alive(k) \/ inst[k].active
            \/ inst[k].arg \in {"live", "paused"} /\ inst[k].origin = "start"

\* The inductive form: only what a reload of a stopped process has made is tracked
\* before a start.
LeftInv ==
    /\ HotReloadInv
    /\ state = "none" => tracked = {}
    /\ \A k \in Ids : Going(k) =>
         k \in tracked /\ (inst[k].origin # "revived" => k \in IdsOf(segments))
    /\ state \in {"none", "stopped"} => \A k \in tracked : inst[k].origin = "revived"

LEMMA GoingStop ==
  ASSUME LeftInv, StopRun PROVE LeftInv'
<1>1. HotReloadInv' /\ tracked' = {} /\ segments' = segments
  BY StopRunInv DEF LeftInv, StopRun
<1>2. ASSUME NEW k \in Ids PROVE ~Going(k)'
  <2>1. inst'[k] = IF k \notin tracked THEN inst[k]
                   ELSE [inst[k] EXCEPT !.active = FALSE, !.sub = Unsubscribed(@),
                           !.arg = IF inst[k].origin = "start" THEN Unsubscribed(@) ELSE @]
    BY DEF StopRun
  <2>2. inst[k] \in Instance
    BY DEF LeftInv, HotReloadInv
  <2>3. CASE k \notin tracked
    BY <2>1, <2>3 DEF LeftInv, Going, Alive
  <2>4. CASE k \in tracked
    <3> DEFINE r == inst[k]
               s == Unsubscribed(r.sub)
               g == IF r.origin = "start" THEN Unsubscribed(r.arg) ELSE r.arg
    <3>1. inst'[k] = [r EXCEPT !.active = FALSE, !.sub = s, !.arg = g]
      BY <2>1, <2>4
    <3>2. s \notin {"live", "paused"} /\ (r.origin = "start" => g \notin {"live", "paused"})
      BY DEF Unsubscribed
    <3> HIDE DEF s, g
    <3>3. /\ inst'[k].active = FALSE /\ inst'[k].sub = s /\ inst'[k].arg = g
          /\ inst'[k].origin = r.origin
      BY <2>2, <3>1 DEF Instance
    <3> QED BY <3>2, <3>3 DEF Going, Alive
  <2> QED BY <2>3, <2>4
<1> QED BY <1>1, <1>2 DEF LeftInv

LEMMA GoingReload ==
  ASSUME LeftInv, NEW b \in Blocks, ReloadText(b)
  PROVE  LeftInv'
<1>1. HotReloadInv /\ HotReloadInv'
  BY ReloadTextInv DEF LeftInv
<1>2. state' = state
  BY DEF ReloadText
<1>3. CASE state = "none"
  <2>1. UNCHANGED <<segments, inst, nextId, tracked>>
    BY <1>3 DEF ReloadText
  <2> QED BY <1>1, <1>2, <2>1 DEF LeftInv, Going, Alive
<1>4. CASE state # "none"
  <2> DEFINE ast == Parsed(b, version + 1)
  <2>1. PICK m \in Nat : Reloaded(b, ast, m)
    BY <1>1, <1>4, ReloadedIs
  <2>2. IsText(ast)
    BY ParsedText
  <2> HIDE DEF ast
  <2>3. ASSUME NEW k \in NewIds(m) PROVE inst'[k].origin = NewOrigin
    <3>1. PICK j \in DOMAIN segments' : inst'[k] = FreshInstance(segments'[j].fn, segments'[j].dt, NewOrigin)
      BY <2>1, <2>3 DEF Reloaded
    <3> QED BY <3>1 DEF FreshInstance
  <2>4. tracked' = tracked \cup NewIds(m)
    BY <2>1 DEF Reloaded
  <2>5. ASSUME NEW k \in Ids, Going(k)'
        PROVE  k \in tracked' /\ (inst'[k].origin # "revived" => k \in IdsOf(segments'))
    <3>1. CASE k \in NewIds(m)
      <4>1. PICK j \in DOMAIN segments' : segments'[j].id = k
        BY <2>1, <3>1 DEF Reloaded
      <4> QED BY <2>4, <3>1, <4>1 DEF IdsOf
    <3>2. CASE k \in IdsOf(segments)
      <4>1. PICK i \in DOMAIN segments : segments[i].id = k
        BY <1>1, <3>2, NumbersKnown
      <4>2. inst'[k] = IF Survives(ast, i) THEN Adjusted(ast, i) ELSE Killed(k)
        BY <2>1, <4>1 DEF Reloaded
      <4>3. Survives(ast, i)
        <5>1. ASSUME ~Survives(ast, i) PROVE FALSE
          <6>1. inst'[k] = Killed(k)
            BY <4>2, <5>1
          <6>2. /\ inst'[k].active = FALSE /\ inst'[k].sub \notin {"live", "paused"}
                /\ inst'[k].arg \notin {"live", "paused"}
            BY <1>1, <6>1, KilledIs
          <6> QED BY <2>5, <6>2 DEF Going, Alive
        <5> QED BY <5>1
      <4>4. /\ inst'[k].sub = inst[k].sub /\ inst'[k].arg = inst[k].arg
            /\ inst'[k].active = inst[k].active /\ inst'[k].origin = inst[k].origin
        BY <1>1, <2>2, <4>1, <4>2, <4>3, AdjustedIs
      <4>5. Going(k)
        BY <2>5, <4>4 DEF Going, Alive
      <4>6. PICK j \in 1..Len(Stay(ast)) : segments'[j].id = k
        BY <2>1, <4>1, <4>3 DEF Reloaded, Remain
      <4>7. j \in DOMAIN segments'
        BY <2>1, <4>6 DEF Reloaded, Result
      <4>8. k \in tracked
        BY <4>5 DEF LeftInv
      <4> QED BY <2>4, <4>6, <4>7, <4>8 DEF IdsOf
    <3>3. CASE k \notin NewIds(m) /\ k \notin IdsOf(segments)
      <4>1. inst'[k] = inst[k]
        BY <2>1, <3>3 DEF Reloaded
      <4>2. Going(k)
        BY <2>5, <4>1 DEF Going, Alive
      <4> QED BY <2>4, <3>3, <4>1, <4>2 DEF LeftInv
    <3> QED BY <3>1, <3>2, <3>3
  <2>6. ASSUME NEW k \in tracked', state' = "stopped" PROVE inst'[k].origin = "revived"
    <3>1. CASE k \in NewIds(m)
      BY <1>2, <2>3, <2>6, <3>1 DEF NewOrigin
    <3>2. CASE k \in tracked
      <4>1. k \in Ids /\ inst[k].origin = "revived"
        BY <1>1, <1>2, <2>6, <3>2, NumbersKnown DEF LeftInv
      <4>2. CASE k \in IdsOf(segments) /\ k \notin NewIds(m)
        <5>1. PICK i \in DOMAIN segments : segments[i].id = k
          BY <1>1, <4>2, NumbersKnown
        <5>2. inst'[k] = IF Survives(ast, i) THEN Adjusted(ast, i) ELSE Killed(k)
          BY <2>1, <5>1 DEF Reloaded
        <5>3. Survives(ast, i) => Adjusted(ast, i).origin = inst[k].origin
          BY <1>1, <2>2, <5>1, AdjustedIs
        <5>4. Killed(k).origin = inst[k].origin
          BY <1>1, <4>1, KilledIs
        <5> QED BY <4>1, <5>2, <5>3, <5>4
      <4>3. CASE k \notin IdsOf(segments) /\ k \notin NewIds(m)
        BY <2>1, <4>1, <4>3 DEF Reloaded
      <4> QED BY <3>1, <4>2, <4>3
    <3> QED BY <2>4, <2>6, <3>1, <3>2
  <2> QED BY <1>1, <1>2, <1>4, <2>5, <2>6 DEF LeftInv
<1> QED BY <1>3, <1>4

LEMMA GoingStart ==
  ASSUME LeftInv, StartRun PROVE LeftInv'
<1>1. /\ HotReloadInv /\ HotReloadInv' /\ state' = "running"
      /\ \A k \in tracked : inst[k].origin = "revived"
  BY StartRunInv, StartIs DEF LeftInv, StartRun
<1> DEFINE n == Len(segments')
           new == nextId..(nextId + n - 1)
<1>2. /\ IdsOf(segments') = new /\ tracked' = tracked \cup new
      /\ \A k \in Ids : k \notin new => inst'[k] = inst[k]
  BY <1>1, StartIs
<1> HIDE DEF new
<1>3. ASSUME NEW k \in Ids, Going(k)'
      PROVE  k \in tracked' /\ (inst'[k].origin # "revived" => k \in IdsOf(segments'))
  <2>1. CASE k \notin new
    <3>1. inst'[k] = inst[k]
      BY <1>2, <2>1
    <3>2. Going(k)
      BY <1>3, <3>1 DEF Going, Alive
    <3> QED BY <1>1, <1>2, <3>1, <3>2 DEF LeftInv
  <2> QED BY <1>2, <2>1
<1> QED BY <1>1, <1>3 DEF LeftInv

LEMMA LeftNext ==
  ASSUME LeftInv, [HotReloadNext]_reloadVars
  PROVE  LeftInv'
<1>1. HotReloadInv /\ HotReloadInv'
  BY HotReloadNextInv DEF LeftInv
<1>2. CASE Pause \/ Resume
  <2>1. /\ \E f, t \in {"live", "paused"} : inst' = Retagged(f, t)
        /\ state' \notin {"none", "stopped"} /\ UNCHANGED <<segments, tracked>>
    BY <1>2 DEF Pause, Resume
  <2>2. \A k \in Ids : /\ inst'[k].active = inst[k].active /\ inst'[k].origin = inst[k].origin
                       /\ inst'[k].sub \in {"live", "paused"} <=> inst[k].sub \in {"live", "paused"}
                       /\ inst'[k].arg \in {"live", "paused"} <=> inst[k].arg \in {"live", "paused"}
    BY <1>1, <2>1, RetaggedIs
  <2>3. \A k \in Ids : Going(k)' => Going(k)
    BY <2>2 DEF Going, Alive
  <2> QED BY <1>1, <2>1, <2>2, <2>3 DEF LeftInv
<1>3. CASE \E k \in Ids : Begin(k)
  <2>1. UNCHANGED <<inst, segments, tracked, state>>
    BY <1>3 DEF Begin
  <2> QED BY <1>1, <2>1 DEF LeftInv, Going, Alive
<1>4. CASE Expire \/ InactiveTick \/ \E b \in BOOLEAN : SegmentTick(b)
  <2>1. PICK r \in Instance :
           /\ calling # 0 /\ Returned(r) /\ r.arg = inst[calling].arg /\ r.origin = inst[calling].origin
           /\ r.sub = inst[calling].sub \/ (r.sub = "gone" /\ r.active = FALSE)
           /\ r.active = FALSE \/ r.active = inst[calling].active
    BY <1>1, <1>4, ReturnedIs
  <2>2. calling \in Ids /\ inst' = [inst EXCEPT ![calling] = r]
        /\ UNCHANGED <<state, segments, tracked>>
    BY <1>1, <2>1, ReturnedInv
  <2>3. DOMAIN inst = Ids
    BY <1>1 DEF HotReloadInv
  <2>4. ASSUME NEW k \in Ids, Going(k)' PROVE Going(k)
    <3>1. CASE k # calling
      BY <2>2, <2>3, <2>4, <3>1 DEF Going, Alive
    <3>2. CASE k = calling
      <4>1. inst'[k] = r
        BY <2>2, <2>3, <3>2
      <4> QED BY <2>1, <2>4, <3>2, <4>1 DEF Going, Alive
    <3> QED BY <3>1, <3>2
  <2>5. ASSUME NEW k \in Ids PROVE inst'[k].origin = inst[k].origin
    BY <2>1, <2>2, <2>3
  <2>6. \A k \in tracked : k \in Ids
    BY <1>1, NumbersKnown
  <2>7. \A k \in Ids : Going(k)' => k \in tracked' /\ (inst'[k].origin # "revived" => k \in IdsOf(segments'))
    BY <2>2, <2>4, <2>5 DEF LeftInv
  <2>8. /\ state' = "none" => tracked' = {}
        /\ state' \in {"none", "stopped"} => \A k \in tracked' : inst'[k].origin = "revived"
    BY <2>2, <2>5, <2>6 DEF LeftInv
  <2> QED BY <1>1, <2>7, <2>8 DEF LeftInv
<1>5. CASE UNCHANGED reloadVars
  BY <1>1, <1>5 DEF reloadVars, LeftInv, Going, Alive
<1> QED BY <1>2, <1>3, <1>4, <1>5, GoingStart, GoingStop, GoingReload DEF HotReloadNext

\* Whatever the texts and whenever they are sent: whatever is alive is tracked,
\* where a stop finds it, and belongs to a segment of the process, where the next
\* reload does, unless a reload of the stopped process has made it; what a reload
\* removed or replaced does not tick on.
THEOREM NothingIsLeftBehind == HotReloadSpec => []NothingLeftBehind
<1>1. HotReloadInit => LeftInv
  <2> SUFFICES ASSUME HotReloadInit PROVE LeftInv
    OBVIOUS
  <2>1. HotReloadInv /\ tracked = {} /\ \A k \in Ids : inst[k] = NoInstance
    BY HotReloadInitInv DEF HotReloadInit
  <2>2. \A k \in Ids : ~Going(k)
    BY <2>1 DEF Going, Alive, NoInstance
  <2> QED BY <2>1, <2>2 DEF LeftInv
<1>2. LeftInv /\ [HotReloadNext]_reloadVars => LeftInv'
  BY LeftNext
<1>3. LeftInv => NothingLeftBehind
  BY HotReloadTyped DEF LeftInv, NothingLeftBehind, Going, Alive
<1> QED BY <1>1, <1>2, <1>3, PTL DEF HotReloadSpec

-----------------------------------------------------------------------------
(***************************************************************************)
(* HotReload: the interval of a segment                                     *)
(***************************************************************************)
Stuck(i) ==
    LET k == inst[segments[i].id]
    IN IF segments[i].var # NoVar THEN k.dt = segments[i].dt /\ k.expr = segments[i].dt
       ELSE k.dt = segments[i].dt \/ k.dt = k.expr

SticksInv == HotReloadInv /\ \A i \in DOMAIN segments : Stuck(i)

\* A step that makes no segments: it leaves the intervals, or takes them from the
\* expressions.
LEMMA SticksStill ==
  ASSUME SticksInv, HotReloadInv', segments' = segments,
         \A k \in Ids : /\ inst'[k].expr = inst[k].expr
                        /\ inst'[k].dt = inst[k].dt \/ inst'[k].dt = inst[k].expr
  PROVE  SticksInv'
<1>1. \A i \in DOMAIN segments : segments[i].id \in Ids
  BY NumbersKnown DEF SticksInv
<1>2. \A i \in DOMAIN segments : Stuck(i) => Stuck(i)'
  BY <1>1 DEF Stuck
<1> QED BY <1>2 DEF SticksInv

LEMMA SticksStart ==
  ASSUME SticksInv, StartRun PROVE SticksInv'
<1>1. HotReloadInv /\ HotReloadInv' /\ nextId \in Nat \ {0} /\ MaxInstances \in Nat
  BY StartRunInv, NumbersKnown DEF SticksInv
<1> DEFINE n == Len(segments')
           NewOne(k) == FreshInstance(segments'[k - nextId + 1].fn, segments'[k - nextId + 1].dt, "start")
<1>2. /\ n \in Nat /\ nextId' = nextId + n /\ nextId' <= MaxInstances + 1
      /\ inst' = [k \in Ids |-> IF k \in nextId..(nextId + n - 1) THEN NewOne(k) ELSE inst[k]]
      /\ SegmentsOk(segments', nextId')
      /\ \A i \in DOMAIN segments' : segments'[i].id = nextId + i - 1
  BY <1>1, StartIs
<1>3. ASSUME NEW i \in DOMAIN segments' PROVE Stuck(i)'
  <2> DEFINE k == nextId + i - 1
  <2>1. i \in 1..n /\ segments'[i].id = k
    BY <1>2, <1>3 DEF SegmentsOk
  <2>2. k \in nextId..(nextId + n - 1) /\ k - nextId + 1 = i
    BY <1>1, <1>2, <2>1
  <2>3. k \in Ids
    BY <1>1, <1>2, <2>2 DEF Ids
  <2> HIDE DEF k, n, NewOne
  <2>4. inst'[k] = NewOne(k)
    BY <1>2, <2>2, <2>3
  <2>5. NewOne(k) = FreshInstance(segments'[i].fn, segments'[i].dt, "start")
    BY <2>2 DEF NewOne
  <2> QED BY <2>1, <2>4, <2>5 DEF Stuck, FreshInstance
<1> QED BY <1>1, <1>3 DEF SticksInv

LEMMA SticksReload ==
  ASSUME SticksInv, NEW b \in Blocks, ReloadText(b) PROVE SticksInv'
<1>1. HotReloadInv /\ HotReloadInv' /\ SegmentsOk(segments, nextId)
  BY ReloadTextInv DEF SticksInv, HotReloadInv
<1>2. CASE state = "none"
  <2>1. UNCHANGED <<segments, inst>>
    BY <1>2 DEF ReloadText
  <2> QED BY <1>1, <2>1, SticksStill
<1>3. CASE state # "none"
  <2> DEFINE ast == Parsed(b, version + 1)
  <2>1. PICK m \in Nat : Reloaded(b, ast, m)
    BY <1>1, <1>3, ReloadedIs
  <2>2. ast = Parsed(b, version + 1) /\ IsText(ast)
    BY ParsedText
  <2> HIDE DEF ast
  <2>3. Result(ast, segments', m) /\ SegmentsOk(segments', nextId')
    BY <2>1 DEF Reloaded
  <2>5. ASSUME NEW j \in DOMAIN segments', segments'[j].id \in NewIds(m) PROVE Stuck(j)'
    <3>1. PICK x \in DOMAIN segments' :
            /\ segments'[x].id = segments'[j].id
            /\ inst'[segments'[j].id] = FreshInstance(segments'[x].fn, segments'[x].dt, NewOrigin)
      BY <2>1, <2>5 DEF Reloaded
    <3>2. x = j
      BY <2>3, <3>1 DEF SegmentsOk
    <3> QED BY <3>1, <3>2 DEF Stuck, FreshInstance
  <2>6. ASSUME NEW j \in DOMAIN segments', segments'[j].id \notin NewIds(m)
        PROVE  Stuck(j)'
    <3>1. j \in 1..Len(Stay(ast))
      <4>1. ~(j > Len(Stay(ast)))
        BY <2>3, <2>6 DEF Result, NewIds
      <4>2. Len(Stay(ast)) \in Nat /\ j \in Nat /\ j >= 1
        BY <1>1, <2>3, StayIs DEF SegmentsOk
      <4> QED BY <4>1, <4>2
    <3> DEFINE i == Stay(ast)[j]
               st == Match(ast, i)
    <3>2. /\ Matched(ast, i, st) /\ segments'[j].var = segments[i].var
          /\ segments'[j].dt = IntervalOf(ast, i)
          /\ Survives(ast, i) /\ segments'[j].id = segments[i].id
      BY <2>3, <2>6, <3>1 DEF Result, NewIds
    <3>3. i \in DOMAIN segments
      BY <1>1, <3>1, StayIs
    <3> HIDE DEF i
    <3>4. st = Match(ast, i) /\ segments'[j].dt = NewDt(i, st)
      BY <3>2 DEF IntervalOf
    <3> HIDE DEF st
    <3> DEFINE a == Adjusted(ast, i)
               r == inst[segments[i].id]
               d == NewDt(i, st)
    <3>5. inst'[segments'[j].id] = a
      BY <2>1, <3>2, <3>3 DEF Reloaded
    <3>6. IF d = segments[i].dt THEN a = r
          ELSE a.dt = d /\ a.expr = IF st.kind = "drive" THEN r.expr ELSE d
      BY <1>1, <2>2, <3>2, <3>3, <3>4, AdjustedIs
    <3>7. IF segments[i].var # NoVar THEN r.dt = segments[i].dt /\ r.expr = segments[i].dt
          ELSE r.dt = segments[i].dt \/ r.dt = r.expr
      BY <3>3 DEF SticksInv, Stuck
    <3>8. segments[i].var # NoVar => st.kind # "drive"
      BY <3>2, <3>4 DEF Matched
    <3>9. segments'[j].dt = d
      BY <3>4
    <3> HIDE DEF a, r, d
    <3>10. IF segments[i].var # NoVar THEN a.dt = d /\ a.expr = d ELSE a.dt = d \/ a.dt = a.expr
      BY <3>6, <3>7, <3>8
    <3> QED BY <3>2, <3>5, <3>9, <3>10 DEF Stuck
  <2> QED BY <1>1, <2>5, <2>6 DEF SticksInv
<1> QED BY <1>2, <1>3

LEMMA SticksNext ==
  ASSUME SticksInv, [HotReloadNext]_reloadVars
  PROVE  SticksInv'
<1>1. HotReloadInv /\ HotReloadInv'
  BY HotReloadNextInv DEF SticksInv
<1>2. CASE StopRun
  <2> DEFINE Down(k) == [inst[k] EXCEPT !.active = FALSE, !.sub = Unsubscribed(@),
                            !.arg = IF inst[k].origin = "start" THEN Unsubscribed(@) ELSE @]
  <2>1. inst' = [k \in Ids |-> IF k \notin tracked THEN inst[k] ELSE Down(k)] /\ segments' = segments
    BY <1>2 DEF StopRun
  <2>2. ASSUME NEW k \in Ids PROVE inst'[k].expr = inst[k].expr /\ inst'[k].dt = inst[k].dt
    <3>1. inst[k] \in Instance
      BY <1>1 DEF HotReloadInv
    <3>2. Down(k).expr = inst[k].expr /\ Down(k).dt = inst[k].dt
      BY <3>1 DEF Instance
    <3> HIDE DEF Down
    <3> QED BY <2>1, <3>2
  <2> QED BY <1>1, <2>1, <2>2, SticksStill
<1>3. CASE Pause \/ Resume
  <2>1. (\E f, t \in {"live", "paused"} : inst' = Retagged(f, t)) /\ segments' = segments
    BY <1>3 DEF Pause, Resume
  <2>2. \A k \in Ids : inst'[k].expr = inst[k].expr /\ inst'[k].dt = inst[k].dt
    BY <1>1, <2>1, RetaggedIs
  <2> QED BY <1>1, <2>1, <2>2, SticksStill
<1>4. CASE (\E k \in Ids : Begin(k)) \/ UNCHANGED reloadVars
  <2>1. UNCHANGED <<inst, segments>>
    BY <1>4 DEF Begin, reloadVars
  <2> QED BY <1>1, <2>1, SticksStill
<1>5. CASE Expire \/ InactiveTick \/ \E b \in BOOLEAN : SegmentTick(b)
  <2>1. PICK r \in Instance :
           /\ calling # 0 /\ Returned(r) /\ r.expr = inst[calling].expr
           /\ r.dt = inst[calling].dt \/ r.dt = inst[calling].expr
    BY <1>1, <1>5, ReturnedIs
  <2>2. calling \in Ids /\ inst' = [inst EXCEPT ![calling] = r] /\ segments' = segments
    BY <1>1, <2>1, ReturnedInv
  <2>3. DOMAIN inst = Ids
    BY <1>1 DEF HotReloadInv
  <2>4. \A k \in Ids : inst'[k] = IF k = calling THEN r ELSE inst[k]
    BY <2>2, <2>3
  <2> QED BY <1>1, <2>1, <2>2, <2>4, SticksStill
<1> QED BY <1>2, <1>3, <1>4, <1>5, SticksStart, SticksReload DEF HotReloadNext

LEMMA SticksSpec == HotReloadSpec => []SticksInv
<1>1. HotReloadInit => SticksInv
  <2> SUFFICES ASSUME HotReloadInit PROVE SticksInv
    OBVIOUS
  <2>1. HotReloadInv /\ DOMAIN segments = {}
    BY HotReloadInitInv DEF HotReloadInit
  <2> QED BY <2>1 DEF SticksInv
<1>2. SticksInv /\ [HotReloadNext]_reloadVars => SticksInv'
  BY SticksNext
<1> QED BY <1>1, <1>2, PTL DEF HotReloadSpec

\* Whatever the texts, the interval of a binding's instance is that of its segment
\* after any reload, and the next tick, which evaluates the expression of the
\* interval, finds the same; that of a driver is the segment's or the expression's,
\* to which line 4634 and the tick after it may set it back.
THEOREM IntervalsStick == HotReloadSpec => []IntervalSticks
<1>1. SticksInv => IntervalSticks
  BY DEF SticksInv, Stuck, IntervalSticks
<1> QED BY <1>1, SticksSpec, PTL

=============================================================================
