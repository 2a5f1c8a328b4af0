------------------------------- MODULE Clocks -------------------------------
(***************************************************************************)
(* The clock registry (core.hpp, clock_registry) with the intrinsics that   *)
(* use it (evaluator.cpp, eval_call): a tree of tempi, the timeline of beats *)
(* of each clock, and the instances that live on it.  A sync fires on a grid *)
(* of milliseconds, a phasor shows the position of its clock.               *)
(*                                                                          *)
(* Time is counted in units, a beat is divided into Beat parts, and a tempo  *)
(* is the number of parts that pass in a unit, so that all positions and     *)
(* durations are integers.  The scheduler is the ideal one: what is due      *)
(* runs at its time, in any order (Scheduler and AudioClock model the real   *)
(* ones).                                                                    *)
(***************************************************************************)
EXTENDS Integers, Sequences, SequencesExt

CONSTANTS
    Beat,        \* the parts of a beat
    Bpm0,        \* the tempo of the main clock at the start
    Tempi,       \* the tempi that a program gives
    Lengths,     \* the lengths of periods, in beats
    MaxClocks,   \* bound: clocks ever created
    MaxInsts,    \* bound: instances ever created
    MaxTempos,   \* bound: calls of tempo()
    MaxTime      \* bound: the time that passes

ASSUME ClocksAssumption ==
    /\ Beat \in Nat \ {0}
    /\ \A b \in Tempi \cup {Bpm0} : b \in 1..Beat /\ Beat % b = 0
    /\ Lengths \subseteq Nat \ {0}
    /\ {MaxClocks, MaxInsts, MaxTempos, MaxTime} \subseteq Nat

Kinds == {"sync", "phasor"}
PhasorDt == 1

VARIABLES
    now,     \* now_ms()
    clocks,  \* clocks_, by id_; the main clock is 1
    insts,   \* the instances, in the order of their creation
    tempos,  \* how often tempo() was called
    beats,   \* not in the code: the parts that have passed, by adding them up
    own      \* not in the code: the clocks whose own tempo was the last thing set

vars == <<now, clocks, insts, tempos, beats, own>>

Clock(bpm, parent, of) ==
    [bpm |-> bpm, parent |-> parent, num |-> bpm, den |-> of, epoch |-> now, offset |-> 0]

main == 1

Init ==
    /\ now = 0
    /\ clocks = <<Clock(Bpm0, 0, Bpm0)>>
    /\ insts = <<>>
    /\ tempos = 0
    /\ beats = <<0>>
    /\ own = {}

-----------------------------------------------------------------------------
(***************************************************************************)
(* core.hpp, clock_registry                                                *)
(***************************************************************************)

\* create(): the ratio to the parent is taken now; 0 is a clock without parent.
Create(bpm, parent) ==
    /\ Len(clocks) < MaxClocks
    /\ clocks' = Append(clocks,
           Clock(bpm, parent, IF parent = 0 THEN bpm ELSE clocks[parent].bpm))
    /\ beats' = Append(beats, 0)
    /\ UNCHANGED <<now, insts, tempos, own>>

\* current_beat_at()
BeatAt(c, t) == clocks[c].offset + (t - clocks[c].epoch) * clocks[c].bpm

\* phase_at() for a cycle of so many parts of a beat.
PhaseAt(c, size, t) == BeatAt(c, t) % size

\* Bug: it reaches the children only, not theirs.
ReachedChildren(id, bpm) ==
    [c \in DOMAIN clocks |->
       IF c = id THEN bpm
       ELSE IF clocks[c].parent = id THEN (bpm * clocks[c].num) \div clocks[c].den ELSE 0]

\* The tempi after set_bpm() of a clock, which goes down to its children by
\* their ratios; 0 for the clocks it does not reach.  A parent is older than
\* its children.
Reached(id, bpm) ==
    LET New[c \in DOMAIN clocks] ==
          IF c = id THEN bpm
          ELSE IF clocks[c].parent = 0 THEN 0
          ELSE (New[clocks[c].parent] * clocks[c].num) \div clocks[c].den
    IN New

\* Bound: every tempo divides a beat and comes out of a ratio without a rest, so
\* that nothing is rounded.
Exact(id, new) ==
    \A c \in DOMAIN new :
        LET p == clocks[c].parent
        IN /\ new[c] > 0 => new[c] <= Beat /\ Beat % new[c] = 0
           /\ c # id /\ p # 0 => (new[p] * clocks[c].num) % clocks[c].den = 0

\* set_bpm(): each clock that is reached keeps the beats it has counted.
SetBpm(id, bpm) ==
    LET new == Reached(id, bpm)
    IN /\ Exact(id, new)
       /\ clocks' = [c \in DOMAIN clocks |->
            IF new[c] = 0 THEN clocks[c]
            ELSE [clocks[c] EXCEPT !.bpm = new[c], !.epoch = now, !.offset = BeatAt(c, now)]]
       /\ own' = {c \in own : new[c] = 0} \cup {id}

-----------------------------------------------------------------------------
(***************************************************************************)
(* evaluator.cpp, the intrinsics                                           *)
(***************************************************************************)

\* clk(n b), beat(clk, n) and the literal n b next to clk: n beats at the tempo
\* that clk has now.
Duration(clk, n) == (n * Beat) \div clocks[clk].bpm

\* tempo(), called by anything that runs.
Tempo(id, bpm) ==
    /\ tempos < MaxTempos
    /\ tempos' = tempos + 1
    /\ SetBpm(id, bpm)
    /\ UNCHANGED <<now, insts, beats>>

\* Bug: off the grid.
FirstFireFromNow(period) == now + period

\* The first multiple of the period after now.
FirstFire(period) == (now \div period + 1) * period

\* Bug: the size of a phasor's cycle is taken at the tempo of the main clock.
InstanceOfMain(kind, clk, n) ==
    LET period == Duration(clk, n)
        size   == period * clocks[main].bpm
    IN [kind |-> kind, clk |-> clk, n |-> n, at |-> now, size |-> size,
        dt   |-> IF kind = "phasor" THEN PhasorDt ELSE period,
        out  |-> IF kind = "phasor" THEN PhaseAt(clk, size, now) ELSE 0,
        next |-> IF kind = "sync" THEN FirstFire(period) ELSE now + PhasorDt]

\* sync(clk, period) or phasor(clk, period) is called when a process starts; at is
\* the time of the last tick.  A phasor keeps its period as a number of parts,
\* at the tempo of that time.
Instance(kind, clk, n) ==
    LET period == Duration(clk, n)
        size   == period * clocks[clk].bpm
    IN [kind |-> kind, clk |-> clk, n |-> n, at |-> now, size |-> size,
        dt   |-> IF kind = "phasor" THEN PhasorDt ELSE period,
        out  |-> IF kind = "phasor" THEN PhaseAt(clk, size, now) ELSE 0,
        next |-> IF kind = "sync" THEN FirstFire(period) ELSE now + PhasorDt]

Start(kind, clk, n) ==
    /\ Len(insts) < MaxInsts
    /\ insts' = Append(insts, Instance(kind, clk, n))
    /\ UNCHANGED <<now, clocks, tempos, beats, own>>

Due(i) == insts[i].next <= now

\* tick_instance() of a native instance: neither has a parameter that would be
\* evaluated again, so that the interval stays what it was.
Tick(i) ==
    /\ Due(i)
    /\ LET s == insts[i]
       IN insts' = [insts EXCEPT ![i] =
            [s EXCEPT !.at = now, !.next = @ + s.dt,
                      !.out = IF s.kind = "phasor" THEN PhaseAt(s.clk, s.size, now) ELSE 0]]
    /\ UNCHANGED <<now, clocks, tempos, beats, own>>

\* Time passes once everything that was due has run.
Advance ==
    /\ now < MaxTime
    /\ ~\E i \in DOMAIN insts : Due(i)
    /\ now' = now + 1
    /\ beats' = [c \in DOMAIN clocks |-> beats[c] + clocks[c].bpm]
    /\ UNCHANGED <<clocks, insts, tempos, own>>

Next ==
    \/ \E b \in Tempi, p \in 0..MaxClocks : p <= Len(clocks) /\ Create(b, p)
    \/ \E b \in Tempi, c \in DOMAIN clocks : Tempo(c, b)
    \/ \E k \in Kinds, c \in DOMAIN clocks, n \in Lengths : Start(k, c, n)
    \/ \E i \in DOMAIN insts : Tick(i)
    \/ Advance

Spec == Init /\ [][Next]_vars

-----------------------------------------------------------------------------
(***************************************************************************)
(* Properties                                                              *)
(***************************************************************************)
Alike(i, j) == insts[i].kind = insts[j].kind /\ insts[i].clk = insts[j].clk

\* The variables keep their types, and nothing that is due is ever passed over.
TypeOK ==
    /\ now \in 0..MaxTime /\ tempos \in 0..MaxTempos
    /\ \A c \in DOMAIN clocks :
          /\ clocks[c].bpm \in 1..Beat /\ Beat % clocks[c].bpm = 0
          /\ clocks[c].parent \in 0..(c - 1)
          /\ clocks[c].epoch \in 0..now /\ clocks[c].offset \in Nat
    /\ \A i \in DOMAIN insts : insts[i].kind \in Kinds /\ insts[i].next >= now

\* The position of a clock is the number of beats that have passed on it.
BeatsAreElapsed(c) == BeatAt(c, now) = beats[c]

\* A clock has the ratio to its parent that it was bound with.
KeepsRatio(c) ==
    LET p == clocks[c].parent IN clocks[c].bpm * clocks[c].den = clocks[p].bpm * clocks[c].num

\* core.hpp:405 and 382: whatever tempi are set, on a clock, above it or below it, its
\* position goes on without a jump, and it keeps the ratio to its parent, unless its own
\* tempo was set after the last change above it.
TempoReachesAll ==
    /\ TypeOK
    /\ \A c \in DOMAIN clocks :
          /\ BeatsAreElapsed(c)
          /\ clocks[c].parent # 0 /\ c \notin own => KeepsRatio(c)

\* doc/ch04_temporal.md:383: two syncs with the same interval fire at the same
\* times, whenever their processes started and whatever tempi were set.
SyncsAlign ==
    \A i, j \in DOMAIN insts :
        /\ Alike(i, j) /\ insts[i].kind = "sync" /\ insts[i].dt = insts[j].dt
        /\ insts[i].next > now /\ insts[j].next > now
        => insts[i].next = insts[j].next

\* evaluator.cpp:2196: two phasors of a clock with periods of the same number of
\* beats, made at any times and tempi, show the same phase when they have ticked
\* at the same time, before or after a change of tempo.
PhasorsAgree ==
    \A i, j \in DOMAIN insts :
        /\ Alike(i, j) /\ insts[i].kind = "phasor" /\ insts[i].n = insts[j].n
        /\ insts[i].at = insts[j].at
        => insts[i].out = insts[j].out

=============================================================================
