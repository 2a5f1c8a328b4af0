----------------------------- MODULE Instances -----------------------------
(***************************************************************************)
(* Temporal instances (evaluator.cpp: instantiate_temporal, tick_instance,  *)
(* schedule_instance, and the callback of a segment as far as it is about   *)
(* instances): how the calls in a binding become instances, which of them   *)
(* the scheduler drives, and how a later evaluation of the same binding     *)
(* finds them again.                                                        *)
(*                                                                          *)
(* A binding is evaluated once when its process starts, and every call of a *)
(* temporal function creates an instance.  The last one drives the binding: *)
(* each of its ticks also ticks the others, and evaluates the binding again *)
(* in retick mode, in which a call returns the output of an instance that   *)
(* has the name of its function.  An instance made for an argument has a    *)
(* subscription of its own and is not ticked by the driver.                 *)
(*                                                                          *)
(* Time is counted in units.  The scheduler is the ideal one: what is due   *)
(* runs at its time, in any order.  A callback runs under eval_mutex_ and   *)
(* is one step.                                                             *)
(***************************************************************************)
EXTENDS Integers, Sequences, FiniteSets, SequencesExt, FiniteSetsExt

CONSTANTS
    Bindings,   \* the bindings to explore: sequences of calls
    StopAt,     \* per function: the tick in which it stops itself, 0 if never
    HasInit,    \* the functions with an init block
    Durations,  \* of the process; 0 when it has none
    Interval,   \* the interval that an output gives, where it is an argument
    MaxTime,    \* bound: the time that passes
    MaxInsts    \* bound: instances ever created

\* The calls of a binding in the order in which they are evaluated: a call
\* after those in its arguments.  into is the call whose argument it gives the
\* interval of, 0 if none; on says whether it is evaluated always, or is one
\* side of a ternary whose condition changes with time.
Parity == {0, 1}
IsBinding(b) ==
    /\ Len(b) \in Nat /\ DOMAIN b = 1..Len(b)
    /\ \A c \in DOMAIN b :
          /\ b[c].into \in {0} \cup (c + 1)..Len(b)
          /\ b[c].dt \in Nat \ {0} /\ b[c].on \subseteq Parity
          /\ b[c].into # 0 => b[c].on = b[b[c].into].on

ASSUME InstancesAssumption ==
    /\ \A b \in Bindings : IsBinding(b)
    /\ \A n \in 0..(MaxTime + 1) : Interval[n] \in Nat \ {0}
    /\ Durations \subseteq Nat /\ MaxTime \in Nat /\ MaxInsts \in Nat

VARIABLES
    binding,  \* the statement that is bound: its calls
    dur,      \* the duration of the process
    now,      \* scheduler time
    insts,    \* instances_, by id_
    driver,   \* the instance of the segment, 0 before the process starts
    pool,     \* all_instance_ids of the segment
    owned,    \* active_process_instances_ of the process
    reads,    \* per call: what the last evaluation of the binding gave
    running   \* FALSE before it starts and after stop_process()

vars == <<binding, dur, now, insts, driver, pool, owned, reads, running>>

Calls == DOMAIN binding
None  == [inst |-> 0, out |-> 0]

Init ==
    /\ binding \in Bindings /\ dur \in Durations
    /\ now = 0
    /\ insts = <<>>
    /\ driver = 0 /\ pool = {} /\ owned = {}
    /\ reads = [c \in Calls |-> None]
    /\ running = FALSE

-----------------------------------------------------------------------------
(***************************************************************************)
(* One instance                                                            *)
(***************************************************************************)

\* n is the state that its update statements count, and its output; next is when
\* it is due, 0 when it has no subscription; made is when it was created.
Seeded(c, dt) ==
    LET f == binding[c].def
        n == IF f \in HasInit THEN 0 ELSE 1
    IN [def |-> f, call |-> c, dt |-> dt, n |-> n, age |-> dt, made |-> now,
        \* stop is ignored in the first pass that follows an init block
        active |-> ~(f \notin HasInit /\ StopAt[f] = 1),
        subs |-> {}, next |-> 0]

\* Bug: the time that passed is taken for the new interval.
TickedAhead(is, i) ==
    LET s  == is[i]
        dt == IF s.subs = {} THEN s.dt ELSE Interval[is[Max(s.subs)].n]
        n  == s.n + 1
    IN [is EXCEPT ![i] = [s EXCEPT !.dt = dt, !.n = n, !.age = @ + s.dt,
                                   !.active = @ /\ n # StopAt[s.def]]]

\* tick_instance(): the interval is read again from the instance in the
\* argument, if there is one; update statements, output, commit, stop.
Ticked(is, i) ==
    LET s  == is[i]
        dt == IF s.subs = {} THEN s.dt ELSE Interval[is[Max(s.subs)].n]
        n  == s.n + 1
    IN [is EXCEPT ![i] = [s EXCEPT !.dt = dt, !.n = n, !.age = @ + dt,
                                   !.active = @ /\ n # StopAt[s.def]]]

\* The instances in ticks, one after the other.
AllTicked(is, ticks) ==
    LET After[i \in 0..Len(is)] ==
          IF i = 0 THEN is
          ELSE IF i \in ticks THEN Ticked(After[i - 1], i) ELSE After[i - 1]
    IN After[Len(is)]

\* The subscription is armed again at the interval it has after the callback, or
\* dropped when that returned false.
Rearmed(is, i, again) ==
    [is EXCEPT ![i].next = IF again THEN @ + is[i].dt ELSE 0]

-----------------------------------------------------------------------------
(***************************************************************************)
(* Evaluating the binding                                                  *)
(***************************************************************************)

\* Bug: only the driver is looked at.
FoundDriver(is, c, seg) ==
    IF seg.driver # 0 /\ is[seg.driver].def = binding[c].def THEN seg.driver ELSE 0

\* retick_instance_ and retick_pool_, here seg: a call finds the driver if that
\* has the name of its function, and else the first of the others that has.
Found(is, c, seg) ==
    LET like == {i \in seg.others : is[i].def = binding[c].def}
    IN IF seg.driver # 0 /\ is[seg.driver].def = binding[c].def THEN seg.driver
       ELSE IF like = {} THEN 0 ELSE Min(like)

\* The evaluation of one call, with what was evaluated before it in e: an
\* instance is found or created.  A new one adopts those that were created in
\* its arguments, which are subscribed.  Without an init block it has ticked
\* before that, so that its arguments were evaluated a second time: what this
\* created is nobody's.
Evaluated(e, c, seg) ==
    LET old  == Found(e.insts, c, seg)
        new  == Len(e.insts) + 1
        args == {e.reads[a].inst : a \in {x \in Calls : binding[x].into = c}}
        subs == args \cap e.made
        dt   == IF args = {} THEN binding[c].dt ELSE Interval[e.insts[Max(args)].n]
        this == [Seeded(c, dt) EXCEPT !.subs = subs]
        lost == IF binding[c].def \in HasInit THEN <<>>
                ELSE SetToSeq({Seeded(e.insts[a].call, e.insts[a].dt) : a \in subs})
        kept == [i \in DOMAIN e.insts |->
                   IF i \in subs THEN [e.insts[i] EXCEPT !.next = now + e.insts[i].dt]
                   ELSE e.insts[i]]
    IN IF (now % 2) \notin binding[c].on THEN e
       ELSE IF old # 0
       THEN [e EXCEPT !.reads[c] = [inst |-> old, out |-> e.insts[old].n]]
       ELSE [insts |-> Append(kept, this) \o lost,
             made  |-> e.made \cup {new},
             owned |-> e.owned \cup subs,
             reads |-> [e.reads EXCEPT ![c] = [inst |-> new, out |-> this.n]]]

\* eval_expr() of the binding: its calls, one after the other.
Evaluation(is, seg) ==
    LET After[c \in 0..Len(binding)] ==
          IF c = 0 THEN [insts |-> is, made |-> {}, owned |-> owned, reads |-> reads]
          ELSE Evaluated(After[c - 1], c, seg)
    IN After[Len(binding)]

-----------------------------------------------------------------------------
(***************************************************************************)
(* Steps                                                                   *)
(***************************************************************************)

\* The process block executes the binding and subscribes the last instance.  If
\* that has stopped in its first tick, nothing is subscribed for it.
Start ==
    /\ ~running /\ driver = 0
    /\ LET e == Evaluation(<<>>, [driver |-> 0, others |-> {}])
           d == Max(e.made)
       IN /\ e.made # {}
          /\ insts' = IF e.insts[d].active
                      THEN [e.insts EXCEPT ![d].next = now + e.insts[d].dt] ELSE e.insts
          /\ driver' = d /\ pool' = 1..d
          /\ owned' = e.owned \cup {d}
          /\ reads' = e.reads
    /\ running' = TRUE
    /\ UNCHANGED <<binding, dur, now>>

Due(i) == insts[i].next # 0 /\ insts[i].next <= now

\* The callback of the segment.  When the duration is over, or the instance was
\* stopped, it ends without a tick; otherwise the instance ticks, then those of
\* the pool that are active and have no subscription, and the binding is
\* evaluated with all of them.
DriverTick ==
    /\ driver # 0 /\ Due(driver)
    /\ LET over   == dur > 0 /\ now - insts[driver].made >= dur
           one    == Ticked(insts, driver)
           others == {i \in pool \ {driver} : insts[i].active}
           all    == AllTicked(one, {i \in others : insts[i].next = 0})
           e      == Evaluation(all, [driver |-> driver, others |-> others])
       IN IF over \/ ~insts[driver].active
          THEN /\ insts' = [Rearmed(insts, driver, FALSE) EXCEPT ![driver].active = FALSE]
               /\ UNCHANGED <<owned, reads>>
          ELSE /\ Len(e.insts) <= MaxInsts
               /\ insts' = Rearmed(e.insts, driver, one[driver].active)
               /\ owned' = e.owned /\ reads' = e.reads
    /\ UNCHANGED <<binding, dur, now, driver, pool, running>>

\* schedule_instance(): the callback of an instance made for an argument.  One
\* that stops itself is dropped when it is due the next time.
SubTick(i) ==
    /\ i # driver /\ Due(i)
    /\ insts' = IF insts[i].active THEN Rearmed(Ticked(insts, i), i, TRUE)
                ELSE Rearmed(insts, i, FALSE)
    /\ UNCHANGED <<binding, dur, now, driver, pool, owned, reads, running>>

\* Bug: only the binding's instance, not those of its arguments.
StopDriver ==
    /\ running
    /\ insts' = [i \in DOMAIN insts |->
                   IF i = driver THEN [insts[i] EXCEPT !.active = FALSE, !.next = 0]
                   ELSE insts[i]]
    /\ owned' = {}
    /\ running' = FALSE
    /\ UNCHANGED <<binding, dur, now, driver, pool, reads>>

\* stop_process(): of the instances that are tracked.
Stop ==
    /\ running
    /\ insts' = [i \in DOMAIN insts |->
                   IF i \in owned THEN [insts[i] EXCEPT !.active = FALSE, !.next = 0]
                   ELSE insts[i]]
    /\ owned' = {}
    /\ running' = FALSE
    /\ UNCHANGED <<binding, dur, now, driver, pool, reads>>

\* Time passes once everything that was due has run.
Advance ==
    /\ now < MaxTime
    /\ ~\E i \in DOMAIN insts : Due(i)
    /\ now' = now + 1
    /\ UNCHANGED <<binding, dur, insts, driver, pool, owned, reads, running>>

Next ==
    \/ Start
    \/ DriverTick
    \/ \E i \in DOMAIN insts : SubTick(i)
    \/ Stop
    \/ Advance

Spec == Init /\ [][Next]_vars

-----------------------------------------------------------------------------
(***************************************************************************)
(* Properties                                                              *)
(***************************************************************************)
Subscribed == {i \in DOMAIN insts : insts[i].next # 0}
MadeFor(c) == {i \in DOMAIN insts : insts[i].call = c}

\* The variables keep their types; what is subscribed was made by the start of
\* the process or for an argument, and is never passed over.
TypeOK ==
    /\ now \in 0..MaxTime /\ driver \in 0..Len(insts) /\ pool = 1..driver
    /\ \A i \in DOMAIN insts :
          /\ insts[i].call \in Calls /\ insts[i].dt > 0 /\ insts[i].made \in 0..now
          /\ insts[i].subs \subseteq 1..(i - 1)
    /\ \A c \in Calls : reads[c].inst \in 0..Len(insts)
    /\ owned \subseteq DOMAIN insts
    /\ \A i \in Subscribed : insts[i].next >= now

\* core.hpp:227 and evaluator.cpp:2660: where the calls of a binding name different
\* functions, a call goes on reading the instance that was made for it first,
\* and no other is made for it, as long as that instance is active and was there
\* when the process started.
EachReadsItsOwn ==
    \A c \in Calls :
        LET own == MadeFor(c) \cap pool
        IN /\ \A d \in Calls \ {c} : binding[d].def # binding[c].def
           /\ own # {} /\ insts[Min(own)].active
           => reads[c].inst = Min(own)

\* core.hpp:273: what an instance with a subscription counts as its age is the
\* time since it was made, also when its interval follows an argument.
AgeIsElapsed ==
    \A i \in Subscribed : insts[i].active => insts[i].made + insts[i].age = insts[i].next

\* evaluator.cpp:2925: once a process is stopped nothing of it is due any more,
\* neither what drove it nor what was made for an argument, at the start or by
\* a later evaluation.
StopIsQuiet == TypeOK /\ (~running => Subscribed = {})

=============================================================================
