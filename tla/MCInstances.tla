---------------------------- MODULE MCInstances ----------------------------
(***************************************************************************)
(* The bindings of the runs: x = a(); print(a(), b()); print(s(), b());    *)
(* x = m(dt = l()); print(m(dt = l()), b()); x = t ? a() ; b(); a() + a(). *)
(***************************************************************************)
EXTENDS Instances

Plain(f, dt)      == [def |-> f, into |-> 0, dt |-> dt, on |-> Parity]
Inline(f, dt, at) == [def |-> f, into |-> at, dt |-> dt, on |-> Parity]
Side(f, dt, p)    == [def |-> f, into |-> 0, dt |-> dt, on |-> {p}]

MCBindings ==
    {<<Plain("a", 1)>>,
     <<Plain("a", 2), Plain("b", 1)>>,
     <<Plain("s", 1), Plain("b", 2)>>,
     <<Inline("l", 1, 2), Plain("m", 1)>>,
     <<Inline("l", 2, 2), Plain("m", 1), Plain("b", 2)>>,
     <<Inline("l", 1, 3), Plain("a", 1), Plain("m", 1)>>,
     <<Side("a", 1, 0), Side("b", 2, 1)>>,
     <<Plain("b", 1), Plain("b", 2)>>}

\* a and m stop themselves later, l somewhat earlier, and s in its first tick.
MCStopAt   == [a |-> 3, b |-> 0, l |-> 4, m |-> 5, s |-> 1]
MCHasInit  == {"a", "l"}
MCInterval == [n \in 0..20 |-> 1 + (n % 2)]
=============================================================================
