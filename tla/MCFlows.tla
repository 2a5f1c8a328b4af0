------------------------------ MODULE MCFlows ------------------------------
(***************************************************************************)
(* Two segments a and b; flows n = [..], f(x) = [..], g(x) = [f(x)..].      *)
(***************************************************************************)
EXTENDS Flows

Reads(kind, comp, flow, trigger) == [kind |-> kind, comp |-> comp, flow |-> flow, by |-> trigger]

MCVars == <<"a", "b">>
N(v)    == Reads("expr", TRUE, "n", v)
As(v)   == Reads("assign", TRUE, "n", v)
On(v)   == Reads("on", FALSE, "n", v)
P(f, v) == Reads("expr", FALSE, f, v)

Block(x, y, s) == [own |-> <<x, y>>, shared |-> s]

\* A compiled segment, a walked one and a shared reaction; a compiled assignment, an
\* on-block and a shared reaction; and a text with fewer sites.
MCTexts ==
    {Block(<<N("a")>>, <<P("f", "b")>>, <<P("g", "a")>>),
     Block(<<As("a")>>, <<On("b")>>, <<N("a")>>),
     Block(<<N("a")>>, <<>>, <<>>)}

MCInner  == [f |-> "", g |-> "f"]
MCLength == [n |-> [x \in {1, 2} |-> <<2, 3>>],
             f |-> [x \in {1, 2} |-> <<2, 2>>],
             g |-> [x \in {1, 2} |-> <<2, 2>>]]
=============================================================================
