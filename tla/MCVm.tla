-------------------------------- MODULE MCVm --------------------------------
(***************************************************************************)
(* Three functions that call one another, for TLC.                         *)
(***************************************************************************)
EXTENDS Vm

P(x)    == [x |-> x, default |-> Nil]
O(x, e) == [x |-> x, default |-> e]

x == Ref("x")
y == Ref("y")

\* f(x) = x + k; f(x) = x & 1; f(x, y = k) = x ? y ; 4 ; x + y
FTexts == {Def(<<P("x")>>, Bin("+", x, Ref("k"))),
           Def(<<P("x")>>, Bin("&", x, Num(1))),
           Def(<<P("x"), O("y", Ref("k"))>>, Sel(x, <<y, Num(4), Bin("+", x, y)>>))}

\* g(x) = { t = f(x); t < 3 ? t ; t * t }; g(x) = f(x) & f(1)
GTexts == {Def(<<P("x")>>, Let("t", Call("f", <<x>>),
                               Sel(Bin("<", Ref("t"), Num(3)), <<Ref("t"), Bin("*", Ref("t"), Ref("t"))>>))),
           Def(<<P("x")>>, Bin("&", Call("f", <<x>>), Call("f", <<Num(1)>>)))}

\* h(x, y) = g(x) + f(y); h(x, y = 2) = (x % 3) ? y ; g(y) ; { x = g(x); x }
HTexts == {Def(<<P("x"), P("y")>>, Bin("+", Call("g", <<x>>), Call("f", <<y>>))),
           Def(<<P("x"), O("y", Num(2))>>,
               Sel(Bin("%", x, Num(3)),
                   <<y, Call("g", <<y>>), Let("x", Call("g", <<x>>), x)>>))}

MCNames == {"f", "g", "h"}
MCTexts == [f |-> FTexts, g |-> GTexts, h |-> HTexts]

\* v = h(v); v = v ? k ; g(v) ; (v < k) ? 0 ; 1
MCReactions == {Call("h", <<Ref("v")>>),
                Sel(Ref("v"), <<Ref("k"), Call("g", <<Ref("v")>>),
                                Sel(Bin("<", Ref("v"), Ref("k")), <<Num(0), Num(1)>>)>>)}
=============================================================================
