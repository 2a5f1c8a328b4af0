--------------------------------- MODULE Vm ---------------------------------
(***************************************************************************)
(* The bytecode compiler and machine (src/src/vm/), with the evaluation of  *)
(* expressions they stand in for (evaluator.cpp: eval_expr,                 *)
(* eval_user_function).                                                     *)
(*                                                                          *)
(* A function is compiled when it is defined, and again when a reload       *)
(* defines it; so are the reactions of a process when it starts or is       *)
(* reloaded.  What the compiler does not know is left to the walk over the  *)
(* syntax tree.  The two call each other: compiled code calls functions     *)
(* that were not compiled through the evaluator, with the machine's stack   *)
(* and frames as they are.                                                  *)
(*                                                                          *)
(* A call is one step; inside it the operators below pass the state of the  *)
(* machine along as the code's calls do.  Values are integers, operators a  *)
(* few that stand for their kinds: "&" is one that the compiler does not    *)
(* know.  Builtins are operators too.                                       *)
(***************************************************************************)
EXTENDS Integers, Sequences, SequencesExt, FiniteSets

CONSTANTS
    Names,      \* the functions
    Texts,      \* per function: the definitions that are evaluated for it
    Reactions,  \* the reactions that a process may have
    Var,        \* the variable that they assign
    Const,      \* a global constant, and the values it is given
    ConstValues,
    Args,       \* the arguments of calls
    Nil,        \* the value nil
    Undefined,  \* what a read past the end of the stack gives: anything
    MaxStack,   \* bound: what calls may leave on the stack
    MaxVar      \* bound: values of the variable

\* Expressions.  A definition is a sequence of parameters, each with a default
\* or Nil, and a body.
Num(n)       == [op |-> "num", n |-> n]
Ref(x)       == [op |-> "var", x |-> x]
Bin(o, l, r) == [op |-> o, l |-> l, r |-> r]
Sel(c, opts) == [op |-> "sel", c |-> c, opts |-> opts]
Let(x, e, b) == [op |-> "let", x |-> x, e |-> e, b |-> b]
Call(f, as)  == [op |-> "call", f |-> f, as |-> as]
Def(ps, b)   == [ps |-> ps, b |-> b]

Compilable == {"+", "*", "<", "%"}
Operators  == Compilable \cup {"&"}

VARIABLES
    defs,    \* function_defs_
    chunks,  \* vm.chunks_
    env,     \* env_ at global scope: the constant and the variable
    rxn,     \* the reaction of the process, and its chunk or <<>>
    stack,   \* vm.stack_
    frames,  \* vm.frames_
    active   \* vm.active_

vars == <<defs, chunks, env, rxn, stack, frames, active>>

NoDefs == [f \in {} |-> Nil]

Init ==
    /\ defs = NoDefs /\ chunks = NoDefs
    /\ env = [x \in {Var, Const} |-> 0]
    /\ rxn = [e |-> Num(0), chunk |-> <<>>]
    /\ stack = <<>> /\ frames = <<>> /\ active = FALSE

-----------------------------------------------------------------------------
(***************************************************************************)
(* Values                                                                  *)
(***************************************************************************)
AsNumber(v) == IF v = Nil THEN 0 ELSE v

Apply(o, a, b) ==
    IF Undefined \in {a, b} THEN Undefined
    ELSE LET m == AsNumber(a)
             n == AsNumber(b)
         IN CASE o = "+" -> m + n
              [] o = "*" -> m * n
              [] o = "<" -> IF m < n THEN 1 ELSE 0
              [] o = "==" -> IF m = n THEN 1 ELSE 0
              [] o = "%" -> IF n = 0 THEN 0 ELSE m % n
              [] o = "&" -> m % 2

With(fun, x, v) == [y \in DOMAIN fun \cup {x} |-> IF y = x THEN v ELSE fun[y]]

-----------------------------------------------------------------------------
(***************************************************************************)
(* The compiler (vm/compiler.cpp)                                          *)
(*                                                                          *)
(* c.slots are the places of parameters and of the variables of blocks,     *)
(* c.next is the next free one.  A jump counts from the instruction after   *)
(* it.                                                                      *)
(***************************************************************************)
Emit(c, op, a) == [c EXCEPT !.code = Append(@, [op |-> op, a |-> a, n |-> 0])]
Fail(c)        == [c EXCEPT !.ok = FALSE]

\* Bug: a jump that counts from itself.
OverItself(c, op, d, k) ==
    LET body == SubSeq(d.code, Len(c.code) + 1, Len(d.code))
    IN [d EXCEPT !.code = Emit(c, op, Len(body) + k - 1).code \o body]

\* emit_jump() over what was compiled into d from c on, to k instructions after it.
Over(c, op, d, k) ==
    LET body == SubSeq(d.code, Len(c.code) + 1, Len(d.code))
    IN [d EXCEPT !.code = Emit(c, op, Len(body) + k).code \o body]

RECURSIVE CompileExpr(_, _)

CompileAll(es, c) == FoldLeft(LAMBDA d, e : CompileExpr(e, d), c, es)

\* N = 2: the second option when the condition is truthy, else the first.
CompilePair(opts, c) ==
    LET second == CompileExpr(opts[2], c)
        both   == Over(c, "JUMP_IF_FALSY", second, 1)
    IN Over(both, "JUMP", CompileExpr(opts[1], both), 0)

\* N > 2: from the last option back, option i guarded by cond_slot = i.
RECURSIVE CompileChain(_, _, _, _)
CompileChain(opts, i, slot, c) ==
    IF i = Len(opts) THEN CompileExpr(opts[i], c)
    ELSE LET test == Emit(Emit(Emit(c, "LOAD_LOCAL", slot), "LOAD_CONST", i - 1), "==", 0)
             this == Over(test, "JUMP_IF_FALSY", CompileExpr(opts[i], test), 1)
         IN Over(this, "JUMP", CompileChain(opts, i + 1, slot, this), 0)

\* The defaults of parameters that are not given are compiled at the call.
CompileCall(e, c) ==
    LET ps    == c.defs[e.f].ps
        given == CompileAll(e.as, c)
        rest  == FoldLeft(LAMBDA d, p : IF p.default = Nil THEN Emit(d, "LOAD_CONST", Nil)
                                        ELSE CompileExpr(p.default, d),
                          given, SubSeq(ps, Len(e.as) + 1, Len(ps)))
        argc  == IF Len(e.as) > Len(ps) THEN Len(e.as) ELSE Len(ps)
    IN IF e.f \notin DOMAIN c.defs THEN Fail(c)
       ELSE [rest EXCEPT !.code = Append(@, [op |-> "CALL", a |-> e.f, n |-> argc])]

CompileExpr(e, c) ==
    IF ~c.ok THEN c
    ELSE CASE e.op = "num" -> Emit(c, "LOAD_CONST", e.n)
           [] e.op = "var" ->
                IF e.x \in DOMAIN c.slots THEN Emit(c, "LOAD_LOCAL", c.slots[e.x])
                ELSE IF c.react THEN Emit(c, "LOAD_GLOBAL", e.x)
                ELSE IF e.x \in DOMAIN env THEN Emit(c, "LOAD_CONST", env[e.x])
                ELSE Fail(c)
           [] e.op \in Compilable -> Emit(CompileAll(<<e.l, e.r>>, c), e.op, 0)
           [] e.op = "&" -> Fail(c)
           [] e.op = "sel" ->
                IF Len(e.opts) = 2 THEN CompilePair(e.opts, CompileExpr(e.c, c))
                ELSE CompileChain(e.opts, 1, c.next,
                       Emit(CompileExpr(e.c, [c EXCEPT !.next = @ + 1]), "STORE_LOCAL", c.next))
           [] e.op = "let" ->
                LET d    == CompileExpr(e.e, c)
                    slot == IF e.x \in DOMAIN d.slots THEN d.slots[e.x] ELSE d.next
                IN CompileExpr(e.b, Emit([d EXCEPT !.slots = With(@, e.x, slot),
                                                   !.next = IF slot = @ THEN @ + 1 ELSE @],
                                         "STORE_LOCAL", slot))
           [] e.op = "call" -> CompileCall(e, c)

\* The parameters take the first slots, from 1 on; ds are the definitions there are.
Compiler(ps, ds, react) ==
    [ok |-> TRUE, code |-> <<>>, defs |-> ds, react |-> react, next |-> Len(ps) + 1,
     slots |-> [x \in {ps[i].x : i \in DOMAIN ps} |-> CHOOSE i \in DOMAIN ps : ps[i].x = x]]

\* compile(), <<>> when it fails.
Compiled(d, ds) ==
    LET c == CompileExpr(d.b, Compiler(d.ps, ds, FALSE))
    IN IF c.ok THEN [params |-> Len(d.ps), locals |-> c.next - 1, code |-> Emit(c, "RETURN", 0).code]
       ELSE <<>>

\* Bug: no slots for the variables of blocks.
CompiledReactionBare(e) ==
    LET c == CompileExpr(e, Compiler(<<>>, defs, TRUE))
    IN IF c.ok THEN [params |-> 0, locals |-> 0, code |-> Emit(c, "STORE_GLOBAL", Var).code]
       ELSE <<>>

\* compile_reaction_list() of one assignment.
CompiledReaction(e) ==
    LET c == CompileExpr(e, Compiler(<<>>, defs, TRUE))
    IN IF c.ok THEN [params |-> 0, locals |-> c.next - 1, code |-> Emit(c, "STORE_GLOBAL", Var).code]
       ELSE <<>>

-----------------------------------------------------------------------------
(***************************************************************************)
(* Evaluation.  m is the state that calls share: the machine, the scopes of *)
(* the evaluator as one function, and which functions have chunks.          *)
(* Everything below returns a value and the state after it.                 *)
(***************************************************************************)
Ret(v, m) == [v |-> v, m |-> m]

\* The value r with the scopes as they were in m; pushed; assigned to the variable.
Left(r, m)   == Ret(r.v, [r.m EXCEPT !.env = m.env])
Pushed(s, r) == Ret(Append(s, r.v), r.m)
Assigned(r)  == [r.m EXCEPT !.env = With(@, Var, r.v)]

Machine == [chunks |-> chunks, stack |-> stack, frames |-> frames, active |-> active,
            env |-> env, wrapped |-> FALSE]

RECURSIVE Eval(_, _), UserFunction(_, _, _), Run(_, _, _), Loop(_)

EvalAll(es, m) ==
    FoldLeft(LAMBDA r, e : Pushed(r.v, Eval(e, r.m)), Ret(<<>>, m), es)

\* eval_expr()
Eval(e, m) ==
    CASE e.op = "num" -> Ret(e.n, m)
      [] e.op = "var" -> Ret(IF e.x \in DOMAIN m.env THEN m.env[e.x] ELSE 0, m)
      [] e.op \in Operators ->
           LET r == EvalAll(<<e.l, e.r>>, m) IN Ret(Apply(e.op, r.v[1], r.v[2]), r.m)
      [] e.op = "sel" ->
           LET c == Eval(e.c, m)
               i == AsNumber(c.v)
               n == Len(e.opts)
           IN IF c.v = Undefined THEN c
              ELSE Eval(e.opts[(i % n) + 1], [c.m EXCEPT !.wrapped = @ \/ i \notin 0..(n - 1)])
      [] e.op = "let" ->
           LET d == Eval(e.e, m)
           IN Left(Eval(e.b, [d.m EXCEPT !.env = With(@, e.x, d.v)]), m)
      [] e.op = "call" -> LET r == EvalAll(e.as, m) IN UserFunction(e.f, r.v, r.m)

\* The scope of a call: arguments, then defaults, which see the parameters before.
Bound(ps, as, m) ==
    FoldLeft(LAMBDA k, i :
               LET d == IF i <= Len(as) THEN Ret(as[i], k)
                        ELSE IF ps[i].default = Nil THEN Ret(0, k) ELSE Eval(ps[i].default, k)
               IN [d.m EXCEPT !.env = With(@, ps[i].x, d.v)],
             m, [i \in DOMAIN ps |-> i])

\* eval_user_function(): compiled, unless the machine runs.
UserFunction(f, as, m) ==
    IF f \notin DOMAIN defs THEN Ret(0, m)
    ELSE IF ~m.active /\ f \in DOMAIN m.chunks THEN Run(f, as, m)
    ELSE Left(Eval(defs[f].b, Bound(defs[f].ps, as, m)), m)

Pop(s, n) == SubSeq(s, 1, Len(s) - n)
Top(s, n) == SubSeq(s, Len(s) - n + 1, Len(s))
At(s, i)  == IF i \in DOMAIN s THEN s[i] ELSE Undefined

\* The slots of a frame whose arguments lie on the stack from base + 1 on.
Framed(s, base, chunk) ==
    IF chunk.locals > chunk.params
    THEN [i \in 1..(base + chunk.locals) |-> IF i <= Len(s) THEN s[i] ELSE Nil]
    ELSE s

Frame(f, base) == [fn |-> f, ip |-> 1, base |-> base]

\* run()
Run(f, as, m) ==
    LET base == Len(m.stack)
    IN Loop([m EXCEPT !.active = TRUE,
                      !.stack  = Framed(@ \o as, base, m.chunks[f]),
                      !.frames = Append(@, Frame(f, base))])

\* What run() and run_reactions() have in common: the stack after an instruction
\* that is neither a call nor a return nor a jump.
Executed(ins, s, base) ==
    CASE ins.op = "LOAD_CONST"  -> Append(s, ins.a)
      [] ins.op = "LOAD_LOCAL"  -> Append(s, At(s, base + ins.a))
      [] ins.op = "STORE_LOCAL" -> [Pop(s, 1) EXCEPT ![base + ins.a] = Last(s)]
      [] OTHER                  -> Append(Pop(s, 2), Apply(ins.op, s[Len(s) - 1], Last(s)))

Jumps(ins, s) == ins.op = "JUMP" \/ (ins.op = "JUMP_IF_FALSY" /\ Last(s) \in {0, Nil})

\* The CALL of a function without a chunk: the evaluator may use the machine.
Resumed(r) == [r.m EXCEPT !.active = TRUE, !.stack = Append(@, r.v)]

Fallback(f, as, m) == Resumed(UserFunction(f, as, [m EXCEPT !.active = FALSE]))

\* The dispatch loop of run(), which ends when there are no frames.
Loop(m) ==
    IF m.frames = <<>> THEN Ret(Nil, [m EXCEPT !.active = FALSE])
    ELSE
    LET k    == Len(m.frames)
        top  == m.frames[k]
        ins  == m.chunks[top.fn].code[top.ip]
        s    == m.stack
        next == [m EXCEPT !.frames[k].ip = @ + 1]
    IN CASE ins.op = "CALL" /\ ins.a \in DOMAIN m.chunks ->
              LET base == Len(s) - ins.n
              IN Loop([next EXCEPT !.stack  = Framed(s, base, m.chunks[ins.a]),
                                   !.frames = Append(@, Frame(ins.a, base))])
         [] ins.op = "CALL" /\ ins.a \notin DOMAIN m.chunks ->
              Loop(Fallback(ins.a, Top(s, ins.n), [next EXCEPT !.stack = Pop(s, ins.n)]))
         [] ins.op = "RETURN" ->
              LET left == [m EXCEPT !.stack = SubSeq(s, 1, top.base), !.frames = Pop(@, 1)]
              IN IF k = 1 THEN Ret(Last(s), [left EXCEPT !.active = FALSE])
                 ELSE Loop([left EXCEPT !.stack = Append(@, Last(s))])
         [] ins.op \in {"JUMP", "JUMP_IF_FALSY"} ->
              Loop([next EXCEPT !.stack = IF ins.op = "JUMP" THEN s ELSE Pop(s, 1),
                                !.frames[k].ip = IF Jumps(ins, s) THEN @ + ins.a ELSE @])
         [] OTHER -> Loop([next EXCEPT !.stack = Executed(ins, s, top.base)])

\* run_reactions(): a stack of its own; a call enters the machine or the evaluator.
RECURSIVE Reacted(_, _, _, _)
Continued(chunk, ip, r) == Reacted(chunk, ip, r.v, r.m)

Reacted(chunk, ip, s, m) ==
    IF ip > Len(chunk.code) THEN m
    ELSE
    LET ins == chunk.code[ip]
        as  == Top(s, ins.n)
    IN CASE ins.op = "CALL" ->
              Continued(chunk, ip + 1,
                        Pushed(Pop(s, ins.n), IF ins.a \in DOMAIN m.chunks THEN Run(ins.a, as, m)
                                              ELSE UserFunction(ins.a, as, m)))
         [] ins.op = "LOAD_GLOBAL" ->
              Reacted(chunk, ip + 1,
                      Append(s, IF ins.a \in DOMAIN m.env THEN m.env[ins.a] ELSE Nil), m)
         [] ins.op = "STORE_GLOBAL" ->
              Reacted(chunk, ip + 1, Pop(s, 1), [m EXCEPT !.env = With(@, ins.a, Last(s))])
         [] ins.op \in {"JUMP", "JUMP_IF_FALSY"} ->
              Reacted(chunk, ip + 1 + IF Jumps(ins, s) THEN ins.a ELSE 0,
                      IF ins.op = "JUMP" THEN s ELSE Pop(s, 1), m)
         [] OTHER -> Reacted(chunk, ip + 1, Executed(ins, s, 0), m)

\* The reaction of the process, compiled or walked.
Reaction(chunk, e, m) ==
    IF chunk # <<>> THEN Reacted(chunk, 1, [i \in 1..chunk.locals |-> Nil], m)
    ELSE Assigned(Eval(e, m))

-----------------------------------------------------------------------------
(***************************************************************************)
(* Steps                                                                   *)
(***************************************************************************)

\* A function is defined, by the program or by a reload: with the definitions that
\* there are then, this one included, it is compiled.
Define(f, d) ==
    /\ defs' = With(defs, f, d)
    /\ chunks' = LET c == Compiled(d, defs')
                 IN IF c = <<>> THEN chunks ELSE With(chunks, f, c)
    /\ UNCHANGED <<env, rxn, stack, frames, active>>

SetConst(v) ==
    /\ env' = With(env, Const, v)
    /\ UNCHANGED <<defs, chunks, rxn, stack, frames, active>>

\* try_compile_reactions(), when the process starts or is reloaded.
SetReaction(e) ==
    /\ rxn' = [e |-> e, chunk |-> CompiledReaction(e)]
    /\ UNCHANGED <<defs, chunks, env, stack, frames, active>>

Becomes(m) ==
    /\ Len(m.stack) <= MaxStack
    /\ stack' = m.stack /\ frames' = m.frames /\ active' = m.active

\* A call by what is not compiled.
CallFrom(f, as) ==
    /\ Becomes(UserFunction(f, as, Machine).m)
    /\ UNCHANGED <<defs, chunks, env, rxn>>

BecomesAll(m) ==
    /\ Becomes(m)
    /\ env' = m.env
    /\ m.env[Var] \in 0..MaxVar

Tick ==
    /\ BecomesAll(Reaction(rxn.chunk, rxn.e, Machine))
    /\ UNCHANGED <<defs, chunks, rxn>>

Arguments(f) == [DOMAIN defs[f].ps -> Args]

Next ==
    \/ \E f \in Names : \E d \in Texts[f] : Define(f, d)
    \/ \E v \in ConstValues : SetConst(v)
    \/ \E e \in Reactions : SetReaction(e)
    \/ \E f \in DOMAIN defs : \E as \in Arguments(f) : CallFrom(f, as)
    \/ Tick

Spec == Init /\ [][Next]_vars

-----------------------------------------------------------------------------
(***************************************************************************)
(* Properties                                                              *)
(***************************************************************************)
RECURSIVE Parts(_)
Parts(e) ==
    {e} \cup CASE e.op \in {"num", "var"} -> {}
               [] e.op \in Operators      -> Parts(e.l) \cup Parts(e.r)
               [] e.op = "sel"  -> Parts(e.c) \cup UNION {Parts(e.opts[i]) : i \in DOMAIN e.opts}
               [] e.op = "let"  -> Parts(e.e) \cup Parts(e.b)
               [] e.op = "call" -> UNION {Parts(e.as[i]) : i \in DOMAIN e.as}

CallsIn(e) == {c \in Parts(e) : c.op = "call" /\ c.f \in DOMAIN defs}

\* The functions that an expression calls, directly or through others.
Reach(e) ==
    LET More(S) == S \cup UNION {{c.f : c \in CallsIn(defs[g].b)} : g \in S}
    IN FoldLeft(LAMBDA S, i : More(S), {c.f : c \in CallsIn(e)}, [i \in 1..Cardinality(Names) |-> i])

\* What compiling it now would give.
Fresh(f) == f \in DOMAIN chunks => chunks[f] = Compiled(defs[f], defs)

\* Compiled code that calls what is not compiled, which calls compiled code.
Reenters(e) ==
    \E c \in Reach(e) \cap DOMAIN chunks : \E u \in Reach(defs[c].b) \ DOMAIN chunks :
        Reach(defs[u].b) \cap DOMAIN chunks # {}

\* A call that leaves out arguments, by what is not compiled.
Omits(e) ==
    \E g \in Reach(e) \ DOMAIN chunks : \E c \in CallsIn(defs[g].b) :
        Len(c.as) < Len(defs[c.f].ps)

Regular(e) == (\A g \in Reach(e) : Fresh(g)) /\ ~Reenters(e) /\ ~Omits(e)

\* The machine without compiled code: all is walked.
Walker == [Machine EXCEPT !.chunks = NoDefs]

\* vm/compiler.hpp:12: a call of compiled code has the value that walking the
\* definitions has, whatever was defined, redefined and called before, unless
\* the chunk of a function it reaches is not that of its definition, the machine
\* is entered twice, arguments are left out or a selection wraps.  Between calls
\* the machine is free and has no frames.  It is stated for texts in which no block
\* assigns a parameter that is read after the block (the compiler gives it the
\* parameter's slot, compiler.cpp:333, the walk a scope that it pops,
\* evaluator.cpp:1291), and no default mentions a parameter (it is compiled among
\* the caller's names, compiler.cpp:252): there the two disagree.
CallsAgree ==
    /\ frames = <<>> /\ ~active
    /\ \A f \in DOMAIN defs : \A as \in Arguments(f) :
        LET e    == Call(f, [i \in DOMAIN as |-> Num(as[i])])
            want == Eval(e, Walker)
        IN Regular(e) /\ ~want.m.wrapped => AsNumber(Eval(e, Machine).v) = AsNumber(want.v)

SameEffect(got, want) ==
    /\ ~want.wrapped => AsNumber(got.env[Var]) = AsNumber(want.env[Var])
    /\ got.stack = stack

\* vm.cpp:24: the compiled reaction leaves in the variables what walking it leaves,
\* under the same conditions, and nothing on the machine's stack.
ReactionsAgree ==
    rxn.chunk # <<>> /\ rxn.chunk = CompiledReaction(rxn.e) /\ Regular(rxn.e) =>
        SameEffect(Reaction(rxn.chunk, rxn.e, Machine), Reaction(<<>>, rxn.e, Walker))

=============================================================================
