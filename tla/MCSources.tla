------------------------------ MODULE MCSources ------------------------------
(***************************************************************************)
(* The functions that the instances of Execution, Optimized, Pipeline and  *)
(* IrOpt compile. Their parameters are s (an array), b (a boolean), a (an  *)
(* integer), p (a Pair) and m (a map); they are methods of a contract      *)
(* Token with a field of four letters and a map of three.                  *)
(***************************************************************************)
EXTENDS Ast

MCNames == <<"a", "b", "k", "m", "p", "q", "s", "v", "x", "y", "z">>
MCStructs == [Pair |-> <<"u", "v">>]

a == Ident("a")
b == Ident("b")
s == Ident("s")
m == Ident("m")
x == Ident("x")
y == Ident("y")
zero == IntLit(0)
one == IntLit(1)
has(p) == Call("has", <<p, b>>)
get(e) == Call("get", <<e>>)
log(e) == ExprStmt(Call("log", <<e>>))
Set(z, e) == ExprStmt(Assign(z, e))

Function(void, body) ==
  Fn("f", <<"s", "b", "a", "p", "m">>, [z \in {"p"} |-> "Pair"], void, body)
IntFn(body) == Function(FALSE, body \o <<Return(a)>>)
VoidFn(body) == Function(TRUE, body)
EachOf(body) == ForArray("x", s, body)

\* Expressions of every kind, over a.
IntExprs ==
  {one, Bin("ADD", a, one), Assign("a", Bin("ADD", a, a)), AddAssign("a", one),
   get(Bin("ADD", a, one)), AddAssign("a", get(a)), Index(s, a),
   Index(ArrayLit(<<a, get(a)>>), one), AddIndex(s, zero, get(a)),
   Call("sum", <<get(a), AddAssign("a", one)>>),
   Bin("ADD", Member("p", "u"), Member("p", "v"))}
BoolExprs ==
  {b, Bin("LT", a, one), Bin("EQUAL", a, one), AndExpr(b, has(a)),
   OrExpr(b, has(a)), AndExpr(OrExpr(has(a), b), has(one)),
   OrExpr(AndExpr(b, has(a)), Bin("LT", a, one))}

Statements ==
  { <<ExprStmt(e)>> : e \in IntExprs }
  \cup { <<log(e)>> : e \in IntExprs }
  \cup { <<Var("y", e), Set("a", Bin("ADD", y, a))>> : e \in IntExprs }
  \cup { <<If(e, <<Return(one)>>)>> : e \in BoolExprs }
  \cup { <<IfElse(e, <<Set("a", zero)>>, <<log(a), Set("a", one)>>)>> :
           e \in BoolExprs }
  \cup { <<Var("y", e), While(AndExpr(y, Bin("LT", a, IntLit(3))),
                              <<ExprStmt(AddAssign("a", one)), log(a)>>)>> :
           e \in BoolExprs }

Plain ==
  { IntFn(st) : st \in Statements }
  \cup { IntFn(<<EachOf(<<log(x)>> \o st)>>) : st \in Statements }
  \cup { VoidFn(<<EachOf(<<If(b, <<EmitEvent(4, <<x>>), Return(None)>>),
                           Set("a", x)>>)>>),
         VoidFn(<<log(StrLit(3)), Return(None)>>),
         IntFn(<<Block(<<Var("y", None), Set("y", a), Set("a", y)>>),
                 Var("y", BoolLit(TRUE)), IfElse(y, <<>>, <<Return(one)>>)>>),
         IntFn(<<EachOf(<<EachOf(<<log(x)>>), log(x)>>)>>),
         IntFn(<<EachOf(<<ExprStmt(SetIndex(s, IntLit(5), get(x)))>>)>>),
         IntFn(<<EachOf(<<Var("q", StructLit("Pair", <<x, x>>)),
                          Return(Member("q", "u"))>>)>>) }

\* Fields, built-in operations, system calls and calls of other methods.
field == SelfGet(4)
item(k) == MapGet(3, k)
OtherExprs ==
  {field, SelfSet(4, get(a)), SelfAdd(4, get(a)), item(a), MapAdd(3, a, get(one)),
   MapAdd(3, a, field), MapHas(3, a), IsNull(item(a), TRUE), IsNull(field, FALSE),
   Unary("NEGATE", a), Cast(a, "Boolean"), SelfCall("inc", <<a>>),
   Runtime("getTime", <<>>), Runtime("call", <<a, get(a), s>>), Index(m, a),
   Builtin("SIZE", <<s>>), Builtin("SIZE", <<Builtin("VALUES", <<m>>)>>),
   Builtin("HASKEY", <<m, a>>), Builtin("POPITEM", <<s>>),
   Builtin("WITHIN", <<a, zero, one>>), Builtin("MAX", <<get(a), a>>),
   Bin("SUB", Bin("MUL", a, IntLit(3)), Bin("DIV", one, a))}

Silence ==
  {ExprStmt(MapRemove(3, a)), ExprStmt(Runtime("burnGas", <<a>>)),
   ExprStmt(Builtin("ASSERTMSG", <<b, StrLit(2)>>)),
   If(b, <<ExprStmt(Builtin("ABORTMSG", <<StrLit(2)>>))>>)}

Other ==
  { IntFn(<<EachOf(<<log(e), ExprStmt(e)>>)>>) : e \in OtherExprs }
  \cup { IntFn(<<EachOf(<<t, log(item(one))>>)>>) : t \in Silence }
  \cup { IntFn(<<ForMap("k", "v", m,
                   <<log(Ident("v")), t, Set("a", Ident("k"))>>)>>) : t \in Silence }

EveryKind == Plain \cup Other

\* A conditional return at the end of a void function. The IR pipeline gives
\* up on the loop: a variable that the body reads and assigns is a parameter
\* of the loop's header alone.
ConditionalReturn ==
  {VoidFn(<<While(Bin("LT", a, one), <<log(a), Set("a", Bin("ADD", a, one))>>),
            If(b, <<Return(None)>>)>>)}

-----------------------------------------------------------------------------
(* For the IR pipeline. log returns a value there: a statement that calls a *)
(* function without one always fails in it. *)

\* Expressions whose effects come in one order only, and that cannot fail
\* without being used.
Orderly ==
  IntExprs \ {Index(s, a), AddIndex(s, zero, get(a)),
              Call("sum", <<get(a), AddAssign("a", one)>>)}
AllOrderly == Orderly \cup {Index(s, a)}

\* Straight code.
Sequences ==
  { IntFn(<<ExprStmt(e)>>) : e \in Orderly }
  \cup { IntFn(<<log(e), log(e)>>) : e \in AllOrderly }
  \cup { IntFn(<<Var("y", e), Set("a", Bin("ADD", y, a))>>) : e \in AllOrderly }
  \cup { IntFn(<<log(e), ExprStmt(e)>>) : e \in OtherExprs }
  \cup { IntFn(<<t, log(item(one))>>) : t \in Silence }

\* Literals, among them one that two spellings share.
Literals == {IntLit(3), zero, HexLit(3)}
Foldable ==
  { IntFn(<<log(Bin(op, l, IntLit(2))), Var("y", Bin(op, IntLit(5), l))>>) :
      op \in {"ADD", "SUB", "MUL", "LT", "EQUAL", "NOTEQUAL"}, l \in Literals }
  \cup { IntFn(<<log(Unary("NOT", Bin("EQUAL", BoolLit(t), BoolLit(FALSE)))),
                 log(Unary("NEGATE", l)), log(Bin("DIV", l, IntLit(2)))>>) :
           t \in BOOLEAN, l \in Literals }
  \cup { IntFn(<<log(Unary("NOT", BoolLit(TRUE))), log(IsNull(NullLit, TRUE)),
                 log(Bin("ADD", IntLit(2000), IntLit(40)))>>) }

\* Stores to items, to the fields of a struct and to maps.
pair == StructLit("Pair", <<a, a>>)
q == Ident("q")
Storing ==
  { IntFn(<<ExprStmt(SetIndex(s, zero, get(a))), log(Index(s, zero))>>),
    IntFn(<<ExprStmt(SetMember("p", "u", get(a))), log(Member("p", "u"))>>),
    IntFn(<<ExprStmt(AddMember("p", "v", get(a))), log(Member("p", "u"))>>),
    IntFn(<<Var("q", pair), ExprStmt(SetMember("q", "u", one)),
            Set("a", Member("q", "v"))>>),
    IntFn(<<Var("q", pair), log(MethodCall("q", "norm", <<Member("q", "u")>>))>>),
    IntFn(<<Var("q", MapLit(<<one, a, a, IntLit(2)>>)), log(Index(q, one))>>),
    IntFn(<<ExprStmt(MapSet(3, one, get(a))), log(item(one)),
            ExprStmt(MapAdd(3, a, one)), Set("a", item(one))>>),
    IntFn(<<Var("q", SelfSet(4, a)), log(q), log(Builtin("SIZE", <<s>>))>>),
    IntFn(<<Var("q", Builtin("POPITEM", <<s>>)), log(Bin("ADD", q, q))>>),
    IntFn(<<Var("q", Call("get", <<a>>)), Return(Bin("ADD", q, q))>>),
    VoidFn(<<EmitEvent(4, <<get(a)>>), If(b, <<Return(None)>>), log(a)>>) }

\* Branches and loops.
Branching ==
  { IntFn(<<If(e, <<Return(one)>>)>>) : e \in BoolExprs }
  \cup { IntFn(<<IfElse(e, <<log(one)>>, <<log(a)>>), log(a)>>) : e \in BoolExprs }
  \cup { IntFn(<<Var("y", e), If(y, <<Return(zero)>>), log(y)>>) : e \in BoolExprs }
  \cup { IntFn(<<Var("y", Bin("ADD", a, one)), IfElse(b, <<Return(y)>>, <<log(y)>>),
                 log(Bin("ADD", y, y))>>),
         IntFn(<<Var("y", get(a)), If(Bin("LT", y, IntLit(2)), <<Return(y)>>)>>),
         Function(FALSE, <<Return(AndExpr(has(a), b))>>),
         Function(FALSE, <<Return(OrExpr(has(one), has(zero)))>>),
         IntFn(<<If(b, <<If(has(a), <<Return(zero)>>)>>)>>),
         IntFn(<<If(b, <<log(Bin("MUL", a, a)), Return(Bin("MUL", a, a))>>)>>),
         Function(TRUE, <<While(Bin("LT", a, IntLit(2)),
                                <<Set("a", get(IntLit(2))), log(b)>>)>>),
         Function(TRUE, <<While(Bin("LT", a, one), <<Set("a", one), log(Index(s, zero))>>),
                          log(b)>>),
         IntFn(<<While(Bin("LT", a, IntLit(3)), <<ExprStmt(AddAssign("a", one))>>)>>),
         IntFn(<<EachOf(<<log(x), Set("a", x)>>), Block(<<log(a)>>)>>),
         IntFn(<<ForMap("k", "v", m, <<log(Ident("v"))>>), log(a)>>) }

\* What the syntax tree generator has no code for, after the IR pipeline gave
\* up, and a division that stops the compiler.
Hopeless ==
  { IntFn(<<If(b, <<If(has(a), <<Return(zero)>>)>>),
            ExprStmt(SetMember("p", "u", one))>>),
    IntFn(<<Var("y", Bin("DIV", one, zero))>>) }

WellBehaved == Sequences \cup Foldable \cup Storing \cup Branching \cup Hopeless

\* An item that is read before and after a store to it.
ReadAgain ==
  { IntFn(<<ExprStmt(AddIndex(s, zero, one)), log(Index(s, zero))>>),
    IntFn(<<ExprStmt(AddMember("p", "v", get(a))), log(Member("p", "v"))>>) }

\* Two variables that both branches of an if assign.
TwoJoined ==
  { Function(FALSE, <<Var("x", zero), Var("y", zero),
                      IfElse(b, <<Set("x", one), Set("y", IntLit(2))>>,
                                <<Set("x", IntLit(3)), Set("y", IntLit(4))>>),
                      Return(x)>>) }
=============================================================================
