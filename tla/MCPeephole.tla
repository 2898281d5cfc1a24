----------------------------- MODULE MCPeephole -----------------------------
(***************************************************************************)
(* Instances of Peephole for TLC.  Most routines are compiled from source  *)
(* by AstCodegen; those of opt.rs's own unit tests reach the patterns that *)
(* only the other code generator emits.                                    *)
(***************************************************************************)
EXTENDS Peephole

CG == INSTANCE AstCodegen WITH Contract <- "T", SlotLimit <- 255, VoidFunctions <- {"log"},
                               Structs <- [t \in {} |-> <<>>]

a == CG!Ident("a")
b == CG!Ident("b")
x == CG!Ident("x")
y == CG!Ident("y")
one == CG!IntLit(1)
has == CG!Call("has", <<b, b>>)
get == CG!Call("get", <<a>>)

\* int f(int[] s, bool b, int a), and expressions of every kind that the
\* patterns can meet.
IntExprs == {one, a, x, CG!Bin("ADD", x, x), CG!Bin("ADD", x, a), get,
             CG!Assign("x", a)}
BoolExprs == {CG!AndExpr(b, b), CG!OrExpr(b, has)}

Inner == { <<CG!Return(e)>> : e \in IntExprs }
         \cup { <<CG!Var("y", e), CG!Return(y)>> : e \in IntExprs }
         \cup { <<CG!Var("y", e), CG!ExprStmt(CG!AddAssign("x", y))>> :
                  e \in IntExprs }
         \cup { <<CG!ExprStmt(CG!Call("log", <<e>>))>> :
                  e \in IntExprs \cup BoolExprs }
         \cup { <<CG!ExprStmt(CG!Call("log", <<x, x, x>>))>>,
                 <<CG!ExprStmt(CG!Call("log", <<b, CG!OrExpr(has, b)>>))>>,
                 <<CG!Var("y", has),
                   CG!While(y, <<CG!ExprStmt(CG!Assign("y", has))>>)>>,
                 <<CG!If(b, <<CG!ExprStmt(CG!Call("log", <<CG!StrLit(100)>>))>>)>>,
                 <<>> }

\* The body of the loop over s.  should_use_ir_pipeline does not look into a
\* for statement, so every one of these functions takes this code generator.
Bodies(inner) ==
  { inner,
    <<CG!If(b, inner)>> \o <<CG!ExprStmt(CG!Assign("x", a))>>,
    <<CG!IfElse(b, inner, <<CG!Return(one)>>)>>,
    <<CG!IfElse(b, inner, <<>>)>>,
    <<CG!While(b, inner)>> }

Sources ==
  { CG!Fn("f", <<"s", "b", "a">>, [x0 \in {} |-> ""], FALSE,
          <<CG!ForArray("x", CG!Ident("s"), body), CG!Return(get)>>) :
      body \in UNION {Bodies(i) : i \in Inner} }

Compiled == {CG!CompileFunction(f) : f \in Sources}

Numbered(s) == [k \in DOMAIN s |-> [s[k] EXCEPT !.id = k]]

\* The inputs of opt.rs's tests that no source above compiles to: DUP then
\* DROP, before a call and near the end, a short jump to the next instruction,
\* and a store and a load near the end.
UnitTests ==
  { [inst |-> Numbered(<<Ins("PUSH", 1), Ins("DUP", 0), Ins("DROP", 0),
                         Jump("CALL_L", 0), Ins("RET", 0)>>),
     patches |-> <<[at |-> 4, sym |-> "get"]>>],
    [inst |-> Numbered(<<Ins("PUSH", 1), Ins("DUP", 0), Ins("DROP", 0),
                         Ins("PUSH", 2)>>),
     patches |-> <<>>],
    [inst |-> Numbered(<<Ins("PUSH", 0), Jump("JMP", 2), Ins("PUSH", 2),
                         Ins("RET", 0)>>),
     patches |-> <<>>],
    [inst |-> Numbered(<<Jump("CALL_L", 0), Ins("STLOC", 4), Ins("LDLOC", 4),
                         Ins("PUSH", 5), Ins("EQUAL", 0)>>),
     patches |-> <<[at |-> 1, sym |-> "get"]>>] }

MCSymbols == {"get", "has", "log"}
MCEmitted ==
  { [inst |-> c.code, patches |-> c.calls] : c \in {d \in Compiled : d.ok} }
  \cup UnitTests
=============================================================================
