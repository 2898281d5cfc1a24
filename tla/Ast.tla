-------------------------------- MODULE Ast --------------------------------
(***************************************************************************)
(* The part of the syntax tree (syntax/ast.rs) that the code generation    *)
(* modules take: expressions over integers, booleans, arrays, maps and     *)
(* structs, string literals (their length only), the fields of a contract, *)
(* calls of every kind but those of other contracts, and every statement.  *)
(* Typing is assumed: codegen_source_file runs type_check first.           *)
(* Fields of a contract are designated by the length of their names; they, *)
(* and the keys and values of its maps, are integers.                      *)
(***************************************************************************)
EXTENDS Naturals, Sequences

\* Expr
IntLit(n)      == [e |-> "int", n |-> n]
\* The same number spelled in hexadecimal.
HexLit(n)      == [e |-> "hex", n |-> n]
BoolLit(b)     == [e |-> "bool", b |-> b]
StrLit(n)      == [e |-> "string", len |-> n]
Ident(x)       == [e |-> "ident", name |-> x]
Bin(op, l, r)  == [e |-> "binary", op |-> op, left |-> l, right |-> r]
AndExpr(l, r)  == [e |-> "and", left |-> l, right |-> r]
OrExpr(l, r)   == [e |-> "or", left |-> l, right |-> r]
Assign(x, v)   == [e |-> "assign", target |-> x, value |-> v]
AddAssign(x, v) == [e |-> "addassign", target |-> x, value |-> v]
Call(f, args)  == [e |-> "call", callee |-> f, args |-> args]
Index(a, i)    == [e |-> "index", base |-> a, index |-> i]
SetIndex(a, i, v) == [e |-> "setindex", base |-> a, index |-> i, value |-> v]
AddIndex(a, i, v) == [e |-> "addindex", base |-> a, index |-> i, value |-> v]
ArrayLit(items) == [e |-> "array", items |-> items]
\* The fields of a struct literal, in the order of the declaration.
StructLit(t, vals) == [e |-> "struct", type |-> t, vals |-> vals]
Member(x, f)   == [e |-> "member", name |-> x, field |-> f]
MethodCall(x, m, args) ==
  [e |-> "method", name |-> x, method |-> m, args |-> args]


\* Literal::Null, Expr::Unary, a comparison with null (== when eq), Expr::Cast.
NullLit        == [e |-> "null"]
Unary(op, x)   == [e |-> "unary", op |-> op, operand |-> x]
IsNull(x, eq)  == [e |-> "isnull", operand |-> x, eq |-> eq]
Cast(x, type)  == [e |-> "cast", operand |-> x, type |-> type]
SetMember(x, f, v) == [e |-> "setmember", name |-> x, field |-> f, value |-> v]
AddMember(x, f, v) == [e |-> "addmember", name |-> x, field |-> f, value |-> v]
\* Keys and values in turn.
MapLit(pairs)  == [e |-> "map", pairs |-> pairs]
\* A built-in function, or a built-in method with its receiver as the first
\* argument, by the opcode that does it.
Builtin(op, args) == [e |-> "builtin", op |-> op, args |-> args]
\* self.f and self.f[k] of a contract, self.m(..) and runtime.m(..).
SelfGet(f)     == [e |-> "selfget", field |-> f]
SelfSet(f, v)  == [e |-> "selfset", field |-> f, value |-> v]
SelfAdd(f, v)  == [e |-> "selfadd", field |-> f, value |-> v]
MapGet(f, k)   == [e |-> "mapget", field |-> f, key |-> k]
MapSet(f, k, v) == [e |-> "mapset", field |-> f, key |-> k, value |-> v]
MapAdd(f, k, v) == [e |-> "mapadd", field |-> f, key |-> k, value |-> v]
MapHas(f, k)   == [e |-> "maphas", field |-> f, key |-> k]
MapRemove(f, k) == [e |-> "mapremove", field |-> f, key |-> k]
SelfCall(m, args) == [e |-> "selfcall", callee |-> m, args |-> args]
Runtime(m, args) == [e |-> "runtime", callee |-> m, args |-> args]

\* Stmt; an absent initializer or return value is None, the else block of an
\* if a sequence of at most one block.
None           == [e |-> "none"]
Var(x, init)   == [s |-> "var", name |-> x, init |-> init]
ExprStmt(e)    == [s |-> "expr", expr |-> e]
If(c, t)       == [s |-> "if", cond |-> c, then |-> t, else |-> <<>>]
IfElse(c, t, f) == [s |-> "if", cond |-> c, then |-> t, else |-> <<f>>]
While(c, body) == [s |-> "while", cond |-> c, body |-> body]
Return(e)      == [s |-> "return", expr |-> e]
Block(body)    == [s |-> "block", body |-> body]
ForArray(x, iter, body) ==
  [s |-> "for", item |-> x, iter |-> iter, body |-> body]
ForMap(k, v, map, body) ==
  [s |-> "formap", key |-> k, item |-> v, iter |-> map, body |-> body]
\* The name of an event is a string of the given length.
EmitEvent(n, args) == [s |-> "emit", len |-> n, args |-> args]

\* FunctionDecl; structs maps the parameters of struct type to their types.
Fn(name, params, structs, void, body) ==
  [name |-> name, params |-> params, structs |-> structs, void |-> void,
   body |-> body]
=============================================================================
