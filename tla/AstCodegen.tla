----------------------------- MODULE AstCodegen -----------------------------
(***************************************************************************)
(* The code generator that walks the syntax tree: FunctionCompiler         *)
(* (codegen/function.rs) and the expressions of ExprGen (codegen/expr) it  *)
(* needs.  compile_function takes it for a function that the IR pipeline   *)
(* does not want or fails on.                                              *)
(*                                                                         *)
(* A builder is a record: code and calls (Builder::instructions and        *)
(* pending_call_l), env (VarEnv), types (value_struct) and ok, FALSE after *)
(* an error, which makes the code discard the function.                    *)
(***************************************************************************)
EXTENDS Emitter, VarEnv, Ast

CONSTANTS VoidFunctions, \* names of the package functions that return nothing
          Structs,       \* the field names of each struct, in order
          Contract       \* the name of the contract the functions belong to

NewBuilder(f) ==
  [code |-> <<>>, calls |-> <<>>, env |-> NewEnv(f.params),
   types |-> f.structs, ok |-> TRUE]

\* Mutant: the distance from the cursor to itself.
EmitJumpToItself(b, start) == EmitIns(b, Jump("JMP_L", 0))

\* A backward JMP_L, as compile_stmt computes it at the end of a loop.
EmitJumpBack(b, start) == EmitIns(b, Jump("JMP_L", start - Cursor(b)))

WithEnv(b, env) == [b EXCEPT !.env = env]

\* alloc_slot and declare_local, or an error: the slot is b.env.next.
TakeSlot(b) == IF SlotsLeft(b.env) THEN WithEnv(b, AllocSlot(b.env)) ELSE Fail(b)
Declare(b, x) ==
  IF CanDeclare(b.env, x) THEN WithEnv(b, DeclareLocal(b.env, x)) ELSE Fail(b)

\* emit_ldslot
LoadName(b, x) ==
  LET s == Resolve(b.env, x)
  IN  CASE s.kind = "local" -> EmitIns(b, Ins("LDLOC", s.slot))
        [] s.kind = "arg"   -> EmitIns(b, Ins("LDARG", s.slot))
        [] OTHER            -> Fail(b)

\* store_assign_target, for a name
StoreName(b, x) ==
  LET s == Resolve(b.env, x)
  IN  CASE s.kind = "local" -> EmitIns(b, Ins("STLOC", s.slot))
        [] s.kind = "arg"   -> EmitIns(b, Ins("STARG", s.slot))
        [] OTHER            -> Fail(b)

-----------------------------------------------------------------------------
\* ExprGen::compile_expr.  Arguments are pushed last to first.
RECURSIVE CompileExpr(_, _), CompileArgs(_, _, _), CompileInOrder(_, _, _)

\* Mutant: the first argument is pushed first.
CompileArgsForward(args, k, b) == CompileInOrder(args, 1, b)

CompileArgs(args, k, b) ==
  IF k = 0 THEN b ELSE CompileArgs(args, k - 1, CompileExpr(args[k], b))

\* The fields of a struct literal and the arguments of emit: first to last.
CompileInOrder(es, k, b) ==
  IF k > Len(es) THEN b ELSE CompileInOrder(es, k + 1, CompileExpr(es[k], b))

\* compile_binary, BinaryOp::And and BinaryOp::Or
PushFalse(right, skip) ==
  PatchToHere(EmitPush(PatchToHere(right, skip), 0), Count(right))
RightOfAnd(e, left) ==
  PushFalse(EmitPlaceholder(CompileExpr(e.right, left), "JMP_L"), Count(left))
CompileAnd(e, b) == RightOfAnd(e, EmitPlaceholder(CompileExpr(e.left, b), "JMPIFNOT_L"))

\* Mutant: the left operand stays on the stack when the right one decides.
RightOfOrKeepingLeft(e, left) ==
  PatchToHere(CompileExpr(e.right, left), Count(left))

RightOfOr(e, left) ==
  PatchToHere(CompileExpr(e.right, Emit(left, "DROP")), Count(left))
CompileOr(e, b) ==
  RightOfOr(e, EmitPlaceholder(Emit(CompileExpr(e.left, b), "DUP"), "JMPIF_L"))

CompileCall(e, b) == CallTo(CompileArgs(e.args, Len(e.args), b), e.callee)

\* compile_struct_call; link_symbol has "::" where this has ".".
CompileMethodCall(e, b) ==
  IF e.name \notin DOMAIN b.types
  THEN Fail(b)
  ELSE CallTo(LoadName(CompileArgs(e.args, Len(e.args), b), e.name),
              b.types[e.name] \o "." \o e.method)

\* emit_member_access of a variable: the struct is looked up by name.
Fields(t) == {Structs[t][i] : i \in DOMAIN Structs[t]}
\* Mutant: the index is taken for one that counts from 1.
FieldIndexBefore(t, f) == (CHOOSE i \in DOMAIN Structs[t] : Structs[t][i] = f) - 2

FieldIndex(t, f) == (CHOOSE i \in DOMAIN Structs[t] : Structs[t][i] = f) - 1

CompileMember(e, b) ==
  IF e.name \notin DOMAIN b.types
  THEN Fail(b)
  ELSE IF e.field \notin Fields(b.types[e.name]) THEN Fail(b)
  ELSE Emit(EmitIns(LoadName(b, e.name),
                    Ins("PUSH", FieldIndex(b.types[e.name], e.field))),
            "PICKITEM")

\* compile_compound_assign to an index: base, index and result get slots.
LoadItem(b, base, index) == Emit(LoadLocal(LoadLocal(b, base), index), "PICKITEM")
StoreItem(b, base, index, value) ==
  Emit(LoadLocal(LoadLocal(LoadLocal(b, base), index), value), "SETITEM")
AddToItem(e, slot, b) ==
  LoadLocal(StoreItem(
    StoreLocal(Emit(CompileExpr(e.value, LoadItem(b, slot, slot + 1)), "ADD"), slot + 2),
    slot, slot + 1, slot + 2), slot + 2)
CompileAddIndex(e, b) ==
  AddToItem(e, b.env.next,
    StoreLocal(CompileExpr(e.index,
      StoreLocal(CompileExpr(e.base, TakeSlot(TakeSlot(TakeSlot(b)))), b.env.next)),
      b.env.next + 1))

\* compile_builtin_method_call, with its receiver first, and
\* compile_builtin_call.
CompileBuiltin(e, b) == Emit(CompileInOrder(e.args, 1, b), e.op)

\* emit_map_lit: the last pair first, each with its key below its value.
CompilePairs(pairs, b) ==
  LET n == Len(pairs) \div 2
      order == [i \in 1..Len(pairs) |->
                  pairs[IF i % 2 = 1 THEN Len(pairs) - i ELSE Len(pairs) - i + 2]]
  IN  Emit(EmitPush(CompileInOrder(order, 1, b), n), "PACKMAP")

\* compile_runtime_call
RECURSIVE CompileSteps(_, _, _)
CompileSteps(args, steps, b) ==
  IF steps = <<>> THEN b
  ELSE CompileSteps(args, Tail(steps),
         IF Head(steps) = 0 THEN EmitPush(b, ReadOnly)
                            ELSE CompileExpr(args[Head(steps)], b))

CompileRuntime(e, b) ==
  EmitSyscall(CompileSteps(e.args, RuntimeSteps[e.callee], b), e.callee)

\* contract_storage.rs. A field is stored under its name, an item of a map
\* under the name, a zero byte and the key.
ReadField(f, b) ==
  EmitConvert(EmitSyscall(EmitData(b, f), "get"), "Integer")
WriteField(f, b) ==
  EmitSyscall(EmitData(EmitConvert(b, "Buffer"), f), "put")
ItemKey(f, k, b) ==
  Emit(EmitConvert(CompileExpr(k, EmitData(b, f + 1)), "ByteString"), "CAT")
\* The value below its key.
WriteItem(b) ==
  EmitSyscall(Emit(EmitConvert(Emit(b, "SWAP"), "Buffer"), "SWAP"), "put")

\* compile_contract_map_compound_assign: key and result get slots.
PutAdded(b, key, value) ==
  LoadLocal(EmitSyscall(
    Emit(EmitConvert(LoadLocal(LoadLocal(StoreLocal(b, value), key), value), "Buffer"),
         "SWAP"), "put"), value)
KeepAdded(new, key) == PutAdded(TakeSlot(new), key, new.env.next)
AddToKept(e, key, b) ==
  KeepAdded(Emit(CompileExpr(e.value,
    EmitConvert(EmitSyscall(StoreLocal(b, key), "get"), "Integer")), "ADD"), key)
CompileMapAdd(e, b) ==
  AddToKept(e, b.env.next, Emit(ItemKey(e.field, e.key, TakeSlot(b)), "DUP"))

CompileStorage(e, b) ==
  CASE e.e = "selfget"   -> ReadField(e.field, b)
    [] e.e = "selfset"   ->
         WriteField(e.field, Emit(CompileExpr(e.value, b), "DUP"))
    [] e.e = "selfadd"   ->
         WriteField(e.field, Emit(Emit(CompileExpr(e.value,
           ReadField(e.field, b)), "ADD"), "DUP"))
    [] e.e = "mapget"    ->
         EmitConvert(EmitSyscall(ItemKey(e.field, e.key, b), "get"), "Integer")
    [] e.e = "mapset"    -> WriteItem(ItemKey(e.field, e.key, CompileExpr(e.value, b)))
    [] e.e = "mapadd"    -> CompileMapAdd(e, b)
    [] e.e = "maphas"    ->
         Emit(Emit(EmitSyscall(ItemKey(e.field, e.key, b), "get"), "ISNULL"), "NOT")
    [] e.e = "mapremove" -> EmitSyscall(ItemKey(e.field, e.key, b), "delete")

StorageExprs == {"selfget", "selfset", "selfadd", "mapget", "mapset", "mapadd",
                 "maphas", "mapremove"}

\* A comparison with null; != is ISNULL and NOT.
CompileIsNull(e, b) ==
  LET test == Emit(CompileExpr(e.operand, b), "ISNULL")
  IN  IF e.eq THEN test ELSE Emit(test, "NOT")

\* compile_contract_call
CompileSelfCall(e, b) ==
  CallTo(CompileArgs(e.args, Len(e.args), b), Contract \o "::" \o e.callee)

CompileExpr(e, b) ==
  CASE e.e \in {"int", "hex"} -> EmitPush(b, e.n)
    [] e.e = "bool"   -> EmitIns(b, Ins("PUSH", IF e.b THEN 1 ELSE 0))
    [] e.e = "string" -> EmitData(b, e.len)
    [] e.e = "ident"  -> LoadName(b, e.name)
    [] e.e = "binary" -> Emit(CompileExpr(e.right, CompileExpr(e.left, b)), e.op)
    [] e.e = "and"    -> CompileAnd(e, b)
    [] e.e = "or"     -> CompileOr(e, b)
    [] e.e = "assign" -> StoreName(Emit(CompileExpr(e.value, b), "DUP"), e.target)
    [] e.e = "addassign" ->
         StoreName(Emit(Emit(CompileExpr(e.value, LoadName(b, e.target)), "ADD"),
                        "DUP"), e.target)
    [] e.e = "call"   -> CompileCall(e, b)
    [] e.e = "method" -> CompileMethodCall(e, b)
    [] e.e = "index"  ->
         Emit(CompileExpr(e.index, CompileExpr(e.base, b)), "PICKITEM")
    [] e.e = "setindex" ->
         Emit(Emit(CompileExpr(e.value,
                     CompileExpr(e.index, CompileExpr(e.base, b))), "DUP"),
              "SETITEM")
    [] e.e = "addindex" -> CompileAddIndex(e, b)
    [] e.e = "array"  ->
         Pack(CompileArgs(e.items, Len(e.items), b), Len(e.items))
    [] e.e = "struct" -> Pack(CompileInOrder(e.vals, 1, b), Len(e.vals))
    [] e.e = "member" -> CompileMember(e, b)
    \* store_assign_target has no case for a field of a variable.
    [] e.e \in {"setmember", "addmember"} -> Fail(b)
    [] e.e = "null"   -> Emit(b, "PUSHNULL")
    [] e.e = "unary"  -> Emit(CompileExpr(e.operand, b), e.op)
    [] e.e = "isnull" -> CompileIsNull(e, b)
    [] e.e = "cast"   -> EmitConvert(CompileExpr(e.operand, b), e.type)
    [] e.e = "builtin" -> CompileBuiltin(e, b)
    [] e.e = "map"    -> CompilePairs(e.pairs, b)
    [] e.e = "selfcall" -> CompileSelfCall(e, b)
    [] e.e = "runtime" -> CompileRuntime(e, b)
    [] e.e \in StorageExprs -> CompileStorage(e, b)

\* Mutant: only calls are taken to leave a value.
CallLeavesValue(e) == e.e = "call" /\ e.callee \notin VoidFunctions

\* Mutant: whatever is called is taken to leave a value.
LeavesValueVoidOrNot(e) == TRUE

\* expr_stmt_leaves_stack_value
LeavesValue(e) ==
  CASE e.e = "call"     -> e.callee \notin VoidFunctions
    [] e.e = "selfcall" -> Contract \o "::" \o e.callee \notin VoidFunctions
    [] e.e = "builtin"  -> e.op \notin BuiltinVoid
    [] e.e = "runtime"  -> e.callee \notin RuntimeVoid
    [] OTHER            -> e.e # "mapremove"

-----------------------------------------------------------------------------
\* FunctionCompiler::compile_stmt and compile_block.
RECURSIVE CompileStmt(_, _), CompileStmts(_, _, _)

CompileStmts(body, k, b) ==
  IF k > Len(body) \/ ~b.ok
  THEN b
  ELSE CompileStmts(body, k + 1, CompileStmt(body[k], b))

Enter(b) == WithEnv(b, EnterBlock(b.env))
Leave(b) == WithEnv(b, ExitBlock(b.env))

CompileBlock(body, b) == Leave(CompileStmts(body, 1, Enter(b)))

\* value_struct keeps the type of the last variable of a name, also when the
\* block that declared it is closed.
NoteStruct(b, s) ==
  IF s.init.e = "struct"
  THEN [b EXCEPT !.types = Extend(@, s.name, s.init.type)]
  ELSE b

CompileVar(s, b) ==
  LET declared == NoteStruct(Declare(b, s.name), s)
  IN  StoreLocal(IF s.init = None THEN Emit(declared, "PUSHNULL")
                                  ELSE CompileExpr(s.init, declared), b.env.next)

ElseBlock(s, jump, skip) ==
  PatchToHere(CompileBlock(s.else[1], PatchToHere(jump, skip)), Count(jump))
ElseOf(s, then, skip) ==
  IF s.else = <<>> THEN PatchToHere(then, skip)
                   ELSE ElseBlock(s, EmitPlaceholder(then, "JMP_L"), skip)
ThenOf(s, cond) == ElseOf(s, CompileBlock(s.then, cond), Count(cond))
CompileIf(s, b) == ThenOf(s, EmitPlaceholder(CompileExpr(s.cond, b), "JMPIFNOT_L"))

WhileBody(s, cond, start) ==
  PatchToHere(EmitJumpBack(CompileBlock(s.body, cond), start), Count(cond))
CompileWhile(s, b) ==
  WhileBody(s, EmitPlaceholder(CompileExpr(s.cond, b), "JMPIFNOT_L"), Cursor(b))

\* Both for loops: the test of the index against the size of what is looped
\* over, and the step back from the end of the body, which is in one block
\* with the variables of the loop.
StartAtZero(b, index) == StoreLocal(EmitPush(b, 0), index)
ForTest(b, index, over) ==
  EmitPlaceholder(Emit(Emit(LoadLocal(LoadLocal(b, index), over), "SIZE"), "LT"),
                  "JMPIFNOT_L")
ForStep(b, index, start, exit) ==
  PatchToHere(EmitJumpBack(StoreLocal(Emit(LoadLocal(b, index), "INC"), index), start),
              exit)
ForBody(s, b) == Leave(CompileStmts(s.body, 1, b))

\* compile_stmt_for_array: array and index in slots of their own, then the item.
ItemsBody(s, array, exit, start) ==
  ForStep(ForBody(s, StoreLocal(LoadItem(Declare(Enter(exit), s.item), array, array + 1),
                                exit.env.next)),
          array + 1, start, Count(exit))
ItemsFrom(s, array, b) ==
  ItemsBody(s, array, ForTest(b, array + 1, array), Cursor(b))
CompileFor(s, b) ==
  ItemsFrom(s, b.env.next,
    StartAtZero(StoreLocal(CompileExpr(s.iter, TakeSlot(TakeSlot(b))), b.env.next),
                b.env.next + 1))

\* compile_stmt_for_map: map, keys and index in slots, then key and value.
EntryOf(map, key, b) ==
  StoreLocal(LoadItem(StoreLocal(LoadItem(b, map + 1, map + 2), key), map, key), key + 1)
EntriesBody(s, map, exit, start) ==
  ForStep(ForBody(s, EntryOf(map, exit.env.next,
                             Declare(Declare(Enter(exit), s.key), s.item))),
          map + 2, start, Count(exit))
EntriesFrom(s, map, b) ==
  EntriesBody(s, map, ForTest(b, map + 2, map + 1), Cursor(b))
KeysOf(map, b) == StoreLocal(Emit(LoadLocal(StoreLocal(b, map), map), "KEYS"), map + 1)
CompileForMap(s, b) ==
  EntriesFrom(s, b.env.next,
    StartAtZero(KeysOf(b.env.next,
                       CompileExpr(s.iter, TakeSlot(TakeSlot(TakeSlot(b))))),
                b.env.next + 2))

\* Stmt::Emit: the arguments as one array, the name, System.Runtime.Notify.
CompileEmit(s, b) ==
  EmitSyscall(EmitData(Pack(CompileInOrder(s.args, 1, b), Len(s.args)), s.len),
              "notify")

CompileStmt(s, b) ==
  CASE s.s = "var"    -> CompileVar(s, b)
    [] s.s = "expr"   -> IF LeavesValue(s.expr)
                         THEN Emit(CompileExpr(s.expr, b), "DROP")
                         ELSE CompileExpr(s.expr, b)
    [] s.s = "if"     -> CompileIf(s, b)
    [] s.s = "while"  -> CompileWhile(s, b)
    [] s.s = "return" -> IF s.expr = None
                         THEN Emit(b, "RET")
                         ELSE Emit(CompileExpr(s.expr, b), "RET")
    [] s.s = "block"  -> CompileBlock(s.body, b)
    [] s.s = "for"    -> CompileFor(s, b)
    [] s.s = "formap" -> CompileForMap(s, b)
    [] s.s = "emit"   -> CompileEmit(s, b)

\* Mutant: a void function gets no final RET.
EndAsIs(b) == b

\* FunctionCompiler::compile: INITSLOT, the body, and for a void function a
\* RET when the last instruction is not one.
EndVoid(b) == IF b.code[Count(b)].op # "RET" THEN Emit(b, "RET") ELSE b

CompileBody(f) == CompileBlock(f.body, Emit(NewBuilder(f), "INITSLOT"))

EndBody(f, b) == IF f.void THEN EndVoid(b) ELSE b
SetLocals(b) == PatchLocals(b, LocalCount(b.env))
CompileFunction(f) == SetLocals(EndBody(f, CompileBody(f)))

\* What compile_function hands to the optimizer.
Routine(b) == [inst |-> b.code, patches |-> b.calls]
RoutineOf(f) == Routine(CompileFunction(f))
=============================================================================
