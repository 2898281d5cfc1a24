------------------------------ MODULE IrLower ------------------------------
(***************************************************************************)
(* The lowering of a function to the intermediate representation           *)
(* (ir/lower), and the test that sends a function this way                 *)
(* (should_use_ir_pipeline).                                               *)
(*                                                                         *)
(* A builder is a record: blocks; cur, the current block; nvals and tmps,  *)
(* the values and temporaries so far; vars and structs, the environment;   *)
(* val and refs, what the last expressions came to; ok, FALSE after an     *)
(* error, which makes compile_function fall back on the syntax tree; and   *)
(* up, one of two orders in which a HashSet of names is enumerated.        *)
(***************************************************************************)
EXTENDS Ir, Ast, TLC

CONSTANTS Structs,   \* the field names of each struct, in order
          Contract,  \* the name of the contract the functions belong to
          Names      \* the names of variables, in alphabetical order

Bind(m, x, v) == [y \in DOMAIN m \cup {x} |-> IF y = x THEN v ELSE m[y]]
Set(b, x, ref) == [b EXCEPT !.vars = Bind(@, x, ref)]
Error(b) == [b EXCEPT !.ok = FALSE]

\* new_value and emit
Define(b, op, k, args) ==
  [b EXCEPT !.nvals = @ + 1,
            !.blocks[b.cur].instrs = Append(@, Instr(b.nvals + 1, op, k, args)),
            !.val = Val(b.nvals + 1)]

SetTerm(b, bb, term) == [b EXCEPT !.blocks[bb].term = term]
NewBlocks(b, n) == [b EXCEPT !.blocks = @ \o [i \in 1..n |-> EmptyBlock]]
Enter(b, bb) == [b EXCEPT !.cur = bb]
WithScope(b, of) == [b EXCEPT !.vars = of.vars, !.structs = of.structs]

\* The names of a set in the order in which the code sorts or finds them.
Sorted(S) == SelectSeq(Names, LAMBDA x : x \in S)
Found(b, S) ==
  IF b.up THEN Sorted(S)
  ELSE [i \in 1..Len(Sorted(S)) |-> Sorted(S)[Len(Sorted(S)) + 1 - i]]

-----------------------------------------------------------------------------
\* collect_assigned_vars_in_expr, collect_assigned_vars_in_block
Parts(e) ==
  CASE e.e \in {"binary", "and", "or"} -> <<e.left, e.right>>
    [] e.e \in {"unary", "isnull", "cast"} -> <<e.operand>>
    [] e.e \in {"call", "method", "builtin", "selfcall", "runtime"} -> e.args
    [] e.e = "index"  -> <<e.base, e.index>>
    [] e.e = "array"  -> e.items
    [] e.e = "struct" -> e.vals
    [] e.e = "map"    -> e.pairs
    [] e.e \in {"mapget", "maphas", "mapremove"} -> <<e.key>>
    [] e.e \in {"assign", "addassign", "setindex", "addindex", "setmember",
                "addmember", "selfset", "selfadd", "mapset", "mapadd"} -> <<e.value>>
    [] OTHER -> <<>>

RECURSIVE AssignedIn(_), AssignedBy(_)
AssignedIn(e) ==
  (IF e.e \in {"assign", "addassign"} THEN {e.target} ELSE {})
  \cup UNION {AssignedIn(Parts(e)[i]) : i \in DOMAIN Parts(e)}

AssignedBy(body) ==
  UNION { CASE s.s = "var"   -> {s.name}
            [] s.s = "expr"  -> AssignedIn(s.expr)
            [] s.s = "if"    -> AssignedBy(s.then) \cup
                                (IF s.else = <<>> THEN {} ELSE AssignedBy(s.else[1]))
            [] s.s \in {"while", "block"} -> AssignedBy(s.body)
            [] OTHER         -> {}
          : s \in {body[i] : i \in DOMAIN body} }

-----------------------------------------------------------------------------
\* lower_expr for an expression that is one instruction on its parts: the
\* instruction, the rest of its fields, the parts.
One(op, k, parts) == [op |-> op, k |-> k, parts |-> parts]

SingleInstr(e) ==
  CASE e.e \in {"int", "hex", "null"} ->
         One("CONST", Literal(e.e, IF e.e = "null" THEN 0 ELSE e.n), <<>>)
    [] e.e = "bool"    -> One("CONST", Literal("bool", IF e.b THEN 1 ELSE 0), <<>>)
    [] e.e = "string"  -> One("CONST", Literal("string", e.len), <<>>)
    [] e.e = "unary"   -> One(e.op, NoK, <<e.operand>>)
    [] e.e = "binary"  -> One(e.op, NoK, <<e.left, e.right>>)
    [] e.e = "isnull"  -> One("ISNULL", K("", IF e.eq THEN 1 ELSE 0), <<e.operand>>)
    [] e.e = "cast"    -> One("CONVERT", K(e.type, 0), <<e.operand>>)
    [] e.e = "index"   -> One("INDEXGET", NoK, <<e.base, e.index>>)
    [] e.e = "setindex" -> One("INDEXSET", NoK, <<e.base, e.index, e.value>>)
    [] e.e = "builtin" -> One(e.op, NoK, e.args)
    [] e.e = "array"   -> One("ARRAYPACK", NoK, e.items)
    [] e.e = "struct"  -> One("STRUCTPACK", K(e.type, 0), e.vals)
    [] e.e = "map"     -> One("MAPPACK", NoK, e.pairs)
    [] e.e = "call"    -> One("PACKAGECALL", K(e.callee, 0), e.args)
    [] e.e = "selfcall" -> One("SELFCALL", K(Contract \o "::" \o e.callee, 0), e.args)
    [] e.e = "runtime" -> One("RUNTIMECALL", K(e.callee, 0), e.args)
    [] e.e = "selfget" -> One("STORAGEGET", K("", e.field), <<>>)
    [] e.e = "mapget"  -> One("MAPGET", K("", e.field), <<e.key>>)
    [] e.e = "mapadd"  -> One("MAPCOMPOUND", K("ADD", e.field), <<e.key, e.value>>)
    [] e.e = "maphas"  -> One("MAPHAS", K("", e.field), <<e.key>>)
    [] e.e = "mapremove" -> One("MAPREMOVE", K("", e.field), <<e.key>>)

RECURSIVE Lower(_, _), LowerAll(_, _, _)

LowerAll(es, refs, b) ==
  IF es = <<>>
  THEN [b EXCEPT !.refs = refs]
  ELSE LET first == Lower(Head(es), b)
       IN  LowerAll(Tail(es), Append(refs, first.val), first)

LowerOne(one, b) ==
  LET l == LowerAll(one.parts, <<>>, b) IN Define(l, one.op, one.k, l.refs)

Give(b, ref) == [b EXCEPT !.val = ref]

\* The result of the last expression: copied, added to old, stored by op
\* after the operands refs; and the value that the next instruction defines.
Copied(b) == Define(b, "COPY", NoK, <<b.val>>)
AddedTo(old, b) == Define(b, "ADD", NoK, <<old, b.val>>)
StoredAt(refs, op, k, b) == Define(b, op, k, Append(refs, b.val))
NextVal(b) == Val(b.nvals + 1)
SetLast(b, x) == Set(b, x, b.val)

\* lower_assign and lower_compound_assign_ident for a variable. The operand
\* is the variable's value from before the right-hand side.
LowerAssign(e, b) ==
  SetLast(IF e.e = "assign" THEN Copied(Lower(e.value, b))
          ELSE AddedTo(b.vars[e.target], Lower(e.value, b)), e.target)

\* lower_compound_assign_index
AddAtIndex(e, b) ==
  StoredAt(b.refs, "INDEXSET", NoK,
           AddedTo(NextVal(b), Lower(e.value, Define(b, "INDEXGET", NoK, b.refs))))
LowerAddIndex(e, b) == AddAtIndex(e, LowerAll(<<e.base, e.index>>, <<>>, b))

\* field_index_of: counted from 0.
FieldK(t, f) == K("", (CHOOSE i \in DOMAIN Structs[t] : Structs[t][i] = f) - 1)

\* lower_member_assign and lower_compound_assign_member for a struct: the
\* receiver is looked up after the value of =, before that of +=.
PutMember(b, x, k) == StoredAt(<<b.vars[x]>>, "FIELDSET", k, b)
AddToMember(e, ref, k, b) ==
  StoredAt(<<ref>>, "FIELDSET", k,
           AddedTo(NextVal(b), Lower(e.value, Define(b, "FIELDGET", k, <<ref>>))))

LowerMember(e, b) ==
  IF e.name \notin DOMAIN b.structs THEN Error(b)
  ELSE LET k == FieldK(b.structs[e.name], e.field)
       IN  CASE e.e = "setmember" -> PutMember(Lower(e.value, b), e.name, k)
             [] e.e = "addmember" -> AddToMember(e, b.vars[e.name], k, b)
             [] OTHER             -> Define(b, "FIELDGET", k, <<b.vars[e.name]>>)

\* ... for a field of the contract, and lower_index_assign for a map field:
\* the result is the assigned value.
StoredAndGiven(refs, op, k, b) == Give(StoredAt(refs, op, k, b), b.val)
LowerSelfSet(e, b) ==
  StoredAndGiven(<<>>, "STORAGEPUT", K("", e.field), Lower(e.value, b))
LowerSelfAdd(e, b) ==
  StoredAndGiven(<<>>, "STORAGEPUT", K("", e.field),
    AddedTo(NextVal(b),
            Lower(e.value, Define(b, "STORAGEGET", K("", e.field), <<>>))))
LowerMapSet(e, b) ==
  LET key == Lower(e.key, b)
  IN  StoredAndGiven(<<key.val>>, "MAPPUT", K("", e.field), Lower(e.value, key))

\* Mutant: the symbol of a method as the syntax tree generator spells it.
CallMethodWithDot(e, b) ==
  IF e.name \notin DOMAIN b.structs THEN Error(b)
  ELSE Define(b, "STRUCTCALL", K(b.structs[e.name] \o "." \o e.method, 0),
              <<b.vars[e.name]>> \o b.refs)

\* lower_call for a struct method: the receiver's value after the arguments.
CallMethod(e, b) ==
  IF e.name \notin DOMAIN b.structs THEN Error(b)
  ELSE Define(b, "STRUCTCALL", K(b.structs[e.name] \o "::" \o e.method, 0),
              <<b.vars[e.name]>> \o b.refs)
LowerMethod(e, b) == CallMethod(e, LowerAll(e.args, <<>>, b))

\* What the blocks of a branch did to the variables: the names of which two
\* environments differ, their values in one, and the names as parameters.
JoinedNames(one, other) ==
  Sorted({x \in DOMAIN one.vars \cap DOMAIN other.vars : one.vars[x] # other.vars[x]})
RefsOf(b, names) == [i \in DOMAIN names |-> b.vars[names[i]]]
AsParams(b, names, first) ==
  [b EXCEPT !.vars = [x \in DOMAIN @ |->
     IF \E i \in DOMAIN names : names[i] = x
     THEN Par(first - 1 + CHOOSE i \in DOMAIN names : names[i] = x)
     ELSE @[x]]]
JoinBlock(b, join, of, params, names, first) ==
  Enter(AsParams(WithScope([b EXCEPT !.blocks[join].params = params], of),
                 names, first), join)

\* lower_short_circuit. The header is the block of before the left operand;
\* three blocks follow: the right operand, the constant, the join.
DecideLeft(e, from, left) ==
  LET right == Len(left.blocks) + 1
  IN  SetTerm(NewBlocks(left, 3), from,
        IF e.e = "and" THEN BranchTerm(left.val, right, <<>>, right + 1, <<>>)
                       ELSE BranchTerm(left.val, right + 1, <<>>, right, <<>>))
ConstOfLeft(e, b, const) ==
  Define(Enter(b, const), "CONST", Literal("bool", IF e.e = "and" THEN 0 ELSE 1), <<>>)
JoinSides(left, right, bb, names) ==
  Give(JoinBlock(SetTerm(SetTerm(right, bb + 1,
                           JumpTerm(bb + 2, <<NextVal(left)>> \o RefsOf(left, names))),
                         bb, JumpTerm(bb + 2, <<right.val>> \o RefsOf(right, names))),
                 bb + 2, left, <<"_sc">> \o names, names, 1), Par(0))
SidesOf(left, right) ==
  JoinSides(left, right, Len(left.blocks) + 1, JoinedNames(left, right))
RightOf(e, from, left) ==
  LET bb == Len(left.blocks) + 1
  IN  SidesOf(left, Lower(e.right,
                          Enter(ConstOfLeft(e, DecideLeft(e, from, left), bb + 1), bb)))
LowerShortCircuit(e, b) == RightOf(e, b.cur, Lower(e.left, b))

Lower(e, b) ==
  CASE ~b.ok -> b
    [] e.e = "ident"    -> Give(b, b.vars[e.name])
    [] e.e \in {"and", "or"} -> LowerShortCircuit(e, b)
    [] e.e \in {"assign", "addassign"} -> LowerAssign(e, b)
    [] e.e = "addindex" -> LowerAddIndex(e, b)
    [] e.e \in {"member", "setmember", "addmember"} -> LowerMember(e, b)
    [] e.e = "selfset"  -> LowerSelfSet(e, b)
    [] e.e = "selfadd"  -> LowerSelfAdd(e, b)
    [] e.e = "mapset"   -> LowerMapSet(e, b)
    [] e.e = "method"   -> LowerMethod(e, b)
    [] OTHER            -> LowerOne(SingleInstr(e), b)

-----------------------------------------------------------------------------
RECURSIVE LowerBody(_, _), LowerStmt(_, _)

\* lower_block: nothing after a return, and no scope of its own.
LowerBody(body, b) ==
  IF body = <<>> THEN b
  ELSE IF body[1].s = "return" THEN LowerStmt(body[1], b)
  ELSE LowerBody(Tail(body), LowerStmt(body[1], b))

\* The arguments of the jump that ends a block.
JumpArgs(b, bb) ==
  IF b.blocks[bb].term.t = "jump" THEN b.blocks[bb].term.args ELSE <<>>

\* The block bb, once its statements are lowered, jumps to join, whatever
\* they made of its terminator, unless that is a return.
Joining(b, bb, join, args) ==
  IF b.blocks[bb].term.t = "return" THEN b
  ELSE SetTerm(b, bb, JumpTerm(join, args))

JoinArms(from, cond, yes, no, names) ==
  LET then == Len(cond.blocks) + 1
      join == then + 2
      ends == Joining(Joining(no, then, join, RefsOf(yes, names)),
                      then + 1, join, RefsOf(no, names))
  IN  JoinBlock(SetTerm(ends, from,
                  BranchTerm(cond.val, then, JumpArgs(ends, then),
                             then + 1, JumpArgs(ends, then + 1))),
                join, cond, names, names, 0)
ArmsOf(from, cond, yes, no) ==
  JoinArms(from, cond, yes, no,
           Found(cond, {x \in DOMAIN cond.vars : yes.vars[x] # no.vars[x]}))
\* The other arm begins in the environment of the condition.
ElseArm(s, from, cond, yes) ==
  LET begun == Enter(WithScope(yes, cond), Len(cond.blocks) + 2)
  IN  ArmsOf(from, cond, yes,
             IF s.else = <<>> THEN begun ELSE LowerBody(s.else[1], begun))
ThenArm(s, from, cond) ==
  ElseArm(s, from, cond,
          LowerBody(s.then, Enter(NewBlocks(cond, 3), Len(cond.blocks) + 1)))
LowerIf(s, b) == ThenArm(s, b.cur, Lower(s.cond, b))

\* A loop whose header has the parameters vars: the jump into it from the
\* block that was current before the loop, and the environment in it.
LoopHeader(b, from, vars) ==
  LET header == Len(b.blocks) + 1
      jump   == SetTerm(NewBlocks(b, 3), from, JumpTerm(header, RefsOf(b, vars)))
  IN  Enter(AsParams([jump EXCEPT !.blocks[header].params = vars], vars, 0), header)

\* The variables of the function that the statements of a loop assign.
LoopVars(b, assigned) == Sorted(assigned \cap DOMAIN b.vars)

\* The branch at the end of the header, and the end of the body.
LoopTest(b, header) ==
  Enter(SetTerm(b, header, BranchTerm(b.val, header + 1, <<>>, header + 2, <<>>)),
        header + 1)
LoopEnd(b, header, vars) == Joining(b, header + 1, header, RefsOf(b, vars))

WhileEnd(cond, body, header, vars) ==
  Enter(WithScope(LoopEnd(body, header, vars), cond), header + 2)
WhileBody(s, cond, header, vars) ==
  WhileEnd(cond, LowerBody(s.body, LoopTest(cond, header)), header, vars)
WhileFrom(s, b, vars) ==
  WhileBody(s, Lower(s.cond, LoopHeader(b, b.cur, vars)), Len(b.blocks) + 1, vars)
LowerWhile(s, b) == WhileFrom(s, b, LoopVars(b, AssignedBy(s.body)))

\* fresh_tmp: the names of the n-th temporary from now.
Tmp(b, prefix, n) == "__ir_for_" \o prefix \o "_" \o ToString(b.tmps + n)
\* An item of a loop: container[index], copied into the variable x.
Item(b, container, index, x) ==
  SetLast(Copied(Define(b, "INDEXGET", NoK, <<container, index>>)), x)
Without(b, of, names) ==
  [b EXCEPT !.vars = [x \in (DOMAIN @ \ names) \cup (names \cap DOMAIN of.vars) |->
                        IF x \in names THEN of.vars[x] ELSE @[x]]]

\* Both for loops: the loop l has index, the variable that counts; seq, the
\* one that holds the items or the keys; map, the one that holds the map; names,
\* the variables the body gets; header and vars, its header's block and
\* parameters; from, the block that was current before the iterable, which gets
\* the jump into the loop; and before, the environment it came from.
ForTest(l, b) ==
  LET size == Define(b, "SIZE", NoK, <<b.vars[l.seq]>>)
  IN  Define(size, "LT", NoK, <<size.vars[l.index], size.val>>)
ForItems(s, l, b) ==
  IF l.map = "" THEN Item(b, b.vars[l.seq], b.vars[l.index], s.item)
  ELSE LET key == Item(b, b.vars[l.seq], b.vars[l.index], s.key)
       IN  Item(key, key.vars[l.map], key.val, s.item)
ForStep(l, b) ==
  LET one == Define(b, "CONST", Literal("int", 1), <<>>)
  IN  SetLast(Copied(AddedTo(one.vars[l.index], one)), l.index)
ForEnd(l, test, body) ==
  Enter(Without(WithScope(IF body.blocks[l.header + 1].term.t = "return" THEN body
                          ELSE LoopEnd(ForStep(l, body), l.header, l.vars), test),
                l.before, l.names), l.header + 2)
ForBody(s, l, test) ==
  ForEnd(l, test, LowerBody(s.body, ForItems(s, l, LoopTest(test, l.header))))
ForFrom(s, l, b) == ForBody(s, l, ForTest(l, LoopHeader(b, l.from, l.vars)))

\* The index starts at 0, and is the first of the header's parameters.
StartFor(s, from, index, seq, map, names, b) ==
  LET start == SetLast(Define(b, "CONST", Literal("int", 0), <<>>), index)
  IN  ForFrom(s, [index |-> index, seq |-> seq, map |-> map, names |-> names,
                  header |-> Len(b.blocks) + 1, from |-> from, before |-> b,
                  vars |-> <<index>> \o LoopVars(b, AssignedBy(s.body) \ names)],
              start)

LowerForArray(s, b) ==
  StartFor(s, b.cur, Tmp(b, "index", 1), Tmp(b, "array", 0), "", {s.item},
           [SetLast(Copied(Lower(s.iter, b)), Tmp(b, "array", 0)) EXCEPT !.tmps = @ + 2])

KeysOf(b) == Copied(Define(b, "KEYS", NoK, <<b.val>>))
LowerForMap(s, b) ==
  StartFor(s, b.cur, Tmp(b, "index", 2), Tmp(b, "keys", 1), Tmp(b, "map", 0),
           {s.key, s.item},
           [SetLast(KeysOf(SetLast(Copied(Lower(s.iter, b)), Tmp(b, "map", 0))),
                    Tmp(b, "keys", 1)) EXCEPT !.tmps = @ + 3])

\* A variable is bound in the environment of the function, whatever block
\* declares it.
LowerVar(s, b) ==
  LET v == SetLast(Lower(IF s.init = None THEN NullLit ELSE s.init, b), s.name)
  IN  IF s.init.e = "struct" THEN [v EXCEPT !.structs = Bind(@, s.name, s.init.type)]
                             ELSE v

LowerReturn(s, b) ==
  IF s.expr = None
  THEN SetTerm(b, b.cur, ReturnTerm(<<>>))
  ELSE LET v == Lower(s.expr, b) IN SetTerm(v, v.cur, ReturnTerm(<<v.val>>))

LowerStmt(s, b) ==
  CASE ~b.ok -> b
    [] s.s = "var"    -> LowerVar(s, b)
    [] s.s = "expr"   -> Lower(s.expr, b)
    [] s.s = "return" -> LowerReturn(s, b)
    [] s.s = "if"     -> LowerIf(s, b)
    [] s.s = "while"  -> LowerWhile(s, b)
    [] s.s = "for"    -> LowerForArray(s, b)
    [] s.s = "formap" -> LowerForMap(s, b)
    [] s.s = "block"  -> LowerBody(s.body, b)
    [] s.s = "emit"   -> LowerOne(One("EMIT", K("", s.len), s.args), b)

-----------------------------------------------------------------------------
\* lower_function_to_ir: every parameter is copied to a value first.
NewBuilder(f, up) ==
  LET n == Len(f.params)
  IN  [blocks |-> << [EmptyBlock EXCEPT
                        !.params = f.params,
                        !.instrs = [i \in 1..n |->
                                      Instr(i, "COPY", NoK, <<Par(i - 1)>>)]] >>,
       cur |-> 1, nvals |-> n, tmps |-> 0,
       vars |-> [x \in {f.params[i] : i \in 1..n} |->
                   Val(CHOOSE i \in 1..n : f.params[i] = x)],
       structs |-> f.structs, val |-> Val(0), refs |-> <<>>, ok |-> TRUE, up |-> up]

\* A last block without a terminator returns.
EndFunction(b) ==
  IF b.ok /\ b.blocks[b.cur].term = Unset THEN SetTerm(b, b.cur, ReturnTerm(<<>>)) ELSE b

LowerFunction(f, up) == EndFunction(LowerBody(f.body, NewBuilder(f, up)))

\* should_use_ir_pipeline: what makes a function worth the pipeline.
RECURSIVE TriggersIr(_), NeedsIr(_)
AnyTriggers(es) == \E i \in DOMAIN es : TriggersIr(es[i])
BuiltinFunctions == {"MIN", "MAX", "ASSERTMSG", "ABORTMSG"}

TriggersIr(e) ==
  CASE e.e \in {"int", "hex", "bool", "string", "null", "ident"} -> FALSE
    [] e.e \in {"binary", "and", "or", "unary", "isnull", "call", "array", "struct",
                "map"} -> AnyTriggers(Parts(e))
    [] e.e = "builtin" -> e.op \notin BuiltinFunctions \/ AnyTriggers(e.args)
    [] OTHER -> TRUE

NeedsIr(body) ==
  \E i \in DOMAIN body :
     \/ body[i].s \in {"var", "if", "while", "emit"}
     \/ body[i].s \in {"expr", "return"} /\ body[i].expr # None /\ TriggersIr(body[i].expr)
     \/ body[i].s = "block" /\ NeedsIr(body[i].body)
=============================================================================
