----------------------------- MODULE IrCodegen -----------------------------
(***************************************************************************)
(* Instructions from the intermediate representation                       *)
(* (codegen/ir_codegen).  A pure instruction is emitted where its value is *)
(* used, one with side effects in its place; a value that is used more     *)
(* than once, or in another block, gets a local.                           *)
(*                                                                         *)
(* A builder is that of Emitter with done (emitted_spills), pairs (the     *)
(* compound assignments to maps so far), pending (pending_jumps) and start *)
(* (block_start).  c is what IrStackifyContext holds: the blocks, the      *)
(* plan, n, the number of the block, and argc.                             *)
(***************************************************************************)
EXTENDS Emitter, Ir

CONSTANT SlotLimit   \* u8::MAX

OutsOf(b) == {b.instrs[i].out : i \in DOMAIN b.instrs}
DefOf(blocks, v) == CHOOSE i \in InstrsOf(blocks) : i.out = v
Reversed(s) == [i \in DOMAIN s |-> s[Len(s) + 1 - i]]

-----------------------------------------------------------------------------
(* The uses of values (analysis.rs) and the plan (stackify_plan.rs).        *)

\* The references of instruction i of a block, 0 for its terminator.
RefsAt(b, i) == IF i = 0 THEN TermRefs(b.term) ELSE b.instrs[i].args

\* collect_value_uses: where a value is used.
UsesOf(blocks, v) ==
  UNION { { <<n, i, j>> : j \in {k \in DOMAIN RefsAt(blocks[n], i) :
                                   RefsAt(blocks[n], i)[k] = Val(v)} } :
          <<n, i>> \in UNION { {n} \X (0..Len(blocks[n].instrs)) : n \in DOMAIN blocks } }
UseCount(blocks, v) == Cardinality(UsesOf(blocks, v))

\* collect_cross_block_uses
UsedElsewhere(blocks) ==
  UNION { {v \in OutsOf(blocks[n]) : \E use \in UsesOf(blocks, v) : use[1] # n} :
          n \in DOMAIN blocks }

\* is_cheap_const_literal. A hexadecimal literal that was folded to its
\* negation does not parse.
BadLiteral(k) == k.s = "hex" /\ k.n < 0
CheapConst(i) ==
  /\ i.op = "CONST"
  /\ ~BadLiteral(i.k)
  /\ i.k.s = "string" => i.k.n <= 4

FormalCopy(i) == i.op = "COPY" /\ i.args[1].r = "param"

\* Both operands of an operation and used nowhere else: DUP does.
Doubled(blocks, v) ==
  /\ UseCount(blocks, v) = 2
  /\ v \notin UsedElsewhere(blocks)
  /\ \E i \in InstrsOf(blocks) : i.op \in BinaryOps /\ i.args = <<Val(v), Val(v)>>

\* StackifyPlan::spill
Spilled(blocks) ==
  { i.out : i \in {j \in InstrsOf(blocks) :
      /\ ~FormalCopy(j)
      /\ ~Doubled(blocks, j.out)
      /\ \/ UseCount(blocks, j.out) > 1 /\ ~CheapConst(j)
         \/ UseCount(blocks, j.out) = 1 /\ HasSideEffects(j)
         \/ j.out \in UsedElsewhere(blocks) /\ ~CheapConst(j) } }

\* The parameters of the blocks but the entry, and those before block n.
ParamsOf(blocks, n) == {n} \X (0..(Len(blocks[n].params) - 1))
ParamsBefore(blocks, n) == UNION {ParamsOf(blocks, m) : m \in 2..(n - 1)}

\* build_stackify_plan: locals for the spilled values, the parameters of
\* blocks, and two for every compound assignment to a map.
PlanFor(blocks, spill, params, pairs, first) ==
  [spill |-> spill,
   slot  |-> [v \in spill |-> Cardinality({w \in spill : w < v})],
   pslot |-> [p \in params |->
                Cardinality(spill) + Cardinality(ParamsBefore(blocks, p[1])) + p[2]],
   pair  |-> [i \in 1..pairs |-> first + 2 * (i - 1)],
   locals |-> first + 2 * pairs]
PlanOf(blocks, spill, params) ==
  PlanFor(blocks, spill, params,
          Cardinality({i \in InstrsOf(blocks) : i.op = "MAPCOMPOUND"}),
          Cardinality(spill) + Cardinality(params))
Plan(blocks) == PlanOf(blocks, Spilled(blocks), ParamsBefore(blocks, Len(blocks) + 1))

-----------------------------------------------------------------------------
(* Values (builder.rs). *)

Used(i, c) == UsesOf(c.blocks, i.out) # {}
SpillTo(b, v, c) == [StoreLocal(b, c.plan.slot[v]) EXCEPT !.done = @ \cup {v}]
Reload(b, v, c) == [LoadLocal(b, c.plan.slot[v]) EXCEPT !.done = @ \cup {v}]

EmitFormal(b, n, c) == IF n < c.argc THEN EmitIns(b, Ins("LDARG", n)) ELSE Fail(b)

EmitLiteral(b, k) ==
  CASE BadLiteral(k)    -> Fail(b)
    [] k.s = "null"     -> Emit(b, "PUSHNULL")
    [] k.s = "string"   -> EmitData(b, k.n)
    [] OTHER            -> EmitPush(b, k.n)

RECURSIVE EmitRef(_, _, _), EmitRefs(_, _, _), EmitPure(_, _, _)

EmitRefs(refs, c, b) ==
  IF refs = <<>> THEN b ELSE EmitRefs(Tail(refs), c, EmitRef(Head(refs), c, b))

\* emit_value_ref_stackified and emit_value_id_stackified
EmitParam(n, c, b) ==
  CASE c.n = 1 -> EmitFormal(b, n, c)
    [] <<c.n, n>> \in DOMAIN c.plan.pslot -> LoadLocal(b, c.plan.pslot[<<c.n, n>>])
    [] OTHER -> Fail(b)

\* A spilled value is computed at its first use in its block. A value that is
\* not spilled is computed anew at every use.
Reloaded(v, c, b) ==
  v \in c.plan.spill /\ (v \in b.done \/ v \notin OutsOf(c.blocks[c.n]))
Kept(v, c, b) == IF v \in c.plan.spill THEN SpillTo(Emit(b, "DUP"), v, c) ELSE b
EmitDefined(v, i, c, b) ==
  IF v \notin c.plan.spill /\ HasSideEffects(i) THEN Fail(b)
                                               ELSE Kept(v, c, EmitPure(i, c, b))
EmitRef(ref, c, b) ==
  IF ref.r = "param" THEN EmitParam(ref.n, c, b)
  ELSE IF Reloaded(ref.n, c, b) THEN Reload(b, ref.n, c)
  ELSE EmitDefined(ref.n, DefOf(c.blocks, ref.n), c, b)

\* Two operands; equal ones are evaluated once.
EmitOperands(args, c, b) ==
  IF args[1] = args[2] THEN Emit(EmitRef(args[1], c, b), "DUP") ELSE EmitRefs(args, c, b)

\* emit_contract_map_composite_key
EmitItemKey(f, key, c, b) ==
  Emit(EmitConvert(EmitRef(key, c, EmitData(b, f + 1)), "ByteString"), "CAT")

\* Mutant: the pairs of a map in the order of the source.
EmitPairsForward(refs, c, b) == EmitRefs(refs, c, b)

\* The items of an array and the keys and values of a map, last to first:
\* every key comes to lie on its value.
EmitLastFirst(refs, c, b) == EmitRefs(Reversed(refs), c, b)

\* emit_pure_instr_stackified: what comes before the result's operands, in
\* which order they go, and what comes after them.
PureOperands(i, c, b) ==
  CASE i.op \in BinaryOps \cup {"INDEXGET"}  -> EmitOperands(i.args, c, b)
    [] i.op \in {"ARRAYPACK", "MAPPACK"}     -> EmitLastFirst(i.args, c, b)
    [] i.op \in {"MAPGET", "MAPHAS"}         -> EmitItemKey(i.k.n, i.args[1], c, b)
    [] OTHER                                 -> EmitRefs(i.args, c, b)

PureResult(i, b) ==
  CASE i.op = "COPY"        -> b
    [] i.op \in BinaryOps \cup PureDirectOps -> Emit(b, i.op)
    [] i.op = "INDEXGET"    -> Emit(b, "PICKITEM")
    [] i.op = "FIELDGET"    -> Emit(EmitPush(b, i.k.n), "PICKITEM")
    [] i.op = "ISNULL"      ->
         IF i.k.n = 1 THEN Emit(b, "ISNULL") ELSE Emit(Emit(b, "ISNULL"), "NOT")
    [] i.op = "CONVERT"     -> EmitConvert(b, i.k.s)
    [] i.op \in {"STRUCTPACK", "ARRAYPACK"} -> Pack(b, Len(i.args))
    [] i.op = "MAPPACK"     -> Emit(EmitPush(b, Len(i.args) \div 2), "PACKMAP")
    [] i.op = "STORAGEGET"  ->
         EmitConvert(EmitSyscall(EmitData(b, i.k.n), "get"), "Integer")
    [] i.op = "MAPGET"      -> EmitConvert(EmitSyscall(b, "get"), "Integer")
    [] i.op = "MAPHAS"      -> Emit(Emit(EmitSyscall(b, "get"), "ISNULL"), "NOT")
    [] OTHER                -> Fail(b)

EmitPure(i, c, b) ==
  CASE i.op = "CONST"    -> EmitLiteral(b, i.k)
    [] FormalCopy(i)     -> EmitFormal(b, i.args[1].n, c)
    [] HasSideEffects(i) -> Fail(b)
    [] OTHER             -> PureResult(i, PureOperands(i, c, b))

-----------------------------------------------------------------------------
(* emit_instr_stackified: instructions with side effects. *)

Stored(i, c, b) == IF i.out \in c.plan.spill THEN SpillTo(b, i.out, c) ELSE b

\* Mutant: the result of a call stays on the stack when nobody uses it.
LeavesResult(i, c, b) == Stored(i, c, b)

\* What comes after an instruction that is taken to leave a value, and after
\* one that leaves none.
KeepResult(i, c, b) == IF Used(i, c) THEN Stored(i, c, b) ELSE Emit(b, "DROP")
NoResult(i, c, b) == IF Used(i, c) THEN Stored(i, c, Emit(b, "PUSHNULL")) ELSE b

DupIfUsed(i, c, b) == IF Used(i, c) THEN Emit(b, "DUP") ELSE b

\* SETITEM, with base, index and value on the stack.
SetItem(i, c, b) ==
  LET put == Emit(DupIfUsed(i, c, b), "SETITEM")
  IN  IF Used(i, c) /\ i.out \in c.plan.spill
      THEN SpillTo(Emit(put, "DUP"), i.out, c)
      ELSE put

\* The value under the key of a field or of an item of a map.
PutField(i, c, b) ==
  EmitSyscall(EmitData(EmitConvert(DupIfUsed(i, c, b), "Buffer"), i.k.n), "put")
PutItem(b) == EmitSyscall(Emit(EmitConvert(Emit(b, "SWAP"), "Buffer"), "SWAP"), "put")

\* A compound assignment has two locals of its own: the key, the result.
OldItem(b, key) ==
  EmitConvert(EmitSyscall(StoreLocal(Emit(b, "DUP"), key), "get"), "Integer")
PutKept(b, key) ==
  LET value == EmitConvert(LoadLocal(LoadLocal(b, key), key + 1), "Buffer")
  IN  EmitSyscall(Emit(value, "SWAP"), "put")
MapCompoundResult(i, key, c, b) ==
  IF Used(i, c) THEN Stored(i, c, LoadLocal(PutKept(b, key), key + 1))
                ELSE PutKept(b, key)
EmitMapCompound(i, key, c, b) ==
  MapCompoundResult(i, key, c,
    StoreLocal(Emit(EmitRef(i.args[2], c,
                            OldItem(EmitItemKey(i.k.n, i.args[1], c, b), key)),
                    i.k.s), key + 1))

RECURSIVE EmitSteps(_, _, _, _)
EmitSteps(args, steps, c, b) ==
  IF steps = <<>> THEN b
  ELSE EmitSteps(args, Tail(steps), c,
         IF Head(steps) = 0 THEN EmitPush(b, ReadOnly)
                            ELSE EmitRef(args[Head(steps)], c, b))

\* The operands, in the order in which each instruction wants them.
CallOps == {"PACKAGECALL", "SELFCALL", "STRUCTCALL"}
EffectOperands(i, c, b) ==
  CASE i.op = "FIELDSET"    ->
         EmitRef(i.args[2], c, EmitPush(EmitRef(i.args[1], c, b), i.k.n))
    [] i.op = "MAPPUT"      ->
         EmitItemKey(i.k.n, i.args[1], c, EmitRef(i.args[2], c, b))
    [] i.op = "MAPREMOVE"   -> EmitItemKey(i.k.n, i.args[1], c, b)
    [] i.op = "RUNTIMECALL" -> EmitSteps(i.args, RuntimeSteps[i.k.s], c, b)
    [] i.op \in CallOps     -> EmitRefs(Reversed(i.args), c, b)
    [] OTHER                -> EmitRefs(i.args, c, b)

EffectResult(i, c, b) ==
  CASE i.op \in {"INDEXSET", "FIELDSET"} -> SetItem(i, c, b)
    [] i.op = "STORAGEPUT"  ->
         IF Used(i, c) THEN Stored(i, c, PutField(i, c, b)) ELSE PutField(i, c, b)
    [] i.op = "MAPPUT"      -> PutItem(b)
    [] i.op = "MAPREMOVE"   -> NoResult(i, c, EmitSyscall(b, "delete"))
    [] i.op = "EMIT"        ->
         NoResult(i, c, EmitSyscall(EmitData(Pack(b, Len(i.args)), i.k.n), "notify"))
    [] i.op = "RUNTIMECALL" ->
         IF i.k.s \in RuntimeVoid THEN NoResult(i, c, EmitSyscall(b, i.k.s))
                                  ELSE KeepResult(i, c, EmitSyscall(b, i.k.s))
    [] i.op \in BuiltinVoid -> NoResult(i, c, Emit(b, i.op))
    [] i.op = "REMOVE"      -> Emit(b, "REMOVE")
    [] i.op \in {"APPEND", "POPITEM", "CLEARITEMS"} -> KeepResult(i, c, Emit(b, i.op))
    [] i.op \in CallOps     -> KeepResult(i, c, CallTo(b, i.k.s))

EmitEffect(i, c, b) ==
  IF i.op = "MAPCOMPOUND"
  THEN EmitMapCompound(i, c.plan.pair[b.pairs + 1], c, [b EXCEPT !.pairs = @ + 1])
  ELSE EffectResult(i, c, EffectOperands(i, c, b))

-----------------------------------------------------------------------------
(* Terminators (branch_emit.rs). *)

EmitJump(b, op, to) ==
  [EmitPlaceholder(b, op) EXCEPT
     !.pending = Append(@, [at |-> Count(b) + 1, to |-> to])]

\* emit_jump_args_stackified
EmitJumpArgs(args, c, b) == EmitRefs(Reversed(args), c, b)

\* branch_try_jmpif_then_return_else_relay: the else block does nothing but
\* jump on, and only this branch leads to it.
Relay(blocks, t) ==
  /\ t.args = <<>>
  /\ t.to # t.else
  /\ blocks[t.to].term.t = "return"
  /\ blocks[t.else].instrs = <<>>
  /\ blocks[t.else].term.t = "jump"
  /\ blocks[t.else].term.to \notin {t.to, t.else}
  /\ Cardinality({n \in DOMAIN blocks : /\ blocks[n].term.t = "branch"
                                        /\ blocks[n].term.else = t.else}) = 1
  /\ ~\E n \in DOMAIN blocks :
        blocks[n].term.t \in {"jump", "branch"} /\ blocks[n].term.to = t.else

Skipped(blocks) ==
  {blocks[n].term.else : n \in {m \in DOMAIN blocks :
     blocks[m].term.t = "branch" /\ Relay(blocks, blocks[m].term)}}

\* A jump on the condition past the arguments for the other block.
EmitThenOrElse(b, op, first, args, second, c) ==
  EmitJump(EmitJumpArgs(args, c, EmitJump(b, op, first)), "JMP_L", second)

\* emit_branch_terminator, after the condition
EmitBothArgs(t, c, then, stub) ==
  EmitJump(EmitJumpArgs(t.elseargs, c, PatchToHere(then, stub)), "JMP_L", t.else)
EmitThenArgs(t, c, stub) ==
  EmitBothArgs(t, c, EmitJump(EmitJumpArgs(t.args, c, stub), "JMP_L", t.to), Count(stub))
EmitBranch(t, c, b) ==
  CASE Relay(c.blocks, t) ->
         EmitThenOrElse(b, "JMPIF_L", t.to, t.elseargs, c.blocks[t.else].term.to, c)
    [] ~Relay(c.blocks, t) /\ t.args # <<>> /\ t.elseargs # <<>> ->
         EmitThenArgs(t, c, EmitPlaceholder(b, "JMPIFNOT_L"))
    [] ~Relay(c.blocks, t) /\ t.args # <<>> /\ t.elseargs = <<>> ->
         EmitThenOrElse(b, "JMPIFNOT_L", t.else, t.args, t.to, c)
    [] OTHER ->
         EmitThenOrElse(b, "JMPIF_L", t.to, t.elseargs, t.else, c)

EmitTerm(t, c, b) ==
  CASE t.t = "return" -> Emit(EmitRefs(t.refs, c, b), "RET")
    [] t.t = "jump"   -> EmitJump(EmitJumpArgs(t.args, c, b), "JMP_L", t.to)
    [] t.t = "branch" -> EmitBranch(t, c, EmitRef(t.refs[1], c, b))
    [] t.t = "unset"  -> Fail(b)

-----------------------------------------------------------------------------
(* Blocks (block_emit.rs) and the function (compile.rs). *)

RECURSIVE StoreParams(_, _, _), EmitEffects(_, _, _), SpillForOthers(_, _, _),
          EmitBlocks(_, _), PatchAll(_, _)

\* The arguments of the jump into a block, the last parameter first.
StoreParams(k, c, b) ==
  IF k = 0 THEN b
  ELSE StoreParams(k - 1, c, StoreLocal(b, c.plan.pslot[<<c.n, k - 1>>]))

EmitEffects(instrs, c, b) ==
  IF instrs = <<>> THEN b
  ELSE EmitEffects(Tail(instrs), c,
         IF HasSideEffects(Head(instrs)) THEN EmitEffect(Head(instrs), c, b) ELSE b)

\* The spilled values of this block that others use and that nothing in it
\* has needed yet.
SpillForOthers(vs, c, b) ==
  IF vs = <<>> THEN b
  ELSE SpillForOthers(Tail(vs), c,
         IF Head(vs) \in b.done \/ HasSideEffects(DefOf(c.blocks, Head(vs))) THEN b
         ELSE SpillTo(EmitPure(DefOf(c.blocks, Head(vs)), c, b), Head(vs), c))

\* A HashSet of values in one of two orders.
Enumerated(S, up) ==
  [k \in 1..Cardinality(S) |->
     CHOOSE v \in S : Cardinality({w \in S : IF up THEN w < v ELSE w > v}) = k - 1]

EmitBlock(c, b) ==
  LET this   == c.blocks[c.n]
      begun  == [b EXCEPT !.start = [m \in DOMAIN @ \cup {c.n} |->
                                       IF m = c.n THEN Cursor(b) ELSE @[m]],
                          !.done = {}]
      params == IF c.n = 1 THEN begun ELSE StoreParams(Len(this.params), c, begun)
      others == OutsOf(this) \cap UsedElsewhere(c.blocks) \cap c.plan.spill
      body   == SpillForOthers(Enumerated(others, c.up), c,
                               EmitEffects(this.instrs, c, params))
  IN  EmitTerm(this.term, c, body)

EmitBlocks(c, b) ==
  IF c.n > Len(c.blocks) \/ ~b.ok THEN b
  ELSE EmitBlocks([c EXCEPT !.n = @ + 1],
         IF c.n \in Skipped(c.blocks) THEN b ELSE EmitBlock(c, b))

PatchAll(jumps, b) ==
  CASE jumps = <<>> -> b
    [] jumps # <<>> /\ Head(jumps).to \notin DOMAIN b.start -> Fail(b)
    [] OTHER -> PatchAll(Tail(jumps), PatchJump(b, Head(jumps).at, b.start[Head(jumps).to]))

\* compile_ir
Finished(b, plan) ==
  IF b.ok THEN PatchLocals(PatchAll(b.pending, b), plan.locals) ELSE b
EmitFunction(blocks, argc, up, plan) ==
  Finished(EmitBlocks([blocks |-> blocks, plan |-> plan, n |-> 1, argc |-> argc, up |-> up],
                      Emit([code |-> <<>>, calls |-> <<>>, done |-> {}, pairs |-> 0,
                            ok |-> plan.locals < SlotLimit, pending |-> <<>>,
                            start |-> [n \in {} |-> 0]], "INITSLOT")),
           plan)
CompileIr(blocks, argc, up) == EmitFunction(blocks, argc, up, Plan(blocks))
=============================================================================
