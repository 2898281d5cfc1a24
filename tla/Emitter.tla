------------------------------ MODULE Emitter ------------------------------
(***************************************************************************)
(* The part of Builder (target/mod.rs) that both code generators use to    *)
(* append instructions and to patch jumps. A builder is a record; here its *)
(* code (Builder::instructions) and calls (pending_call_l, call_patches)   *)
(* matter.                                                                 *)
(***************************************************************************)
EXTENDS Bytecode

Cursor(b) == ScriptLen(b.code)
Count(b) == Len(b.code)

EmitIns(b, i) ==
  [b EXCEPT !.code = Append(@, [i EXCEPT !.id = Count(b) + 1])]
Emit(b, op) == EmitIns(b, Ins(op, 0))
EmitPush(b, n) == EmitIns(b, Ins("PUSH", n))
EmitData(b, len) == EmitIns(b, Ins("PUSHDATA", len))
StoreLocal(b, slot) == EmitIns(b, Ins("STLOC", slot))
LoadLocal(b, slot) == EmitIns(b, Ins("LDLOC", slot))

\* emit_jmp_l_placeholder and its conditional forms; the jump is the last
\* instruction and is patched by position.
EmitPlaceholder(b, op) == EmitIns(b, Jump(op, 0))

\* patch_jmp_target_at_instruction
PatchJump(b, at, to) ==
  [b EXCEPT !.code[at].rels = <<to - Offset(b.code, at)>>]
PatchToHere(b, at) == PatchJump(b, at, Cursor(b))

\* A CALL_L placeholder and the entry that names its callee.
CallTo(b, sym) ==
  [EmitPlaceholder(b, "CALL_L") EXCEPT
     !.calls = Append(@, [at |-> Count(b) + 1, sym |-> sym])]

Pack(b, n) == Emit(EmitPush(b, n), "PACK")

\* emit_initslot and patch_initslot_local_count, at the first instruction.
PatchLocals(b, n) == [b EXCEPT !.code[1].arg = n]

\* emit_syscall
EmitSyscall(b, name) == EmitIns(b, Ins("SYSCALL", Syscalls[name]))

\* RuntimeBinding::emit_steps up to the system call: the arguments by number,
\* last to first, and 0 for the call flags that CONTRACT_CALL_EMIT injects.
RuntimeSteps == [getTime |-> <<>>, burnGas |-> <<1>>, call |-> <<3, 0, 2, 1>>]
ReadOnly == 5
\* RuntimeBinding::leaves_stack_value
RuntimeVoid == {"burnGas"}
\* BuiltinMethod::leaves_stack_value
BuiltinVoid == {"ASSERTMSG", "ABORTMSG"}

\* emit_with_operands(CONVERT, type)
EmitConvert(b, type) == EmitIns(b, Ins("CONVERT", StackTypes[type]))

Fail(b) == [b EXCEPT !.ok = FALSE]
=============================================================================
