------------------------------ MODULE Bytecode ------------------------------
(***************************************************************************)
(* The instructions that the code generator of neo-compiler emits          *)
(* (target/mod.rs, target/opcode.rs) and their layout in a script.         *)
(*                                                                         *)
(* An instruction is a record:                                             *)
(*   op    the opcode; a slot instruction's short forms (LDLOC0..LDLOC6)   *)
(*         and its operand form are one opcode here, as they are for       *)
(*         load_slot and store_slot in codegen/opt.rs;                     *)
(*   arg   the slot of a slot instruction, the value of a push (1 and 0    *)
(*         for PUSHT and PUSHF), the number of payload bytes of a          *)
(*         PUSHDATA, the number of locals of an INITSLOT, the type of a    *)
(*         CONVERT, a number for the system call of a SYSCALL, 0 for the   *)
(*         others;                                                         *)
(*   rels  the PC-relative operands: one for a jump or a call, two for     *)
(*         TRY, none for the others;                                       *)
(*   id    a ghost, absent from the code: the position the instruction had *)
(*         when it was emitted, so that a property can follow it.          *)
(* Positions are numbered from 1, byte offsets from 0 as in the code.      *)
(***************************************************************************)
EXTENDS Integers, Sequences

SlotOps == {"LDLOC", "STLOC", "LDARG", "STARG"}

\* long_pc_branch_to_short_opcode: the narrow form of a long branch.
ShortForm ==
  [JMP_L    |-> "JMP",      JMPIF_L |-> "JMPIF", JMPIFNOT_L |-> "JMPIFNOT",
   JMPEQ_L  |-> "JMPEQ",    JMPNE_L |-> "JMPNE", JMPGT_L    |-> "JMPGT",
   JMPGE_L  |-> "JMPGE",    JMPLT_L |-> "JMPLT", JMPLE_L    |-> "JMPLE",
   ENDTRY_L |-> "ENDTRY"]

Shortenable == DOMAIN ShortForm
ShortBranches == {ShortForm[op] : op \in Shortenable} \cup {"CALL", "TRY"}
LongBranches == Shortenable \cup {"CALL_L", "TRY_L"}
Branches == ShortBranches \cup LongBranches

PlainOps == {"DUP", "DROP", "SWAP", "RET", "PUSH", "PUSHDATA", "PUSHNULL",
             "INITSLOT", "ADD", "SUB", "MUL", "DIV", "MOD", "INC", "NEGATE",
             "NOT", "LT", "EQUAL", "NOTEQUAL", "ISNULL", "CONVERT", "CAT",
             "SUBSTR", "SQRT", "MODMUL", "MODPOW", "WITHIN", "MIN", "MAX",
             "SIZE", "KEYS", "VALUES", "HASKEY", "PICKITEM", "SETITEM",
             "APPEND", "POPITEM", "REMOVE", "CLEARITEMS", "PACK", "PACKMAP",
             "ASSERTMSG", "ABORTMSG", "SYSCALL", "CALLT"}

Ops == SlotOps \cup Branches \cup PlainOps

\* Only a push has a negative operand.
Instruction ==
  {i \in [op : Ops, arg : Int, rels : Seq(Int), id : Nat] : i.op = "PUSH" \/ i.arg >= 0}

Ins(op, arg) == [op |-> op, arg |-> arg, rels |-> <<>>, id |-> 0]
Jump(op, rel) == [op |-> op, arg |-> 0, rels |-> <<rel>>, id |-> 0]

\* The operand of SYSCALL: a number stands for the four bytes of the name's
\* hash. The operand of CONVERT, by StackItemType.
Syscalls == [notify |-> 0, get |-> 1, put |-> 2, delete |-> 3,
             getTime |-> 4, burnGas |-> 5, call |-> 6]
StackTypes == [Boolean |-> 32, Integer |-> 33, ByteString |-> 40, Buffer |-> 48]

-----------------------------------------------------------------------------
\* push_int: PUSHM1..PUSH16, then PUSHINT8, PUSHINT16, PUSHINT32, PUSHINT64.
PushLen(n) ==
  IF -1 <= n /\ n <= 16 THEN 1
  ELSE IF -128 <= n /\ n <= 127 THEN 2
  ELSE IF -32768 <= n /\ n <= 32767 THEN 3
  ELSE IF -2147483647 - 1 <= n /\ n <= 2147483647 THEN 5 ELSE 9

\* push_data: the opcode and the length in one, two or four bytes.
DataPrefix(len) ==
  IF len <= 255 THEN 2 ELSE IF len <= 65535 THEN 3 ELSE 5

\* Instruction::encoded_len: the opcode byte and its operand bytes.
EncodedLen(i) ==
  CASE i.op \in SlotOps                        -> IF i.arg <= 6 THEN 1 ELSE 2
    [] i.op = "TRY_L"                          -> 9
    [] i.op \in LongBranches \ {"TRY_L"}       -> 5
    [] i.op \in {"TRY", "INITSLOT", "CALLT"}   -> 3
    [] i.op \in ShortBranches \ {"TRY"}        -> 2
    [] i.op = "CONVERT"                        -> 2
    [] i.op = "PUSH"                           -> PushLen(i.arg)
    [] i.op = "PUSHDATA"                       -> DataPrefix(i.arg) + i.arg
    [] i.op = "SYSCALL"                        -> 5
    [] OTHER                                   -> 1

\* The sums of the first k - 1 entries of w, for k \in 1..(Len(w) + 1).
PrefixSums(w) ==
  LET off[k \in 1..(Len(w) + 1)] ==
        IF k = 1 THEN 0 ELSE off[k - 1] + w[k - 1]
  IN  off

\* prefix_byte_offsets, bytecode_offset_of: where each instruction starts;
\* entry Len(s) + 1 is the length of the script.
Lengths(s) == [k \in DOMAIN s |-> EncodedLen(s[k])]
Offsets(s) == PrefixSums(Lengths(s))

Offset(s, k) == Offsets(s)[k]
ScriptLen(s) == Offset(s, Len(s) + 1)

\* The offset an operand designates: it counts from the opcode byte.
Target(s, k, rel) == Offset(s, k) + rel

\* The instruction that starts at byte offset p, Len(s) + 1 for the end of
\* the script, 0 when p is not a boundary.
InstructionAt(s, p) ==
  IF \E k \in 1..(Len(s) + 1) : Offset(s, k) = p
  THEN CHOOSE k \in 1..(Len(s) + 1) : Offset(s, k) = p
  ELSE 0

\* Every branch of s designates an instruction of s or the end of s.
WellTargeted(s) ==
  \A k \in DOMAIN s : \A r \in DOMAIN s[k].rels :
     InstructionAt(s, Target(s, k, s[k].rels[r])) # 0

\* i8::try_from on the operand of a short form.
FitsI8(rel) == rel \in -128..127

\* Vec::drain(i..i + n).
Drain(s, i, n) ==
  [k \in 1..(Len(s) - n) |-> IF k < i THEN s[k] ELSE s[k + n]]
=============================================================================
