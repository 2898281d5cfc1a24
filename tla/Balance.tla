------------------------------ MODULE Balance ------------------------------
(***************************************************************************)
(* The stack of a running routine, without the source it was compiled      *)
(* from. A routine is balanced if each of its instructions has a height of *)
(* the stack that every way to it agrees on. That is a matter of the       *)
(* routine alone; what follows for its runs, on any arguments, any heap    *)
(* and any replies of other routines, is proved in BalanceProofs.          *)
(***************************************************************************)
EXTENDS Machine

VARIABLES func,   \* the function that runs; here, whether it is void
          heights \* ghost: the height of the stack at each position so far

NoteHeight ==
  heights' = [p \in DOMAIN heights \cup {pc} |->
                IF p \in DOMAIN heights THEN heights[p] ELSE Len(stack)]

RunStep == MachineStep /\ NoteHeight /\ UNCHANGED func

-----------------------------------------------------------------------------
Jumping == {"JMP", "JMP_L", "JMPIF", "JMPIF_L", "JMPIFNOT", "JMPIFNOT_L"}
Packing == {"PACK", "PACKMAP"}

Destination(r, p) == InstructionAt(r.inst, Target(r.inst, p, r.inst[p].rels[1]))
JumpsTo(r, p, q) == r.inst[p].op \in Jumping /\ Destination(r, p) = q
FallsThrough(r, p) == r.inst[p].op \notin {"JMP", "JMP_L", "RET"}

\* What an instruction takes and leaves; a number of items has been pushed
\* right before they are packed.
Taken(r, p) ==
  TakesAt(r, p, IF r.inst[p].op \in Packing /\ p > 1 THEN r.inst[p - 1].arg ELSE 0)
Left(r, p) ==
  LET i == r.inst[p]
  IN  CASE i.op \in Operations \ Silent -> 1
        [] i.op \in {"PUSH", "PUSHDATA", "PUSHNULL", "LDLOC", "LDARG", "CONVERT",
                     "CAT", "PACK", "PACKMAP"} -> 1
        [] i.op \in {"DUP", "SWAP"} -> 2
        [] i.op = "CALL_L" -> IF CalleeAt(r, p) \in VoidFunctions THEN 0 ELSE 1
        [] i.op = "SYSCALL" ->
             IF i.arg \in {Syscalls[n] : n \in {"get", "getTime", "call"}} THEN 1 ELSE 0
        [] OTHER -> 0

\* The height at position p > 1, after those of the positions before it: from
\* the instruction before it, or from a jump.
HeightAfter(r, before, p) ==
  IF FallsThrough(r, p - 1)
  THEN before[p - 1] - Taken(r, p - 1) + Left(r, p - 1)
  ELSE IF \E q \in 1..(p - 1) : JumpsTo(r, q, p)
       THEN LET q == CHOOSE k \in 1..(p - 1) : JumpsTo(r, k, p)
            IN  before[q] - Taken(r, q)
       ELSE 0
HeightsOf(r) ==
  LET upto[p \in 1..Len(r.inst)] ==
        IF p = 1 THEN <<0>>
        ELSE LET before == upto[p - 1] IN Append(before, HeightAfter(r, before, p))
  IN  upto[Len(r.inst)]

\* Each instruction finds its operands, whatever follows it expects what it
\* leaves, control stays in the routine, and RET finds the result alone.
Balanced(r, void) ==
  /\ r.inst \in Seq(Instruction)
  /\ r.inst # <<>>
  /\ LET h == HeightsOf(r)
     IN  /\ h[1] = 0
         /\ \A p \in DOMAIN r.inst :
              /\ h[p] \in Nat
              /\ Taken(r, p) \in 0..h[p]
              /\ FallsThrough(r, p) =>
                   /\ p + 1 \in DOMAIN r.inst
                   /\ h[p + 1] = h[p] - Taken(r, p) + Left(r, p)
              /\ r.inst[p].op \in Jumping =>
                   /\ Destination(r, p) \in DOMAIN r.inst
                   /\ h[Destination(r, p)] = h[p] - Taken(r, p)
              /\ r.inst[p].op \in Packing =>
                   /\ p > 1
                   /\ r.inst[p - 1].op = "PUSH"
                   /\ \A q \in DOMAIN r.inst : ~JumpsTo(r, q, p)
              /\ r.inst[p].op = "RET" => h[p] = IF void THEN 0 ELSE 1

\* A balanced routine is entered, with anything in its arguments and memory.
RunInit ==
  /\ Balanced(code, func.void)
  /\ pc = 1
  /\ stack = <<>>
  /\ status = "run"
  /\ heights = [p \in {} |-> 0]

RunSpec == RunInit /\ [][RunStep]_<<machine, func, heights>>

-----------------------------------------------------------------------------
\* However control reaches an instruction, the stack is as high as the first
\* time: no path of &&, ||, if or a loop leaves a value or takes one too many.
HeightsAgree ==
  status = "run" /\ pc \in DOMAIN heights => heights[pc] = Len(stack)

\* No instruction lacks an operand: a run fails for what its operands are, as
\* the source does, and never because the code lost one.
OperandsPresent == status = "run" /\ pc \in DOMAIN code.inst => Takes <= Len(stack)

\* A routine returns with its value alone on the stack, or with nothing for
\* void: every expression statement drops what it leaves. function.rs:4.
ReturnsItsValue ==
  status = "halt" => Len(stack) = IF func.void THEN 0 ELSE 1

\* Control never runs past the last instruction of the routine, into the
\* next one of the script: a void function ends in RET. function.rs:83-91.
StaysInside == status = "run" => pc \in DOMAIN code.inst
=============================================================================
