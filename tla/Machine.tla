------------------------------- MODULE Machine -------------------------------
(***************************************************************************)
(* The virtual machine on one routine of the script, as far as the code    *)
(* generator relies on it (codegen/mod.rs and function.rs say how). It is  *)
(* no part of the repository.                                              *)
(*                                                                         *)
(* The routine has just been entered: its parameters are in the argument   *)
(* slots. A call of another routine is one step, which takes its arguments *)
(* (the first one on top), records them in trace and pushes the reply.     *)
(* A fault ends the run with status "fault". There is no step past the     *)
(* last instruction, where the next routine of the script begins.          *)
(***************************************************************************)
EXTENDS Bytecode, Values

CONSTANTS Arity,         \* the number of parameters of each routine
          VoidFunctions, \* the routines that return nothing
          Reply(_, _)    \* what a routine returns for given arguments

VARIABLES code,    \* the routine: inst, and calls, its call patches
          pc,      \* position of the next instruction
          stack,   \* evaluation stack, the top last
          locals,  \* local slots
          args,    \* argument slots
          heap,    \* arrays and maps
          store,   \* the contract's storage, from keys to values
          trace,   \* calls, events and writes to storage so far
          status   \* "run", "halt" or "fault"

slots == <<locals, args>>
memory == <<heap, store, trace>>
machine == <<code, pc, stack, slots, memory, status>>

Current == code.inst[pc]
\* The value k places below the top, and the stack without its top n values.
Under(k) == stack[Len(stack) - k]
Rest(n) == SubSeq(stack, 1, Len(stack) - n)
\* The top n values, the top last and the top first.
Pushed(n) == SubSeq(stack, Len(stack) - n + 1, Len(stack))
Popped(n) == [i \in 1..n |-> Under(i - 1)]

CalleeAt(r, p) == (CHOOSE c \in {r.calls[i] : i \in DOMAIN r.calls} : c.at = p).sym
Callee == CalleeAt(code, pc)

\* What the system calls take, in the order of their numbers.
SyscallTakes == <<2, 1, 2, 1, 0, 1, 4>>
Syscall(name) == Current.op = "SYSCALL" /\ Current.arg = Syscalls[name]

\* The number of values that instruction p of routine r takes from the stack;
\* PACK takes a number of items and as many items.
TakesAt(r, p, items) ==
  LET i == r.inst[p]
  IN  CASE i.op \in Operations -> Operands(i.op)
        [] i.op \in {"STLOC", "STARG", "DUP", "DROP", "CONVERT", "JMPIF",
                    "JMPIF_L", "JMPIFNOT", "JMPIFNOT_L"} -> 1
        [] i.op \in {"SWAP", "CAT"} -> 2
        [] i.op = "SETITEM" -> 3
        [] i.op = "SYSCALL" -> SyscallTakes[i.arg + 1]
        [] i.op = "PACK"    -> 1 + items
        [] i.op = "PACKMAP" -> 1 + 2 * items
        [] i.op = "CALL_L"  -> Arity[CalleeAt(r, p)]
        [] OTHER            -> 0
Takes == TakesAt(code, pc, IF stack = <<>> THEN 0 ELSE Under(0).n)

\* The current instruction has operands it can work on.
Acceptable ==
  CASE Current.op \in Operations -> Operable(heap, Current.op, Pushed(Takes))
    [] Current.op = "CONVERT" -> Convertible(Under(0))
    [] Current.op = "CAT"     -> Under(1).k = "text" /\ Under(0).k = "bytes"
    [] Current.op = "SETITEM" -> CanHold(heap, Under(2), Under(1))
    [] Syscall("put")         -> Under(1).k = "bytes"
    [] Current.op \in {"LDLOC", "STLOC"} -> Current.arg \in DOMAIN locals
    [] Current.op \in {"LDARG", "STARG"} -> Current.arg \in DOMAIN args
    [] OTHER -> TRUE

Inside == status = "run" /\ pc \in DOMAIN code.inst
Sound == Takes <= Len(stack) /\ Acceptable
At(ops) == Inside /\ Current.op \in ops /\ Sound
AtSyscall(names) == At({"SYSCALL"}) /\ \E n \in names : Syscall(n)

-----------------------------------------------------------------------------
Proceed == pc' = pc + 1 /\ UNCHANGED <<code, status>>
Pushes(v) == stack' = Append(Rest(Takes), v)
Reports(sym, given) == trace' = Append(trace, Event(sym, given))

EnterRoutine ==
  /\ At({"INITSLOT"})
  /\ locals' = [i \in 0..(Current.arg - 1) |-> Null]
  /\ Proceed
  /\ UNCHANGED <<stack, args, memory>>

PushConstant ==
  /\ At({"PUSH", "PUSHDATA", "PUSHNULL"})
  /\ Pushes(CASE Current.op = "PUSH"     -> Num(Current.arg)
              [] Current.op = "PUSHDATA" -> Text(Current.arg)
              [] OTHER                   -> Null)
  /\ Proceed
  /\ UNCHANGED <<slots, memory>>

Load ==
  /\ At({"LDLOC", "LDARG"})
  /\ Pushes(IF Current.op = "LDLOC" THEN locals[Current.arg] ELSE args[Current.arg])
  /\ Proceed
  /\ UNCHANGED <<slots, memory>>

Store ==
  /\ At({"STLOC", "STARG"})
  /\ IF Current.op = "STLOC"
     THEN locals' = [locals EXCEPT ![Current.arg] = Under(0)] /\ UNCHANGED args
     ELSE args' = [args EXCEPT ![Current.arg] = Under(0)] /\ UNCHANGED locals
  /\ stack' = Rest(1)
  /\ Proceed
  /\ UNCHANGED memory

\* DUP, DROP and SWAP.
Rearrange ==
  /\ At({"DUP", "DROP", "SWAP"})
  /\ stack' = CASE Current.op = "DUP"  -> Append(stack, Under(0))
                [] Current.op = "DROP" -> Rest(1)
                [] OTHER               -> Rest(2) \o Popped(2)
  /\ Proceed
  /\ UNCHANGED <<slots, memory>>

Compute ==
  /\ At(Operations)
  /\ heap' = HeapAfter(heap, Current.op, Pushed(Takes))
  /\ IF Current.op \in Silent
     THEN stack' = Rest(Takes)
     ELSE Pushes(Operated(heap, Current.op, Pushed(Takes)))
  /\ Proceed
  /\ UNCHANGED <<slots, store, trace>>

Convert ==
  /\ At({"CONVERT"})
  /\ Pushes(Converted(Under(0), CHOOSE t \in DOMAIN StackTypes :
                                  StackTypes[t] = Current.arg))
  /\ Proceed
  /\ UNCHANGED <<slots, memory>>

Concatenate ==
  /\ At({"CAT"})
  /\ Pushes(Key(Under(1).n, Under(0).n))
  /\ Proceed
  /\ UNCHANGED <<slots, memory>>

\* The top item comes first in a new array; in a new map, with its key on top
\* of its value.
Collect ==
  /\ At({"PACK", "PACKMAP"})
  /\ heap' = Append(heap, [i \in 1..(Takes - 1) |-> Under(i)])
  /\ Pushes(IF Current.op = "PACK" THEN Ref(Len(heap) + 1) ELSE MapRef(Len(heap) + 1))
  /\ Proceed
  /\ UNCHANGED <<slots, store, trace>>

PutItem ==
  /\ At({"SETITEM"})
  /\ heap' = WithItem(heap, Under(2), Under(1), Under(0))
  /\ stack' = Rest(3)
  /\ Proceed
  /\ UNCHANGED <<slots, store, trace>>

\* JMP, JMPIF and JMPIFNOT in both forms.
Jumps ==
  \/ Current.op \in {"JMP", "JMP_L"}
  \/ Current.op \in {"JMPIF", "JMPIF_L"} /\ Truth(Under(0))
  \/ Current.op \in {"JMPIFNOT", "JMPIFNOT_L"} /\ ~Truth(Under(0))

Branch ==
  /\ At({"JMP", "JMP_L", "JMPIF", "JMPIF_L", "JMPIFNOT", "JMPIFNOT_L"})
  /\ pc' = IF Jumps
           THEN InstructionAt(code.inst, Target(code.inst, pc, Current.rels[1]))
           ELSE pc + 1
  /\ stack' = Rest(Takes)
  /\ UNCHANGED <<code, slots, memory, status>>

Invoke ==
  /\ At({"CALL_L"})
  /\ LET given == AllShown(heap, Popped(Takes))
     IN  /\ Reports(Callee, given)
         /\ IF Callee \in VoidFunctions
            THEN stack' = Rest(Takes)
            ELSE Pushes(Reply(Callee, given))
  /\ Proceed
  /\ UNCHANGED <<slots, heap, store>>

\* Notify, with the name on top of the array of arguments, and BurnGas.
Notify ==
  /\ AtSyscall({"notify", "burnGas"})
  /\ Reports(IF Syscall("notify") THEN "notify" ELSE "burnGas",
             AllShown(heap, Popped(Takes)))
  /\ stack' = Rest(Takes)
  /\ Proceed
  /\ UNCHANGED <<slots, heap, store>>

\* GetTime and Contract.Call.
Ask ==
  /\ AtSyscall({"getTime", "call"})
  /\ LET name == IF Syscall("call") THEN "call" ELSE "getTime"
         given == AllShown(heap, Popped(Takes))
     IN  Reports(name, given) /\ Pushes(Reply(name, given))
  /\ Proceed
  /\ UNCHANGED <<slots, heap, store>>

\* System.Storage.Local; null for a key that is not there.
ReadStorage ==
  /\ AtSyscall({"get"})
  /\ Pushes(IF Under(0) \in DOMAIN store THEN store[Under(0)] ELSE Null)
  /\ Proceed
  /\ UNCHANGED <<slots, memory>>

WriteStorage ==
  /\ AtSyscall({"put", "delete"})
  /\ IF Syscall("put")
     THEN store' = [key \in DOMAIN store \cup {Under(0)} |->
                      IF key = Under(0) THEN Under(1) ELSE store[key]]
     ELSE store' = [key \in DOMAIN store \ {Under(0)} |-> store[key]]
  /\ Reports(IF Syscall("put") THEN "put" ELSE "delete",
             AllShown(heap, Popped(Takes)))
  /\ stack' = Rest(Takes)
  /\ Proceed
  /\ UNCHANGED <<slots, heap>>

Finish ==
  /\ At({"RET"})
  /\ status' = "halt"
  /\ UNCHANGED <<code, pc, stack, slots, memory>>

Fault ==
  /\ Inside /\ ~Sound
  /\ status' = "fault"
  /\ UNCHANGED <<code, pc, stack, slots, memory>>

MachineStep ==
  \/ EnterRoutine \/ PushConstant \/ Load \/ Store \/ Rearrange \/ Compute
  \/ Convert \/ Concatenate \/ Collect \/ PutItem \/ Branch \/ Invoke \/ Notify
  \/ Ask \/ ReadStorage \/ WriteStorage \/ Finish \/ Fault
=============================================================================
