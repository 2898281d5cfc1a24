------------------------------ MODULE Execution ------------------------------
(***************************************************************************)
(* One run of one compiled function: the syntax tree goes through the code *)
(* generator of AstCodegen, the virtual machine executes what comes out,   *)
(* and the run is compared with what the source means. Calls go to other   *)
(* functions, whose replies are a function of their arguments.             *)
(***************************************************************************)
EXTENDS Balance

CONSTANTS Sources,   \* the functions
          Inputs,    \* what they are called with: vals, heap, tags, store
          Structs,   \* the field names of each struct, in order
          Contract,  \* the name of the contract the functions belong to
          SlotLimit  \* u8::MAX

VARIABLE meaning     \* what the run should come to, fixed at the start

vars == <<machine, func, meaning, heights>>

CG == INSTANCE AstCodegen
Lang == INSTANCE Meaning WITH StructFields <- Structs,
                              ContractName <- Contract,
                              ReturnsNothing <- VoidFunctions,
                              Answer <- Reply

Runnable(b) == [inst |-> b.code, calls |-> b.calls]

Start(f, in) ==
  /\ func = f
  /\ code = Runnable(CG!CompileFunction(f))
  /\ meaning = Lang!MeaningOf(f, in)
  /\ args = [i \in 0..(Len(in.vals) - 1) |-> in.vals[i + 1]]
  /\ heap = in.heap
  /\ store = in.store

Init ==
  /\ \E f \in Sources, in \in Inputs : Start(f, in)
  /\ pc = 1
  /\ stack = <<>>
  /\ locals = [i \in {} |-> Null]
  /\ trace = <<>>
  /\ status = "run"
  /\ heights = [p \in {} |-> 0]

\* The arguments of a run of f, and what the run should come to.
Given(f, in) ==
  /\ meaning' = Lang!MeaningOf(f, in)
  /\ args' = [i \in 0..(Len(in.vals) - 1) |-> in.vals[i + 1]]
  /\ heap' = in.heap
  /\ store' = in.store

Next == RunStep /\ UNCHANGED meaning

Spec == Init /\ [][Next]_vars

-----------------------------------------------------------------------------
IsPrefix(s, t) == Len(s) <= Len(t) /\ s = SubSeq(t, 1, Len(s))

Value ==
  [k : {"num", "text", "bytes", "key", "ref", "map", "null"}, n : Int]

TypeOK ==
  /\ pc \in Nat
  /\ pc = 1 => code.inst \in Seq(Instruction)
  /\ stack \in Seq(Value)
  /\ \A i \in DOMAIN locals : locals[i] \in Value
  /\ \A i \in DOMAIN args : args[i] \in Value
  /\ heap \in Seq(Seq(Value))
  /\ \A key \in DOMAIN store : key \in Value /\ store[key] \in Value
  /\ status \in {"run", "halt", "fault"}

\* A finished run came to what the source means: it returns the same value,
\* or fails where the source fails. compile_stmt, compile_expr.
OutcomeAgrees ==
  status # "run" =>
     /\ status = meaning.status
     /\ status = "halt" /\ ~func.void =>
          <<Shown(heap, stack[Len(stack)])>> = meaning.result

\* Calls and events happen in the source's order, with the source's
\* arguments, and none is missing at the end. compile_call, Stmt::Emit.
TraceAgrees ==
  /\ IsPrefix(trace, meaning.trace)
  /\ status # "run" => trace = meaning.trace

\* Every CALL_L names a routine of the file, so that the linker finds it.
CalleesExist ==
  \A i \in DOMAIN code.calls : code.calls[i].sym \in DOMAIN Arity
=============================================================================
