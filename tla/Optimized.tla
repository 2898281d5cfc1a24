------------------------------ MODULE Optimized ------------------------------
(***************************************************************************)
(* Execution with the optimizer in between, as codegen_source_file does    *)
(* it: the routine goes through Peephole before the virtual machine runs   *)
(* it, and still has to do what the source means. A routine is also run as *)
(* it was emitted, so that what the code generator does is judged whether  *)
(* or not the optimizer gets the function right.                           *)
(***************************************************************************)
EXTENDS Execution

CONSTANTS Optimizable, \* the functions that are run with the optimizer as well
          MaxRounds

VARIABLES emitted, inst, patches, pass, index, changed, round

optimizer == <<emitted, inst, patches, pass, index, changed, round>>

\* OptimizedInit says which routines there are, in the place of Opt!Init.
Opt == INSTANCE Peephole WITH Symbols <- DOMAIN Arity, Emitted <- {}

\* A routine as it was emitted, before the first pass of the optimizer or, to
\* be run without it, as if all of them were over.
OptimizedInit ==
  /\ func \in Sources
  /\ code = Runnable(CG!CompileFunction(func))
  /\ emitted = [inst |-> code.inst, patches |-> code.calls]
  /\ inst = emitted.inst
  /\ patches = emitted.patches
  /\ pass \in {"done"} \cup {p \in {"merge"} : func \in Optimizable}
  /\ index = 1
  /\ changed = FALSE
  /\ round = 1
  /\ meaning = [status |-> "none", result |-> <<>>, trace |-> <<>>]
  /\ args = <<>>
  /\ heap = <<>>
  /\ store = <<>>
  /\ pc = 1
  /\ stack = <<>>
  /\ locals = [i \in {} |-> Null]
  /\ trace = <<>>
  /\ status = "run"
  /\ heights = [p \in {} |-> 0]

Optimize == Opt!Next /\ UNCHANGED vars

\* The machine gets the routine, and arguments to run it on.
LoadScript ==
  /\ pass = "done"
  /\ pass' = "loaded"
  /\ code' = [inst |-> inst, calls |-> patches]
  /\ \E in \in Inputs : Given(func, in)
  /\ UNCHANGED <<func, heights, pc, stack, locals, trace, status,
                 emitted, inst, patches, index, changed, round>>

Execute == pass = "loaded" /\ Next /\ UNCHANGED optimizer

OptimizedNext == Optimize \/ LoadScript \/ Execute

OptimizedSpec ==
  OptimizedInit /\ [][OptimizedNext]_<<vars, optimizer>>
\* The machine is a loop that nothing suspends. That the optimizer ends is
\* Peephole's Terminates.
OptimizedFairSpec == OptimizedSpec /\ WF_<<vars, optimizer>>(Execute)

-----------------------------------------------------------------------------
\* Every routine is balanced, as it was emitted and as the optimizer leaves it,
\* so that what BalanceProofs says of runs holds for it on all arguments, not
\* only on those of the run. compile_stmt, emit_block, optimize.
CodeBalanced ==
  pass = "done" => Balanced([inst |-> inst, calls |-> patches], func.void)

\* Every run ends, optimized or not: compile_stmt's loops test their condition
\* each time and come back to it, and no jump that optimize removes or narrows
\* changes that.
RunsEnd == pass = "loaded" ~> status # "run"
=============================================================================
