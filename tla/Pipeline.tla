------------------------------ MODULE Pipeline ------------------------------
(***************************************************************************)
(* compile_function (codegen/function.rs) and a run of what it makes: a    *)
(* function that the IR pipeline wants is lowered, optimized step by step  *)
(* and turned into instructions; when one of these fails, and for any      *)
(* other function, the code comes from the syntax tree. Then the machine   *)
(* executes it as in Execution, and it has to do what the source means.    *)
(***************************************************************************)
EXTENDS Execution

CONSTANTS MaxInt,   \* i64::MAX
          Names     \* the names of variables, in alphabetical order

ASSUME MaxIntAssumption == MaxInt \in Nat \ {0}

VARIABLES up,       \* the order in which hash sets happen to be enumerated
          blocks, pass, block, at, subst, table, used, work

optimizer == <<blocks, pass, block, at, subst, table, used, work>>
pipeline == <<vars, up, optimizer>>

Lowering == INSTANCE IrLower
Gen == INSTANCE IrCodegen
\* PipelineInit says which functions there are, in the place of Opt!Init.
Opt == INSTANCE IrOpt WITH Functions <- {}

\* What lowering makes of f; the blocks are of no use after an error.
BlocksOf(b) == IF b.ok THEN b.blocks ELSE <<>>
Lowered(f) == BlocksOf(Lowering!LowerFunction(f, up))

\* A function with no blocks to optimize has failed, or never was lowered.
PipelineInit ==
  /\ func \in Sources
  /\ up \in BOOLEAN
  /\ blocks = IF Lowering!NeedsIr(func.body) THEN Lowered(func) ELSE <<>>
  /\ pass = IF blocks = <<>> THEN "failed" ELSE "fold"
  /\ block = 1
  /\ at = 1
  /\ subst = Opt!NoSubst
  /\ table = {}
  /\ used = {}
  /\ work = {}
  /\ code = [inst |-> <<>>, calls |-> <<>>]
  /\ meaning = [status |-> "none", result |-> <<>>, trace |-> <<>>]
  /\ args = <<>>
  /\ heap = <<>>
  /\ store = <<>>
  /\ pc = 1
  /\ stack = <<>>
  /\ locals = [i \in {} |-> Null]
  /\ trace = <<>>
  /\ status = "run"
  /\ heights = [p \in {} |-> 0]

Optimize == Opt!Next /\ UNCHANGED <<vars, up>>

\* The code of the function, or NoCode. A failure of the IR pipeline leaves
\* no trace: the syntax tree is next, and after that there is no code.
EmitIr ==
  /\ pass = "done"
  /\ \E b \in {Gen!CompileIr(blocks, Len(func.params), up)} :
       /\ code' = IF b.ok THEN Runnable(b) ELSE code
       /\ pass' = IF b.ok THEN "emitted" ELSE "failed"
  /\ blocks' = <<>>
  /\ used' = {}
  /\ UNCHANGED <<up, block, at, subst, table, work, func, meaning, args, heap,
                 store, pc, stack, locals, trace, status, heights>>

FallBack ==
  /\ pass = "failed"
  /\ \E b \in {CG!CompileFunction(func)} :
       /\ code' = IF b.ok THEN Runnable(b) ELSE code
       /\ pass' = IF b.ok THEN "emitted" ELSE "rejected"
  /\ UNCHANGED <<up, blocks, block, at, subst, table, used, work, func, meaning,
                 args, heap, store, pc, stack, locals, trace, status, heights>>

\* Arguments for the code to run on.
LoadCode ==
  /\ pass = "emitted"
  /\ pass' = "loaded"
  /\ \E in \in Inputs : Given(func, in)
  /\ UNCHANGED <<up, blocks, block, at, subst, table, used, work, func, code, pc,
                 stack, locals, trace, status, heights>>

Execute == pass = "loaded" /\ Next /\ UNCHANGED <<up, optimizer>>

PipelineNext == Optimize \/ EmitIr \/ FallBack \/ LoadCode \/ Execute

PipelineSpec == PipelineInit /\ [][PipelineNext]_pipeline
\* The optimizer and the machine are loops that nothing suspends.
PipelineFairSpec == PipelineSpec /\ WF_pipeline(Optimize) /\ WF_pipeline(Execute)

-----------------------------------------------------------------------------
\* Every routine is balanced, whichever generator it comes from: the blocks of
\* the IR agree on the height at which they hand over, and a value that no
\* instruction of the IR uses is dropped. compile_ir_function, compile_stmt.
CodeBalanced == pass = "emitted" => Balanced(code, func.void)

\* The optimizer comes to an end, as the worklist of dead_code_elimination
\* empties, and so does a run of the code: a loop that the source leaves is left.
Finishes ==
  /\ <>(pass \in {"done", "failed", "panicked"})
  /\ pass = "loaded" ~> status # "run"
=============================================================================
