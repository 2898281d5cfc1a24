------------------------------ MODULE Routines ------------------------------
(***************************************************************************)
(* What code generation hands on for one function (CompiledFunction,       *)
(* codegen/mod.rs): its instructions, and one call_patches entry for each  *)
(* CALL_L, which names the callee by its link symbol because the callee's  *)
(* place in the script is not known yet.                                   *)
(***************************************************************************)
EXTENDS Bytecode

CONSTANT Symbols     \* link symbols: the routines of a file, and called ones

Patch == [at : Nat \ {0}, sym : Symbols]

\* Entries and CALL_L instructions match one to one: pending_call_l is pushed
\* together with the instruction.
Linkable(f) ==
  /\ f.inst \in Seq(Instruction)
  /\ f.patches \in Seq(Patch)
  /\ \A p \in DOMAIN f.patches :
        /\ f.patches[p].at \in DOMAIN f.inst
        /\ f.inst[f.patches[p].at].op = "CALL_L"
        /\ \A q \in DOMAIN f.patches :
              f.patches[p].at = f.patches[q].at => p = q
  /\ \A k \in DOMAIN f.inst : f.inst[k].op = "CALL_L" =>
        \E p \in DOMAIN f.patches : f.patches[p].at = k

\* A routine as code generation leaves it: the ghost id of an instruction is
\* its position.
Routine(f) ==
  /\ Linkable(f)
  /\ \A k \in DOMAIN f.inst : f.inst[k].id = k
=============================================================================
