------------------------------- MODULE MCIrOpt -------------------------------
(***************************************************************************)
(* Functions for IrOpt: whatever lowering makes of the functions of        *)
(* MCSources, those included that the rest of the pipeline gets wrong.     *)
(***************************************************************************)
EXTENDS IrOpt, MCSources

Lowering == INSTANCE IrLower WITH
  Structs <- MCStructs, Contract <- "Token", Names <- MCNames

Candidates == {f \in EveryKind \cup WellBehaved \cup ReadAgain \cup TwoJoined :
                 Lowering!NeedsIr(f.body)}
MCFunctions ==
  { l.blocks : l \in {k \in {Lowering!LowerFunction(f, up) :
                               f \in Candidates, up \in BOOLEAN} : k.ok} }
=============================================================================
