----------------------------- MODULE MCPipeline -----------------------------
(***************************************************************************)
(* The functions of MCSources for Pipeline.                                *)
(***************************************************************************)
EXTENDS MCExecution, Pipeline
=============================================================================
