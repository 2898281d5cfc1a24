--------------------------- MODULE MCMethodTokens ---------------------------
(***************************************************************************)
(* Instances of MethodTokens for TLC: every file of up to three routines,  *)
(* with one external method more than there are indices.                   *)
(***************************************************************************)
EXTENDS MethodTokens

CONSTANTS isContract, getBalance, transfer

MCTokens == {isContract, getBalance, transfer}

Bodies ==
  { [ir |-> s, ast |-> s, usesIr |-> u] :
      s \in {<<>>, <<isContract>>, <<getBalance, transfer>>,
             <<transfer, isContract, transfer>>}, u \in BOOLEAN }
  \cup \* a call after a return; arguments in the order of the IR
  { [ir |-> <<getBalance>>, ast |-> <<getBalance, isContract>>, usesIr |-> TRUE],
    [ir |-> <<isContract, transfer>>, ast |-> <<transfer, isContract>>,
     usesIr |-> TRUE] }

MCFiles == UNION {[1..n -> Bodies] : n \in 0..3}
=============================================================================
