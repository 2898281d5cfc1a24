------------------------------ MODULE MCScopes ------------------------------
(***************************************************************************)
(* Instances of Scopes for TLC: two names, so that every declaration may   *)
(* shadow another one.                                                     *)
(***************************************************************************)
EXTENDS Scopes

MCNames == {"x", "y"}
MCParamLists == {<<>>, <<"x">>, <<"x", "y">>, <<"x", "x">>}
=============================================================================
