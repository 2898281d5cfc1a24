----------------------------- MODULE MCOptimized -----------------------------
(***************************************************************************)
(* Sources for Optimized: those of MCExecution; and, to be optimized,      *)
(* those that the three passes which do not re-encode operands leave       *)
(* alone, and functions without branches, where there is nothing to        *)
(* re-encode.                                                              *)
(***************************************************************************)
EXTENDS MCExecution, Optimized

Straight ==
  { IntFn(<<log(Call("sum", <<e, e>>)), ExprStmt(Call("sum", <<e, a>>))>>) :
      e \in IntExprs }
  \cup { IntFn(<<Var("y", e), log(y)>>) : e \in IntExprs }

\* Loops, and jumps to the next instruction.
Looping ==
  { IntFn(<<EachOf(<<log(a)>> \o st)>>) : st \in Statements }
  \cup { IntFn(<<EachOf(<<IfElse(e, <<log(a)>>, <<>>), log(x)>>)>>) :
           e \in BoolExprs }

\* No adjacent loads of one slot, and no store and load of a local that is
\* not loaded further down.
Loads == {"LDLOC", "LDARG"}
PairAt(i, k) ==
  \/ i[k].op \in Loads /\ i[k + 1].op \in Loads /\ i[k].arg = i[k + 1].arg
  \/ /\ i[k].op = "STLOC" /\ i[k + 1].op = "LDLOC" /\ i[k].arg = i[k + 1].arg
     /\ \A n \in (k + 2)..Len(i) : i[n].op = "LDLOC" => i[n].arg # i[k].arg
Pairless(r) == \A k \in 1..(Len(r.inst) - 1) : ~PairAt(r.inst, k)

Unpaired == {f \in Plain \cup Looping : Pairless(CG!RoutineOf(f))} \cup Straight
Executed == EveryKind \cup Unpaired
=============================================================================
