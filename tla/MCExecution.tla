----------------------------- MODULE MCExecution -----------------------------
(***************************************************************************)
(* Functions and arguments for Execution. Functions whose body is for      *)
(* statements come to this code generator whatever they contain, the       *)
(* others when the IR pipeline does not want them or fails on them.        *)
(***************************************************************************)
EXTENDS Execution, MCSources

CallWith(items, t, n) ==
  [vals  |-> <<Ref(1), Num(t), Num(n), Ref(2), MapRef(3)>>,
   heap  |-> <<items, <<Num(5), Num(7)>>, <<Num(2), Num(5), Num(1), Num(8)>> >>,
   tags  |-> <<"", "Pair", "">>,
   store |-> [key \in {Text(4), Key(4, 1)} |-> Bytes(3)]]
MCInputs ==
  { CallWith(items, t, n) :
      t \in 0..1, n \in 0..1, items \in {<<>>, <<Num(2)>>, <<Num(2), Num(0)>>} }
FewInputs ==
  { CallWith(items, t, n) :
      t \in 0..1, n \in 0..1, items \in {<<>>, <<Num(2), Num(0)>>} }

\* By link_symbol.
MCArity ==
  [f \in {"has", "get", "log", "sum", "Pair::norm", "Token::inc"} |->
     IF f \in {"get", "log", "Token::inc"} THEN 1 ELSE 2]
MCReply(sym, given) ==
  IF sym \in {"getTime", "call"} THEN Num(6)
  ELSE IF sym \in {"get", "Token::inc"} THEN Num(given[1].n + 1)
  ELSE IF sym = "sum" THEN Num(given[1].n + 2 * given[2].n)
  ELSE Bool(given[1].n = 1)
=============================================================================
