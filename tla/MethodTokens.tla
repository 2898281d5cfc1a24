---------------------------- MODULE MethodTokens ----------------------------
(***************************************************************************)
(* The method tokens of a file.  codegen_source_file compiles the routines *)
(* one after the other, all with one MethodTokenRegistry                   *)
(* (target/method_token.rs); every call of an external contract interns    *)
(* its token and keeps the index as the operand of a CALLT.                *)
(* compile_function first tries the IR pipeline and, when that fails half  *)
(* way, compiles the routine again from the syntax tree: the instructions  *)
(* of the first attempt are dropped, what it interned is not.              *)
(***************************************************************************)
EXTENDS Integers, Sequences

CONSTANTS Tokens,     \* MethodToken values
          Files,      \* the files: sequences of routines
          IndexMax    \* u16::MAX

\* The external calls of a routine, in the order either code generator emits
\* them; the IR leaves out what follows a return in its block.
Calls(s) == {s[k] : k \in DOMAIN s}
FileRoutine == [ir : Seq(Tokens), ast : Seq(Tokens), usesIr : BOOLEAN]

ASSUME FilesAssumption ==
  \A file \in Files :
     /\ file \in Seq(FileRoutine)
     /\ \A q \in DOMAIN file : Calls(file[q].ir) \subseteq Calls(file[q].ast)
ASSUME IndexMaxAssumption == IndexMax \in Nat

VARIABLES file,     \* the routines to compile
          tokens,   \* MethodTokenRegistry.tokens
          index,    \* MethodTokenRegistry.index
          q,        \* the routine being compiled
          path,     \* its code generator: "ir" or "ast"
          k,        \* the next of its calls
          code,     \* its CALLTs: operand, and (ghost) the token called
          done,     \* the CALLTs of the routines before it
          status

vars == <<file, tokens, index, q, path, k, code, done, status>>

CallT == [operand : 0..IndexMax, token : Tokens]

FirstPath(f, p) ==
  IF p \in DOMAIN f /\ f[p].usesIr THEN "ir" ELSE "ast"

Init ==
  /\ file \in Files
  /\ tokens = <<>>
  /\ index = [t \in {} |-> 0]
  /\ q = 1
  /\ path = FirstPath(file, 1)
  /\ k = 1
  /\ code = <<>>
  /\ done = <<>>
  /\ status = "compiling"

Compiling == status = "compiling" /\ q \in DOMAIN file

Todo == IF path = "ir" THEN file[q].ir ELSE file[q].ast

Emit(t, operand) == code' = Append(code, [operand |-> operand, token |-> t])

-----------------------------------------------------------------------------
(* MethodTokenRegistry::intern, called for the next external call. *)

\* The token has an index.
InternAgain ==
  /\ Compiling
  /\ k \in DOMAIN Todo
  /\ Todo[k] \in DOMAIN index
  /\ Emit(Todo[k], index[Todo[k]])
  /\ k' = k + 1
  /\ UNCHANGED <<file, tokens, index, q, path, done, status>>

\* Mutant: one index too many.
IndexLeftOrOver == Len(tokens) <= IndexMax + 1

\* u16::try_from(self.tokens.len())
IndexLeft == Len(tokens) <= IndexMax

\* Mutant: the index read after the token is pushed.
InternAfterPush ==
  /\ Compiling
  /\ k \in DOMAIN Todo
  /\ Todo[k] \notin DOMAIN index
  /\ Len(tokens) < IndexMax
  /\ index' = [t \in DOMAIN index \cup {Todo[k]} |->
                 IF t = Todo[k] THEN Len(tokens) + 1 ELSE index[t]]
  /\ tokens' = Append(tokens, Todo[k])
  /\ Emit(Todo[k], Len(tokens) + 1)
  /\ k' = k + 1
  /\ UNCHANGED <<file, q, path, done, status>>

\* Mutant: a token that is pushed but not entered in the map.
InternUnindexed ==
  /\ Compiling
  /\ k \in DOMAIN Todo
  /\ Todo[k] \notin DOMAIN index
  /\ IndexLeft
  /\ tokens' = Append(tokens, Todo[k])
  /\ Emit(Todo[k], Len(tokens))
  /\ k' = k + 1
  /\ UNCHANGED <<file, index, q, path, done, status>>

InternNew ==
  /\ Compiling
  /\ k \in DOMAIN Todo
  /\ Todo[k] \notin DOMAIN index
  /\ IndexLeft
  /\ index' = [t \in DOMAIN index \cup {Todo[k]} |->
                 IF t = Todo[k] THEN Len(tokens) ELSE index[t]]
  /\ tokens' = Append(tokens, Todo[k])
  /\ Emit(Todo[k], Len(tokens))
  /\ k' = k + 1
  /\ UNCHANGED <<file, q, path, done, status>>

-----------------------------------------------------------------------------
(* compile_function and the loops of codegen_source_file. *)

\* Mutant: the second attempt goes on where the first one stopped.
ResumeFromTree ==
  /\ Compiling
  /\ path = "ir"
  /\ path' = "ast"
  /\ code' = <<>>
  /\ UNCHANGED <<file, tokens, index, q, k, done, status>>

\* Mutant: the routine keeps what the first attempt emitted.
RetryKeepingCode ==
  /\ Compiling
  /\ path = "ir"
  /\ path' = "ast"
  /\ k' = 1
  /\ UNCHANGED <<file, tokens, index, q, code, done, status>>

\* Mutant: the IR pipeline is tried again.
RetryIr ==
  /\ Compiling
  /\ path = "ir"
  /\ k' = 1
  /\ code' = <<>>
  /\ UNCHANGED <<file, tokens, index, q, path, done, status>>

\* The IR pipeline may give up at any point: lowering, planning the slots, or
\* between two instructions; also for want of an index.
Fallback ==
  /\ Compiling
  /\ path = "ir"
  /\ path' = "ast"
  /\ k' = 1
  /\ code' = <<>>
  /\ UNCHANGED <<file, tokens, index, q, done, status>>

\* MethodTokenError::LimitExceeded, or any other error of FunctionCompiler.
Refuse ==
  /\ Compiling
  /\ path = "ast"
  /\ status' = "refused"
  /\ UNCHANGED <<file, tokens, index, q, path, k, code, done>>

EndRoutine ==
  /\ Compiling
  /\ k \notin DOMAIN Todo
  /\ done' = Append(done, code)
  /\ q' = q + 1
  /\ path' = FirstPath(file, q + 1)
  /\ k' = 1
  /\ code' = <<>>
  /\ UNCHANGED <<file, tokens, index, status>>

\* method_tokens: self.method_tokens.tokens().to_vec()
Finish ==
  /\ status = "compiling"
  /\ q \notin DOMAIN file
  /\ status' = "compiled"
  /\ UNCHANGED <<file, tokens, index, q, path, k, code, done>>

Next ==
  \/ InternAgain \/ InternNew
  \/ Fallback \/ Refuse \/ EndRoutine \/ Finish

Spec == Init /\ [][Next]_vars

\* One pass over the file in one thread; a routine is tried at most twice.
FairSpec == Spec /\ WF_vars(Next)

-----------------------------------------------------------------------------
(* Properties. *)

\* The variables keep their types: every operand fits a u16, also at the
\* limit.
TypeOK ==
  /\ file \in Files
  /\ tokens \in Seq(Tokens)
  /\ DOMAIN index \subseteq Tokens
  /\ \A t \in DOMAIN index : index[t] \in 0..IndexMax
  /\ q \in 1..(Len(file) + 1)
  /\ path \in {"ir", "ast"}
  /\ k \in Nat \ {0}
  /\ code \in Seq(CallT)
  /\ done \in Seq(Seq(CallT))
  /\ status \in {"compiling", "compiled", "refused"}

\* The table the file ends up with gives every CALLT the method it was
\* compiled to call, whatever was interned after it and however many attempts
\* were dropped in between.
Designates(table, c) ==
  c.operand + 1 \in DOMAIN table /\ table[c.operand + 1] = c.token

CallsKeepTokens ==
  /\ \A i \in DOMAIN code : Designates(tokens, code[i])
  /\ \A p \in DOMAIN done : \A i \in DOMAIN done[p] : Designates(tokens, done[p][i])

\* No method is in the table twice.
TokensDiffer ==
  \A i, j \in DOMAIN tokens : tokens[i] = tokens[j] => i = j

\* A dropped attempt leaves nothing behind in a compiled file: every token is
\* one that some routine calls.
NoTokenUnused ==
  status = "compiled" =>
    \A i \in DOMAIN tokens :
       \E p \in DOMAIN done : \E c \in DOMAIN done[p] : done[p][c].token = tokens[i]

\* A compiled routine makes exactly the calls of one of its code generators,
\* never a mixture of the two.
OneGeneratorPerRoutine ==
  \A p \in DOMAIN done :
     LET made == [i \in DOMAIN done[p] |-> done[p][i].token]
     IN  made = file[p].ast \/ (file[p].usesIr /\ made = file[p].ir)

\* The file is compiled or refused: a failing attempt is not repeated.
Terminates == <>(status # "compiling")

\* What the compilation has left: routines, attempts at this routine, and
\* calls of this attempt.
OpenLeft     == IF status = "compiling" THEN 1 ELSE 0
RoutinesLeft == Len(file) + 1 - q
AttemptsLeft == IF path = "ir" THEN 1 ELSE 0
CallsLeft    == IF q \in DOMAIN file THEN Len(Todo) + 1 - k ELSE 0

\* Why it ends: every step ends the compilation or a routine, or gives up the
\* first attempt at one, or makes a call.  A fallback does start the calls
\* again, but never the attempt (compile_function).
ComesNearer ==
  [][ \/ OpenLeft' < OpenLeft
      \/ /\ OpenLeft' = OpenLeft
         /\ \/ RoutinesLeft' < RoutinesLeft
            \/ RoutinesLeft' = RoutinesLeft /\ AttemptsLeft' < AttemptsLeft
            \/ /\ RoutinesLeft' = RoutinesLeft /\ AttemptsLeft' = AttemptsLeft
               /\ CallsLeft' < CallsLeft ]_vars
=============================================================================
