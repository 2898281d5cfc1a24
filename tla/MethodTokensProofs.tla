------------------------- MODULE MethodTokensProofs -------------------------
(***************************************************************************)
(* Proofs about the method tokens of a file, for any set of tokens, any    *)
(* files and any number of indices.                                        *)
(*                                                                         *)
(* TypeOK and CallsKeepTokens are not inductive by themselves: that        *)
(* an operand keeps its token rests on the map and the table being inverse *)
(* to each other, and that it fits a u16 on the length of the table.       *)
(***************************************************************************)
EXTENDS MethodTokens, TLAPS

\* The two halves of MethodTokenRegistry are inverse to each other.
Inverse ==
  /\ Len(tokens) <= IndexMax + 1
  /\ \A t \in DOMAIN index :
        index[t] + 1 \in 1..Len(tokens) /\ tokens[index[t] + 1] = t
  /\ \A i \in 1..Len(tokens) :
        tokens[i] \in DOMAIN index /\ index[tokens[i]] = i - 1

IInv == TypeOK /\ Inverse /\ CallsKeepTokens

\* The routine at hand and its calls are as FileRoutine says.
LEMMA TodoFacts ==
  ASSUME TypeOK, Compiling
  PROVE  /\ Todo \in Seq(Tokens)
         /\ file \in Seq(FileRoutine)
         /\ q \in 1..Len(file)
<1>1. file \in Seq(FileRoutine)
  BY FilesAssumption DEF TypeOK
<1>2. q \in 1..Len(file)
  BY <1>1 DEF Compiling
<1>3. file[q] \in FileRoutine
  BY <1>1, <1>2
<1>4. Todo \in Seq(Tokens)
  BY <1>3 DEF FileRoutine, Todo
<1> QED  BY <1>1, <1>2, <1>4

LEMMA InitInv == Init => IInv
<1> SUFFICES ASSUME Init PROVE IInv
  OBVIOUS
<1>1. file \in Seq(FileRoutine)
  BY FilesAssumption DEF Init
<1>2. TypeOK
  BY <1>1, IndexMaxAssumption DEF Init, TypeOK, FirstPath
<1>3. Inverse /\ CallsKeepTokens
  BY IndexMaxAssumption DEF Init, Inverse, CallsKeepTokens
<1> QED  BY <1>2, <1>3 DEF IInv

\* A table that grows at its end keeps what its operands designate.
LEMMA GrowingKeeps ==
  ASSUME IInv, NEW t \in Tokens, tokens' = Append(tokens, t)
  PROVE  \A c \in CallT : Designates(tokens, c) => Designates(tokens', c)
<1>1. tokens \in Seq(Tokens) /\ IndexMax \in Nat
  BY IndexMaxAssumption DEF IInv, TypeOK
<1>2. \A c \in CallT : c.operand \in Nat
  BY <1>1 DEF CallT
<1> QED  BY <1>1, <1>2 DEF Designates

\* One CALLT more that designates its token, in a table that keeps the others.
LEMMA EmitKeeps ==
  ASSUME IInv, NEW c \in CallT, code' = Append(code, c), Designates(tokens', c),
         done' = done,
         \A d \in CallT : Designates(tokens, d) => Designates(tokens', d)
  PROVE  /\ code' \in Seq(CallT)
         /\ CallsKeepTokens'
<1>1. code \in Seq(CallT) /\ done \in Seq(Seq(CallT))
  BY DEF IInv, TypeOK
<1>2. code' \in Seq(CallT)
  BY <1>1
<1>3. ASSUME NEW i \in DOMAIN code'
      PROVE  Designates(tokens', code'[i])
  <2>1. CASE i \in DOMAIN code
    <3>1. code'[i] = code[i] /\ code[i] \in CallT /\ Designates(tokens, code[i])
      BY <1>1, <2>1 DEF IInv, CallsKeepTokens
    <3> QED  BY <3>1
  <2>2. CASE i \notin DOMAIN code
    BY <1>1, <2>2
  <2> QED  BY <2>1, <2>2
<1>4. ASSUME NEW p \in DOMAIN done', NEW i \in DOMAIN done'[p]
      PROVE  Designates(tokens', done'[p][i])
  <2>1. done[p][i] \in CallT /\ Designates(tokens, done[p][i])
    BY <1>1, <1>4 DEF IInv, CallsKeepTokens
  <2> QED  BY <2>1
<1> QED  BY <1>2, <1>3, <1>4 DEF CallsKeepTokens

LEMMA InternAgainStep ==
  ASSUME IInv, InternAgain
  PROVE  IInv'
<1> DEFINE t == Todo[k]
           c == [operand |-> index[t], token |-> t]
<1>1. t \in Tokens /\ t \in DOMAIN index
  BY TodoFacts DEF IInv, InternAgain
<1>2. c \in CallT /\ Designates(tokens, c)
  <2>1. index[t] \in 0..IndexMax
    BY <1>1 DEF IInv, TypeOK
  <2>2. index[t] + 1 \in DOMAIN tokens /\ tokens[index[t] + 1] = t
    <3>1. DOMAIN tokens = 1..Len(tokens)
      BY DEF IInv, TypeOK
    <3> HIDE DEF t
    <3> QED  BY <1>1, <3>1 DEF IInv, Inverse
  <2> QED  BY <1>1, <2>1, <2>2 DEF CallT, Designates
<1>3. /\ code' = Append(code, c) /\ done' = done /\ tokens' = tokens
      /\ index' = index /\ k' = k + 1
      /\ UNCHANGED <<file, q, path, status>>
  BY DEF InternAgain, Emit
<1>4. code' \in Seq(CallT) /\ CallsKeepTokens'
  BY <1>2, <1>3, EmitKeeps DEF Designates
<1>5. TypeOK'
  BY <1>3, <1>4 DEF IInv, TypeOK
<1> QED  BY <1>3, <1>4, <1>5 DEF IInv, Inverse

LEMMA InternNewStep ==
  ASSUME IInv, InternNew
  PROVE  IInv'
<1> DEFINE t == Todo[k]
           n == Len(tokens)
           c == [operand |-> n, token |-> t]
<1>1. t \in Tokens /\ t \notin DOMAIN index /\ n \in 0..IndexMax
  BY TodoFacts, IndexMaxAssumption DEF IInv, TypeOK, InternNew, IndexLeft
<1>2. /\ code' = Append(code, c) /\ done' = done
      /\ tokens' = Append(tokens, t) /\ k' = k + 1
      /\ index' = [u \in DOMAIN index \cup {t} |-> IF u = t THEN n ELSE index[u]]
      /\ UNCHANGED <<file, q, path, status>>
  BY DEF InternNew, Emit
<1> HIDE DEF t
<1>3. /\ tokens \in Seq(Tokens) /\ tokens' \in Seq(Tokens)
      /\ Len(tokens') = n + 1 /\ tokens'[n + 1] = t
      /\ \A i \in 1..n : tokens'[i] = tokens[i]
  BY <1>1, <1>2 DEF IInv, TypeOK
<1>4. c \in CallT /\ Designates(tokens', c)
  BY <1>1, <1>3 DEF CallT, Designates
<1>5. \A d \in CallT : Designates(tokens, d) => Designates(tokens', d)
  BY <1>1, <1>2, GrowingKeeps
<1>6. code' \in Seq(CallT) /\ CallsKeepTokens'
  BY <1>2, <1>4, <1>5, EmitKeeps
<1>7. DOMAIN index' = DOMAIN index \cup {t} /\ index'[t] = n
      /\ \A u \in DOMAIN index : index'[u] = index[u]
  BY <1>1, <1>2
<1>8. TypeOK'
  BY <1>1, <1>2, <1>3, <1>6, <1>7 DEF IInv, TypeOK
<1>9. Inverse'
  <2>1. Len(tokens') <= IndexMax + 1
    BY <1>1, <1>3, IndexMaxAssumption
  <2>2. ASSUME NEW u \in DOMAIN index'
        PROVE  index'[u] + 1 \in 1..Len(tokens') /\ tokens'[index'[u] + 1] = u
    <3>1. CASE u = t
      BY <1>1, <1>3, <1>7, <3>1
    <3>2. CASE u # t
      <4>1. u \in DOMAIN index /\ index'[u] = index[u]
        BY <1>7, <2>2, <3>2
      <4>2. index[u] + 1 \in 1..n /\ tokens[index[u] + 1] = u
        BY <4>1 DEF IInv, Inverse
      <4> QED  BY <1>1, <1>3, <4>1, <4>2
    <3> QED  BY <3>1, <3>2
  <2>3. ASSUME NEW i \in 1..Len(tokens')
        PROVE  tokens'[i] \in DOMAIN index' /\ index'[tokens'[i]] = i - 1
    <3>1. CASE i = n + 1
      BY <1>1, <1>3, <1>7, <3>1
    <3>2. CASE i # n + 1
      <4>1. i \in 1..n /\ tokens'[i] = tokens[i]
        BY <1>1, <1>3, <2>3, <3>2
      <4>2. tokens[i] \in DOMAIN index /\ index[tokens[i]] = i - 1
        BY <4>1 DEF IInv, Inverse
      <4> QED  BY <1>7, <4>1, <4>2
    <3> QED  BY <3>1, <3>2
  <2> QED  BY <2>1, <2>2, <2>3 DEF Inverse
<1> QED  BY <1>6, <1>8, <1>9 DEF IInv

\* The steps that leave the registry alone.
LEMMA DriverStep ==
  ASSUME IInv, Fallback \/ Refuse \/ EndRoutine \/ Finish
  PROVE  IInv'
<1>1. /\ file' = file /\ tokens' = tokens /\ index' = index
  BY DEF Fallback, Refuse, EndRoutine, Finish
<1>2. Inverse'
  BY <1>1 DEF IInv, Inverse
<1>3. \A c : Designates(tokens', c) <=> Designates(tokens, c)
  BY <1>1 DEF Designates
<1>4. CASE Fallback
  BY <1>1, <1>2, <1>3, <1>4 DEF Fallback, IInv, TypeOK, CallsKeepTokens
<1>5. CASE Refuse \/ Finish
  BY <1>1, <1>2, <1>3, <1>5 DEF Refuse, Finish, IInv, TypeOK, CallsKeepTokens
<1>6. CASE EndRoutine
  <2>1. q' = q + 1 /\ k' = 1 /\ code' = <<>> /\ done' = Append(done, code)
        /\ path' = FirstPath(file, q + 1) /\ status' = status
    BY <1>6 DEF EndRoutine
  <2>2. q + 1 \in 1..(Len(file) + 1)
    BY <1>6, TodoFacts DEF IInv, EndRoutine
  <2>3. code \in Seq(CallT) /\ done \in Seq(Seq(CallT))
    BY DEF IInv, TypeOK
  <2>4. TypeOK'
    BY <1>1, <2>1, <2>2, <2>3 DEF IInv, TypeOK, FirstPath
  <2>5. CallsKeepTokens'
    <3>1. ASSUME NEW p \in DOMAIN done', NEW i \in DOMAIN done'[p]
          PROVE  Designates(tokens', done'[p][i])
      <4>1. CASE p \in DOMAIN done
        BY <1>3, <2>1, <2>3, <3>1, <4>1 DEF IInv, CallsKeepTokens
      <4>2. CASE p \notin DOMAIN done
        BY <1>3, <2>1, <2>3, <3>1, <4>2 DEF IInv, CallsKeepTokens
      <4> QED  BY <4>1, <4>2
    <3> QED  BY <2>1, <3>1 DEF CallsKeepTokens
  <2> QED  BY <1>2, <2>4, <2>5 DEF IInv
<1> QED  BY <1>4, <1>5, <1>6

\* The strengthened invariant holds throughout the compilation of a file.
THEOREM InvariantHolds == Spec => []IInv
<1>1. IInv /\ [Next]_vars => IInv'
  <2> SUFFICES ASSUME IInv, [Next]_vars PROVE IInv'
    OBVIOUS
  <2>1. CASE UNCHANGED vars
    BY <2>1 DEF vars, IInv, TypeOK, Inverse, CallsKeepTokens, Designates
  <2> QED
    BY <2>1, InternAgainStep, InternNewStep, DriverStep DEF Next
<1> QED  BY <1>1, InitInv, PTL DEF Spec

\* MethodTokenRegistry and the loop of codegen_source_file keep their types;
\* in particular every operand fits the u16 of CALLT.
THEOREM TypeCorrect == Spec => []TypeOK
<1>1. IInv => TypeOK
  BY DEF IInv
<1> QED  BY <1>1, InvariantHolds, PTL

\* Every CALLT designates the method it was compiled to call, in the table as
\* it is at any later moment: interning never moves a token.
THEOREM TokensKept == Spec => []CallsKeepTokens
<1>1. IInv => CallsKeepTokens
  BY DEF IInv
<1> QED  BY <1>1, InvariantHolds, PTL

\* No method is in the table twice.
THEOREM TokensDistinct == Spec => []TokensDiffer
<1>1. IInv => TokensDiffer
  <2> SUFFICES ASSUME IInv, NEW i \in DOMAIN tokens, NEW j \in DOMAIN tokens,
                      tokens[i] = tokens[j]
               PROVE  i = j
    BY DEF TokensDiffer
  <2>1. i \in 1..Len(tokens) /\ j \in 1..Len(tokens)
    BY DEF IInv, TypeOK
  <2>2. i - 1 = j - 1
    BY <2>1 DEF IInv, Inverse
  <2> QED  BY <2>1, <2>2
<1> QED  BY <1>1, InvariantHolds, PTL

-----------------------------------------------------------------------------
(* Whole routines.  What a routine has emitted so far is the beginning of  *)
(* what one of its generators emits, and every token that was interned has *)
(* a call: in a finished routine, in the one at hand, or, when the IR      *)
(* attempt interned it and was dropped, among the calls that the routine's *)
(* syntax tree still makes.                                                *)

Progress ==
  /\ Len(done) = q - 1
  /\ q \in DOMAIN file =>
       /\ Len(code) = k - 1 /\ Len(code) <= Len(Todo)
       /\ \A i \in DOMAIN code : code[i].token = Todo[i]
       /\ path = "ir" => file[q].usesIr
  /\ status = "compiled" => q \notin DOMAIN file

CalledInDone(t) == \E p \in DOMAIN done : \E c \in DOMAIN done[p] : done[p][c].token = t

Accounted ==
  \A i \in DOMAIN tokens :
     \/ CalledInDone(tokens[i])
     \/ /\ q \in DOMAIN file
        /\ \/ \E c \in DOMAIN code : code[c].token = tokens[i]
           \/ path = "ast" /\ tokens[i] \in Calls(file[q].ast)

Whole == Progress /\ Accounted /\ OneGeneratorPerRoutine

LEMMA InitWhole == Init => Whole
<1> SUFFICES ASSUME Init PROVE Whole
  OBVIOUS
<1>1. file \in Seq(FileRoutine)
  BY FilesAssumption DEF Init
<1>2. /\ done = <<>> /\ code = <<>> /\ tokens = <<>> /\ q = 1 /\ k = 1
      /\ path = FirstPath(file, 1) /\ status = "compiling"
  BY DEF Init
<1>3. /\ Len(done) = 0 /\ DOMAIN done = {} /\ Len(code) = 0 /\ DOMAIN code = {}
      /\ DOMAIN tokens = {}
  BY <1>2
<1>4. Progress
  <2>1. q \in DOMAIN file => Len(Todo) \in Nat
    <3>1. q \in DOMAIN file => file[q] \in FileRoutine
      BY <1>1
    <3> QED  BY <3>1 DEF Todo, FileRoutine
  <2> QED  BY <1>2, <1>3, <2>1 DEF Progress, FirstPath
<1> QED  BY <1>3, <1>4 DEF Whole, Accounted, OneGeneratorPerRoutine

\* One CALLT more, whether or not its token is new.
LEMMA EmitWhole ==
  ASSUME IInv, Whole, InternAgain \/ InternNew
  PROVE  Whole'
<1> DEFINE t == Todo[k]
<1>1. /\ Compiling /\ k \in DOMAIN Todo /\ k' = k + 1
      /\ file' = file /\ q' = q /\ path' = path /\ done' = done /\ status' = status
      /\ tokens' = tokens \/ tokens' = Append(tokens, t)
      /\ \E n : code' = Append(code, [operand |-> n, token |-> t])
  BY DEF InternAgain, InternNew, Emit
<1>2. /\ q \in DOMAIN file /\ Todo \in Seq(Tokens) /\ t \in Tokens
  BY <1>1, TodoFacts DEF IInv, Compiling
<1>3. /\ code \in Seq(CallT) /\ tokens \in Seq(Tokens) /\ k \in Nat \ {0}
      /\ DOMAIN code = 1..Len(code) /\ DOMAIN tokens = 1..Len(tokens)
      /\ Len(code) \in Nat /\ Len(tokens) \in Nat
  BY DEF IInv, TypeOK
<1>4. /\ Len(code) = k - 1 /\ k <= Len(Todo) /\ Len(Todo) \in Nat
      /\ \A i \in 1..Len(code) : code[i].token = Todo[i]
  BY <1>1, <1>2, <1>3, SMTT(30) DEF Whole, Progress
<1>5. Todo' = Todo
  BY <1>1 DEF Todo
<1> HIDE DEF t
<1>6. /\ Len(code') = k /\ DOMAIN code' = 1..k /\ code'[k].token = t
      /\ \A i \in 1..(k - 1) : code'[i] = code[i]
  <2>1. PICK n : code' = Append(code, [operand |-> n, token |-> t])
    BY <1>1
  <2>2. Len(code') = Len(code) + 1 /\ DOMAIN code' = 1..(Len(code) + 1)
    BY <1>3, <2>1
  <2>3. code'[Len(code) + 1] = [operand |-> n, token |-> t]
    BY <1>3, <2>1
  <2>4. \A i \in 1..Len(code) : code'[i] = code[i]
    BY <1>3, <2>1
  <2> QED  BY <1>3, <1>4, <2>2, <2>3, <2>4
<1>7. Progress'
  <2>1. ASSUME NEW i \in 1..k PROVE code'[i].token = Todo[i]
    <3>1. CASE i = k
      BY <1>6, <3>1 DEF t
    <3>2. CASE i # k
      <4>1. i \in 1..(k - 1)
        BY <1>3, <3>2
      <4> QED  BY <1>3, <1>4, <1>6, <4>1
    <3> QED  BY <3>1, <3>2
  <2>2. Len(code') = k' - 1 /\ Len(code') <= Len(Todo')
    BY <1>1, <1>3, <1>4, <1>5, <1>6
  <2>3. /\ \A i \in DOMAIN code' : code'[i].token = Todo'[i]
    BY <1>5, <1>6, <2>1
  <2> QED  BY <1>1, <2>2, <2>3 DEF Whole, Progress, Compiling
<1>8. Accounted'
  <2> SUFFICES ASSUME NEW i \in DOMAIN tokens'
               PROVE  \/ CalledInDone(tokens'[i])
                      \/ \E c \in DOMAIN code' : code'[c].token = tokens'[i]
                      \/ path = "ast" /\ tokens'[i] \in Calls(file[q].ast)
    BY <1>1, <1>2 DEF Accounted, CalledInDone
  <2>1. CASE i \in DOMAIN tokens /\ tokens'[i] = tokens[i]
    <3>1. \A c \in DOMAIN code : c \in DOMAIN code' /\ code'[c] = code[c]
      BY <1>3, <1>4, <1>6
    <3> QED  BY <2>1, <3>1 DEF Whole, Accounted
  <2>2. CASE tokens'[i] = t
    <3>1. k \in DOMAIN code'
      BY <1>3, <1>6
    <3> QED  BY <1>6, <2>2, <3>1
  <2>3. (i \in DOMAIN tokens /\ tokens'[i] = tokens[i]) \/ tokens'[i] = t
    <3>1. CASE tokens' = tokens
      BY <3>1
    <3>2. CASE tokens' = Append(tokens, t)
      BY <1>2, <1>3, <3>2
    <3> QED  BY <1>1, <3>1, <3>2
  <2> QED  BY <2>1, <2>2, <2>3
<1>9. OneGeneratorPerRoutine'
  BY <1>1 DEF Whole, OneGeneratorPerRoutine
<1> QED  BY <1>7, <1>8, <1>9 DEF Whole

\* What the dropped attempt interned, the second attempt will call.
LEMMA FallbackWhole ==
  ASSUME IInv, Whole, Fallback
  PROVE  Whole'
<1>1. /\ Compiling /\ path = "ir" /\ path' = "ast" /\ k' = 1 /\ code' = <<>>
      /\ file' = file /\ tokens' = tokens /\ q' = q /\ done' = done /\ status' = status
  BY DEF Fallback
<1>2. q \in DOMAIN file /\ file \in Seq(FileRoutine) /\ file \in Files
  BY <1>1, TodoFacts DEF IInv, TypeOK, Compiling
<1>3. file[q].ast \in Seq(Tokens) /\ file[q].ir \in Seq(Tokens)
  <2>1. file[q] \in FileRoutine
    BY <1>2
  <2> QED  BY <2>1 DEF FileRoutine
<1>4. Progress'
  <2>1. Len(code') = 0 /\ DOMAIN code' = {}
    BY <1>1
  <2>2. Todo' = file[q].ast /\ Len(Todo') \in Nat
    BY <1>1, <1>3 DEF Todo
  <2> QED  BY <1>1, <2>1, <2>2 DEF Whole, Progress, Compiling
<1>5. ASSUME NEW c \in DOMAIN code
      PROVE  code[c].token \in Calls(file[q].ast)
  <2>1. Todo = file[q].ir
    BY <1>1 DEF Todo
  <2>2. code[c].token = file[q].ir[c] /\ c \in DOMAIN file[q].ir
    <3>1. /\ Len(code) <= Len(Todo) /\ code[c].token = Todo[c]
      BY <1>2 DEF Whole, Progress
    <3>2. c \in 1..Len(code) /\ Len(code) \in Nat /\ Len(Todo) \in Nat
          /\ DOMAIN Todo = 1..Len(Todo)
      BY <1>3, <2>1 DEF IInv, TypeOK
    <3>3. c \in 1..Len(Todo)
      BY <3>1, <3>2
    <3> QED  BY <2>1, <3>1, <3>2, <3>3
  <2>3. Calls(file[q].ir) \subseteq Calls(file[q].ast)
    BY <1>2, FilesAssumption
  <2> QED  BY <2>2, <2>3 DEF Calls
<1>6. Accounted'
  BY <1>1, <1>2, <1>5 DEF Whole, Accounted, CalledInDone
<1>7. OneGeneratorPerRoutine'
  BY <1>1 DEF Whole, OneGeneratorPerRoutine
<1> QED  BY <1>4, <1>6, <1>7 DEF Whole

LEMMA EndRoutineWhole ==
  ASSUME IInv, Whole, EndRoutine
  PROVE  Whole'
<1>1. /\ Compiling /\ k \notin DOMAIN Todo
      /\ done' = Append(done, code) /\ q' = q + 1 /\ path' = FirstPath(file, q + 1)
      /\ k' = 1 /\ code' = <<>>
      /\ file' = file /\ tokens' = tokens /\ status' = status
  BY DEF EndRoutine
<1>2. /\ q \in DOMAIN file /\ q \in 1..Len(file) /\ file \in Seq(FileRoutine)
      /\ Todo \in Seq(Tokens) /\ code \in Seq(CallT) /\ done \in Seq(Seq(CallT))
      /\ Len(done) = q - 1 /\ k \in Nat \ {0}
  BY <1>1, TodoFacts DEF IInv, TypeOK, Compiling, Whole, Progress
<1>3. /\ DOMAIN code = DOMAIN Todo
      /\ \A i \in DOMAIN code : code[i].token = Todo[i]
      /\ path = "ir" => file[q].usesIr
  <2>1. /\ Len(code) = k - 1 /\ Len(code) <= Len(Todo)
        /\ \A i \in DOMAIN code : code[i].token = Todo[i]
        /\ path = "ir" => file[q].usesIr
    BY <1>2 DEF Whole, Progress
  <2>2. Len(code) = Len(Todo)
    BY <1>1, <1>2, <2>1, SMTT(30)
  <2> QED  BY <1>2, <2>1, <2>2
<1>4. /\ Len(done') = q /\ DOMAIN done' = 1..q /\ done'[q] = code
      /\ \A p \in DOMAIN done : p \in 1..q /\ p # q /\ done'[p] = done[p]
      /\ \A p \in 1..q : p = q \/ p \in DOMAIN done
  BY <1>1, <1>2
<1>5. Progress'
  <2>1. Len(code') = 0 /\ DOMAIN code' = {}
    BY <1>1
  <2>2. q' \in DOMAIN file => Len(Todo') \in Nat /\ (path' = "ir" => file[q'].usesIr)
    <3>1. q' \in DOMAIN file => file[q'] \in FileRoutine
      BY <1>2
    <3> QED  BY <1>1, <3>1 DEF Todo, FileRoutine, FirstPath
  <2>3. Len(done') = q' - 1 /\ Len(code') = k' - 1
    BY <1>1, <1>2, <1>4, <2>1
  <2> QED  BY <1>1, <2>1, <2>2, <2>3 DEF Progress, Compiling
<1>6. Accounted'
  <2>1. ASSUME NEW c \in DOMAIN code
        PROVE  \E p \in DOMAIN done' : \E d \in DOMAIN done'[p] :
                  done'[p][d].token = code[c].token
    <3>1. q \in DOMAIN done'
      BY <1>2, <1>4
    <3> QED  BY <1>4, <3>1
  <2>2. ASSUME NEW t, CalledInDone(t)
        PROVE  \E p \in DOMAIN done' : \E d \in DOMAIN done'[p] : done'[p][d].token = t
    BY <1>4, <2>2 DEF CalledInDone
  <2>3. ASSUME NEW t \in Calls(file[q].ast), path = "ast"
        PROVE  \E c \in DOMAIN code : code[c].token = t
    <3>1. Todo = file[q].ast
      BY <2>3 DEF Todo
    <3> QED  BY <1>3, <2>3, <3>1 DEF Calls
  <2>4. ASSUME NEW i \in DOMAIN tokens
        PROVE  \E p \in DOMAIN done' : \E d \in DOMAIN done'[p] : done'[p][d].token = tokens[i]
    BY <2>1, <2>2, <2>3 DEF Whole, Accounted
  <2> QED  BY <1>1, <2>4 DEF Accounted, CalledInDone
<1>7. OneGeneratorPerRoutine'
  <2> SUFFICES ASSUME NEW p \in DOMAIN done'
               PROVE  LET made == [i \in DOMAIN done'[p] |-> done'[p][i].token]
                      IN  made = file[p].ast \/ (file[p].usesIr /\ made = file[p].ir)
    BY <1>1 DEF OneGeneratorPerRoutine
  <2>1. CASE p = q
    <3>1. [i \in DOMAIN code |-> code[i].token] = Todo
      BY <1>2, <1>3
    <3> QED  BY <1>3, <1>4, <2>1, <3>1 DEF Todo
  <2>2. CASE p # q
    <3>1. p \in DOMAIN done /\ done'[p] = done[p]
      BY <1>4, <2>2
    <3> QED  BY <3>1 DEF Whole, OneGeneratorPerRoutine
  <2> QED  BY <2>1, <2>2
<1> QED  BY <1>5, <1>6, <1>7 DEF Whole

LEMMA StopWhole ==
  ASSUME Whole, Refuse \/ Finish \/ UNCHANGED vars
  PROVE  Whole'
<1>1. /\ file' = file /\ tokens' = tokens /\ q' = q /\ path' = path /\ k' = k
      /\ code' = code /\ done' = done
      /\ status' = "compiled" => q \notin DOMAIN file
  BY DEF Refuse, Finish, vars, Whole, Progress
<1>2. Todo' = Todo
  BY <1>1 DEF Todo
<1>3. Progress' /\ Accounted' /\ OneGeneratorPerRoutine'
  BY <1>1, <1>2 DEF Whole, Progress, Accounted, OneGeneratorPerRoutine, CalledInDone
<1> QED  BY <1>3 DEF Whole

\* Both invariants together hold throughout the compilation of a file.
THEOREM WholeHolds == Spec => []Whole
<1>1. IInv /\ Whole /\ [Next]_vars => Whole'
  BY EmitWhole, FallbackWhole, EndRoutineWhole, StopWhole DEF Next
<1> QED  BY <1>1, InitWhole, InvariantHolds, PTL DEF Spec

\* Every token of a compiled file is one that some routine calls: what a
\* dropped IR attempt interned is called by the attempt that replaced it.
THEOREM TokensUsed == Spec => []NoTokenUnused
<1>1. Whole => NoTokenUnused
  BY DEF Whole, Progress, Accounted, NoTokenUnused, CalledInDone
<1> QED  BY <1>1, WholeHolds, PTL

\* A finished routine is the work of one code generator, from its first call
\* to its last.
THEOREM OneGenerator == Spec => []OneGeneratorPerRoutine
<1>1. Whole => OneGeneratorPerRoutine
  BY DEF Whole
<1> QED  BY <1>1, WholeHolds, PTL

-----------------------------------------------------------------------------
(* Termination. *)

\* The calls of the attempt at hand are counted down to zero, not below.
LEMMA CountsAreNat ==
  ASSUME IInv, Whole
  PROVE  /\ OpenLeft \in Nat /\ RoutinesLeft \in Nat
         /\ AttemptsLeft \in Nat /\ CallsLeft \in Nat
<1>1. file \in Seq(FileRoutine)
  BY FilesAssumption DEF IInv, TypeOK
<1>2. OpenLeft \in Nat /\ AttemptsLeft \in Nat
  BY DEF OpenLeft, AttemptsLeft
<1>3. RoutinesLeft \in Nat
  BY <1>1 DEF IInv, TypeOK, RoutinesLeft
<1>4. CallsLeft \in Nat
  <2>1. CASE q \in DOMAIN file
    <3>1. file[q] \in FileRoutine
      BY <1>1, <2>1
    <3>2. Len(Todo) \in Nat
      BY <3>1 DEF Todo, FileRoutine
    <3>3. k \in Nat /\ k - 1 <= Len(Todo)
      BY <2>1 DEF IInv, TypeOK, Whole, Progress
    <3> QED  BY <2>1, <3>2, <3>3 DEF CallsLeft
  <2> QED  BY <2>1 DEF CallsLeft
<1> QED  BY <1>2, <1>3, <1>4

\* For any file and any limit of the table, no step of the compilation is in
\* vain: with its counts never below zero, it can take only finitely many.
THEOREM EveryStepCounts ==
  Spec => /\ [](OpenLeft \in Nat /\ RoutinesLeft \in Nat
                /\ AttemptsLeft \in Nat /\ CallsLeft \in Nat)
          /\ ComesNearer
<1> DEFINE Nearer ==
      \/ OpenLeft' < OpenLeft
      \/ /\ OpenLeft' = OpenLeft
         /\ \/ RoutinesLeft' < RoutinesLeft
            \/ RoutinesLeft' = RoutinesLeft /\ AttemptsLeft' < AttemptsLeft
            \/ /\ RoutinesLeft' = RoutinesLeft /\ AttemptsLeft' = AttemptsLeft
               /\ CallsLeft' < CallsLeft
<1>1. IInv /\ Whole => /\ OpenLeft \in Nat /\ RoutinesLeft \in Nat
                       /\ AttemptsLeft \in Nat /\ CallsLeft \in Nat
  BY CountsAreNat
<1>2. IInv /\ [Next]_vars => [Nearer]_vars
  <2> SUFFICES ASSUME IInv, Next PROVE Nearer
    OBVIOUS
  <2>1. k \in Nat /\ q \in Nat /\ Len(file) \in Nat
    BY FilesAssumption DEF IInv, TypeOK
  <2>2. CASE InternAgain \/ InternNew
    <3>1. /\ Compiling /\ k' = k + 1
          /\ UNCHANGED <<file, q, path, status>>
      BY <2>2 DEF InternAgain, InternNew
    <3>2. Todo' = Todo /\ Len(Todo) \in Nat /\ q \in DOMAIN file
      BY <3>1, TodoFacts DEF Todo, IInv, Compiling
    <3>3. CallsLeft' < CallsLeft
      BY <2>1, <3>1, <3>2 DEF CallsLeft
    <3> QED  BY <3>1, <3>3 DEF OpenLeft, RoutinesLeft, AttemptsLeft
  <2>3. CASE Fallback
    BY <2>3 DEF Fallback, OpenLeft, RoutinesLeft, AttemptsLeft
  <2>4. CASE Refuse \/ Finish
    BY <2>4 DEF Refuse, Finish, Compiling, OpenLeft
  <2>5. CASE EndRoutine
    BY <2>1, <2>5 DEF EndRoutine, OpenLeft, RoutinesLeft
  <2> QED  BY <2>2, <2>3, <2>4, <2>5 DEF Next
<1> QED  BY <1>1, <1>2, InvariantHolds, WholeHolds, PTL DEF Spec, ComesNearer
=============================================================================
