---------------------------- MODULE ScopesProofs ----------------------------
(***************************************************************************)
(* Proofs about the scopes of the type checker and of code generation, for *)
(* any names, parameter lists, depth of blocks and limit of slots.         *)
(*                                                                         *)
(* The two stacks differ: a loop takes two scopes of the checker and one   *)
(* of VarEnv, and the parameters are a scope of the checker alone. What    *)
(* keeps them together is a map from one stack to the other (Nesting).     *)
(***************************************************************************)
EXTENDS Scopes, WellFoundedInduction, TLAPS

-----------------------------------------------------------------------------
(* The inductive invariant. *)

\* The scopes of either stack, and VarEnv.
Maps == UNION {[D -> Nat] : D \in SUBSET Names}
Envs == [args : Maps, scopes : Seq(Maps), next : Nat]

Shape ==
  /\ checker \in Seq(Maps)
  /\ env \in Envs
  /\ Len(owner) = env.next
  /\ Len(env.scopes) = Len(open) + 2
  /\ DOMAIN env.scopes[1] = {}

\* The outermost scope of the checker and VarEnv.args have the parameters.
ParamsAgree ==
  status # "rejected" =>
    /\ DOMAIN checker[1] = DOMAIN env.args
    /\ \A x \in DOMAIN env.args : checker[1][x] = env.args[x] + 1

\* block[k] is the block of VarEnv that scope k of the checker belongs to,
\* last[d] the last scope of block d.
Nested(last, block) ==
  /\ last[1] = 1 /\ last[2] = 2 /\ last[Len(env.scopes)] = Len(checker)
  /\ \A j \in DOMAIN open : last[j + 2] = last[j + 1] + open[j].scopes
  /\ \A k \in DOMAIN checker : \A d \in DOMAIN env.scopes :
        block[k] <= d <=> k <= last[d]

\* The scopes of a block have its names, with the declarations of their slots.
ScopesMatch(block) ==
  /\ \A k \in DOMAIN checker : block[k] # 1 =>
        \A x \in DOMAIN checker[k] :
           /\ x \in DOMAIN env.scopes[block[k]]
           /\ owner[env.scopes[block[k]][x] + 1] = checker[k][x]
  /\ \A d \in DOMAIN env.scopes : \A x \in DOMAIN env.scopes[d] :
        \E k \in DOMAIN checker : block[k] = d /\ x \in DOMAIN checker[k]

Nesting ==
  \E last \in [DOMAIN env.scopes -> DOMAIN checker],
     block \in [DOMAIN checker -> DOMAIN env.scopes] :
       Nested(last, block) /\ ScopesMatch(block)

\* The environment as it is outside of all but the n outermost blocks.
Below(e, n) == [e EXCEPT !.scopes = SubSeq(@, 1, n)]

\* Leaving a block brings back what the names meant when it was entered.
BeforeKept ==
  \A j \in DOMAIN open : \A x \in Names :
     open[j].before[x] = CompiledIn(Below(env, j + 1), owner, x)

HiddenBelow == \A j \in DOMAIN open : open[j].hidden \subseteq 0..(env.next - 1)

IInv ==
  /\ TypeOK /\ Shape /\ ParamsAgree /\ Nesting
  /\ BeforeKept /\ HiddenBelow /\ SlotsNotShared

-----------------------------------------------------------------------------
(* Maps, sequences and the innermost of some scopes. *)

\* A non-empty set of positions has a greatest element.
LEMMA Greatest ==
  ASSUME NEW n \in Nat, NEW S \in SUBSET (1..n), S # {}
  PROVE  \E m \in S : \A k \in S : k <= m
<1> DEFINE T == {n - k : k \in S}
<1>1. T \subseteq Nat /\ T # {}
  <2>1. \A k \in S : k \in 1..n
    OBVIOUS
  <2>2. \A k \in S : n - k \in Nat
    BY <2>1
  <2> QED  BY <2>2
<1>2. IsWellFoundedOn(OpToRel(<, Nat), Nat)
  BY NatLessThanWellFounded
<1>3. PICK t \in T : \A u \in T : ~(<<u, t>> \in OpToRel(<, Nat))
  <2> HIDE DEF T
  <2> QED  BY <1>1, <1>2, WFMin
<1>4. \A u \in T : ~(u < t)
  BY <1>1, <1>3 DEF OpToRel
<1>5. PICK m \in S : t = n - m
  BY <1>3
<1>6. ASSUME NEW k \in S PROVE k <= m
  <2>1. n - k \in T
    OBVIOUS
  <2>2. ~(n - k < n - m)
    BY <1>4, <1>5, <2>1
  <2> QED  BY <2>2
<1> QED  BY <1>6

LEMMA MapFacts ==
  ASSUME NEW m \in Maps
  PROVE  /\ DOMAIN m \subseteq Names
         /\ \A x \in DOMAIN m : m[x] \in Nat
BY DEF Maps

LEMMA MapIntro ==
  ASSUME NEW D \in SUBSET Names, NEW m \in [D -> Nat]
  PROVE  m \in Maps
BY DEF Maps

LEMMA NoNamesFacts == NoNames \in Maps /\ DOMAIN NoNames = {}
<1>1. NoNames \in [{} -> Nat]
  BY DEF NoNames
<1>2. {} \in SUBSET Names
  OBVIOUS
<1> QED  BY <1>1, <1>2, MapIntro

LEMMA ExtendFacts ==
  ASSUME NEW m \in Maps, NEW x \in Names, NEW n \in Nat
  PROVE  /\ Extend(m, x, n) \in Maps
         /\ DOMAIN Extend(m, x, n) = DOMAIN m \cup {x}
         /\ Extend(m, x, n)[x] = n
         /\ \A y \in DOMAIN m : y # x => Extend(m, x, n)[y] = m[y]
<1>1. DOMAIN m \cup {x} \in SUBSET Names
  BY MapFacts
<1>2. Extend(m, x, n) \in [DOMAIN m \cup {x} -> Nat]
  BY MapFacts DEF Extend
<1>3. Extend(m, x, n) \in Maps
  BY <1>1, <1>2, MapIntro
<1> QED  BY <1>3 DEF Extend

\* Replacing one element of a sequence.
LEMMA Replaced ==
  ASSUME NEW S, NEW s \in Seq(S), NEW i \in 1..Len(s), NEW v \in S
  PROVE  /\ [s EXCEPT ![i] = v] \in Seq(S)
         /\ Len([s EXCEPT ![i] = v]) = Len(s)
         /\ [s EXCEPT ![i] = v][i] = v
         /\ \A j \in 1..Len(s) : j # i => [s EXCEPT ![i] = v][j] = s[j]
<1>1. [s EXCEPT ![i] = v] \in [1..Len(s) -> S]
  OBVIOUS
<1> QED  BY <1>1

LEMMA AppendFacts ==
  ASSUME NEW S, NEW s \in Seq(S), NEW v \in S
  PROVE  /\ Append(s, v) \in Seq(S)
         /\ Len(Append(s, v)) = Len(s) + 1
         /\ \A i \in 1..Len(s) : Append(s, v)[i] = s[i]
         /\ Append(s, v)[Len(s) + 1] = v
OBVIOUS

LEMMA SameSeq ==
  ASSUME NEW S, NEW s \in Seq(S), NEW t \in Seq(S), Len(s) = Len(t),
         \A i \in 1..Len(s) : s[i] = t[i]
  PROVE  s = t
OBVIOUS

-----------------------------------------------------------------------------
(* What VarEnv::resolve returns, and the checker's FnEnv::resolve. *)

\* The block is the innermost one that has the name.
InnermostWith(e, x, d) ==
  /\ d \in DOMAIN e.scopes
  /\ x \in DOMAIN e.scopes[d]
  /\ \A f \in DOMAIN e.scopes : x \in DOMAIN e.scopes[f] => f <= d

LEMMA InnermostExists ==
  ASSUME NEW e \in Envs, NEW x, NEW d \in DOMAIN e.scopes, x \in DOMAIN e.scopes[d]
  PROVE  \E f : InnermostWith(e, x, f)
<1> DEFINE S == {f \in DOMAIN e.scopes : x \in DOMAIN e.scopes[f]}
<1>1. DOMAIN e.scopes = 1..Len(e.scopes) /\ Len(e.scopes) \in Nat
  BY DEF Envs
<1>2. S \in SUBSET (1..Len(e.scopes)) /\ S # {}
  BY <1>1
<1>3. PICK m \in S : \A f \in S : f <= m
  <2> HIDE DEF S
  <2> QED  BY <1>1, <1>2, Greatest
<1> QED  BY <1>3 DEF InnermostWith

LEMMA ResolveLocal ==
  ASSUME NEW e \in Envs, NEW x, NEW d, InnermostWith(e, x, d)
  PROVE  Resolve(e, x) = [kind |-> "local", slot |-> e.scopes[d][x]]
<1>1. DOMAIN e.scopes = 1..Len(e.scopes) /\ Len(e.scopes) \in Nat
  BY DEF Envs
<1>2. Innermost(e, x) = d
  BY <1>1 DEF Innermost, InnermostWith
<1> QED  BY <1>2 DEF Resolve, InnermostWith

LEMMA CompiledLocal ==
  ASSUME NEW e \in Envs, NEW x, NEW d, InnermostWith(e, x, d), NEW owners
  PROVE  CompiledIn(e, owners, x) = owners[e.scopes[d][x] + 1]
BY ResolveLocal DEF CompiledIn

LEMMA CompiledOther ==
  ASSUME NEW e \in Envs, NEW x, NEW owners,
         \A d \in DOMAIN e.scopes : x \notin DOMAIN e.scopes[d]
  PROVE  CompiledIn(e, owners, x) = IF x \in DOMAIN e.args THEN e.args[x] + 1 ELSE 0
BY DEF CompiledIn, Resolve, Undefined

\* Scope k of the checker is the innermost one that has x.
CheckedAt(x, k) ==
  /\ k \in DOMAIN checker
  /\ x \in DOMAIN checker[k]
  /\ \A m \in DOMAIN checker : x \in DOMAIN checker[m] => m <= k

LEMMA CheckedHere ==
  ASSUME Shape, NEW x, NEW k, CheckedAt(x, k)
  PROVE  Checked(x) = checker[k][x]
<1>1. DOMAIN checker = 1..Len(checker) /\ Len(checker) \in Nat
  BY DEF Shape
<1> DEFINE m == CHOOSE j \in DOMAIN checker :
                  /\ x \in DOMAIN checker[j]
                  /\ \A i \in DOMAIN checker : x \in DOMAIN checker[i] => i <= j
<1>2. m = k
  BY <1>1 DEF CheckedAt
<1> QED  BY <1>2 DEF Checked, CheckedAt

LEMMA CheckedExists ==
  ASSUME Shape, NEW x, NEW k \in DOMAIN checker, x \in DOMAIN checker[k]
  PROVE  \E m : CheckedAt(x, m)
<1> DEFINE S == {m \in DOMAIN checker : x \in DOMAIN checker[m]}
<1>1. DOMAIN checker = 1..Len(checker) /\ Len(checker) \in Nat
  BY DEF Shape
<1>2. S \in SUBSET (1..Len(checker)) /\ S # {}
  BY <1>1
<1>3. PICK m \in S : \A j \in S : j <= m
  <2> HIDE DEF S
  <2> QED  BY <1>1, <1>2, Greatest
<1> QED  BY <1>3 DEF CheckedAt

-----------------------------------------------------------------------------
(* What Nesting is for: the two passes find the same declarations. *)

LEMMA Positions ==
  ASSUME Shape
  PROVE  /\ DOMAIN checker = 1..Len(checker) /\ Len(checker) \in Nat
         /\ DOMAIN env.scopes = 1..Len(env.scopes) /\ Len(env.scopes) \in Nat
         /\ \A k \in DOMAIN checker : checker[k] \in Maps
         /\ \A d \in DOMAIN env.scopes : env.scopes[d] \in Maps
         /\ env.args \in Maps
BY DEF Shape, Envs

LEMMA BlocksOrdered ==
  ASSUME Shape, NEW last \in [DOMAIN env.scopes -> DOMAIN checker],
         NEW block \in [DOMAIN checker -> DOMAIN env.scopes], Nested(last, block),
         NEW k \in DOMAIN checker, NEW m \in DOMAIN checker, k <= m
  PROVE  block[k] <= block[m]
<1>1. block[m] \in DOMAIN env.scopes /\ block[m] <= block[m]
  BY Positions
<1>2. m <= last[block[m]]
  BY <1>1 DEF Nested
<1>3. last[block[m]] \in DOMAIN checker
  BY <1>1
<1>4. k <= last[block[m]]
  BY <1>2, <1>3, Positions
<1> QED  BY <1>1, <1>4 DEF Nested

LEMMA NamesFollow ==
  ASSUME Shape, ParamsAgree, Nesting, status # "rejected", NEW x
  PROVE  Compiled(x) = Checked(x)
<1>1. PICK last \in [DOMAIN env.scopes -> DOMAIN checker],
           block \in [DOMAIN checker -> DOMAIN env.scopes] :
             Nested(last, block) /\ ScopesMatch(block)
  BY DEF Nesting
<1>2. 1 \in DOMAIN checker /\ 1 \in DOMAIN env.scopes /\ 2 \in DOMAIN env.scopes
  <2>1. Len(env.scopes) >= 2
    <3>1. Len(open) \in Nat
      BY Positions DEF Shape
    <3> QED  BY <3>1 DEF Shape
  <2>2. last[1] \in DOMAIN checker
    BY <2>1, Positions
  <2> QED  BY <1>1, <2>1, <2>2, Positions DEF Nested
<1>3. CASE \E d \in DOMAIN env.scopes : x \in DOMAIN env.scopes[d]
  <2>1. PICK f : InnermostWith(env, x, f)
    BY <1>3, InnermostExists DEF Shape
  <2>2. f \in DOMAIN env.scopes /\ f # 1
    BY <2>1 DEF InnermostWith, Shape
  <2>3. PICK k \in DOMAIN checker : block[k] = f /\ x \in DOMAIN checker[k]
    BY <1>1, <2>1 DEF InnermostWith, ScopesMatch
  <2>4. PICK m : CheckedAt(x, m)
    BY <2>3, CheckedExists
  <2>5. m \in DOMAIN checker /\ x \in DOMAIN checker[m] /\ k <= m
    BY <2>3, <2>4 DEF CheckedAt
  <2>6. f <= block[m] /\ block[m] \in DOMAIN env.scopes
    BY <1>1, <2>3, <2>5, BlocksOrdered
  <2>7. f \in Nat /\ block[m] \in Nat /\ f # 0
    <3>1. DOMAIN env.scopes = 1..Len(env.scopes) /\ Len(env.scopes) \in Nat
      BY Positions
    <3> QED  BY <2>2, <2>6, <3>1
  <2>8. block[m] # 1
    BY <2>2, <2>6, <2>7
  <2>9. /\ x \in DOMAIN env.scopes[block[m]]
        /\ owner[env.scopes[block[m]][x] + 1] = checker[m][x]
    BY <1>1, <2>5, <2>8 DEF ScopesMatch
  <2>10. block[m] = f
    <3>1. block[m] <= f
      BY <2>1, <2>6, <2>9 DEF InnermostWith
    <3> QED  BY <2>6, <2>7, <3>1
  <2>11. Checked(x) = checker[m][x]
    BY <2>4, CheckedHere
  <2>12. Compiled(x) = owner[env.scopes[f][x] + 1]
    BY <2>1, CompiledLocal DEF Compiled, Shape
  <2> QED  BY <2>9, <2>10, <2>11, <2>12
<1>4. CASE \A d \in DOMAIN env.scopes : x \notin DOMAIN env.scopes[d]
  <2>1. ASSUME NEW k \in DOMAIN checker, x \in DOMAIN checker[k]
        PROVE  k = 1
    <3>1. block[k] = 1
      <4>1. block[k] \in DOMAIN env.scopes
        OBVIOUS
      <4> QED  BY <1>1, <1>4, <2>1, <4>1 DEF ScopesMatch
    <3>2. k <= last[1]
      BY <1>1, <1>2, <3>1 DEF Nested
    <3> QED  BY <1>1, <3>2, Positions DEF Nested
  <2>2. Compiled(x) = IF x \in DOMAIN env.args THEN env.args[x] + 1 ELSE 0
    BY <1>4, CompiledOther DEF Compiled, Shape
  <2>3. CASE x \in DOMAIN env.args
    <3>1. x \in DOMAIN checker[1] /\ checker[1][x] = env.args[x] + 1
      BY <2>3 DEF ParamsAgree
    <3>2. CheckedAt(x, 1)
      BY <1>2, <2>1, <3>1 DEF CheckedAt
    <3> QED  BY <2>2, <2>3, <3>1, <3>2, CheckedHere
  <2>4. CASE x \notin DOMAIN env.args
    <3>1. \A k \in DOMAIN checker : x \notin DOMAIN checker[k]
      BY <2>1, <2>4 DEF ParamsAgree
    <3> QED  BY <2>2, <2>4, <3>1 DEF Checked
  <2> QED  BY <2>3, <2>4
<1> QED  BY <1>3, <1>4

LEMMA CheckedRange ==
  ASSUME TypeOK, Shape, NEW x
  PROVE  Checked(x) \in 0..decls
<1>1. CASE \E k \in DOMAIN checker : x \in DOMAIN checker[k]
  <2>1. PICK m : CheckedAt(x, m)
    BY <1>1, CheckedExists
  <2>2. checker[m][x] \in 1..decls
    BY <2>1 DEF CheckedAt, TypeOK
  <2>3. Checked(x) = checker[m][x]
    BY <2>1, CheckedHere
  <2> QED  BY <2>2, <2>3 DEF TypeOK
<1>2. CASE ~\E k \in DOMAIN checker : x \in DOMAIN checker[k]
  BY <1>2 DEF Checked, TypeOK
<1> QED  BY <1>1, <1>2

-----------------------------------------------------------------------------
(* The first statement of a function. *)

LEMMA ParamsFacts ==
  ASSUME NEW params \in ParamLists, NEW x \in {params[i] : i \in DOMAIN params}
  PROVE  LET first == CHOOSE i \in DOMAIN params : params[i] = x
         IN  /\ first \in 1..Len(params)
             /\ NewEnv(params).args[x] + 1 \in 1..Len(params)
             /\ NewEnv(params).args[x] \in Nat
             /\ ~HasDuplicate(params) => NewEnv(params).args[x] + 1 = first
<1> DEFINE first == CHOOSE i \in DOMAIN params : params[i] = x
           S == {i \in DOMAIN params : params[i] = x}
           final == CHOOSE i \in DOMAIN params :
                      /\ params[i] = x
                      /\ \A j \in DOMAIN params : params[j] = x => j <= i
<1>1. DOMAIN params = 1..Len(params) /\ Len(params) \in Nat
  BY ParamListsAssumption
<1>2. first \in DOMAIN params /\ params[first] = x
  OBVIOUS
<1>3. final \in DOMAIN params /\ params[final] = x
  <2>1. S \in SUBSET (1..Len(params)) /\ S # {}
    BY <1>1
  <2>2. PICK m \in S : \A k \in S : k <= m
    <3> HIDE DEF S
    <3> QED  BY <1>1, <2>1, Greatest
  <2>3. /\ m \in DOMAIN params /\ params[m] = x
        /\ \A j \in DOMAIN params : params[j] = x => j <= m
    BY <2>2
  <2> QED  BY <2>3
<1>4. NewEnv(params).args[x] = final - 1
  BY DEF NewEnv
<1>5. ~HasDuplicate(params) => final = first
  BY <1>2, <1>3 DEF HasDuplicate
<1> HIDE DEF first, final
<1>6. /\ first \in 1..Len(params)
      /\ NewEnv(params).args[x] + 1 \in 1..Len(params)
      /\ NewEnv(params).args[x] \in Nat
      /\ ~HasDuplicate(params) => NewEnv(params).args[x] + 1 = first
  BY <1>1, <1>2, <1>3, <1>4, <1>5
<1> QED  BY <1>6 DEF first

LEMMA FirstEnv ==
  ASSUME NEW params \in ParamLists
  PROVE  LET e == EnterBlock(NewEnv(params))
         IN  /\ e = [args |-> NewEnv(params).args, scopes |-> e.scopes, next |-> 0]
             /\ e.scopes \in Seq(Maps) /\ Len(e.scopes) = 2
             /\ e.scopes[1] = NoNames /\ e.scopes[2] = NoNames
<1> DEFINE s == Append(<<NoNames>>, NoNames)
<1>1. NewEnv(params) = [args   |-> NewEnv(params).args,
                        scopes |-> <<NoNames>>,
                        next   |-> 0]
  BY DEF NewEnv
<1>2. s \in Seq(Maps) /\ Len(s) = 2 /\ s[1] = NoNames /\ s[2] = NoNames
  <2>1. <<NoNames>> \in Seq(Maps) /\ Len(<<NoNames>>) = 1 /\ <<NoNames>>[1] = NoNames
    BY NoNamesFacts
  <2> QED  BY <2>1, AppendFacts, NoNamesFacts
<1>3. EnterBlock(NewEnv(params)) =
        [args |-> NewEnv(params).args, scopes |-> s, next |-> 0]
  BY <1>1 DEF EnterBlock
<1> QED  BY <1>2, <1>3

LEMMA Starts == Init => IInv
<1> SUFFICES ASSUME Init PROVE IInv
  OBVIOUS
<1>1. PICK params \in ParamLists :
        /\ checker = <<[x \in {params[i] : i \in DOMAIN params} |->
                          CHOOSE i \in DOMAIN params : params[i] = x], NoNames>>
        /\ env = EnterBlock(NewEnv(params))
        /\ owner = <<>>
        /\ open = <<>>
        /\ decls = Len(params)
        /\ initRead = NoRead
        /\ status = IF HasDuplicate(params) THEN "rejected"
                    ELSE IF ParamsFit(params) THEN "walking" ELSE "no slots"
  BY DEF Init
<1>2. owner = <<>> /\ open = <<>> /\ DOMAIN open = {}
  <2>1. owner = <<>> /\ open = <<>>
    BY <1>1
  <2>2. open \in Seq({}) /\ Len(open) = 0
    BY <2>1
  <2> QED  BY <2>1, <2>2
<1> DEFINE D == {params[i] : i \in DOMAIN params}
           P == [x \in D |-> CHOOSE i \in DOMAIN params : params[i] = x]
<1>3. /\ D \in SUBSET Names /\ Len(params) \in Nat
      /\ NoNames \in Maps /\ DOMAIN NoNames = {}
  BY ParamListsAssumption, NoNamesFacts
<1>4. P \in [D -> 1..Len(params)] /\ P \in Maps
  <2>1. P \in [D -> 1..Len(params)]
    BY ParamsFacts
  <2>2. P \in [D -> Nat]
    BY <1>3, <2>1
  <2> QED  BY <1>3, <2>1, <2>2, MapIntro
<1>5. /\ NewEnv(params).args \in Maps /\ DOMAIN NewEnv(params).args = D
      /\ \A x \in D : ~HasDuplicate(params) => P[x] = NewEnv(params).args[x] + 1
  <2>1. NewEnv(params).args = [x \in D |-> NewEnv(params).args[x]]
    BY DEF NewEnv
  <2>2. NewEnv(params).args \in [D -> Nat]
    BY <2>1, ParamsFacts
  <2> QED  BY <1>3, <2>2, MapIntro, ParamsFacts
<1>6. checker = <<P, NoNames>>
  BY <1>1
<1> HIDE DEF P, D
<1>7. /\ env = [args |-> NewEnv(params).args, scopes |-> env.scopes, next |-> 0]
      /\ env.scopes \in Seq(Maps) /\ Len(env.scopes) = 2
      /\ env.scopes[1] = NoNames /\ env.scopes[2] = NoNames
  BY <1>1, FirstEnv
<1>8. /\ checker \in Seq(Maps) /\ DOMAIN checker = {1, 2} /\ Len(checker) = 2
      /\ checker[1] = P /\ checker[2] = NoNames
      /\ DOMAIN env.scopes = {1, 2}
  <2>1. \A k : k \in 1..2 <=> k \in {1, 2}
    OBVIOUS
  <2>2. DOMAIN env.scopes = 1..2
    BY <1>7
  <2>3. checker \in Seq(Maps) /\ DOMAIN checker = 1..2 /\ Len(checker) = 2
    BY <1>3, <1>4, <1>6
  <2> QED  BY <1>6, <2>1, <2>2, <2>3
<1>9. Live = {}
  BY <1>3, <1>7, <1>8 DEF Live
<1>10. TypeOK
  <2>1. \A k \in DOMAIN checker : \A x \in DOMAIN checker[k] :
           x \in Names /\ checker[k][x] \in 1..decls
    BY <1>1, <1>3, <1>4, <1>8
  <2>2. \A d \in DOMAIN env.scopes : \A x \in DOMAIN env.scopes[d] :
           x \in Names /\ env.scopes[d][x] \in 0..(env.next - 1)
    BY <1>3, <1>7, <1>8
  <2>3. initRead \in [checked : 0..decls, compiled : 0..decls] /\ decls \in Nat
    <3>1. initRead = NoRead /\ decls \in Nat
      BY <1>1, <1>3
    <3> QED  BY <3>1 DEF NoRead
  <2>4. status \in Statuses
    BY <1>1 DEF Statuses
  <2>5. env.next \in 0..SlotLimit
    BY <1>7, SlotLimitAssumption
  <2>6. owner \in Seq(0..decls) /\ open \in Seq(Open)
    BY <1>2
  <2> QED  BY <1>8, <2>1, <2>2, <2>3, <2>4, <2>5, <2>6 DEF TypeOK
<1>11. Shape
  <2>1. env \in Envs /\ env.next = 0 /\ DOMAIN env.scopes[1] = {}
    BY <1>3, <1>5, <1>7 DEF Envs
  <2>2. Len(owner) = 0 /\ Len(open) = 0
    BY <1>1
  <2> QED  BY <1>7, <1>8, <2>1, <2>2 DEF Shape
<1>12. ParamsAgree
  <2>1. status # "rejected" => ~HasDuplicate(params)
    BY <1>1
  <2>2. DOMAIN checker[1] = D
    BY <1>4, <1>8
  <2>3. env.args = NewEnv(params).args
    BY <1>7
  <2> QED  BY <1>5, <1>8, <2>1, <2>2, <2>3 DEF ParamsAgree
<1>13. Nesting
  <2> DEFINE id == [k \in {1, 2} |-> k]
  <2>1. id \in [DOMAIN env.scopes -> DOMAIN checker]
        /\ id \in [DOMAIN checker -> DOMAIN env.scopes]
    BY <1>8
  <2>2. Nested(id, id)
    <3>2. id[1] = 1 /\ id[2] = 2
      OBVIOUS
    <3>3. \A k \in {1, 2} : \A d \in {1, 2} : id[k] <= d <=> k <= id[d]
      OBVIOUS
    <3> HIDE DEF id
    <3> QED  BY <1>7, <1>8, <1>2, <3>2, <3>3 DEF Nested
  <2>3. ScopesMatch(id)
    <3>1. id[1] = 1 /\ id[2] = 2
      OBVIOUS
    <3> HIDE DEF id
    <3> QED  BY <1>3, <1>7, <1>8, <3>1 DEF ScopesMatch
  <2> QED  BY <2>1, <2>2, <2>3 DEF Nesting
<1>14. BeforeKept /\ HiddenBelow
  BY <1>2 DEF BeforeKept, HiddenBelow
<1>15. SlotsNotShared
  BY <1>2, <1>9 DEF SlotsNotShared
<1> QED  BY <1>10, <1>11, <1>12, <1>13, <1>14, <1>15 DEF IInv

-----------------------------------------------------------------------------
(* What a step leaves as it was. *)

\* VarEnv::resolve depends on nothing but the arguments and the scopes.
LEMMA ScopesDecide ==
  ASSUME NEW e \in Envs, NEW f \in Envs, NEW owners, NEW x,
         e.args = f.args, e.scopes = f.scopes
  PROVE  CompiledIn(e, owners, x) = CompiledIn(f, owners, x)
<1>1. Resolve(e, x) = Resolve(f, x)
  BY DEF Resolve, Innermost
<1> QED  BY <1>1 DEF CompiledIn

LEMMA BelowFacts ==
  ASSUME NEW e \in Envs, NEW n \in 0..Len(e.scopes)
  PROVE  /\ Below(e, n) \in Envs
         /\ Below(e, n).args = e.args
         /\ Len(Below(e, n).scopes) = n
         /\ Below(e, n).scopes \in Seq(Maps)
         /\ \A d \in 1..n : Below(e, n).scopes[d] = e.scopes[d]
<1>1. e.scopes \in Seq(Maps) /\ e.args \in Maps /\ e.next \in Nat
  BY DEF Envs
<1> DEFINE s == SubSeq(e.scopes, 1, n)
<1>2. s \in Seq(Maps) /\ Len(s) = n /\ \A d \in 1..n : s[d] = e.scopes[d]
  BY <1>1
<1>3. Below(e, n) = [e EXCEPT !.scopes = s]
  BY DEF Below
<1> HIDE DEF s
<1>4. /\ [e EXCEPT !.scopes = s] \in Envs
      /\ [e EXCEPT !.scopes = s].args = e.args
      /\ [e EXCEPT !.scopes = s].scopes = s
  BY <1>2 DEF Envs
<1> QED  BY <1>2, <1>3, <1>4

\* A slot keeps its declaration, so a name that is looked up in the blocks
\* that two environments share means the same in both.
LEMMA SharedBlocks ==
  ASSUME NEW e \in Envs, NEW f \in Envs, e.args = f.args,
         NEW n \in Nat, n <= Len(e.scopes), n <= Len(f.scopes),
         \A d \in 1..n : e.scopes[d] = f.scopes[d],
         NEW owners, NEW later, NEW x,
         \A d \in 1..n : \A y \in DOMAIN e.scopes[d] :
            owners[e.scopes[d][y] + 1] = later[e.scopes[d][y] + 1]
  PROVE  CompiledIn(Below(e, n), owners, x) = CompiledIn(Below(f, n), later, x)
<1> DEFINE b == Below(e, n)
           c == Below(f, n)
<1>1. /\ b \in Envs /\ b.args = e.args /\ Len(b.scopes) = n /\ b.scopes \in Seq(Maps)
      /\ \A d \in 1..n : b.scopes[d] = e.scopes[d]
  <2>1. Len(e.scopes) \in Nat
    BY DEF Envs
  <2>2. n \in 0..Len(e.scopes)
    BY <2>1
  <2> QED  BY <2>2, BelowFacts
<1>2. /\ c \in Envs /\ c.args = f.args /\ Len(c.scopes) = n /\ c.scopes \in Seq(Maps)
      /\ \A d \in 1..n : c.scopes[d] = f.scopes[d]
  <2>1. Len(f.scopes) \in Nat
    BY DEF Envs
  <2>2. n \in 0..Len(f.scopes)
    BY <2>1
  <2> QED  BY <2>2, BelowFacts
<1> HIDE DEF b, c
<1>3. b.scopes = c.scopes
  BY <1>1, <1>2, SameSeq
<1>4. DOMAIN b.scopes = 1..n
  BY <1>1
<1>5. CompiledIn(b, owners, x) = CompiledIn(b, later, x)
  <2>1. CASE \E d \in DOMAIN b.scopes : x \in DOMAIN b.scopes[d]
    <3>1. PICK d : InnermostWith(b, x, d)
      BY <1>1, <2>1, InnermostExists
    <3>2. d \in 1..n /\ x \in DOMAIN e.scopes[d] /\ b.scopes[d] = e.scopes[d]
      BY <1>1, <1>4, <3>1 DEF InnermostWith
    <3> QED  BY <1>1, <3>1, <3>2, CompiledLocal
  <2>2. CASE \A d \in DOMAIN b.scopes : x \notin DOMAIN b.scopes[d]
    BY <1>1, <2>2, CompiledOther
  <2> QED  BY <2>1, <2>2
<1>6. CompiledIn(b, later, x) = CompiledIn(c, later, x)
  BY <1>1, <1>2, <1>3, ScopesDecide
<1> QED  BY <1>5, <1>6 DEF b, c

LEMMA AtLeastTwo ==
  ASSUME Shape
  PROVE  /\ Len(open) \in Nat /\ DOMAIN open = 1..Len(open)
         /\ Len(env.scopes) >= 2 /\ Len(env.scopes) = Len(open) + 2
<1>1. Len(open) \in Nat /\ DOMAIN open = 1..Len(open)
  BY DEF Shape
<1> QED  BY <1>1 DEF Shape

LEMMA SlotsHaveOwners ==
  ASSUME TypeOK, Shape, NEW d \in DOMAIN env.scopes, NEW x \in DOMAIN env.scopes[d]
  PROVE  /\ env.scopes[d][x] \in Nat /\ env.scopes[d][x] < env.next
         /\ env.scopes[d][x] + 1 \in 1..Len(owner)
<1>1. env.scopes[d][x] \in 0..(env.next - 1) /\ env.next \in Nat
  BY DEF TypeOK
<1> QED  BY <1>1 DEF Shape

LEMMA NestingStays ==
  ASSUME Nesting, checker' = checker, env' = env, owner' = owner, open' = open
  PROVE  Nesting'
<1>1. PICK last \in [DOMAIN env.scopes -> DOMAIN checker],
           block \in [DOMAIN checker -> DOMAIN env.scopes] :
             Nested(last, block) /\ ScopesMatch(block)
  BY DEF Nesting
<1>2. Nested(last, block)'
  BY <1>1 DEF Nested
<1>3. ScopesMatch(block)'
  BY <1>1 DEF ScopesMatch
<1> QED  BY <1>1, <1>2, <1>3 DEF Nesting

\* A walk that ends has found what it has found.
LEMMA StopKeeps ==
  ASSUME IInv, status = "walking", NEW why \in Statuses, Stop(why)
  PROVE  IInv'
<1>1. /\ checker' = checker /\ env' = env /\ owner' = owner /\ open' = open
      /\ decls' = decls /\ initRead' = initRead /\ status' \in Statuses
  BY DEF Stop
<1>2. TypeOK'
  BY <1>1 DEF IInv, TypeOK
<1>3. Shape'
  BY <1>1 DEF IInv, Shape
<1>4. ParamsAgree'
  BY <1>1 DEF IInv, ParamsAgree
<1>5. Nesting'
  BY <1>1, NestingStays DEF IInv
<1>6. BeforeKept' /\ HiddenBelow'
  BY <1>1 DEF IInv, BeforeKept, HiddenBelow
<1>7. SlotsNotShared'
  BY <1>1 DEF IInv, SlotsNotShared, Live, SlotOf
<1> QED  BY <1>2, <1>3, <1>4, <1>5, <1>6, <1>7 DEF IInv

LEMMA StutterKeeps ==
  ASSUME IInv, UNCHANGED vars
  PROVE  IInv'
<1>1. /\ checker' = checker /\ env' = env /\ owner' = owner /\ open' = open
      /\ decls' = decls /\ initRead' = initRead /\ status' = status
  BY DEF vars
<1>2. TypeOK'
  BY <1>1 DEF IInv, TypeOK
<1>3. Shape'
  BY <1>1 DEF IInv, Shape
<1>4. ParamsAgree'
  BY <1>1 DEF IInv, ParamsAgree
<1>5. Nesting'
  BY <1>1, NestingStays DEF IInv
<1>6. BeforeKept' /\ HiddenBelow'
  BY <1>1 DEF IInv, BeforeKept, HiddenBelow
<1>7. SlotsNotShared'
  BY <1>1 DEF IInv, SlotsNotShared, Live, SlotOf
<1> QED  BY <1>2, <1>3, <1>4, <1>5, <1>6, <1>7 DEF IInv

\* What leaving an open block brings back, when a step touches only blocks
\* inside of it.
LEMMA BeforeStays ==
  ASSUME TypeOK, Shape, BeforeKept, env' \in Envs, env'.args = env.args,
         \A i \in 1..Len(owner) : owner'[i] = owner[i],
         NEW j \in DOMAIN open, j + 1 <= Len(env'.scopes),
         \A d \in 1..(j + 1) : env'.scopes[d] = env.scopes[d],
         NEW x \in Names
  PROVE  open[j].before[x] = CompiledIn(Below(env', j + 1), owner', x)
<1>1. /\ j + 1 \in Nat /\ j + 1 <= Len(env.scopes)
      /\ \A d \in 1..(j + 1) : d \in 1..Len(env.scopes)
  BY AtLeastTwo
<1>2. env \in Envs /\ DOMAIN env.scopes = 1..Len(env.scopes)
  BY Positions DEF Shape
<1>3. \A d \in 1..(j + 1) : \A y \in DOMAIN env.scopes[d] :
         owner[env.scopes[d][y] + 1] = owner'[env.scopes[d][y] + 1]
  BY <1>1, <1>2, SlotsHaveOwners
<1>4. CompiledIn(Below(env, j + 1), owner, x) = CompiledIn(Below(env', j + 1), owner', x)
  BY <1>1, <1>2, <1>3, SharedBlocks
<1> QED  BY <1>4 DEF BeforeKept

LEMMA AllocFacts ==
  ASSUME NEW e \in Envs
  PROVE  /\ AllocSlot(e) \in Envs
         /\ AllocSlot(e).args = e.args
         /\ AllocSlot(e).scopes = e.scopes
         /\ AllocSlot(e).next = e.next + 1
BY DEF AllocSlot, Envs

LEMMA TemporaryKeeps ==
  ASSUME IInv, Temporary
  PROVE  IInv'
<1>1. /\ checker' = checker /\ open' = open /\ decls' = decls
      /\ initRead' = initRead /\ status' = status
  BY DEF Temporary
<1>2. /\ env' \in Envs /\ env'.args = env.args /\ env'.scopes = env.scopes
      /\ env'.next = env.next + 1
  BY AllocFacts DEF Temporary, IInv, Shape
<1>3. /\ env.next \in Nat /\ env'.next \in 0..SlotLimit
  BY <1>2, SlotLimitAssumption DEF Temporary, SlotsLeft, IInv, TypeOK
<1>4. /\ owner' \in Seq(0..decls) /\ Len(owner') = Len(owner) + 1
      /\ \A i \in 1..Len(owner) : owner'[i] = owner[i]
  <2>1. NotAVariable \in 0..decls /\ owner \in Seq(0..decls)
    BY DEF NotAVariable, IInv, TypeOK
  <2>2. owner' = Append(owner, NotAVariable)
    BY DEF Temporary
  <2> QED  BY <2>1, <2>2, AppendFacts
<1>5. TypeOK'
  <2>1. \A d \in DOMAIN env.scopes : \A x \in DOMAIN env.scopes[d] :
           env.scopes[d][x] \in 0..(env'.next - 1)
    BY <1>2, <1>3 DEF IInv, TypeOK
  <2> QED  BY <1>1, <1>2, <1>3, <1>4, <2>1 DEF IInv, TypeOK
<1>6. Shape'
  BY <1>1, <1>2, <1>4 DEF IInv, Shape
<1>7. ParamsAgree'
  BY <1>1, <1>2 DEF IInv, ParamsAgree
<1>8. Nesting'
  <2>1. PICK last \in [DOMAIN env.scopes -> DOMAIN checker],
             block \in [DOMAIN checker -> DOMAIN env.scopes] :
               Nested(last, block) /\ ScopesMatch(block)
    BY DEF IInv, Nesting
  <2>2. Nested(last, block)'
    BY <1>1, <1>2, <2>1 DEF Nested
  <2>3. ScopesMatch(block)'
    <3>1. ASSUME NEW k \in DOMAIN checker, NEW x \in DOMAIN checker[k], block[k] # 1
          PROVE  /\ x \in DOMAIN env.scopes[block[k]]
                 /\ owner'[env.scopes[block[k]][x] + 1] = checker[k][x]
      <4>1. /\ block[k] \in DOMAIN env.scopes /\ x \in DOMAIN env.scopes[block[k]]
            /\ owner[env.scopes[block[k]][x] + 1] = checker[k][x]
        BY <2>1, <3>1 DEF ScopesMatch
      <4> QED  BY <1>4, <4>1, SlotsHaveOwners DEF IInv
    <3> QED  BY <1>1, <1>2, <2>1, <3>1 DEF ScopesMatch
  <2> QED  BY <1>1, <1>2, <2>2, <2>3 DEF Nesting
<1>9. BeforeKept'
  <2>1. \A j \in DOMAIN open : j + 1 <= Len(env'.scopes)
    BY <1>2, AtLeastTwo DEF IInv
  <2>2. \A j \in DOMAIN open : \A x \in Names :
           open[j].before[x] = CompiledIn(Below(env', j + 1), owner', x)
    BY <1>2, <1>4, <2>1, BeforeStays DEF IInv
  <2> QED  BY <1>1, <2>2 DEF BeforeKept
<1>10. HiddenBelow'
  BY <1>1, <1>2, <1>3 DEF IInv, HiddenBelow
<1>11. SlotsNotShared'
  BY <1>1, <1>2 DEF IInv, SlotsNotShared, Live, SlotOf
<1> QED  BY <1>5, <1>6, <1>7, <1>8, <1>9, <1>10, <1>11 DEF IInv

-----------------------------------------------------------------------------
(* A declaration: both passes extend their innermost scopes. *)

LEMMA DeclareFacts ==
  ASSUME NEW e \in Envs, Len(e.scopes) # 0, NEW x \in Names
  PROVE  LET f == DeclareLocal(e, x)
             top == Len(e.scopes)
         IN  /\ f \in Envs /\ f.args = e.args /\ f.next = e.next + 1
             /\ Len(f.scopes) = top
             /\ \A d \in 1..top : d # top => f.scopes[d] = e.scopes[d]
             /\ f.scopes[top] = Extend(e.scopes[top], x, e.next)
             /\ DOMAIN f.scopes[top] = DOMAIN e.scopes[top] \cup {x}
             /\ f.scopes[top][x] = e.next
             /\ \A y \in DOMAIN e.scopes[top] : y # x =>
                   f.scopes[top][y] = e.scopes[top][y]
<1> DEFINE top == Len(e.scopes)
           m == Extend(e.scopes[top], x, e.next)
           s == [e.scopes EXCEPT ![top] = m]
<1>1. e.scopes \in Seq(Maps) /\ e.args \in Maps /\ e.next \in Nat /\ top \in 1..top
  BY DEF Envs
<1>2. e.scopes[top] \in Maps
  BY <1>1
<1>3. /\ m \in Maps /\ DOMAIN m = DOMAIN e.scopes[top] \cup {x} /\ m[x] = e.next
      /\ \A y \in DOMAIN e.scopes[top] : y # x => m[y] = e.scopes[top][y]
  BY <1>1, <1>2, ExtendFacts, ZenonT(40)
<1>4. DeclareLocal(e, x) = [e EXCEPT !.scopes = s, !.next = e.next + 1]
  BY DEF DeclareLocal
<1>5. m = Extend(e.scopes[top], x, e.next)
  OBVIOUS
<1> HIDE DEF m
<1>6. /\ s \in Seq(Maps) /\ Len(s) = top /\ s[top] = m
      /\ \A d \in 1..top : d # top => s[d] = e.scopes[d]
  BY <1>1, <1>3, Replaced
<1> HIDE DEF s
<1> DEFINE f == [e EXCEPT !.scopes = s, !.next = e.next + 1]
<1>7. f \in Envs /\ f.args = e.args /\ f.scopes = s /\ f.next = e.next + 1
  <2>1. e.next + 1 \in Nat /\ s \in Seq(Maps)
    BY <1>1, <1>6
  <2> QED  BY <2>1 DEF Envs
<1> HIDE DEF f
<1>8. DeclareLocal(e, x) = f
  BY <1>4 DEF f
<1> QED  BY <1>3, <1>5, <1>6, <1>7, <1>8

LEMMA CheckerDeclareFacts ==
  ASSUME NEW s \in Seq(Maps), Len(s) # 0, NEW x \in Names, NEW n \in Nat
  PROVE  LET t == CheckerDeclare(s, x, n)
             top == Len(s)
         IN  /\ t \in Seq(Maps) /\ Len(t) = top
             /\ \A k \in 1..top : k # top => t[k] = s[k]
             /\ DOMAIN t[top] = DOMAIN s[top] \cup {x}
             /\ t[top][x] = n
             /\ \A y \in DOMAIN s[top] : y # x => t[top][y] = s[top][y]
<1> DEFINE top == Len(s)
           m == Extend(s[top], x, n)
<1>1. top \in 1..top /\ s[top] \in Maps
  OBVIOUS
<1>2. /\ m \in Maps /\ DOMAIN m = DOMAIN s[top] \cup {x} /\ m[x] = n
      /\ \A y \in DOMAIN s[top] : y # x => m[y] = s[top][y]
  BY <1>1, ExtendFacts
<1>3. CheckerDeclare(s, x, n) = [s EXCEPT ![top] = m]
  BY DEF CheckerDeclare
<1> HIDE DEF m
<1>4. /\ [s EXCEPT ![top] = m] \in Seq(Maps) /\ Len([s EXCEPT ![top] = m]) = top
      /\ [s EXCEPT ![top] = m][top] = m
      /\ \A k \in 1..top : k # top => [s EXCEPT ![top] = m][k] = s[k]
  BY <1>1, <1>2, Replaced
<1> QED  BY <1>2, <1>3, <1>4

\* The part that DeclareVar and DeclareConstant share.
Declare(x) ==
  /\ status = "walking"
  /\ x \notin DOMAIN CheckerTop
  /\ CanDeclare(env, x)
  /\ checker' = CheckerDeclare(checker, x, decls + 1)
  /\ env' = DeclareLocal(env, x)
  /\ owner' = Append(owner, decls + 1)
  /\ decls' = decls + 1
  /\ UNCHANGED <<open, status>>

\* The innermost scope of the checker belongs to the innermost block.
LEMMA TopBlock ==
  ASSUME TypeOK, Shape, NEW last \in [DOMAIN env.scopes -> DOMAIN checker],
         NEW block \in [DOMAIN checker -> DOMAIN env.scopes], Nested(last, block)
  PROVE  /\ Len(checker) >= 2 /\ Len(checker) \in DOMAIN checker
         /\ block[Len(checker)] = Len(env.scopes)
<1> DEFINE t == Len(env.scopes)
           c == Len(checker)
<1>1. /\ t \in Nat /\ t >= 2 /\ c \in Nat
      /\ t = Len(open) + 2 /\ Len(open) \in Nat /\ DOMAIN open = 1..Len(open)
      /\ DOMAIN env.scopes = 1..t /\ DOMAIN checker = 1..c
  BY AtLeastTwo, Positions
<1> HIDE DEF t, c
<1>2. last[1] = 1 /\ last[2] = 2 /\ last[t] = c
  BY DEF Nested, t, c
<1>3. last[2] \in 1..c
  BY <1>1
<1>4. last[t - 1] < c
  <2>1. CASE t = 2
    BY <1>2, <2>1
  <2>2. CASE t # 2
    <3>1. t - 2 \in DOMAIN open
      BY <1>1, <2>2
    <3>2. last[(t - 2) + 2] = last[(t - 2) + 1] + open[t - 2].scopes
      BY <3>1 DEF Nested
    <3>3. open[t - 2].scopes \in {1, 2}
      <4>1. open[t - 2] \in Open
        BY <1>1, <3>1 DEF TypeOK
      <4> QED  BY <4>1 DEF Open
    <3>4. t - 1 \in 1..t
      BY <1>1
    <3>5. (t - 2) + 2 = t /\ (t - 2) + 1 = t - 1 /\ last[t - 1] \in Nat
      <4>1. last[t - 1] \in 1..c
        BY <1>1, <3>4
      <4> QED  BY <1>1, <4>1
    <3> QED  BY <1>1, <1>2, <3>2, <3>3, <3>5
  <2> QED  BY <2>1, <2>2
<1>5. c \in 1..c /\ t - 1 \in 1..t /\ block[c] \in 1..t /\ last[t - 1] \in 1..c
  <2>1. c \in 1..c /\ t - 1 \in 1..t
    BY <1>1, <1>2, <1>3
  <2> QED  BY <1>1, <2>1
<1>6. ~(block[c] <= t - 1)
  <2>1. block[c] <= t - 1 <=> c <= last[t - 1]
    BY <1>1, <1>5 DEF Nested
  <2> QED  BY <1>1, <1>4, <1>5, <2>1
<1>7. c >= 2 /\ c \in DOMAIN checker /\ block[c] = t
  BY <1>1, <1>2, <1>3, <1>5, <1>6
<1> QED  BY <1>7 DEF t, c

\* Everything a declaration changes.
LEMMA Declared ==
  ASSUME IInv, NEW x \in Names, Declare(x)
  PROVE  /\ open' = open /\ status' = status /\ decls' = decls + 1 /\ decls \in Nat
         /\ env' \in Envs /\ env'.args = env.args
         /\ env.next \in Nat /\ env'.next = env.next + 1 /\ env'.next \in 0..SlotLimit
         /\ Len(env'.scopes) = Len(env.scopes)
         /\ DOMAIN env'.scopes = DOMAIN env.scopes
         /\ \A d \in DOMAIN env.scopes :
               d # Len(env.scopes) => env'.scopes[d] = env.scopes[d]
         /\ DOMAIN env'.scopes[Len(env.scopes)] =
              DOMAIN env.scopes[Len(env.scopes)] \cup {x}
         /\ x \notin DOMAIN env.scopes[Len(env.scopes)]
         /\ env'.scopes[Len(env.scopes)][x] = env.next
         /\ \A y \in DOMAIN env.scopes[Len(env.scopes)] : y # x =>
               env'.scopes[Len(env.scopes)][y] = env.scopes[Len(env.scopes)][y]
         /\ checker' \in Seq(Maps) /\ Len(checker') = Len(checker)
         /\ DOMAIN checker' = DOMAIN checker
         /\ \A k \in DOMAIN checker : k # Len(checker) => checker'[k] = checker[k]
         /\ DOMAIN checker'[Len(checker)] = DOMAIN checker[Len(checker)] \cup {x}
         /\ checker'[Len(checker)][x] = decls + 1
         /\ \A y \in DOMAIN checker[Len(checker)] : y # x =>
               checker'[Len(checker)][y] = checker[Len(checker)][y]
         /\ owner' \in Seq(0..decls') /\ Len(owner') = Len(owner) + 1
         /\ owner'[env.next + 1] = decls + 1
         /\ \A i \in 1..Len(owner) : owner'[i] = owner[i]
<1>1. /\ open' = open /\ status' = status /\ decls' = decls + 1 /\ decls \in Nat
      /\ env' = DeclareLocal(env, x) /\ checker' = CheckerDeclare(checker, x, decls + 1)
      /\ owner' = Append(owner, decls + 1)
      /\ x \notin DOMAIN env.scopes[Len(env.scopes)] /\ env.next # SlotLimit
  BY DEF Declare, CanDeclare, SlotsLeft, Top, IInv, TypeOK
<1>2. env \in Envs /\ Len(env.scopes) # 0 /\ DOMAIN env.scopes = 1..Len(env.scopes)
  BY AtLeastTwo, Positions DEF IInv, Shape
<1>3. checker \in Seq(Maps) /\ Len(checker) # 0 /\ DOMAIN checker = 1..Len(checker)
  BY DEF IInv, Shape, TypeOK
<1>4. env.next \in Nat /\ env.next + 1 \in 0..SlotLimit /\ Len(owner) = env.next
  BY <1>1, SlotLimitAssumption DEF IInv, TypeOK, Shape
<1>5. /\ env' \in Envs /\ env'.args = env.args /\ env'.next = env.next + 1
      /\ Len(env'.scopes) = Len(env.scopes)
      /\ \A d \in 1..Len(env.scopes) :
            d # Len(env.scopes) => env'.scopes[d] = env.scopes[d]
      /\ DOMAIN env'.scopes[Len(env.scopes)] =
           DOMAIN env.scopes[Len(env.scopes)] \cup {x}
      /\ env'.scopes[Len(env.scopes)][x] = env.next
      /\ \A y \in DOMAIN env.scopes[Len(env.scopes)] : y # x =>
            env'.scopes[Len(env.scopes)][y] = env.scopes[Len(env.scopes)][y]
  BY <1>1, <1>2, DeclareFacts
<1>6. DOMAIN env'.scopes = 1..Len(env.scopes)
  BY <1>5 DEF Envs
<1>7. /\ checker' \in Seq(Maps) /\ Len(checker') = Len(checker)
      /\ \A k \in 1..Len(checker) : k # Len(checker) => checker'[k] = checker[k]
      /\ DOMAIN checker'[Len(checker)] = DOMAIN checker[Len(checker)] \cup {x}
      /\ checker'[Len(checker)][x] = decls + 1
      /\ \A y \in DOMAIN checker[Len(checker)] : y # x =>
            checker'[Len(checker)][y] = checker[Len(checker)][y]
  <2>1. decls + 1 \in Nat
    BY <1>1
  <2> DEFINE t == CheckerDeclare(checker, x, decls + 1)
  <2>2. /\ t \in Seq(Maps) /\ Len(t) = Len(checker)
        /\ \A k \in 1..Len(checker) : k # Len(checker) => t[k] = checker[k]
        /\ DOMAIN t[Len(checker)] = DOMAIN checker[Len(checker)] \cup {x}
        /\ t[Len(checker)][x] = decls + 1
        /\ \A y \in DOMAIN checker[Len(checker)] : y # x =>
              t[Len(checker)][y] = checker[Len(checker)][y]
    BY <1>3, <2>1, CheckerDeclareFacts
  <2> HIDE DEF t
  <2> QED  BY <1>1, <2>2 DEF t
<1>8. DOMAIN checker' = 1..Len(checker)
  BY <1>7
<1>9. /\ owner' \in Seq(0..decls') /\ Len(owner') = Len(owner) + 1
      /\ owner'[Len(owner) + 1] = decls + 1
      /\ \A i \in 1..Len(owner) : owner'[i] = owner[i]
  <2>1. owner \in Seq(0..decls') /\ decls + 1 \in 0..decls'
    BY <1>1 DEF IInv, TypeOK
  <2> QED  BY <1>1, <2>1, AppendFacts
<1> QED  BY <1>1, <1>2, <1>3, <1>4, <1>5, <1>6, <1>7, <1>8, <1>9

LEMMA DeclareKeepsNesting ==
  ASSUME IInv, NEW x \in Names, Declare(x)
  PROVE  Nesting'
<1> DEFINE t == Len(env.scopes)
           c == Len(checker)
<1>1. PICK last \in [DOMAIN env.scopes -> DOMAIN checker],
           block \in [DOMAIN checker -> DOMAIN env.scopes] :
             Nested(last, block) /\ ScopesMatch(block)
  BY DEF IInv, Nesting
<1>2. c >= 2 /\ c \in DOMAIN checker /\ block[c] = t
  BY <1>1, TopBlock DEF IInv
<1>3. /\ last \in [DOMAIN env'.scopes -> DOMAIN checker']
      /\ block \in [DOMAIN checker' -> DOMAIN env'.scopes]
  BY <1>1, Declared
<1>4. Nested(last, block)'
  BY <1>1, Declared DEF Nested
<1>5. ASSUME NEW k \in DOMAIN checker, NEW y \in DOMAIN checker[k], block[k] # 1
      PROVE  /\ y \in DOMAIN env'.scopes[block[k]]
             /\ owner'[env'.scopes[block[k]][y] + 1] = checker[k][y]
  <2>1. /\ block[k] \in DOMAIN env.scopes /\ y \in DOMAIN env.scopes[block[k]]
        /\ owner[env.scopes[block[k]][y] + 1] = checker[k][y]
    BY <1>1, <1>5 DEF ScopesMatch
  <2>2. /\ y \in DOMAIN env'.scopes[block[k]]
        /\ env'.scopes[block[k]][y] = env.scopes[block[k]][y]
    <3>1. CASE block[k] = t
      BY <2>1, <3>1, Declared
    <3>2. CASE block[k] # t
      BY <2>1, <3>2, Declared
    <3> QED  BY <3>1, <3>2
  <2>3. env.scopes[block[k]][y] + 1 \in 1..Len(owner)
    BY <2>1, SlotsHaveOwners DEF IInv
  <2>4. owner'[env.scopes[block[k]][y] + 1] = owner[env.scopes[block[k]][y] + 1]
    BY <2>3, Declared
  <2> QED  BY <2>1, <2>2, <2>4
<1>6. ASSUME NEW k \in DOMAIN checker, NEW y \in DOMAIN checker'[k], block[k] # 1
      PROVE  /\ y \in DOMAIN env'.scopes[block[k]]
             /\ owner'[env'.scopes[block[k]][y] + 1] = checker'[k][y]
  <2>1. CASE k # c
    <3>1. checker'[k] = checker[k]
      BY <2>1, Declared
    <3> QED  BY <1>5, <1>6, <3>1
  <2>2. CASE k = c /\ y = x
    BY <1>2, <2>2, Declared
  <2>3. CASE k = c /\ y # x
    <3>1. y \in DOMAIN checker[k] /\ checker'[k][y] = checker[k][y]
      BY <2>3, Declared
    <3> QED  BY <1>5, <1>6, <3>1
  <2> QED  BY <2>1, <2>2, <2>3
<1>7. ASSUME NEW d \in DOMAIN env.scopes, NEW y \in DOMAIN env'.scopes[d]
      PROVE  \E k \in DOMAIN checker : block[k] = d /\ y \in DOMAIN checker'[k]
  <2>1. CASE d = t /\ y = x
    <3>1. x \in DOMAIN checker'[c]
      BY Declared
    <3> QED  BY <1>2, <2>1, <3>1
  <2>2. CASE ~(d = t /\ y = x)
    <3>1. y \in DOMAIN env.scopes[d]
      BY <2>2, Declared
    <3>2. PICK k \in DOMAIN checker : block[k] = d /\ y \in DOMAIN checker[k]
      BY <1>1, <3>1 DEF ScopesMatch
    <3>3. y \in DOMAIN checker'[k]
      <4>1. CASE k = c
        BY <3>2, <4>1, Declared
      <4>2. CASE k # c
        BY <3>2, <4>2, Declared
      <4> QED  BY <4>1, <4>2
    <3> QED  BY <3>2, <3>3
  <2> QED  BY <2>1, <2>2
<1>8. ScopesMatch(block)'
  <2>1. DOMAIN checker' = DOMAIN checker /\ DOMAIN env'.scopes = DOMAIN env.scopes
    BY Declared
  <2> QED  BY <1>6, <1>7, <2>1 DEF ScopesMatch
<1> QED  BY <1>3, <1>4, <1>8 DEF Nesting

LEMMA DeclareKeeps ==
  ASSUME IInv, NEW x \in Names, Declare(x),
         initRead' \in [checked : 0..decls', compiled : 0..decls']
  PROVE  IInv'
<1> DEFINE t == Len(env.scopes)
           c == Len(checker)
<1>1. t >= 2 /\ t \in Nat /\ DOMAIN env.scopes = 1..t
  BY AtLeastTwo, Positions DEF IInv
<1>2. c >= 2
  BY TopBlock DEF IInv, Nesting
<1>3. c \in Nat /\ DOMAIN checker = 1..c
  BY Positions DEF IInv
<1>4. ASSUME NEW d \in DOMAIN env.scopes, NEW y \in DOMAIN env'.scopes[d],
             ~(d = t /\ y = x)
      PROVE  y \in DOMAIN env.scopes[d] /\ env'.scopes[d][y] = env.scopes[d][y]
  <2>1. CASE d = t
    BY <1>4, <2>1, Declared
  <2>2. CASE d # t
    BY <1>4, <2>2, Declared
  <2> QED  BY <2>1, <2>2
<1>5. TypeOK'
  <2>1. ASSUME NEW k \in DOMAIN checker, NEW y \in DOMAIN checker'[k]
        PROVE  y \in Names /\ checker'[k][y] \in 1..decls'
    <3>1. CASE k = c /\ y = x
      BY <3>1, Declared
    <3>2. CASE ~(k = c /\ y = x)
      <4>1. y \in DOMAIN checker[k] /\ checker'[k][y] = checker[k][y]
        BY <3>2, Declared
      <4>2. y \in Names /\ checker[k][y] \in 1..decls
        BY <4>1 DEF IInv, TypeOK
      <4> QED  BY <4>1, <4>2, Declared
    <3> QED  BY <3>1, <3>2
  <2>2. ASSUME NEW d \in DOMAIN env.scopes, NEW y \in DOMAIN env'.scopes[d]
        PROVE  y \in Names /\ env'.scopes[d][y] \in 0..(env'.next - 1)
    <3>1. CASE d = t /\ y = x
      BY <3>1, Declared, SMTT(30)
    <3>2. CASE ~(d = t /\ y = x)
      <4>1. y \in DOMAIN env.scopes[d] /\ env'.scopes[d][y] = env.scopes[d][y]
        BY <1>4, <3>2
      <4>2. y \in Names /\ env.scopes[d][y] \in 0..(env.next - 1)
        BY <4>1 DEF IInv, TypeOK
      <4>3. env.next \in Nat /\ env'.next = env.next + 1
        BY Declared
      <4> QED  BY <4>1, <4>2, <4>3
    <3> QED  BY <3>1, <3>2
  <2>3. Len(checker') \in Nat \ {0} /\ env'.next \in 0..SlotLimit
        /\ owner' \in Seq(0..decls') /\ open' \in Seq(Open) /\ decls' \in Nat
        /\ status' \in Statuses
    BY <1>2, <1>3, Declared, SMTT(30) DEF IInv, TypeOK
  <2> QED  BY <2>1, <2>2, <2>3, Declared DEF TypeOK
<1>6. Shape'
  <2>1. 1 \in DOMAIN env.scopes /\ 1 # t
    <3>1. \A n \in Nat : n >= 2 => 1 \in 1..n /\ 1 # n
      OBVIOUS
    <3>2. 1 \in 1..t /\ 1 # t
      BY <1>1, <3>1
    <3> QED  BY <1>1, <3>2
  <2>2. env'.scopes[1] = env.scopes[1]
    BY <2>1, Declared
  <2>3. /\ checker' \in Seq(Maps) /\ env' \in Envs /\ Len(owner') = env'.next
        /\ Len(env'.scopes) = Len(open') + 2
    BY Declared DEF IInv, Shape
  <2> QED  BY <2>2, <2>3 DEF IInv, Shape
<1>7. ParamsAgree'
  <2>1. checker'[1] = checker[1]
    <3>1. 1 \in DOMAIN checker /\ 1 # c
      BY <1>2, <1>3
    <3> QED  BY <3>1, Declared
  <2> QED  BY <2>1, Declared DEF IInv, ParamsAgree
<1>8. Nesting'
  BY DeclareKeepsNesting
<1>9. BeforeKept'
  <2>1. \A j \in DOMAIN open :
           /\ j + 1 <= Len(env'.scopes)
           /\ \A d \in 1..(j + 1) : d \in DOMAIN env.scopes /\ d # t
    BY <1>1, AtLeastTwo, Declared, SMTT(30) DEF IInv
  <2>2. \A j \in DOMAIN open : \A d \in 1..(j + 1) : env'.scopes[d] = env.scopes[d]
    BY <2>1, Declared
  <2>3. /\ env' \in Envs /\ env'.args = env.args
        /\ \A i \in 1..Len(owner) : owner'[i] = owner[i]
    BY Declared
  <2>4. \A j \in DOMAIN open : \A y \in Names :
           open[j].before[y] = CompiledIn(Below(env', j + 1), owner', y)
    BY <2>1, <2>2, <2>3, BeforeStays DEF IInv
  <2> QED  BY <2>4, Declared DEF BeforeKept
<1>10. HiddenBelow'
  BY Declared, SMTT(30) DEF IInv, HiddenBelow
<1>11. SlotsNotShared'
  <2>1. ASSUME NEW v \in Live'
        PROVE  \/ v = <<t, x>> /\ SlotOf(v)' = env.next
               \/ v # <<t, x>> /\ v \in Live /\ SlotOf(v)' = SlotOf(v)
    <3>1. PICK d \in 1..t, y \in Names : v = <<d, y>> /\ y \in DOMAIN env'.scopes[d]
      BY <2>1, <1>1, Declared DEF Live
    <3>2. CASE d = t /\ y = x
      BY <3>1, <3>2, Declared DEF SlotOf
    <3>3. CASE ~(d = t /\ y = x)
      <4>1. y \in DOMAIN env.scopes[d] /\ env'.scopes[d][y] = env.scopes[d][y]
        BY <1>1, <1>4, <3>1, <3>3
      <4> QED  BY <3>1, <3>3, <4>1 DEF Live, SlotOf
    <3> QED  BY <3>2, <3>3
  <2>2. \A v \in Live : SlotOf(v) \in Nat /\ SlotOf(v) < env.next
    BY <1>1, SlotsHaveOwners DEF Live, SlotOf, IInv
  <2>3. env.next \in Nat
    BY Declared
  <2>4. \A v, w \in Live' : SlotOf(v)' = SlotOf(w)' => v = w
    BY <2>1, <2>2, <2>3 DEF IInv, SlotsNotShared
  <2>5. \A j \in DOMAIN open : env.next \notin open[j].hidden
    BY <2>3 DEF IInv, HiddenBelow
  <2>6. \A v \in Live' : \A j \in DOMAIN open' : SlotOf(v)' \notin open'[j].hidden
    BY <2>1, <2>5, Declared DEF IInv, SlotsNotShared
  <2> QED  BY <2>4, <2>6 DEF SlotsNotShared
<1> QED  BY <1>5, <1>6, <1>7, <1>8, <1>9, <1>10, <1>11 DEF IInv

-----------------------------------------------------------------------------
(* Opening a block or a loop: the code generator pushes one scope with the *)
(* slots m, the checker one or two with the same names, new; H are the     *)
(* hidden slots of a loop.                                                 *)

Pushed(m, new, H) ==
  /\ status = "walking" /\ UNCHANGED <<initRead, status>>
  /\ m \in Maps /\ new \in Seq(Maps) /\ Len(new) \in {1, 2}
  /\ checker' = checker \o new
  /\ env' \in Envs /\ env'.args = env.args /\ env'.scopes = Append(env.scopes, m)
  /\ env.next <= env'.next /\ env'.next \in 0..SlotLimit
  /\ decls <= decls' /\ decls' \in Nat
  /\ owner' \in Seq(0..decls') /\ Len(owner') = env'.next
  /\ \A i \in 1..Len(owner) : owner'[i] = owner[i]
  /\ open' = Append(open, [scopes |-> Len(new), hidden |-> H, before |-> Meanings])
  /\ H \subseteq env.next..(env'.next - 1)
  /\ DOMAIN m = DOMAIN new[1] /\ (Len(new) = 2 => DOMAIN new[2] = {})
  /\ \A x \in DOMAIN m :
        /\ m[x] \in env.next..(env'.next - 1) /\ m[x] \notin H
        /\ new[1][x] \in 1..decls' /\ owner'[m[x] + 1] = new[1][x]
  /\ \A x, y \in DOMAIN m : m[x] = m[y] => x = y

LEMMA ConcatFacts ==
  ASSUME NEW S, NEW s \in Seq(S), NEW t \in Seq(S)
  PROVE  /\ s \o t \in Seq(S)
         /\ Len(s \o t) = Len(s) + Len(t)
         /\ \A i \in 1..Len(s) : (s \o t)[i] = s[i]
         /\ \A i \in 1..Len(t) : (s \o t)[Len(s) + i] = t[i]
OBVIOUS

\* The stacks after the step, position by position.
LEMMA PushedFacts ==
  ASSUME TypeOK, Shape, NEW m, NEW new, NEW H, Pushed(m, new, H)
  PROVE  /\ checker' \in Seq(Maps) /\ Len(checker) \in Nat /\ Len(new) \in Nat
         /\ DOMAIN checker = 1..Len(checker)
         /\ Len(checker') = Len(checker) + Len(new)
         /\ DOMAIN checker' = 1..(Len(checker) + Len(new))
         /\ \A k \in 1..Len(checker) : checker'[k] = checker[k]
         /\ checker'[Len(checker) + 1] = new[1]
         /\ \A k \in DOMAIN checker' : k > Len(checker) =>
               k = Len(checker) + 1 \/ DOMAIN checker'[k] = {}
         /\ Len(env.scopes) \in Nat /\ Len(env'.scopes) = Len(env.scopes) + 1
         /\ DOMAIN env.scopes = 1..Len(env.scopes)
         /\ DOMAIN env'.scopes = 1..(Len(env.scopes) + 1)
         /\ \A d \in 1..Len(env.scopes) : env'.scopes[d] = env.scopes[d]
         /\ env'.scopes[Len(env.scopes) + 1] = m
         /\ Len(open) \in Nat /\ Len(open') = Len(open) + 1
         /\ DOMAIN open' = 1..(Len(open) + 1)
         /\ \A j \in 1..Len(open) : open'[j] = open[j]
         /\ open'[Len(open) + 1] =
              [scopes |-> Len(new), hidden |-> H, before |-> Meanings]
         /\ open' \in Seq(Open)
<1>1. /\ new \in Seq(Maps) /\ Len(new) \in {1, 2} /\ checker' = checker \o new
      /\ m \in Maps /\ env'.scopes = Append(env.scopes, m)
      /\ open' = Append(open, [scopes |-> Len(new), hidden |-> H, before |-> Meanings])
      /\ Len(new) = 2 => DOMAIN new[2] = {}
  BY DEF Pushed
<1>2. /\ checker \in Seq(Maps) /\ env.scopes \in Seq(Maps) /\ open \in Seq(Open)
  BY DEF Shape, Envs, TypeOK
<1>3. /\ checker' \in Seq(Maps) /\ Len(checker') = Len(checker) + Len(new)
      /\ \A k \in 1..Len(checker) : checker'[k] = checker[k]
      /\ \A k \in 1..Len(new) : checker'[Len(checker) + k] = new[k]
  BY <1>1, <1>2, ConcatFacts
<1>4. /\ Len(checker) \in Nat /\ Len(new) \in Nat /\ DOMAIN checker = 1..Len(checker)
      /\ DOMAIN checker' = 1..(Len(checker) + Len(new))
  BY <1>1, <1>2, <1>3
<1>5. checker'[Len(checker) + 1] = new[1]
  <2>1. 1 \in 1..Len(new)
    <3>1. \A n \in {1, 2} : 1 \in 1..n
      OBVIOUS
    <3> QED  BY <1>1, <3>1
  <2> QED  BY <1>3, <2>1
<1>6. ASSUME NEW k \in DOMAIN checker', k > Len(checker)
      PROVE  k = Len(checker) + 1 \/ DOMAIN checker'[k] = {}
  <2>1. k - Len(checker) \in 1..Len(new) /\ k = Len(checker) + (k - Len(checker))
    BY <1>4, <1>6
  <2>2. checker'[k] = new[k - Len(checker)]
    BY <1>3, <2>1
  <2>3. k - Len(checker) = 1 \/ (k - Len(checker) = 2 /\ Len(new) = 2)
    <3>1. \A n \in {1, 2} : \A i \in 1..n : i = 1 \/ (i = 2 /\ n = 2)
      OBVIOUS
    <3> QED  BY <1>1, <2>1, <3>1
  <2>4. CASE k - Len(checker) = 1
    BY <1>4, <2>1, <2>4
  <2>5. CASE k - Len(checker) = 2 /\ Len(new) = 2
    BY <1>1, <2>2, <2>5
  <2> QED  BY <2>3, <2>4, <2>5
<1>7. /\ Len(env.scopes) \in Nat /\ Len(env'.scopes) = Len(env.scopes) + 1
      /\ DOMAIN env.scopes = 1..Len(env.scopes)
      /\ \A d \in 1..Len(env.scopes) : env'.scopes[d] = env.scopes[d]
      /\ env'.scopes[Len(env.scopes) + 1] = m
      /\ env'.scopes \in Seq(Maps)
  BY <1>1, <1>2, AppendFacts
<1>8. DOMAIN env'.scopes = 1..(Len(env.scopes) + 1)
  BY <1>7
<1>9. ASSUME NEW x PROVE Checked(x) \in Nat
  <2>1. Checked(x) \in 0..decls /\ decls \in Nat
    BY CheckedRange DEF TypeOK
  <2> QED  BY <2>1
<1>10. Meanings \in [Names -> Nat]
  BY <1>9 DEF Meanings
<1>11. [scopes |-> Len(new), hidden |-> H, before |-> Meanings] \in Open
  <2>1. H \in SUBSET Nat
    <3>1. H \subseteq env.next..(env'.next - 1) /\ env.next \in Nat /\ env'.next \in Nat
      BY DEF Pushed, Shape, Envs
    <3> QED  BY <3>1
  <2> QED  BY <1>1, <1>10, <2>1 DEF Open
<1>12. /\ Len(open) \in Nat /\ Len(open') = Len(open) + 1
       /\ \A j \in 1..Len(open) : open'[j] = open[j]
       /\ open'[Len(open) + 1] =
            [scopes |-> Len(new), hidden |-> H, before |-> Meanings]
       /\ open' \in Seq(Open)
  BY <1>1, <1>2, <1>11, AppendFacts
<1>13. DOMAIN open' = 1..(Len(open) + 1)
  BY <1>12
<1> QED  BY <1>3, <1>4, <1>5, <1>6, <1>7, <1>8, <1>12, <1>13

LEMMA PushedNesting ==
  ASSUME IInv, NEW m, NEW new, NEW H, Pushed(m, new, H)
  PROVE  Nesting'
<1> DEFINE t == Len(env.scopes)
           c == Len(checker)
           n == Len(new)
<1>1. PICK last \in [DOMAIN env.scopes -> DOMAIN checker],
           block \in [DOMAIN checker -> DOMAIN env.scopes] :
             Nested(last, block) /\ ScopesMatch(block)
  BY DEF IInv, Nesting
<1>2. /\ t \in Nat /\ c \in Nat /\ n \in {1, 2} /\ t >= 2 /\ t = Len(open) + 2
      /\ Len(open) \in Nat /\ DOMAIN open = 1..Len(open)
      /\ DOMAIN env.scopes = 1..t /\ DOMAIN checker = 1..c
  BY AtLeastTwo, PushedFacts DEF IInv, Pushed
<1>3. /\ Len(env'.scopes) = t + 1 /\ Len(checker') = c + n
      /\ DOMAIN env'.scopes = 1..(t + 1) /\ DOMAIN checker' = 1..(c + n)
      /\ DOMAIN open' = 1..(Len(open) + 1)
      /\ \A d \in 1..t : env'.scopes[d] = env.scopes[d]
      /\ \A k \in 1..c : checker'[k] = checker[k]
      /\ \A j \in 1..Len(open) : open'[j] = open[j]
      /\ open'[Len(open) + 1].scopes = n
      /\ env'.scopes[t + 1] = m /\ checker'[c + 1] = new[1]
      /\ \A k \in 1..(c + n) : k > c => k = c + 1 \/ DOMAIN checker'[k] = {}
  <2>1. /\ Len(env'.scopes) = t + 1 /\ Len(checker') = c + n
        /\ DOMAIN env'.scopes = 1..(t + 1) /\ DOMAIN checker' = 1..(c + n)
        /\ \A d \in 1..t : env'.scopes[d] = env.scopes[d]
        /\ \A k \in 1..c : checker'[k] = checker[k]
        /\ env'.scopes[t + 1] = m /\ checker'[c + 1] = new[1]
    BY PushedFacts DEF IInv
  <2>2. /\ DOMAIN open' = 1..(Len(open) + 1)
        /\ \A j \in 1..Len(open) : open'[j] = open[j]
        /\ open'[Len(open) + 1] =
             [scopes |-> Len(new), hidden |-> H, before |-> Meanings]
    BY PushedFacts DEF IInv
  <2>3. \A k \in DOMAIN checker' : k > c => k = c + 1 \/ DOMAIN checker'[k] = {}
    BY PushedFacts DEF IInv
  <2> QED  BY <2>1, <2>2, <2>3
<1>4. /\ DOMAIN m = DOMAIN new[1]
      /\ \A x \in DOMAIN m : owner'[m[x] + 1] = new[1][x]
      /\ \A i \in 1..Len(owner) : owner'[i] = owner[i]
  BY DEF Pushed
<1> HIDE DEF t, c, n
<1>5. /\ \A d \in 1..(t + 1) : d \in 1..t \/ d = t + 1
      /\ t + 1 \in 1..(t + 1) /\ ~(t + 1 \in 1..t)
      /\ \A d \in 1..t : d \in 1..(t + 1)
      /\ \A k \in 1..(c + n) : k \in 1..c \/ k > c
      /\ c + 1 \in 1..(c + n) /\ c + n \in 1..(c + n) /\ c + 1 > c
      /\ \A k \in 1..c : k \in 1..(c + n) /\ ~(k > c)
  BY <1>2
<1>6. PICK last2 \in [1..(t + 1) -> 1..(c + n)] :
        /\ \A d \in 1..t : last2[d] = last[d] /\ last2[d] \in 1..c
        /\ last2[t + 1] = c + n
  <2> DEFINE f == [d \in 1..(t + 1) |-> IF d \in 1..t THEN last[d] ELSE c + n]
  <2>1. \A d \in 1..t : f[d] = last[d] /\ f[d] \in 1..c
    BY <1>1, <1>2, <1>5
  <2>2. f[t + 1] = c + n
    BY <1>5
  <2>3. \A d \in 1..(t + 1) : f[d] \in 1..(c + n)
    BY <1>5, <2>1, <2>2
  <2>4. f \in [1..(t + 1) -> 1..(c + n)]
    BY <2>3
  <2> QED  BY <2>1, <2>2, <2>4
<1>7. PICK block2 \in [1..(c + n) -> 1..(t + 1)] :
        /\ \A k \in 1..c : block2[k] = block[k] /\ block2[k] \in 1..t
        /\ \A k \in 1..(c + n) : k > c => block2[k] = t + 1
  <2> DEFINE f == [k \in 1..(c + n) |-> IF k \in 1..c THEN block[k] ELSE t + 1]
  <2>1. \A k \in 1..c : f[k] = block[k] /\ f[k] \in 1..t
    BY <1>1, <1>2, <1>5
  <2>2. \A k \in 1..(c + n) : k > c => f[k] = t + 1
    BY <1>5
  <2>3. \A k \in 1..(c + n) : f[k] \in 1..(t + 1)
    BY <1>5, <2>1, <2>2
  <2>4. f \in [1..(c + n) -> 1..(t + 1)]
    BY <2>3
  <2> QED  BY <2>1, <2>2, <2>4
<1>8. /\ last2[1] = 1 /\ last2[2] = 2 /\ last2[t] = c
  <2>1. 1 \in 1..t /\ 2 \in 1..t /\ t \in 1..t
    BY <1>2
  <2>2. last[1] = 1 /\ last[2] = 2 /\ last[t] = c
    BY <1>1 DEF Nested, t, c
  <2> QED  BY <1>6, <2>1, <2>2
<1>9. ASSUME NEW j \in 1..(Len(open) + 1)
      PROVE  last2[j + 2] = last2[j + 1] + open'[j].scopes
  <2>1. CASE j = Len(open) + 1
    <3>1. j + 2 = t + 1 /\ j + 1 = t
      BY <1>2, <2>1
    <3> QED  BY <1>3, <1>6, <1>8, <2>1, <3>1
  <2>2. CASE j # Len(open) + 1
    <3>1. j \in 1..Len(open) /\ j + 2 \in 1..t /\ j + 1 \in 1..t
      BY <1>2, <2>2
    <3>2. last[j + 2] = last[j + 1] + open[j].scopes
      BY <1>1, <1>2, <3>1 DEF Nested
    <3> QED  BY <1>3, <1>6, <3>1, <3>2
  <2> QED  BY <2>1, <2>2
<1>10. ASSUME NEW k \in 1..(c + n), NEW d \in 1..(t + 1)
       PROVE  block2[k] <= d <=> k <= last2[d]
  <2>1. CASE k \in 1..c /\ d \in 1..t
    <3>1. block[k] <= d <=> k <= last[d]
      BY <1>1, <1>2, <2>1 DEF Nested
    <3> QED  BY <1>6, <1>7, <2>1, <3>1
  <2>2. CASE k \in 1..c /\ d = t + 1
    <3>1. block2[k] \in 1..t /\ last2[d] = c + n
      BY <1>5, <1>6, <1>7, <2>2
    <3> QED  BY <1>2, <2>2, <3>1
  <2>3. CASE k > c /\ d \in 1..t
    <3>1. block2[k] = t + 1 /\ last2[d] \in 1..c
      BY <1>5, <1>6, <1>7, <2>3
    <3> QED  BY <1>2, <2>3, <3>1
  <2>4. CASE k > c /\ d = t + 1
    <3>1. block2[k] = t + 1 /\ last2[d] = c + n
      BY <1>5, <1>6, <1>7, <2>4
    <3> QED  BY <1>2, <2>4, <3>1
  <2> QED  BY <1>5, <2>1, <2>2, <2>3, <2>4
<1>11. Nested(last2, block2)'
  <2>1. last2[Len(env'.scopes)] = Len(checker')
    BY <1>3, <1>6
  <2> QED  BY <1>3, <1>8, <1>9, <1>10, <2>1 DEF Nested
<1>12. ASSUME NEW k \in 1..(c + n), block2[k] # 1, NEW x \in DOMAIN checker'[k]
       PROVE  /\ x \in DOMAIN env'.scopes[block2[k]]
              /\ owner'[env'.scopes[block2[k]][x] + 1] = checker'[k][x]
  <2>1. CASE k \in 1..c
    <3>1. checker'[k] = checker[k] /\ block2[k] = block[k] /\ block[k] \in 1..t
      BY <1>3, <1>7, <2>1
    <3>2. /\ x \in DOMAIN env.scopes[block[k]]
          /\ owner[env.scopes[block[k]][x] + 1] = checker[k][x]
      BY <1>1, <1>2, <1>12, <2>1, <3>1 DEF ScopesMatch
    <3>3. env.scopes[block[k]][x] + 1 \in 1..Len(owner)
      BY <1>2, <3>1, <3>2, SlotsHaveOwners DEF IInv
    <3> QED  BY <1>3, <1>4, <3>1, <3>2, <3>3
  <2>2. CASE k > c
    <3>1. block2[k] = t + 1 /\ k = c + 1
      BY <1>3, <1>7, <2>2
    <3> QED  BY <1>3, <1>4, <1>12, <3>1
  <2> QED  BY <1>5, <2>1, <2>2
<1>13. ASSUME NEW d \in 1..(t + 1), NEW x \in DOMAIN env'.scopes[d]
       PROVE  \E k \in 1..(c + n) : block2[k] = d /\ x \in DOMAIN checker'[k]
  <2>1. CASE d \in 1..t
    <3>1. d \in DOMAIN env.scopes /\ x \in DOMAIN env.scopes[d]
      BY <1>2, <1>3, <2>1
    <3>2. PICK k \in DOMAIN checker : block[k] = d /\ x \in DOMAIN checker[k]
      BY <1>1, <3>1 DEF ScopesMatch
    <3>3. k \in 1..c /\ k \in 1..(c + n)
      BY <1>2, <1>5
    <3> QED  BY <1>3, <1>7, <3>2, <3>3
  <2>2. CASE d = t + 1
    <3>1. c + 1 \in 1..(c + n) /\ block2[c + 1] = t + 1
      BY <1>5, <1>7
    <3> QED  BY <1>3, <1>4, <1>13, <2>2, <3>1
  <2> QED  BY <1>5, <2>1, <2>2
<1>14. ScopesMatch(block2)'
  <2>1. DOMAIN checker' = 1..(c + n) /\ DOMAIN env'.scopes = 1..(t + 1)
    BY <1>3
  <2> HIDE DEF Pushed, IInv
  <2> QED  BY <1>12, <1>13, <2>1, SMTT(30) DEF ScopesMatch
<1> QED  BY <1>3, <1>11, <1>14 DEF Nesting

\* What a name means to VarEnv in all of its blocks.
LEMMA BelowAll ==
  ASSUME NEW e \in Envs, NEW owners, NEW x
  PROVE  CompiledIn(Below(e, Len(e.scopes)), owners, x) = CompiledIn(e, owners, x)
<1> DEFINE b == Below(e, Len(e.scopes))
<1>1. Len(e.scopes) \in Nat /\ Len(e.scopes) \in 0..Len(e.scopes) /\ e.scopes \in Seq(Maps)
  BY DEF Envs
<1>2. /\ b \in Envs /\ b.args = e.args /\ Len(b.scopes) = Len(e.scopes)
      /\ b.scopes \in Seq(Maps) /\ \A d \in 1..Len(e.scopes) : b.scopes[d] = e.scopes[d]
  BY <1>1, BelowFacts
<1> HIDE DEF b
<1>3. b.scopes = e.scopes
  BY <1>1, <1>2, SameSeq
<1>4. CompiledIn(b, owners, x) = CompiledIn(e, owners, x)
  BY <1>2, <1>3, ScopesDecide
<1> QED  BY <1>4 DEF b

LEMMA PushedKeeps ==
  ASSUME IInv, NEW m, NEW new, NEW H, Pushed(m, new, H)
  PROVE  IInv'
<1> DEFINE t == Len(env.scopes)
           c == Len(checker)
<1>1. /\ t \in Nat /\ t >= 2 /\ t = Len(open) + 2 /\ Len(open) \in Nat
      /\ DOMAIN env.scopes = 1..t /\ DOMAIN open = 1..Len(open)
      /\ c \in Nat /\ DOMAIN checker = 1..c
  BY AtLeastTwo, Positions DEF IInv
<1>2. c >= 2
  BY TopBlock DEF IInv, Nesting
<1>3. /\ env' \in Envs /\ env'.args = env.args
      /\ env.next <= env'.next /\ env'.next \in 0..SlotLimit
      /\ decls <= decls' /\ decls' \in Nat
      /\ owner' \in Seq(0..decls') /\ Len(owner') = env'.next
      /\ \A i \in 1..Len(owner) : owner'[i] = owner[i]
      /\ H \subseteq env.next..(env'.next - 1)
      /\ DOMAIN m = DOMAIN new[1]
      /\ \A x \in DOMAIN m : /\ m[x] \in env.next..(env'.next - 1) /\ m[x] \notin H
                             /\ new[1][x] \in 1..decls'
      /\ \A x, y \in DOMAIN m : m[x] = m[y] => x = y
      /\ m \in Maps
  BY DEF Pushed
<1>4. initRead' = initRead /\ status' = status /\ status = "walking"
  BY DEF Pushed
<1>5. /\ checker' \in Seq(Maps) /\ Len(new) \in Nat /\ Len(checker') = c + Len(new)
      /\ DOMAIN checker' = 1..(c + Len(new))
      /\ \A k \in 1..c : checker'[k] = checker[k]
      /\ checker'[c + 1] = new[1]
      /\ \A k \in DOMAIN checker' : k > c => k = c + 1 \/ DOMAIN checker'[k] = {}
  BY PushedFacts DEF IInv
<1>6. /\ Len(env'.scopes) = t + 1 /\ DOMAIN env'.scopes = 1..(t + 1)
      /\ \A d \in 1..t : env'.scopes[d] = env.scopes[d]
      /\ env'.scopes[t + 1] = m
  BY PushedFacts DEF IInv
<1>7. /\ Len(open') = Len(open) + 1 /\ DOMAIN open' = 1..(Len(open) + 1)
      /\ \A j \in 1..Len(open) : open'[j] = open[j]
      /\ open'[Len(open) + 1].hidden = H
      /\ open'[Len(open) + 1].before = Meanings
      /\ open' \in Seq(Open)
  <2>1. open'[Len(open) + 1] =
          [scopes |-> Len(new), hidden |-> H, before |-> Meanings]
    BY PushedFacts DEF IInv
  <2>2. /\ Len(open') = Len(open) + 1 /\ DOMAIN open' = 1..(Len(open) + 1)
        /\ \A j \in 1..Len(open) : open'[j] = open[j]
        /\ open' \in Seq(Open)
    BY PushedFacts DEF IInv
  <2> QED  BY <2>1, <2>2
<1>8. env.next \in Nat /\ env'.next \in Nat /\ decls \in Nat
  BY <1>3 DEF IInv, TypeOK, Envs
<1> HIDE DEF t, c
<1>9. TypeOK'
  <2>1. ASSUME NEW k \in DOMAIN checker', NEW x \in DOMAIN checker'[k]
        PROVE  x \in Names /\ checker'[k][x] \in 1..decls'
    <3>1. CASE k \in 1..c
      <4>1. x \in Names /\ checker'[k][x] \in 1..decls
        BY <1>1, <1>5, <3>1 DEF IInv, TypeOK
      <4> QED  BY <1>3, <1>8, <4>1
    <3>2. CASE k > c
      <4>1. k = c + 1 /\ x \in DOMAIN m
        BY <1>3, <1>5, <2>1, <3>2
      <4> QED  BY <1>3, <1>5, <4>1, MapFacts
    <3> QED  BY <1>1, <1>5, <3>1, <3>2
  <2>2. ASSUME NEW d \in DOMAIN env'.scopes, NEW x \in DOMAIN env'.scopes[d]
        PROVE  x \in Names /\ env'.scopes[d][x] \in 0..(env'.next - 1)
    <3>1. CASE d \in 1..t
      <4>1. x \in Names /\ env'.scopes[d][x] \in 0..(env.next - 1)
        BY <1>1, <1>6, <3>1 DEF IInv, TypeOK
      <4> QED  BY <1>3, <1>8, <4>1
    <3>2. CASE d = t + 1
      <4>1. x \in Names /\ m[x] \in env.next..(env'.next - 1)
        BY <1>3, <1>6, <3>2, MapFacts
      <4> QED  BY <1>6, <1>8, <3>2, <4>1
    <3> QED  BY <1>1, <1>6, <3>1, <3>2
  <2>3. Len(checker') \in Nat \ {0}
    BY <1>1, <1>2, <1>5
  <2>4. initRead' \in [checked : 0..decls', compiled : 0..decls']
    <3>1. initRead \in [checked : 0..decls, compiled : 0..decls]
      BY DEF IInv, TypeOK
    <3>2. \A i \in 0..decls : i \in 0..decls'
      BY <1>3, <1>8
    <3> QED  BY <1>4, <3>1, <3>2
  <2>5. status' \in Statuses
    BY <1>4 DEF Statuses
  <2> QED  BY <1>3, <1>7, <2>1, <2>2, <2>3, <2>4, <2>5 DEF TypeOK
<1>10. Shape'
  <2>1. Len(env'.scopes) = Len(open') + 2
    BY <1>1, <1>6, <1>7
  <2>2. DOMAIN env'.scopes[1] = {}
    <3>1. 1 \in 1..t
      BY <1>1
    <3> QED  BY <1>6, <3>1 DEF IInv, Shape
  <2> QED  BY <1>3, <1>5, <2>1, <2>2 DEF Shape
<1>11. ParamsAgree'
  <2>1. 1 \in 1..c
    BY <1>1, <1>2
  <2> QED  BY <1>3, <1>4, <1>5, <2>1 DEF IInv, ParamsAgree
<1>12. Nesting'
  BY PushedNesting
<1>13. BeforeKept'
  <2>1. ASSUME NEW j \in 1..Len(open), NEW x \in Names
        PROVE  open[j].before[x] = CompiledIn(Below(env', j + 1), owner', x)
    <3>1. j \in DOMAIN open /\ j + 1 <= Len(env'.scopes) /\ \A d \in 1..(j + 1) : d \in 1..t
      BY <1>1, <1>6
    <3>2. \A d \in 1..(j + 1) : env'.scopes[d] = env.scopes[d]
      BY <1>6, <3>1
    <3> QED  BY <1>3, <3>1, <3>2, BeforeStays DEF IInv
  <2>2. ASSUME NEW x \in Names
        PROVE  Meanings[x] = CompiledIn(Below(env', t), owner', x)
    <3>1. Meanings[x] = CompiledIn(env, owner, x)
      BY <1>4, NamesFollow DEF IInv, Meanings, Compiled
    <3>2. CompiledIn(env, owner, x) = CompiledIn(Below(env, t), owner, x)
      BY BelowAll DEF IInv, Shape, t
    <3>3. CompiledIn(Below(env, t), owner, x) = CompiledIn(Below(env', t), owner', x)
      <4>1. env \in Envs /\ t <= Len(env.scopes) /\ t <= Len(env'.scopes)
        BY <1>1, <1>6 DEF IInv, Shape, t
      <4>2. \A d \in 1..t : \A y \in DOMAIN env.scopes[d] :
               owner[env.scopes[d][y] + 1] = owner'[env.scopes[d][y] + 1]
        BY <1>1, <1>3, SlotsHaveOwners DEF IInv
      <4>3. env' \in Envs /\ env.args = env'.args /\ t \in Nat
            /\ \A d \in 1..t : env.scopes[d] = env'.scopes[d]
        BY <1>1, <1>3, <1>6
      <4> QED  BY <4>1, <4>2, <4>3, SharedBlocks
    <3> QED  BY <3>1, <3>2, <3>3
  <2>3. ASSUME NEW j \in DOMAIN open', NEW x \in Names
        PROVE  open'[j].before[x] = CompiledIn(Below(env', j + 1), owner', x)
    <3>1. CASE j \in 1..Len(open)
      BY <1>7, <2>1, <3>1
    <3>2. CASE j = Len(open) + 1
      <4>1. j + 1 = t
        BY <1>1, <3>2
      <4> QED  BY <1>7, <2>2, <3>2, <4>1
    <3> QED  BY <1>1, <1>7, <3>1, <3>2
  <2> QED  BY <2>3 DEF BeforeKept
<1>14. HiddenBelow'
  <2>1. ASSUME NEW j \in DOMAIN open'
        PROVE  open'[j].hidden \subseteq 0..(env'.next - 1)
    <3>1. CASE j \in 1..Len(open)
      <4>1. open'[j].hidden \subseteq 0..(env.next - 1)
        BY <1>1, <1>7, <3>1 DEF IInv, HiddenBelow
      <4> QED  BY <1>3, <1>8, <4>1
    <3>2. CASE j = Len(open) + 1
      <4>1. \A s \in env.next..(env'.next - 1) : s \in 0..(env'.next - 1)
        BY <1>8
      <4> QED  BY <1>3, <1>7, <3>2, <4>1
    <3> QED  BY <1>1, <1>7, <3>1, <3>2
  <2> QED  BY <2>1 DEF HiddenBelow
<1>15. SlotsNotShared'
  <2>1. ASSUME NEW v \in Live'
        PROVE  \/ v \in Live /\ SlotOf(v)' = SlotOf(v)
               \/ \E x \in DOMAIN m : v = <<t + 1, x>> /\ SlotOf(v)' = m[x]
    <3>1. PICK d \in 1..(t + 1), x \in Names : v = <<d, x>> /\ x \in DOMAIN env'.scopes[d]
      BY <1>6, <2>1 DEF Live
    <3>2. CASE d \in 1..t
      <4>1. v \in Live
        BY <1>6, <3>1, <3>2 DEF Live, t
      <4> QED  BY <1>6, <3>1, <3>2, <4>1 DEF SlotOf
    <3>3. CASE d = t + 1
      BY <1>6, <3>1, <3>3 DEF SlotOf
    <3> QED  BY <1>1, <3>1, <3>2, <3>3, SMTT(30)
  <2>2. ASSUME NEW v \in Live
        PROVE  /\ SlotOf(v) \in Nat /\ SlotOf(v) < env.next
    BY <1>1, SlotsHaveOwners DEF Live, SlotOf, IInv, t
  <2>3. \A v, w \in Live' : SlotOf(v)' = SlotOf(w)' => v = w
    <3> SUFFICES ASSUME NEW v \in Live', NEW w \in Live', SlotOf(v)' = SlotOf(w)'
                 PROVE  v = w
      OBVIOUS
    <3>1. CASE v \in Live /\ w \in Live /\ SlotOf(v)' = SlotOf(v) /\ SlotOf(w)' = SlotOf(w)
      BY <3>1 DEF IInv, SlotsNotShared
    <3>2. ASSUME NEW u \in Live, NEW x \in DOMAIN m PROVE SlotOf(u) # m[x]
      BY <1>3, <1>8, <2>2
    <3> QED  BY <1>3, <2>1, <3>1, <3>2
  <2>4. ASSUME NEW v \in Live', NEW j \in DOMAIN open'
        PROVE  SlotOf(v)' \notin open'[j].hidden
    <3>1. CASE v \in Live /\ SlotOf(v)' = SlotOf(v)
      <4>1. CASE j \in 1..Len(open)
        BY <1>1, <1>7, <3>1, <4>1 DEF IInv, SlotsNotShared
      <4>2. CASE j = Len(open) + 1
        <5>1. SlotOf(v) < env.next /\ SlotOf(v) \in Nat
          BY <2>2, <3>1
        <5> QED  BY <1>3, <1>7, <1>8, <3>1, <4>2, <5>1
      <4> QED  BY <1>1, <1>7, <4>1, <4>2
    <3>2. ASSUME NEW x \in DOMAIN m, SlotOf(v)' = m[x]
          PROVE  SlotOf(v)' \notin open'[j].hidden
      <4>1. CASE j \in 1..Len(open)
        <5>1. open'[j].hidden \subseteq 0..(env.next - 1)
          BY <1>1, <1>7, <4>1 DEF IInv, HiddenBelow
        <5> QED  BY <1>3, <1>8, <3>2, <5>1
      <4>2. CASE j = Len(open) + 1
        BY <1>3, <1>7, <3>2, <4>2
      <4> QED  BY <1>1, <1>7, <4>1, <4>2
    <3> QED  BY <2>1, <3>1, <3>2
  <2> QED  BY <2>3, <2>4 DEF SlotsNotShared
<1> QED  BY <1>9, <1>10, <1>11, <1>12, <1>13, <1>14, <1>15 DEF IInv

LEMMA EnterFacts ==
  ASSUME NEW e \in Envs
  PROVE  /\ EnterBlock(e) \in Envs /\ EnterBlock(e).args = e.args
         /\ EnterBlock(e).next = e.next
         /\ EnterBlock(e).scopes = Append(e.scopes, NoNames)
<1>1. e.scopes \in Seq(Maps) /\ NoNames \in Maps
  BY NoNamesFacts DEF Envs
<1>2. Append(e.scopes, NoNames) \in Seq(Maps)
  BY <1>1, AppendFacts
<1> DEFINE s == Append(e.scopes, NoNames)
<1>3. EnterBlock(e) = [e EXCEPT !.scopes = s]
  BY DEF EnterBlock
<1> HIDE DEF s
<1>4. s \in Seq(Maps)
  BY <1>2 DEF s
<1> DEFINE f == [e EXCEPT !.scopes = s]
<1>5. f \in Envs /\ f.args = e.args /\ f.next = e.next /\ f.scopes = s
  BY <1>4 DEF Envs
<1> HIDE DEF f
<1> QED  BY <1>3, <1>5 DEF f, s

\* Declaring a name in a block that has just been entered.
LEMMA DeclareInNew ==
  ASSUME NEW e \in Envs, NEW f \in Envs, NEW m \in Maps, NEW x \in Names,
         f.scopes = Append(e.scopes, m)
  PROVE  /\ DeclareLocal(f, x) \in Envs
         /\ DeclareLocal(f, x).args = f.args
         /\ DeclareLocal(f, x).next = f.next + 1
         /\ DeclareLocal(f, x).scopes = Append(e.scopes, Extend(m, x, f.next))
         /\ Extend(m, x, f.next) \in Maps
<1> DEFINE g == DeclareLocal(f, x)
           n == Extend(m, x, f.next)
           t == Len(e.scopes)
           s == Append(e.scopes, n)
<1>1. /\ e.scopes \in Seq(Maps) /\ f.scopes \in Seq(Maps) /\ f.next \in Nat
      /\ t \in Nat
  BY DEF Envs
<1>2. n \in Maps
  BY <1>1, ExtendFacts
<1>3. /\ Len(f.scopes) = t + 1 /\ f.scopes[t + 1] = m
      /\ \A d \in 1..t : f.scopes[d] = e.scopes[d]
  BY <1>1, AppendFacts
<1>4. /\ g \in Envs /\ g.args = f.args /\ g.next = f.next + 1
      /\ Len(g.scopes) = t + 1
      /\ \A d \in 1..(t + 1) : d # t + 1 => g.scopes[d] = f.scopes[d]
      /\ g.scopes[t + 1] = n
  <2>1. Len(f.scopes) # 0
    BY <1>1, <1>3
  <2> QED  BY <1>3, <2>1, DeclareFacts
<1> HIDE DEF n
<1>5. /\ s \in Seq(Maps) /\ Len(s) = t + 1 /\ s[t + 1] = n
      /\ \A d \in 1..t : s[d] = e.scopes[d]
  BY <1>1, <1>2, AppendFacts
<1> HIDE DEF g, s, t
<1>6. \A d \in 1..(t + 1) : g.scopes[d] = s[d]
  <2>1. \A d \in 1..(t + 1) : d \in 1..t \/ d = t + 1
    BY <1>1
  <2>2. \A d \in 1..t : d # t + 1 /\ d \in 1..(t + 1)
    BY <1>1
  <2> QED  BY <1>3, <1>4, <1>5, <2>1, <2>2
<1>7. g.scopes = s
  <2>1. g.scopes \in Seq(Maps)
    BY <1>4 DEF Envs
  <2> QED  BY <1>4, <1>5, <1>6, <2>1, SameSeq
<1> QED  BY <1>2, <1>4, <1>7 DEF g, n, s

LEMMA EnterKeeps ==
  ASSUME IInv, Enter
  PROVE  IInv'
<1>1. /\ status = "walking" /\ checker' = Append(checker, NoNames)
      /\ env' = EnterBlock(env) /\ owner' = owner /\ decls' = decls
      /\ open' = Append(open, [scopes |-> 1, hidden |-> {}, before |-> Meanings])
      /\ UNCHANGED <<initRead, status>>
  BY DEF Enter
<1> DEFINE new == <<NoNames>>
<1>2. /\ new \in Seq(Maps) /\ Len(new) = 1 /\ new[1] = NoNames
      /\ NoNames \in Maps /\ DOMAIN NoNames = {}
  BY NoNamesFacts
<1>3. checker' = checker \o new
  <2>1. checker \in Seq(Maps)
    BY DEF IInv, Shape
  <2>2. Append(checker, NoNames) \in Seq(Maps) /\ checker \o new \in Seq(Maps)
    BY <1>2, <2>1
  <2>3. Len(Append(checker, NoNames)) = Len(checker \o new)
    BY <1>2, <2>1
  <2>4. \A k \in 1..Len(Append(checker, NoNames)) :
           Append(checker, NoNames)[k] = (checker \o new)[k]
    BY <1>2, <2>1
  <2> QED  BY <1>1, <2>2, <2>3, <2>4, SameSeq
<1>4. /\ env' \in Envs /\ env'.args = env.args /\ env'.next = env.next
      /\ env'.scopes = Append(env.scopes, NoNames)
  BY <1>1, EnterFacts DEF IInv, Shape
<1>5. /\ env.next \in Nat /\ env.next \in 0..SlotLimit /\ decls \in Nat
      /\ owner \in Seq(0..decls) /\ Len(owner) = env.next
  BY DEF IInv, TypeOK, Shape, Envs
<1> HIDE DEF new
<1>6. Pushed(NoNames, new, {})
  <2>1. env.next <= env'.next /\ env'.next \in 0..SlotLimit
        /\ decls <= decls' /\ decls' \in Nat
        /\ owner' \in Seq(0..decls') /\ Len(owner') = env'.next
    BY <1>1, <1>4, <1>5
  <2>2. open' = Append(open, [scopes |-> Len(new), hidden |-> {}, before |-> Meanings])
    BY <1>1, <1>2
  <2> QED  BY <1>1, <1>2, <1>3, <1>4, <2>1, <2>2 DEF Pushed
<1> QED  BY <1>6, PushedKeeps

LEMMA FirstName ==
  ASSUME NEW x \in Names, NEW n \in Nat
  PROVE  /\ Extend(NoNames, x, n) \in Maps
         /\ DOMAIN Extend(NoNames, x, n) = {x}
         /\ Extend(NoNames, x, n)[x] = n
<1>1. /\ Extend(NoNames, x, n) \in Maps
      /\ DOMAIN Extend(NoNames, x, n) = DOMAIN NoNames \cup {x}
      /\ Extend(NoNames, x, n)[x] = n
  BY NoNamesFacts, ExtendFacts
<1> QED  BY <1>1, NoNamesFacts

LEMMA TwoScopes ==
  ASSUME NEW m \in Maps
  PROVE  /\ <<m, NoNames>> \in Seq(Maps) /\ Len(<<m, NoNames>>) = 2
         /\ <<m, NoNames>>[1] = m /\ DOMAIN <<m, NoNames>>[2] = {}
BY NoNamesFacts

LEMMA ArrayLoopKeeps ==
  ASSUME IInv, NEW item \in Names, EnterArrayLoop(item)
  PROVE  IInv'
<1> DEFINE one == AllocSlot(env)
           two == AllocSlot(one)
           in == EnterBlock(two)
           n == env.next
           H == {n, n + 1}
           m == Extend(NoNames, item, n + 2)
           c == Extend(NoNames, item, decls + 1)
           new == <<c, NoNames>>
           more == <<NotAVariable, NotAVariable, decls + 1>>
<1>1. /\ status = "walking" /\ UNCHANGED <<initRead, status>>
      /\ n + 3 <= SlotLimit /\ decls' = decls + 1
      /\ checker' = checker \o new /\ owner' = owner \o more
      /\ env' = DeclareLocal(in, item)
      /\ open' = Append(open, [scopes |-> 2, hidden |-> {n, one.next}, before |-> Meanings])
  BY DEF EnterArrayLoop
<1>2. /\ env \in Envs /\ n \in Nat /\ decls \in Nat
      /\ owner \in Seq(0..decls) /\ Len(owner) = n
  BY DEF IInv, TypeOK, Shape, Envs
<1>3. /\ one \in Envs /\ one.args = env.args /\ one.scopes = env.scopes
      /\ one.next = n + 1
  BY <1>2, AllocFacts
<1> HIDE DEF one
<1>4. /\ two \in Envs /\ two.args = env.args /\ two.scopes = env.scopes
      /\ two.next = n + 2
  BY <1>2, <1>3, AllocFacts
<1> HIDE DEF two
<1>5. /\ in \in Envs /\ in.args = env.args /\ in.next = n + 2
      /\ in.scopes = Append(env.scopes, NoNames)
  BY <1>4, EnterFacts
<1> HIDE DEF in
<1>6. /\ env' \in Envs /\ env'.args = env.args /\ env'.next = n + 3
      /\ env'.scopes = Append(env.scopes, m) /\ m \in Maps
  <2>1. NoNames \in Maps
    BY NoNamesFacts
  <2>2. /\ DeclareLocal(in, item) \in Envs /\ DeclareLocal(in, item).args = in.args
        /\ DeclareLocal(in, item).next = in.next + 1
        /\ DeclareLocal(in, item).scopes = Append(env.scopes, Extend(NoNames, item, in.next))
        /\ Extend(NoNames, item, in.next) \in Maps
    BY <1>2, <1>5, <2>1, DeclareInNew
  <2> QED  BY <1>1, <1>2, <1>5, <2>2
<1>7. n + 2 \in Nat /\ decls + 1 \in Nat
  BY <1>2
<1>8. /\ DOMAIN m = {item} /\ m[item] = n + 2
      /\ c \in Maps /\ DOMAIN c = {item} /\ c[item] = decls + 1
  BY <1>7, FirstName
<1> HIDE DEF m, c
<1>9. /\ new \in Seq(Maps) /\ Len(new) = 2 /\ new[1] = c /\ DOMAIN new[2] = {}
  BY <1>8, TwoScopes
<1> HIDE DEF new
<1>10. /\ owner' \in Seq(0..decls') /\ Len(owner') = n + 3
       /\ owner'[n + 3] = decls + 1
       /\ \A i \in 1..Len(owner) : owner'[i] = owner[i]
  <2>1. /\ owner \in Seq(0..(decls + 1)) /\ more \in Seq(0..(decls + 1))
        /\ Len(more) = 3 /\ more[3] = decls + 1
    BY <1>2 DEF NotAVariable
  <2> HIDE DEF more
  <2>2. /\ owner \o more \in Seq(0..(decls + 1)) /\ Len(owner \o more) = Len(owner) + 3
        /\ \A i \in 1..Len(owner) : (owner \o more)[i] = owner[i]
        /\ (owner \o more)[Len(owner) + 3] = more[3]
    <3>1. 3 \in 1..Len(more)
      BY <2>1
    <3>2. /\ owner \o more \in Seq(0..(decls + 1))
          /\ Len(owner \o more) = Len(owner) + Len(more)
          /\ \A i \in 1..Len(owner) : (owner \o more)[i] = owner[i]
          /\ \A i \in 1..Len(more) : (owner \o more)[Len(owner) + i] = more[i]
      <4> DEFINE S == 0..(decls + 1)
      <4>1. owner \in Seq(S) /\ more \in Seq(S)
        BY <2>1
      <4> HIDE DEF S
      <4>2. owner \o more \in Seq(S)
        BY <4>1, ConcatFacts
      <4> QED  BY <4>1, <4>2, ConcatFacts DEF S
    <3> QED  BY <2>1, <3>1, <3>2
  <2> QED  BY <1>1, <1>2, <2>1, <2>2
<1>11. Pushed(m, new, H)
  <2>1. /\ env.next <= env'.next /\ env'.next \in 0..SlotLimit
        /\ decls <= decls' /\ decls' \in Nat /\ Len(owner') = env'.next
        /\ H \subseteq env.next..(env'.next - 1)
    <3>1. n + 3 \in 0..SlotLimit
      BY <1>1, <1>2, SlotLimitAssumption
    <3>2. H \subseteq n..(n + 3 - 1)
      BY <1>2
    <3>3. n <= n + 3
      BY <1>2
    <3>4. decls <= decls' /\ decls' \in Nat
      BY <1>1, <1>2
    <3> QED  BY <1>6, <1>10, <3>1, <3>2, <3>3, <3>4
  <2>2. open' = Append(open, [scopes |-> Len(new), hidden |-> H, before |-> Meanings])
    BY <1>1, <1>3, <1>9
  <2>3. \A x \in DOMAIN m :
          /\ m[x] \in env.next..(env'.next - 1) /\ m[x] \notin H
          /\ new[1][x] \in 1..decls' /\ owner'[m[x] + 1] = new[1][x]
    <3>1. /\ n + 2 \in n..(n + 3 - 1) /\ n + 2 \notin H /\ (n + 2) + 1 = n + 3
          /\ decls + 1 \in 1..(decls + 1)
      BY <1>2
    <3> HIDE DEF H
    <3> QED  BY <1>1, <1>6, <1>8, <1>9, <1>10, <3>1, SMTT(30)
  <2>4. DOMAIN m = DOMAIN new[1] /\ \A x, y \in DOMAIN m : m[x] = m[y] => x = y
    BY <1>8, <1>9
  <2> QED  BY <1>1, <1>6, <1>9, <1>10, <2>1, <2>2, <2>3, <2>4 DEF Pushed
<1> QED  BY <1>11, PushedKeeps

LEMMA MapLoopKeeps ==
  ASSUME IInv, NEW key \in Names, NEW value \in Names, EnterMapLoop(key, value)
  PROVE  IInv'
<1> DEFINE one == AllocSlot(env)
           two == AllocSlot(one)
           three == AllocSlot(two)
           in == EnterBlock(three)
           mid == DeclareLocal(in, key)
           n == env.next
           H == {n, n + 1, n + 2}
           m1 == Extend(NoNames, key, n + 3)
           m == Extend(m1, value, n + 4)
           c1 == Extend(NoNames, key, decls + 1)
           c == Extend(c1, value, decls + 2)
           new == <<c, NoNames>>
           more == <<NotAVariable, NotAVariable, NotAVariable, decls + 1, decls + 2>>
<1>1. /\ status = "walking" /\ UNCHANGED <<initRead, status>>
      /\ key # value /\ n + 5 <= SlotLimit /\ decls' = decls + 2
      /\ checker' = checker \o new /\ owner' = owner \o more
      /\ env' = DeclareLocal(mid, value)
      /\ open' = Append(open, [scopes |-> 2, hidden |-> {n, one.next, two.next},
                               before |-> Meanings])
  BY DEF EnterMapLoop
<1>2. /\ env \in Envs /\ n \in Nat /\ decls \in Nat
      /\ owner \in Seq(0..decls) /\ Len(owner) = n
      /\ NoNames \in Maps /\ DOMAIN NoNames = {}
  BY NoNamesFacts DEF IInv, TypeOK, Shape, Envs
<1>3. /\ one \in Envs /\ one.args = env.args /\ one.scopes = env.scopes
      /\ one.next = n + 1
  BY <1>2, AllocFacts
<1> HIDE DEF one
<1>4. /\ two \in Envs /\ two.args = env.args /\ two.scopes = env.scopes
      /\ two.next = n + 2
  BY <1>2, <1>3, AllocFacts
<1> HIDE DEF two
<1>5. /\ three \in Envs /\ three.args = env.args /\ three.scopes = env.scopes
      /\ three.next = n + 3
  BY <1>2, <1>4, AllocFacts
<1> HIDE DEF three
<1>6. /\ in \in Envs /\ in.args = env.args /\ in.next = n + 3
      /\ in.scopes = Append(env.scopes, NoNames)
  BY <1>5, EnterFacts
<1> HIDE DEF in
<1>7. /\ mid \in Envs /\ mid.args = env.args /\ mid.next = n + 4
      /\ mid.scopes = Append(env.scopes, m1) /\ m1 \in Maps
  <2>1. /\ mid \in Envs /\ mid.args = in.args /\ mid.next = in.next + 1
        /\ mid.scopes = Append(env.scopes, Extend(NoNames, key, in.next))
        /\ Extend(NoNames, key, in.next) \in Maps
    BY <1>2, <1>6, DeclareInNew
  <2> HIDE DEF mid
  <2> QED  BY <1>2, <1>6, <2>1
<1> HIDE DEF mid
<1>8. DOMAIN m1 = {key} /\ m1[key] = n + 3
  <2>1. n + 3 \in Nat
    BY <1>2
  <2> QED  BY <2>1, FirstName
<1> HIDE DEF m1
<1>9. /\ env' \in Envs /\ env'.args = env.args /\ env'.next = n + 5
      /\ env'.scopes = Append(env.scopes, m) /\ m \in Maps
  <2>1. /\ env' \in Envs /\ env'.args = mid.args /\ env'.next = mid.next + 1
        /\ env'.scopes = Append(env.scopes, Extend(m1, value, mid.next))
        /\ Extend(m1, value, mid.next) \in Maps
    BY <1>1, <1>2, <1>7, DeclareInNew, ZenonT(40)
  <2> QED  BY <1>2, <1>7, <2>1
<1>10. DOMAIN m = {key, value} /\ m[key] = n + 3 /\ m[value] = n + 4
  <2>1. n + 4 \in Nat
    BY <1>2
  <2>2. /\ DOMAIN m = DOMAIN m1 \cup {value} /\ m[value] = n + 4
        /\ \A y \in DOMAIN m1 : y # value => m[y] = m1[y]
    BY <1>7, <2>1, ExtendFacts
  <2> HIDE DEF m
  <2> QED  BY <1>1, <1>8, <2>2
<1>11. c \in Maps /\ DOMAIN c = {key, value} /\ c[key] = decls + 1 /\ c[value] = decls + 2
  <2>1. decls + 1 \in Nat /\ decls + 2 \in Nat
    BY <1>2
  <2>2. c1 \in Maps /\ DOMAIN c1 = {key} /\ c1[key] = decls + 1
    BY <2>1, FirstName
  <2> HIDE DEF c1
  <2>3. /\ c \in Maps /\ DOMAIN c = DOMAIN c1 \cup {value} /\ c[value] = decls + 2
        /\ \A y \in DOMAIN c1 : y # value => c[y] = c1[y]
    BY <2>1, <2>2, ExtendFacts, ZenonT(40)
  <2> HIDE DEF c
  <2> QED  BY <1>1, <2>2, <2>3
<1> HIDE DEF m, c
<1>12. /\ new \in Seq(Maps) /\ Len(new) = 2 /\ new[1] = c /\ DOMAIN new[2] = {}
  BY <1>11, TwoScopes
<1> HIDE DEF new
<1>13. /\ owner' \in Seq(0..decls') /\ Len(owner') = n + 5
       /\ owner'[n + 4] = decls + 1 /\ owner'[n + 5] = decls + 2
       /\ \A i \in 1..Len(owner) : owner'[i] = owner[i]
  <2>1. /\ owner \in Seq(0..(decls + 2)) /\ more \in Seq(0..(decls + 2))
        /\ Len(more) = 5 /\ more[4] = decls + 1 /\ more[5] = decls + 2
    BY <1>2 DEF NotAVariable
  <2> HIDE DEF more
  <2>2. /\ owner \o more \in Seq(0..(decls + 2)) /\ Len(owner \o more) = Len(owner) + 5
        /\ \A i \in 1..Len(owner) : (owner \o more)[i] = owner[i]
        /\ (owner \o more)[Len(owner) + 4] = more[4]
        /\ (owner \o more)[Len(owner) + 5] = more[5]
    <3>1. 4 \in 1..Len(more) /\ 5 \in 1..Len(more)
      BY <2>1
    <3>2. /\ owner \o more \in Seq(0..(decls + 2))
          /\ Len(owner \o more) = Len(owner) + Len(more)
          /\ \A i \in 1..Len(owner) : (owner \o more)[i] = owner[i]
          /\ \A i \in 1..Len(more) : (owner \o more)[Len(owner) + i] = more[i]
      <4> DEFINE S == 0..(decls + 2)
      <4>1. owner \in Seq(S) /\ more \in Seq(S)
        BY <2>1
      <4> HIDE DEF S
      <4>2. owner \o more \in Seq(S)
        BY <4>1, ConcatFacts
      <4> QED  BY <4>1, <4>2, ConcatFacts DEF S
    <3> QED  BY <2>1, <3>1, <3>2
  <2> QED  BY <1>1, <1>2, <2>1, <2>2
<1>14. Pushed(m, new, H)
  <2>1. /\ env.next <= env'.next /\ env'.next \in 0..SlotLimit
        /\ decls <= decls' /\ decls' \in Nat /\ Len(owner') = env'.next
        /\ H \subseteq env.next..(env'.next - 1)
    <3>1. n + 5 \in 0..SlotLimit
      BY <1>1, <1>2, SlotLimitAssumption, SMTT(30)
    <3>2. H \subseteq n..(n + 5 - 1)
      BY <1>2
    <3>3. n <= n + 5
      BY <1>2
    <3>4. decls <= decls' /\ decls' \in Nat
      BY <1>1, <1>2
    <3> QED  BY <1>9, <1>13, <3>1, <3>2, <3>3, <3>4, SMTT(30)
  <2>2. open' = Append(open, [scopes |-> Len(new), hidden |-> H, before |-> Meanings])
    BY <1>1, <1>3, <1>4, <1>12
  <2>3. \A x \in DOMAIN m :
          /\ m[x] \in env.next..(env'.next - 1) /\ m[x] \notin H
          /\ new[1][x] \in 1..decls' /\ owner'[m[x] + 1] = new[1][x]
    <3>1. /\ n + 3 \in n..(n + 5 - 1) /\ n + 3 \notin H /\ (n + 3) + 1 = n + 4
          /\ n + 4 \in n..(n + 5 - 1) /\ n + 4 \notin H /\ (n + 4) + 1 = n + 5
          /\ decls + 1 \in 1..(decls + 2) /\ decls + 2 \in 1..(decls + 2)
      BY <1>2, SMTT(30)
    <3> HIDE DEF H
    <3>2. \A x \in DOMAIN m :
            \/ m[x] = n + 3 /\ new[1][x] = decls + 1
            \/ m[x] = n + 4 /\ new[1][x] = decls + 2
      BY <1>10, <1>11, <1>12
    <3>3. decls' = decls + 2 /\ env'.next = n + 5
      BY <1>1, <1>9
    <3>4. owner'[n + 4] = decls + 1 /\ owner'[n + 5] = decls + 2
      BY <1>13
    <3> HIDE DEF n
    <3>5. ASSUME NEW x \in DOMAIN m
          PROVE  /\ m[x] \in n..(env'.next - 1) /\ m[x] \notin H
                 /\ new[1][x] \in 1..decls' /\ owner'[m[x] + 1] = new[1][x]
      <4>1. CASE m[x] = n + 3 /\ new[1][x] = decls + 1
        BY <3>1, <3>3, <3>4, <4>1
      <4>2. CASE m[x] = n + 4 /\ new[1][x] = decls + 2
        BY <3>1, <3>3, <3>4, <4>2
      <4> QED  BY <3>2, <4>1, <4>2
    <3> QED  BY <3>5 DEF n
  <2>4. DOMAIN m = DOMAIN new[1] /\ \A x, y \in DOMAIN m : m[x] = m[y] => x = y
    BY <1>2, <1>10, <1>11, <1>12
  <2> QED  BY <1>1, <1>9, <1>12, <1>13, <2>1, <2>2, <2>3, <2>4 DEF Pushed
<1> QED  BY <1>14, PushedKeeps

-----------------------------------------------------------------------------
(* Leaving a block or a loop. *)

LEMMA PrefixFacts ==
  ASSUME NEW S, NEW s \in Seq(S), NEW n \in 0..Len(s)
  PROVE  /\ SubSeq(s, 1, n) \in Seq(S)
         /\ Len(SubSeq(s, 1, n)) = n
         /\ DOMAIN SubSeq(s, 1, n) = 1..n
         /\ \A i \in 1..n : SubSeq(s, 1, n)[i] = s[i]
OBVIOUS

LEMMA ExitBlockFacts ==
  ASSUME NEW e \in Envs, Len(e.scopes) # 0
  PROVE  /\ ExitBlock(e) \in Envs /\ ExitBlock(e).args = e.args
         /\ ExitBlock(e).next = e.next
         /\ Len(ExitBlock(e).scopes) = Len(e.scopes) - 1
         /\ DOMAIN ExitBlock(e).scopes = 1..(Len(e.scopes) - 1)
         /\ \A d \in 1..(Len(e.scopes) - 1) : ExitBlock(e).scopes[d] = e.scopes[d]
<1> DEFINE n == Len(e.scopes) - 1
           s == SubSeq(e.scopes, 1, n)
<1>1. e.scopes \in Seq(Maps) /\ n \in 0..Len(e.scopes)
  BY DEF Envs
<1>2. ExitBlock(e) = [e EXCEPT !.scopes = s]
  BY DEF ExitBlock
<1>3. /\ s \in Seq(Maps) /\ Len(s) = n /\ DOMAIN s = 1..n
      /\ \A d \in 1..n : s[d] = e.scopes[d]
  BY <1>1, PrefixFacts
<1> HIDE DEF s
<1> DEFINE f == [e EXCEPT !.scopes = s]
<1>4. f \in Envs /\ f.args = e.args /\ f.next = e.next /\ f.scopes = s
  BY <1>3 DEF Envs
<1> HIDE DEF f
<1>5. ExitBlock(e) = f
  BY <1>2 DEF f
<1> QED  BY <1>3, <1>4, <1>5

\* The stacks after the step.
LEMMA ExitFacts ==
  ASSUME IInv, Exit, NEW last \in [DOMAIN env.scopes -> DOMAIN checker],
         NEW block \in [DOMAIN checker -> DOMAIN env.scopes], Nested(last, block)
  PROVE  /\ owner' = owner /\ decls' = decls /\ initRead' = initRead /\ status' = status
         /\ Len(open) \in Nat /\ Len(open) # 0 /\ DOMAIN open = 1..Len(open)
         /\ Len(env.scopes) = Len(open) + 2 /\ Len(checker) \in Nat
         /\ DOMAIN env.scopes = 1..Len(env.scopes) /\ DOMAIN checker = 1..Len(checker)
         /\ env' \in Envs /\ env'.args = env.args /\ env'.next = env.next
         /\ Len(env'.scopes) = Len(open) + 1 /\ DOMAIN env'.scopes = 1..(Len(open) + 1)
         /\ \A d \in 1..(Len(open) + 1) : env'.scopes[d] = env.scopes[d]
         /\ open' \in Seq(Open) /\ Len(open') = Len(open) - 1
         /\ DOMAIN open' = 1..(Len(open) - 1)
         /\ \A j \in 1..(Len(open) - 1) : open'[j] = open[j]
         /\ last[Len(open) + 1] \in 2..Len(checker)
         /\ checker' \in Seq(Maps) /\ Len(checker') = last[Len(open) + 1]
         /\ DOMAIN checker' = 1..last[Len(open) + 1]
         /\ \A k \in 1..last[Len(open) + 1] : checker'[k] = checker[k]
<1> DEFINE n == Len(open)
<1>1. /\ owner' = owner /\ decls' = decls /\ initRead' = initRead /\ status' = status
      /\ open # <<>> /\ env' = ExitBlock(env) /\ open' = SubSeq(open, 1, n - 1)
      /\ checker' = SubSeq(checker, 1, Len(checker) - open[n].scopes)
  BY DEF Exit
<1>2. /\ n \in Nat /\ DOMAIN open = 1..n /\ Len(env.scopes) = n + 2
      /\ Len(checker) \in Nat /\ DOMAIN checker = 1..Len(checker)
      /\ DOMAIN env.scopes = 1..Len(env.scopes) /\ env \in Envs
      /\ checker \in Seq(Maps) /\ open \in Seq(Open)
  BY AtLeastTwo, Positions DEF IInv, Shape, TypeOK
<1>3. n # 0
  BY <1>1, <1>2
<1>4. /\ env' \in Envs /\ env'.args = env.args /\ env'.next = env.next
      /\ Len(env'.scopes) = n + 1 /\ DOMAIN env'.scopes = 1..(n + 1)
      /\ \A d \in 1..(n + 1) : env'.scopes[d] = env.scopes[d]
  <2>1. Len(env.scopes) # 0 /\ Len(env.scopes) - 1 = n + 1
    BY <1>2
  <2> QED  BY <1>1, <1>2, <2>1, ExitBlockFacts
<1>5. /\ open' \in Seq(Open) /\ Len(open') = n - 1 /\ DOMAIN open' = 1..(n - 1)
      /\ \A j \in 1..(n - 1) : open'[j] = open[j]
  <2>1. n - 1 \in 0..n
    BY <1>2, <1>3
  <2> QED  BY <1>1, <1>2, <2>1, PrefixFacts
<1>6. last[n + 1] \in 2..Len(checker) /\ last[n + 1] = Len(checker) - open[n].scopes
  <2>1. n \in DOMAIN open /\ n + 1 \in 1..(n + 2)
    BY <1>2, <1>3
  <2>2. last[n + 2] = Len(checker) /\ last[n + 2] = last[n + 1] + open[n].scopes
    BY <1>2, <2>1 DEF Nested
  <2>3. last[n + 1] \in 1..Len(checker)
    BY <1>2, <2>1
  <2>4. open[n].scopes \in {1, 2}
    <3>1. open[n] \in Open
      BY <1>2, <2>1
    <3> QED  BY <3>1 DEF Open
  <2>5. last[n + 1] >= 2
    <3>1. n + 1 >= 2 /\ 2 \in 1..(n + 2) /\ 1 \in 1..(n + 2)
      BY <1>2, <1>3
    <3>2. last[2] = 2 /\ last[1] = 1 /\ 2 \in 1..Len(checker)
      BY <1>2, <3>1 DEF Nested
    <3>3. block[2] <= n + 1
      <4>1. block[2] <= 2
        BY <1>2, <3>1, <3>2 DEF Nested
      <4>2. block[2] \in 1..(n + 2)
        BY <1>2, <3>2
      <4> QED  BY <1>2, <3>1, <4>1, <4>2
    <3>4. 2 <= last[n + 1]
      BY <1>2, <2>1, <3>2, <3>3 DEF Nested
    <3> QED  BY <2>3, <3>4
  <2>6. \A i, l, w \in Nat : i \in 1..l /\ i >= 2 /\ l = i + w => i \in 2..l /\ i = l - w
    OBVIOUS
  <2>7. last[n + 1] \in Nat /\ open[n].scopes \in Nat /\ Len(checker) \in Nat
    BY <1>2, <2>3, <2>4
  <2>8. Len(checker) = last[n + 1] + open[n].scopes
    BY <2>2
  <2> QED  BY <2>3, <2>5, <2>6, <2>7, <2>8
<1>7. /\ checker' \in Seq(Maps) /\ Len(checker') = last[n + 1]
      /\ DOMAIN checker' = 1..last[n + 1]
      /\ \A k \in 1..last[n + 1] : checker'[k] = checker[k]
  <2>1. last[n + 1] \in 0..Len(checker)
    BY <1>2, <1>6
  <2>2. checker' = SubSeq(checker, 1, last[n + 1])
    BY <1>1, <1>6
  <2> QED  BY <1>2, <2>1, <2>2, PrefixFacts
<1> QED  BY <1>1, <1>2, <1>3, <1>4, <1>5, <1>6, <1>7

LEMMA ExitKeepsNesting ==
  ASSUME IInv, Exit
  PROVE  Nesting'
<1> DEFINE n == Len(open)
<1>1. PICK last \in [DOMAIN env.scopes -> DOMAIN checker],
           block \in [DOMAIN checker -> DOMAIN env.scopes] :
             Nested(last, block) /\ ScopesMatch(block)
  BY DEF IInv, Nesting
<1>2. /\ n \in Nat /\ n # 0 /\ DOMAIN open = 1..n
      /\ Len(env.scopes) = n + 2 /\ Len(checker) \in Nat
      /\ DOMAIN env.scopes = 1..(n + 2) /\ DOMAIN checker = 1..Len(checker)
      /\ Len(env'.scopes) = n + 1 /\ DOMAIN env'.scopes = 1..(n + 1)
      /\ \A d \in 1..(n + 1) : env'.scopes[d] = env.scopes[d]
      /\ owner' = owner
  BY <1>1, ExitFacts
<1>3. /\ last[n + 1] \in 2..Len(checker)
      /\ Len(checker') = last[n + 1] /\ DOMAIN checker' = 1..last[n + 1]
      /\ \A k \in 1..last[n + 1] : checker'[k] = checker[k]
      /\ DOMAIN open' = 1..(n - 1) /\ \A j \in 1..(n - 1) : open'[j] = open[j]
  BY <1>1, ExitFacts
<1>4. /\ \A k \in 1..last[n + 1] : k \in DOMAIN checker
      /\ \A d \in 1..(n + 1) : d \in DOMAIN env.scopes
  BY <1>2, <1>3
<1>5. ASSUME NEW k \in DOMAIN checker
      PROVE  k \in 1..last[n + 1] <=> block[k] \in 1..(n + 1)
  <2>1. n + 1 \in DOMAIN env.scopes
    BY <1>2
  <2>2. block[k] <= n + 1 <=> k <= last[n + 1]
    BY <1>1, <2>1 DEF Nested
  <2>3. block[k] \in 1..(n + 2) /\ k \in 1..Len(checker)
    BY <1>2
  <2> QED  BY <1>2, <1>3, <2>2, <2>3
<1>6. ASSUME NEW d \in 1..(n + 1)
      PROVE  last[d] \in 1..last[n + 1]
  <2>1. last[d] \in DOMAIN checker /\ d \in DOMAIN env.scopes /\ last[d] <= last[d]
    BY <1>2, <1>4, SMTT(30)
  <2>2. block[last[d]] <= d
    BY <1>1, <2>1 DEF Nested
  <2>3. block[last[d]] \in 1..(n + 1)
    <3>1. block[last[d]] \in 1..(n + 2)
      BY <1>2, <2>1
    <3> QED  BY <1>2, <2>2, <3>1
  <2> QED  BY <1>5, <2>1, <2>3
<1>7. PICK last2 \in [1..(n + 1) -> 1..last[n + 1]] :
        \A d \in 1..(n + 1) : last2[d] = last[d]
  <2> DEFINE f == [d \in 1..(n + 1) |-> last[d]]
  <2>1. f \in [1..(n + 1) -> 1..last[n + 1]]
    BY <1>6
  <2> QED  BY <2>1
<1>8. PICK block2 \in [1..last[n + 1] -> 1..(n + 1)] :
        \A k \in 1..last[n + 1] : block2[k] = block[k]
  <2> DEFINE f == [k \in 1..last[n + 1] |-> block[k]]
  <2>1. f \in [1..last[n + 1] -> 1..(n + 1)]
    BY <1>4, <1>5
  <2> QED  BY <2>1
<1>9. Nested(last2, block2)'
  <2>1. 1 \in 1..(n + 1) /\ 2 \in 1..(n + 1) /\ n + 1 \in 1..(n + 1)
    BY <1>2
  <2>2. last2[1] = 1 /\ last2[2] = 2 /\ last2[Len(env'.scopes)] = Len(checker')
    BY <1>1, <1>2, <1>3, <1>7, <2>1 DEF Nested
  <2>3. ASSUME NEW j \in DOMAIN open'
        PROVE  last2[j + 2] = last2[j + 1] + open'[j].scopes
    <3>1. j \in 1..(n - 1) /\ j \in DOMAIN open /\ j + 2 \in 1..(n + 1) /\ j + 1 \in 1..(n + 1)
      BY <1>2, <1>3, SMTT(30)
    <3>2. last[j + 2] = last[j + 1] + open[j].scopes
      BY <1>1, <3>1 DEF Nested
    <3> QED  BY <1>3, <1>7, <3>1, <3>2
  <2>4. ASSUME NEW k \in DOMAIN checker', NEW d \in DOMAIN env'.scopes
        PROVE  block2[k] <= d <=> k <= last2[d]
    <3>1. k \in 1..last[n + 1] /\ d \in 1..(n + 1)
      BY <1>2, <1>3
    <3>2. block[k] <= d <=> k <= last[d]
      BY <1>1, <1>4, <3>1 DEF Nested
    <3> QED  BY <1>7, <1>8, <3>1, <3>2
  <2> QED  BY <2>2, <2>3, <2>4 DEF Nested
<1>10. ScopesMatch(block2)'
  <2>1. ASSUME NEW k \in DOMAIN checker', block2[k] # 1, NEW x \in DOMAIN checker'[k]
        PROVE  /\ x \in DOMAIN env'.scopes[block2[k]]
               /\ owner'[env'.scopes[block2[k]][x] + 1] = checker'[k][x]
    <3>1. /\ k \in 1..last[n + 1] /\ k \in DOMAIN checker /\ checker'[k] = checker[k]
          /\ block2[k] = block[k] /\ block2[k] \in 1..(n + 1)
      BY <1>3, <1>4, <1>8
    <3>2. /\ x \in DOMAIN env.scopes[block[k]]
          /\ owner[env.scopes[block[k]][x] + 1] = checker[k][x]
      BY <1>1, <2>1, <3>1 DEF ScopesMatch
    <3>3. env'.scopes[block2[k]] = env.scopes[block[k]]
      <4>1. env'.scopes[block2[k]] = env.scopes[block2[k]]
        BY <1>2, <3>1
      <4> QED  BY <3>1, <4>1
    <3> QED  BY <1>2, <3>1, <3>2, <3>3
  <2>2. ASSUME NEW d \in DOMAIN env'.scopes, NEW x \in DOMAIN env'.scopes[d]
        PROVE  \E k \in DOMAIN checker' : block2[k] = d /\ x \in DOMAIN checker'[k]
    <3>1. d \in 1..(n + 1) /\ d \in DOMAIN env.scopes /\ x \in DOMAIN env.scopes[d]
      BY <1>2, <1>4
    <3>2. PICK k \in DOMAIN checker : block[k] = d /\ x \in DOMAIN checker[k]
      BY <1>1, <3>1 DEF ScopesMatch
    <3>3. k \in 1..last[n + 1]
      BY <1>5, <3>1, <3>2
    <3> QED  BY <1>3, <1>8, <3>2, <3>3
  <2> QED  BY <2>1, <2>2 DEF ScopesMatch
<1> QED  BY <1>2, <1>3, <1>9, <1>10 DEF Nesting

LEMMA ExitKeeps ==
  ASSUME IInv, Exit
  PROVE  IInv'
<1> DEFINE n == Len(open)
<1>1. PICK last \in [DOMAIN env.scopes -> DOMAIN checker],
           block \in [DOMAIN checker -> DOMAIN env.scopes] : Nested(last, block)
  BY DEF IInv, Nesting
<1>2. /\ n \in Nat /\ n # 0 /\ DOMAIN open = 1..n
      /\ Len(env.scopes) = n + 2 /\ Len(checker) \in Nat
      /\ DOMAIN env.scopes = 1..Len(env.scopes) /\ DOMAIN checker = 1..Len(checker)
      /\ env' \in Envs /\ env'.args = env.args /\ env'.next = env.next
      /\ Len(env'.scopes) = n + 1 /\ DOMAIN env'.scopes = 1..(n + 1)
      /\ \A d \in 1..(n + 1) : env'.scopes[d] = env.scopes[d]
  BY <1>1, ExitFacts
<1>3. /\ open' \in Seq(Open) /\ Len(open') = n - 1 /\ DOMAIN open' = 1..(n - 1)
      /\ \A j \in 1..(n - 1) : open'[j] = open[j]
      /\ owner' = owner /\ decls' = decls /\ initRead' = initRead /\ status' = status
  BY <1>1, ExitFacts
<1>4. /\ last[n + 1] \in 2..Len(checker)
      /\ checker' \in Seq(Maps) /\ Len(checker') = last[n + 1]
      /\ DOMAIN checker' = 1..last[n + 1]
      /\ \A k \in 1..last[n + 1] : checker'[k] = checker[k]
  BY <1>1, ExitFacts
<1>5. /\ \A d \in DOMAIN env'.scopes : d \in DOMAIN env.scopes /\ env'.scopes[d] = env.scopes[d]
      /\ \A k \in DOMAIN checker' : k \in DOMAIN checker /\ checker'[k] = checker[k]
      /\ \A j \in DOMAIN open' : j \in DOMAIN open /\ open'[j] = open[j]
      /\ 1 \in DOMAIN env'.scopes /\ 1 \in DOMAIN checker' /\ Len(checker') \in Nat \ {0}
  <2>1. /\ \A d \in 1..(n + 1) : d \in 1..(n + 2)
        /\ \A j \in 1..(n - 1) : j \in 1..n
        /\ 1 \in 1..(n + 1)
    BY <1>2
  <2>2. /\ \A k \in 1..last[n + 1] : k \in 1..Len(checker)
        /\ 1 \in 1..last[n + 1] /\ last[n + 1] \in Nat \ {0}
    BY <1>2, <1>4
  <2>3. \A d \in DOMAIN env'.scopes : d \in DOMAIN env.scopes /\ env'.scopes[d] = env.scopes[d]
    BY <1>2, <2>1
  <2>4. \A k \in DOMAIN checker' : k \in DOMAIN checker /\ checker'[k] = checker[k]
    BY <1>2, <1>4, <2>2
  <2>5. \A j \in DOMAIN open' : j \in DOMAIN open /\ open'[j] = open[j]
    BY <1>2, <1>3, <2>1
  <2>6. 1 \in DOMAIN env'.scopes /\ 1 \in DOMAIN checker' /\ Len(checker') \in Nat \ {0}
    BY <1>2, <1>4, <2>1, <2>2
  <2> QED  BY <2>3, <2>4, <2>5, <2>6
<1>6. TypeOK'
  BY <1>2, <1>3, <1>5 DEF IInv, TypeOK
<1>7. Shape'
  <2>1. Len(env'.scopes) = Len(open') + 2
    BY <1>2, <1>3
  <2> QED  BY <1>2, <1>3, <1>4, <1>5, <2>1 DEF IInv, Shape
<1>8. ParamsAgree'
  BY <1>2, <1>3, <1>5 DEF IInv, ParamsAgree
<1>9. Nesting'
  BY ExitKeepsNesting
<1>10. BeforeKept'
  <2>1. ASSUME NEW j \in DOMAIN open', NEW x \in Names
        PROVE  open'[j].before[x] = CompiledIn(Below(env', j + 1), owner', x)
    <3>1. /\ j \in DOMAIN open /\ open'[j] = open[j] /\ j + 1 <= Len(env'.scopes)
          /\ \A d \in 1..(j + 1) : d \in 1..(n + 1)
      <4>1. j \in 1..(n - 1)
        BY <1>3
      <4>2. j + 1 <= n + 1 /\ \A d \in 1..(j + 1) : d \in 1..(n + 1)
        BY <1>2, <4>1
      <4> QED  BY <1>2, <1>5, <4>2
    <3>2. \A d \in 1..(j + 1) : env'.scopes[d] = env.scopes[d]
      BY <1>2, <3>1
    <3> QED  BY <1>2, <1>3, <3>1, <3>2, BeforeStays DEF IInv
  <2> QED  BY <2>1 DEF BeforeKept
<1>11. HiddenBelow'
  BY <1>2, <1>5 DEF IInv, HiddenBelow
<1>12. SlotsNotShared'
  <2>1. ASSUME NEW v \in Live'
        PROVE  v \in Live /\ SlotOf(v)' = SlotOf(v)
    <3>1. PICK d \in 1..(n + 1), x \in Names : v = <<d, x>> /\ x \in DOMAIN env'.scopes[d]
      BY <1>2, <2>1 DEF Live
    <3> QED  BY <1>2, <1>5, <3>1 DEF Live, SlotOf
  <2> QED  BY <1>5, <2>1 DEF IInv, SlotsNotShared
<1> QED  BY <1>6, <1>7, <1>8, <1>9, <1>10, <1>11, <1>12 DEF IInv

-----------------------------------------------------------------------------
(* Declarations with an initializer. *)

\* What a name means to VarEnv once x is declared.
LEMMA DeclaredMeaning ==
  ASSUME IInv, NEW x \in Names, Declare(x), NEW y
  PROVE  CompiledIn(env', owner', y) = IF y = x THEN decls + 1 ELSE Compiled(y)
<1> DEFINE t == Len(env.scopes)
<1>1. /\ env \in Envs /\ env' \in Envs /\ env'.args = env.args
      /\ DOMAIN env'.scopes = DOMAIN env.scopes /\ DOMAIN env.scopes = 1..t
      /\ t \in Nat /\ t >= 2
  BY AtLeastTwo, Positions, Declared DEF IInv, Shape
<1>2. CASE y = x
  <2>1. t \in DOMAIN env'.scopes /\ x \in DOMAIN env'.scopes[t]
    BY <1>1, Declared
  <2>2. InnermostWith(env', x, t)
    BY <1>1, <2>1 DEF InnermostWith
  <2>3. CompiledIn(env', owner', x) = owner'[env'.scopes[t][x] + 1]
    BY <1>1, <2>2, CompiledLocal
  <2> QED  BY <1>2, <2>3, Declared
<1>3. CASE y # x
  <2>1. ASSUME NEW d \in DOMAIN env.scopes
        PROVE  /\ y \in DOMAIN env'.scopes[d] <=> y \in DOMAIN env.scopes[d]
               /\ y \in DOMAIN env.scopes[d] => env'.scopes[d][y] = env.scopes[d][y]
    <3>1. CASE d = t
      BY <1>3, <3>1, Declared
    <3>2. CASE d # t
      BY <3>2, Declared
    <3> QED  BY <3>1, <3>2
  <2>2. CASE \E d \in DOMAIN env.scopes : y \in DOMAIN env.scopes[d]
    <3>1. PICK f : InnermostWith(env, y, f)
      BY <1>1, <2>2, InnermostExists
    <3>2. f \in DOMAIN env.scopes /\ y \in DOMAIN env.scopes[f]
      BY <3>1 DEF InnermostWith
    <3>3. InnermostWith(env', y, f)
      BY <1>1, <2>1, <3>1 DEF InnermostWith
    <3>4. CompiledIn(env', owner', y) = owner'[env'.scopes[f][y] + 1]
      BY <1>1, <3>3, CompiledLocal
    <3>5. Compiled(y) = owner[env.scopes[f][y] + 1]
      BY <1>1, <3>1, CompiledLocal DEF Compiled
    <3>6. env.scopes[f][y] + 1 \in 1..Len(owner)
      BY <3>2, SlotsHaveOwners DEF IInv
    <3>7. owner'[env.scopes[f][y] + 1] = owner[env.scopes[f][y] + 1]
      BY <3>6, Declared
    <3> QED  BY <1>3, <2>1, <3>2, <3>4, <3>5, <3>7
  <2>3. CASE \A d \in DOMAIN env.scopes : y \notin DOMAIN env.scopes[d]
    <3>1. \A d \in DOMAIN env'.scopes : y \notin DOMAIN env'.scopes[d]
      BY <1>1, <2>1, <2>3
    <3>2. CompiledIn(env', owner', y) = IF y \in DOMAIN env.args THEN env.args[y] + 1 ELSE 0
      BY <1>1, <3>1, CompiledOther
    <3>3. Compiled(y) = IF y \in DOMAIN env.args THEN env.args[y] + 1 ELSE 0
      BY <1>1, <2>3, CompiledOther DEF Compiled
    <3> QED  BY <1>3, <3>2, <3>3
  <2> QED  BY <2>2, <2>3
<1> QED  BY <1>2, <1>3

\* What the initializer reads, to either pass.
LEMMA InitializerReads ==
  ASSUME IInv, NEW x \in Names, NEW y \in Names, DeclareVar(x, y)
  PROVE  /\ Declare(x)
         /\ initRead'.checked = Checked(y)
         /\ initRead'.compiled = IF y = x THEN decls' ELSE Checked(y)
         /\ initRead' \in [checked : 0..decls', compiled : 0..decls']
<1>1. Declare(x) /\ status = "walking" /\ decls' = decls + 1
      /\ initRead' = [checked |-> Checked(y), compiled |-> CompiledIn(env', owner', y)]
  BY DEF DeclareVar, Declare
<1>2. CompiledIn(env', owner', y) = IF y = x THEN decls' ELSE Checked(y)
  <2>1. Compiled(y) = Checked(y)
    BY <1>1, NamesFollow DEF IInv
  <2> QED  BY <1>1, <2>1, DeclaredMeaning
<1>3. Checked(y) \in 0..decls /\ decls \in Nat
  BY CheckedRange DEF IInv, TypeOK
<1>4. Checked(y) \in 0..decls' /\ decls' \in 0..decls'
  BY <1>1, <1>3
<1>5. CompiledIn(env', owner', y) \in 0..decls'
  BY <1>2, <1>4
<1> QED  BY <1>1, <1>2, <1>4, <1>5

-----------------------------------------------------------------------------
(* The theorems. *)

LEMMA StepKeeps ==
  ASSUME IInv, [Next]_vars
  PROVE  IInv'
<1>1. CASE UNCHANGED vars
  BY <1>1, StutterKeeps
<1>2. ASSUME NEW x \in Names, DeclareConstant(x)
      PROVE  IInv'
  <2>1. Declare(x) /\ decls' = decls + 1 /\ initRead' = NoRead
    BY <1>2 DEF DeclareConstant, Declare
  <2>2. decls' \in Nat
    BY <2>1 DEF IInv, TypeOK
  <2>3. initRead' \in [checked : 0..decls', compiled : 0..decls']
    BY <2>1, <2>2 DEF NoRead
  <2> QED  BY <2>1, <2>3, DeclareKeeps
<1>3. ASSUME NEW x \in Names, NEW y \in Names, DeclareVar(x, y)
      PROVE  IInv'
  BY <1>3, InitializerReads, DeclareKeeps
<1>4. ASSUME NEW x \in Names, OutOfSlots(x) \/ DuplicateLocal(x)
      PROVE  IInv'
  BY <1>4, StopKeeps DEF OutOfSlots, DuplicateLocal, Statuses
<1>5. ASSUME NEW x \in Names, NEW y \in Names, RejectVar(x, y)
      PROVE  IInv'
  BY <1>5, StopKeeps DEF RejectVar, Statuses
<1>6. CASE Temporary
  BY <1>6, TemporaryKeeps
<1>7. CASE Enter
  BY <1>7, EnterKeeps
<1>8. ASSUME NEW item \in Names, EnterArrayLoop(item)
      PROVE  IInv'
  BY <1>8, ArrayLoopKeeps
<1>9. ASSUME NEW item \in Names, RejectMapLoop(item)
      PROVE  IInv'
  BY <1>9, StopKeeps DEF RejectMapLoop, Statuses
<1>10. ASSUME NEW key \in Names, NEW value \in Names, EnterMapLoop(key, value)
       PROVE  IInv'
  BY <1>10, MapLoopKeeps
<1>11. CASE NoSlotsForLoop(3) \/ NoSlotsForLoop(5)
  BY <1>11, StopKeeps DEF NoSlotsForLoop, Statuses
<1>12. CASE Exit
  BY <1>12, ExitKeeps
<1>13. CASE Finish
  BY <1>13, StopKeeps DEF Finish, Statuses
<1> QED
  BY <1>1, <1>2, <1>3, <1>4, <1>5, <1>6, <1>7, <1>8, <1>9, <1>10, <1>11, <1>12, <1>13
  DEF Next

\* The inductive invariant of a walk: the two stacks are nested alike and no
\* slot is handed out twice.
THEOREM Inductive == Spec => []IInv
<1>1. Init => IInv
  BY Starts
<1>2. IInv /\ [Next]_vars => IInv'
  BY StepKeeps
<1> QED  BY <1>1, <1>2, PTL DEF Spec

\* The scopes, the slots and their owners have their types; no more slots are
\* handed out than the u8 of next_local can count (env.rs:47).
THEOREM TypeCorrect == Spec => []TypeOK
<1>1. IInv => TypeOK
  BY DEF IInv
<1> QED  BY <1>1, Inductive, PTL

\* The variables that are live at once are in different slots, and none is in
\* a slot of an enclosing loop.
THEOREM SlotsSeparate == Spec => []SlotsNotShared
<1>1. IInv => SlotsNotShared
  BY DEF IInv
<1> QED  BY <1>1, Inductive, PTL

\* A name means the same declaration to the type checker and to the code
\* generator, at every statement of every function that is not rejected.
THEOREM NamesMatch == Spec => []NamesAgree
<1>1. IInv => NamesAgree
  BY NamesFollow DEF IInv, NamesAgree
<1> QED  BY <1>1, Inductive, PTL

\* Only Exit closes a block.
LEMMA OnlyExitCloses ==
  ASSUME IInv, Next, Len(open') < Len(open)
  PROVE  Exit
<1>1. Len(open) \in Nat /\ open \in Seq(Open)
  BY DEF IInv, TypeOK
<1>2. open' # open
  BY <1>1
<1>3. ASSUME NEW b, open' = Append(open, b)
      PROVE  FALSE
  <2>1. Len(open') = Len(open) + 1
    BY <1>1, <1>3
  <2> QED  BY <1>1, <2>1
<1>4. CASE Enter
  BY <1>3, <1>4 DEF Enter
<1>5. ASSUME NEW item \in Names, EnterArrayLoop(item)
      PROVE  FALSE
  BY <1>3, <1>5 DEF EnterArrayLoop
<1>6. ASSUME NEW key \in Names, NEW value \in Names, EnterMapLoop(key, value)
      PROVE  FALSE
  BY <1>3, <1>6 DEF EnterMapLoop
<1> QED
  BY <1>2, <1>4, <1>5, <1>6
  DEF Next, Stop, DeclareConstant, DeclareVar, OutOfSlots, DuplicateLocal, RejectVar,
      Temporary, RejectMapLoop, NoSlotsForLoop, Finish

LEMMA ExitRestores ==
  ASSUME IInv, Exit, NEW x \in Names
  PROVE  Compiled(x)' = open[Len(open)].before[x]
<1> DEFINE n == Len(open)
<1>1. PICK last \in [DOMAIN env.scopes -> DOMAIN checker],
           block \in [DOMAIN checker -> DOMAIN env.scopes] : Nested(last, block)
  BY DEF IInv, Nesting
<1>2. /\ n \in Nat /\ n # 0 /\ DOMAIN open = 1..n /\ env' \in Envs /\ env'.args = env.args
      /\ Len(env'.scopes) = n + 1 /\ owner' = owner
      /\ \A d \in 1..(n + 1) : env'.scopes[d] = env.scopes[d]
  BY <1>1, ExitFacts
<1>3. n \in DOMAIN open /\ n + 1 <= Len(env'.scopes)
  BY <1>2
<1>4. open[n].before[x] = CompiledIn(Below(env', n + 1), owner', x)
  BY <1>2, <1>3, BeforeStays DEF IInv
<1>5. CompiledIn(Below(env', n + 1), owner', x) = CompiledIn(env', owner', x)
  BY <1>2, BelowAll
<1> QED  BY <1>4, <1>5 DEF Compiled

\* A name means after a block what it meant before it: exit_block takes back
\* exactly the scope that enter_block pushed (env.rs:38, env.rs:42).
THEOREM NamesRestored == Spec => BlocksRestoreNames
<1>1. IInv /\ [Next]_vars =>
        [Len(open') < Len(open) =>
           \A x \in Names : Compiled(x)' = open[Len(open)].before[x]]_vars
  <2> SUFFICES ASSUME IInv, Next, Len(open') < Len(open), NEW x \in Names
               PROVE  Compiled(x)' = open[Len(open)].before[x]
    OBVIOUS
  <2> QED  BY OnlyExitCloses, ExitRestores
<1> QED  BY <1>1, Inductive, PTL DEF Spec, BlocksRestoreNames

\* Only a declaration records what an initializer reads.
LEMMA OnlyDeclarationsRead ==
  ASSUME Next, initRead' # initRead
  PROVE  \/ \E x, y \in Names : DeclareVar(x, y)
         \/ initRead' = NoRead
BY DEF Next, Stop, DeclareConstant, OutOfSlots, DuplicateLocal, RejectVar, Temporary,
       Enter, EnterArrayLoop, RejectMapLoop, EnterMapLoop, NoSlotsForLoop, Exit, Finish

\* The code generator reads for an initializer what the checker typed it with,
\* or the variable that it has just declared (function.rs:125).
THEOREM InitializersMatch == Spec => InitializersAgree
<1>1. IInv /\ [Next]_vars =>
        [initRead' # initRead =>
           initRead'.compiled \in {initRead'.checked, decls'}]_vars
  <2> SUFFICES ASSUME IInv, Next, initRead' # initRead
               PROVE  initRead'.compiled \in {initRead'.checked, decls'}
    OBVIOUS
  <2>1. CASE initRead' = NoRead
    BY <2>1 DEF NoRead
  <2>2. ASSUME NEW x \in Names, NEW y \in Names, DeclareVar(x, y)
        PROVE  initRead'.compiled \in {initRead'.checked, decls'}
    BY <2>2, InitializerReads
  <2> QED  BY <2>1, <2>2, OnlyDeclarationsRead
<1> QED  BY <1>1, Inductive, PTL DEF Spec, InitializersAgree
=============================================================================
