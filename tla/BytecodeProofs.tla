--------------------------- MODULE BytecodeProofs ---------------------------
(***************************************************************************)
(* Facts about the layout of a script that the proofs about the optimizer  *)
(* and the linker rest on.  Offsets is a recursive function; what it       *)
(* computes is proved here by induction, which the provers can use in the  *)
(* form of SetInduction, derived from the well-foundedness of < on Nat.    *)
(***************************************************************************)
EXTENDS Bytecode, WellFoundedInduction, TLAPS

-----------------------------------------------------------------------------
(* Sequences, and induction without a predicate parameter. *)

\* A function on 1..n with values in S is a sequence over S.
LEMMA FunctionIsSeq ==
  ASSUME NEW S, NEW n \in Nat, NEW f, f \in [1..n -> S]
  PROVE  f \in Seq(S) /\ Len(f) = n
OBVIOUS

\* Replacing one element of a sequence.
LEMMA ReplaceFacts ==
  ASSUME NEW S, NEW s \in Seq(S), NEW k \in 1..Len(s), NEW v \in S
  PROVE  /\ [s EXCEPT ![k] = v] \in Seq(S)
         /\ Len([s EXCEPT ![k] = v]) = Len(s)
         /\ [s EXCEPT ![k] = v][k] = v
         /\ \A j \in 1..Len(s) : j # k => [s EXCEPT ![k] = v][j] = s[j]
<1>1. [s EXCEPT ![k] = v] \in [1..Len(s) -> S]
  OBVIOUS
<1> QED  BY <1>1, FunctionIsSeq

\* A non-empty set of naturals has a least element.
LEMMA LeastNat ==
  ASSUME NEW S \in SUBSET Nat, S # {}
  PROVE  \E m \in S : \A n \in S : m <= n
<1>1. IsWellFoundedOn(OpToRel(<, Nat), Nat)
  BY NatLessThanWellFounded
<1>2. PICK m \in S : \A n \in S : ~(<<n, m>> \in OpToRel(<, Nat))
  BY <1>1, WFMin
<1>3. \A n \in S : ~(n < m)
  BY <1>2 DEF OpToRel
<1>4. m \in Nat /\ \A n \in S : n \in Nat
  OBVIOUS
<1> QED
  BY <1>3, <1>4

\* A set that contains 0 and the successors of its naturals contains Nat.
LEMMA SetInduction ==
  ASSUME NEW S, 0 \in S, \A n \in Nat : n \in S => n + 1 \in S
  PROVE  Nat \subseteq S
<1> SUFFICES ASSUME Nat \ S # {} PROVE FALSE
  OBVIOUS
<1>1. PICK m \in Nat \ S : \A n \in Nat \ S : m <= n
  BY LeastNat
<1>2. m # 0 /\ m - 1 \in Nat
  BY <1>1
<1>3. m - 1 \in S
  BY <1>1, <1>2
<1> QED
  BY <1>1, <1>2, <1>3

-----------------------------------------------------------------------------
(* What PrefixSums computes. *)

IsSums(w, f, n) ==
  /\ f \in [1..(n + 1) -> Nat]
  /\ f[1] = 0
  /\ \A k \in 1..n : f[k + 1] = f[k] + w[k]

\* A function with the recursion's values exists, so PrefixSums is one.
LEMMA SumsExist ==
  ASSUME NEW w \in Seq(Nat)
  PROVE  \E f : IsSums(w, f, Len(w))
<1> DEFINE S == {n \in Nat : n <= Len(w) => \E f : IsSums(w, f, n)}
<1>1. 0 \in S
  <2>1. IsSums(w, [k \in 1..1 |-> 0], 0)
    BY DEF IsSums
  <2> QED  BY <2>1
<1>2. ASSUME NEW n \in Nat, n \in S PROVE n + 1 \in S
  <2> SUFFICES ASSUME n + 1 <= Len(w) PROVE \E f : IsSums(w, f, n + 1)
    OBVIOUS
  <2>1. PICK f : IsSums(w, f, n)
    BY <1>2
  <2> DEFINE g == [k \in 1..(n + 2) |->
                     IF k = n + 2 THEN f[n + 1] + w[n + 1] ELSE f[k]]
  <2>2. f \in [1..(n + 1) -> Nat] /\ w[n + 1] \in Nat
    BY <2>1 DEF IsSums
  <2>3. g \in [1..(n + 1 + 1) -> Nat]
    BY <2>2
  <2>4. g[1] = 0
    BY <2>1 DEF IsSums
  <2>5. \A k \in 1..(n + 1) : g[k + 1] = g[k] + w[k]
    BY <2>1, <2>2 DEF IsSums
  <2> HIDE DEF g
  <2>6. IsSums(w, g, n + 1)
    BY <2>3, <2>4, <2>5 DEF IsSums
  <2> QED  BY <2>6
<1> HIDE DEF S
<1>3. Len(w) \in S
  BY <1>1, <1>2, SetInduction
<1> QED  BY <1>3 DEF S

\* The recursion determines PrefixSums.
LEMMA SumsCorrect ==
  ASSUME NEW w \in Seq(Nat)
  PROVE  IsSums(w, PrefixSums(w), Len(w))
<1> DEFINE D == 1..(Len(w) + 1)
           Step(f, k) == IF k = 1 THEN 0 ELSE f[k - 1] + w[k - 1]
           Rec(f) == f = [k \in D |-> Step(f, k)]
           p == PrefixSums(w)
<1>1. PICK f : IsSums(w, f, Len(w))
  BY SumsExist
<1>2. Rec(f)
  BY <1>1 DEF IsSums
<1>3. Rec(p)
  BY <1>2 DEF PrefixSums
<1>4. /\ \A k \in D : p[k] = Step(p, k)
      /\ \A k \in D : f[k] = Step(f, k)
  <2> HIDE DEF D, p
  <2> QED  BY <1>2, <1>3
<1> DEFINE S == {n \in Nat : n + 1 \in D => p[n + 1] = f[n + 1]}
<1>5. 0 \in S
  BY <1>4
<1>6. ASSUME NEW n \in Nat, n \in S PROVE n + 1 \in S
  <2> SUFFICES ASSUME n + 2 \in D PROVE p[n + 2] = f[n + 2]
    OBVIOUS
  <2>1. n + 2 # 1 /\ n + 2 - 1 = n + 1 /\ n + 1 \in D
    OBVIOUS
  <2> HIDE DEF p, D
  <2> QED  BY <1>4, <1>6, <2>1
<1>7. Nat \subseteq S
  <2> HIDE DEF S
  <2> QED  BY <1>5, <1>6, SetInduction
<1>8. \A k \in D : p[k] = f[k]
  <2> SUFFICES ASSUME NEW k \in D PROVE p[k] = f[k]
    OBVIOUS
  <2>1. k - 1 \in Nat /\ (k - 1) + 1 = k
    OBVIOUS
  <2>2. k - 1 \in S
    BY <1>7, <2>1
  <2> HIDE DEF p, D
  <2> QED  BY <2>1, <2>2
<1> QED
  <2> HIDE DEF D, p
  <2>1. p = f
    BY <1>2, <1>3, <1>8
  <2> QED  BY <1>1, <2>1 DEF p

-----------------------------------------------------------------------------
(* Offsets. *)

\* Every instruction takes at least its opcode byte.
LEMMA EncodedLenPositive ==
  ASSUME NEW i \in Instruction
  PROVE  EncodedLen(i) \in Nat \ {0}
<1>1. i.arg \in Int /\ (i.op # "PUSH" => i.arg \in Nat)
  BY DEF Instruction
<1>2. PushLen(i.arg) \in Nat \ {0}
  BY <1>1 DEF PushLen
<1>3. i.op # "PUSH" => DataPrefix(i.arg) + i.arg \in Nat \ {0}
  BY <1>1 DEF DataPrefix
<1>4. QED
  BY <1>2, <1>3 DEF EncodedLen

\* The recursion of prefix_byte_offsets, as one fact about Offset.
LEMMA OffsetSteps ==
  ASSUME NEW s \in Seq(Instruction)
  PROVE  /\ \A k \in 1..(Len(s) + 1) : Offset(s, k) \in Nat
         /\ Offset(s, 1) = 0
         /\ \A k \in 1..Len(s) : Offset(s, k + 1) = Offset(s, k) + EncodedLen(s[k])
<1>1. Lengths(s) \in Seq(Nat) /\ Len(Lengths(s)) = Len(s)
  BY EncodedLenPositive DEF Lengths
<1>2. \A k \in 1..Len(s) : Lengths(s)[k] = EncodedLen(s[k])
  BY DEF Lengths
<1>3. IsSums(Lengths(s), Offsets(s), Len(s))
  BY <1>1, SumsCorrect DEF Offsets
<1> QED
  BY <1>2, <1>3 DEF IsSums, Offset

\* A later instruction starts after the end of an earlier one.
LEMMA OffsetIncreasing ==
  ASSUME NEW s \in Seq(Instruction),
         NEW j \in 1..Len(s), NEW k \in 1..(Len(s) + 1), j < k
  PROVE  Offset(s, j) + EncodedLen(s[j]) <= Offset(s, k)
<1> DEFINE S == {n \in Nat : j + 1 + n <= Len(s) + 1 =>
                    Offset(s, j) + EncodedLen(s[j]) <= Offset(s, j + 1 + n)}
<1>1. 0 \in S
  BY OffsetSteps
<1>2. ASSUME NEW n \in Nat, n \in S PROVE n + 1 \in S
  <2> SUFFICES ASSUME j + 1 + (n + 1) <= Len(s) + 1
               PROVE  Offset(s, j) + EncodedLen(s[j]) <= Offset(s, j + 1 + (n + 1))
    OBVIOUS
  <2> DEFINE m == j + 1 + n
  <2>1. m \in 1..Len(s) /\ m + 1 = j + 1 + (n + 1)
    OBVIOUS
  <2>2. Offset(s, m + 1) = Offset(s, m) + EncodedLen(s[m])
    BY <2>1, OffsetSteps
  <2>3. s[m] \in Instruction /\ s[j] \in Instruction
    BY <2>1
  <2>4. EncodedLen(s[m]) \in Nat /\ EncodedLen(s[j]) \in Nat
    BY <2>3, EncodedLenPositive
  <2>5. Offset(s, m) \in Nat /\ Offset(s, j) \in Nat
    BY <2>1, OffsetSteps
  <2>6. Offset(s, j) + EncodedLen(s[j]) <= Offset(s, m)
    BY <1>2, <2>1
  <2> HIDE DEF m
  <2> QED  BY <2>1, <2>2, <2>4, <2>5, <2>6
<1>3. k - j - 1 \in Nat /\ j + 1 + (k - j - 1) = k
  OBVIOUS
<1> HIDE DEF S
<1>4. k - j - 1 \in S
  BY <1>1, <1>2, <1>3, SetInduction
<1> QED  BY <1>3, <1>4 DEF S

\* Two instructions do not start at the same byte.
LEMMA OffsetInjective ==
  ASSUME NEW s \in Seq(Instruction),
         NEW j \in 1..(Len(s) + 1), NEW k \in 1..(Len(s) + 1), j < k
  PROVE  Offset(s, j) < Offset(s, k)
<1>1. j \in 1..Len(s)
  OBVIOUS
<1>2. EncodedLen(s[j]) \in Nat \ {0}
  BY <1>1, EncodedLenPositive
<1> QED  BY <1>1, <1>2, OffsetIncreasing, OffsetSteps

\* InstructionAt inverts Offset.
LEMMA InstructionAtOffset ==
  ASSUME NEW s \in Seq(Instruction), NEW k \in 1..(Len(s) + 1)
  PROVE  InstructionAt(s, Offset(s, k)) = k
<1>1. \A j \in 1..(Len(s) + 1) : Offset(s, j) = Offset(s, k) => j = k
  <2> SUFFICES ASSUME NEW j \in 1..(Len(s) + 1), Offset(s, j) = Offset(s, k),
                      j # k
               PROVE  FALSE
    OBVIOUS
  <2>1. Offset(s, j) \in Nat /\ Offset(s, k) \in Nat
    BY OffsetSteps
  <2> QED  BY <2>1, OffsetInjective
<1> QED  BY <1>1 DEF InstructionAt

\* What InstructionAt finds starts there.
LEMMA InstructionAtFound ==
  ASSUME NEW s, NEW p, InstructionAt(s, p) # 0
  PROVE  /\ InstructionAt(s, p) \in 1..(Len(s) + 1)
         /\ Offset(s, InstructionAt(s, p)) = p
BY DEF InstructionAt

\* Offsets depend on the lengths of the instructions only.
LEMMA OffsetOfLengths ==
  ASSUME NEW s, NEW t, Lengths(s) = Lengths(t), NEW k
  PROVE  Offset(s, k) = Offset(t, k)
BY DEF Offset, Offsets

\* Where equal lengths follow on two instructions d bytes apart, so are the
\* instructions behind them.
LEMMA OffsetsMoveTogether ==
  ASSUME NEW s \in Seq(Instruction), NEW t \in Seq(Instruction),
         NEW a \in 1..(Len(s) + 1), NEW b \in 1..(Len(t) + 1),
         NEW d \in Int, Offset(t, b) = Offset(s, a) + d,
         NEW n \in Nat, a + n <= Len(s) + 1, b + n <= Len(t) + 1,
         \A k \in 0..(n - 1) : EncodedLen(t[b + k]) = EncodedLen(s[a + k])
  PROVE  \A k \in 0..n : Offset(t, b + k) = Offset(s, a + k) + d
<1> DEFINE S == {k \in Nat : k <= n => Offset(t, b + k) = Offset(s, a + k) + d}
<1>1. 0 \in S
  OBVIOUS
<1>2. ASSUME NEW k \in Nat, k \in S PROVE k + 1 \in S
  <2> SUFFICES ASSUME k + 1 <= n PROVE Offset(t, b + (k + 1)) = Offset(s, a + (k + 1)) + d
    OBVIOUS
  <2>1. Offset(t, b + k) = Offset(s, a + k) + d
    BY <1>2
  <2>2. a + k \in 1..Len(s) /\ b + k \in 1..Len(t) /\ k \in 0..(n - 1)
    OBVIOUS
  <2>3. /\ Offset(s, a + k + 1) = Offset(s, a + k) + EncodedLen(s[a + k])
        /\ Offset(t, b + k + 1) = Offset(t, b + k) + EncodedLen(t[b + k])
    BY <2>2, OffsetSteps
  <2>4. Offset(s, a + k) \in Nat
    BY <2>2, OffsetSteps, SMTT(30)
  <2>5. EncodedLen(s[a + k]) \in Nat /\ EncodedLen(t[b + k]) = EncodedLen(s[a + k])
    BY <2>2, EncodedLenPositive
  <2>6. a + (k + 1) = a + k + 1 /\ b + (k + 1) = b + k + 1
    OBVIOUS
  <2>7. Offset(t, b + k + 1) = Offset(s, a + k + 1) + d
    <3> HIDE DEF S
    <3>1. \A x, l \in Nat : (x + d) + l = (x + l) + d
      OBVIOUS
    <3>2. (Offset(s, a + k) + d) + EncodedLen(s[a + k])
            = (Offset(s, a + k) + EncodedLen(s[a + k])) + d
      BY <2>4, <2>5, <3>1
    <3> QED  BY <2>1, <2>3, <2>5, <3>2, Zenon
  <2> QED  BY <2>6, <2>7
<1> HIDE DEF S
<1>3. Nat \subseteq S
  BY <1>1, <1>2, SetInduction
<1> QED  BY <1>3 DEF S
=============================================================================
