--------------------------- MODULE BalanceProofs ---------------------------
(***************************************************************************)
(* What a run of a balanced routine can and cannot do, for every routine,  *)
(* all arguments, any heap and storage, and all replies. Whether a routine *)
(* is balanced is for TLC, and what HeightsOf computes is of no importance *)
(* here: Balanced says all there is to know of it.                         *)
(***************************************************************************)
EXTENDS Balance, SequenceTheorems, TLAPS

IsList(s) == \E S : s \in Seq(S)

\* An item that is going to be packed has its number on top of it.
CountOnTop ==
  Current.op \in Packing =>
    pc > 1 /\ Len(stack) > 0 /\ Under(0).n = code.inst[pc - 1].arg

\* Between two steps the stack is as high as the position says.
RunInv ==
  /\ Balanced(code, func.void)
  /\ pc \in DOMAIN code.inst
  /\ IsList(stack)
  /\ Len(stack) = HeightsOf(code)[pc]
  /\ CountOnTop
  /\ \A p \in DOMAIN heights : heights[p] = HeightsOf(code)[p]
  /\ status = "halt" => Current.op = "RET"

-----------------------------------------------------------------------------
(* The stack as a sequence. *)

LEMMA RestIsList ==
  ASSUME NEW s, IsList(s), NEW n \in 0..Len(s)
  PROVE  /\ IsList(SubSeq(s, 1, Len(s) - n))
         /\ Len(SubSeq(s, 1, Len(s) - n)) = Len(s) - n
<1>1. PICK S : s \in Seq(S)
  BY DEF IsList
<1>2. SubSeq(s, 1, Len(s) - n) \in Seq(S)
  BY <1>1
<1>3. Len(SubSeq(s, 1, Len(s) - n)) = Len(s) - n
  BY <1>1
<1> QED  BY <1>2, <1>3 DEF IsList

LEMMA PushIsList ==
  ASSUME NEW s, IsList(s), NEW v
  PROVE  /\ IsList(Append(s, v))
         /\ Len(Append(s, v)) = Len(s) + 1
         /\ Append(s, v)[Len(Append(s, v))] = v
<1>1. PICK S : s \in Seq(S)
  BY DEF IsList
<1> DEFINE T == S \cup {v}
<1>2. s \in Seq(T)
  BY <1>1
<1> HIDE DEF T
<1>3. v \in T
  BY DEF T
<1>4. Append(s, v) \in Seq(T)
  BY <1>2, <1>3
<1>5. Len(Append(s, v)) = Len(s) + 1 /\ Append(s, v)[Len(s) + 1] = v
  BY <1>2, <1>3
<1> QED  BY <1>4, <1>5 DEF IsList

\* SWAP puts back as much as it takes.
LEMMA SwapIsList ==
  ASSUME NEW s, IsList(s), Len(s) >= 2, NEW a, NEW b
  PROVE  LET t == SubSeq(s, 1, Len(s) - 2) \o [i \in 1..2 |-> IF i = 1 THEN a ELSE b]
         IN  IsList(t) /\ Len(t) = Len(s)
<1>1. PICK S : s \in Seq(S)
  BY DEF IsList
<1> DEFINE T == S \cup {a, b}
           u == SubSeq(s, 1, Len(s) - 2)
           w == [i \in 1..2 |-> IF i = 1 THEN a ELSE b]
<1>2. s \in Seq(T) /\ a \in T /\ b \in T
  BY <1>1
<1> HIDE DEF T
<1>3. u \in Seq(T) /\ Len(u) = Len(s) - 2
  <2>1. Len(s) \in Nat /\ Len(s) - 2 \in 0..Len(s)
    BY <1>2
  <2>2. u \in Seq(T)
    BY <1>2, <2>1
  <2>3. Len(u) = Len(s) - 2
    <3>1. 2 \in 0..Len(s)
      BY <2>1
    <3> QED  BY <3>1, RestIsList DEF u
  <2> QED  BY <2>2, <2>3
<1>4. w \in Seq(T) /\ Len(w) = 2
  BY <1>2
<1> HIDE DEF u, w
<1>5. u \o w \in Seq(T) /\ Len(u \o w) = Len(s)
  <2>1. Len(s) \in Nat
    BY <1>2
  <2>2. u \o w \in Seq(T) /\ Len(u \o w) = Len(u) + Len(w)
    BY <1>3, <1>4, ConcatProperties
  <2> QED  BY <1>3, <1>4, <2>1, <2>2
<1> QED  BY <1>5 DEF IsList, u, w

-----------------------------------------------------------------------------
(* What Balanced says of the position of the machine. *)

\* What an instruction takes depends on the number of items only if it packs.
LEMMA TakesTaken ==
  ASSUME CountOnTop
  PROVE  Takes = Taken(code, pc)
<1>1. CASE Current.op \in Packing
  <2>1. pc > 1 /\ stack # <<>> /\ Under(0).n = code.inst[pc - 1].arg
    BY <1>1 DEF CountOnTop
  <2> QED  BY <1>1, <2>1 DEF Takes, Taken, Current
<1>2. CASE Current.op \notin Packing
  <2>1. \A m, n : TakesAt(code, pc, m) = TakesAt(code, pc, n)
    BY <1>2 DEF TakesAt, Current, Packing, Operations
  <2> QED  BY <2>1 DEF Takes, Taken
<1> QED  BY <1>1, <1>2

LEMMA HereBalanced ==
  ASSUME RunInv
  PROVE  LET r == code
             h == HeightsOf(code)
         IN  /\ h[pc] \in Nat /\ Len(stack) = h[pc]
             /\ Takes = Taken(r, pc) /\ Takes \in 0..Len(stack)
             /\ FallsThrough(r, pc) =>
                  /\ pc + 1 \in DOMAIN r.inst
                  /\ h[pc + 1] = h[pc] - Takes + Left(r, pc)
                  /\ r.inst[pc + 1].op \in Packing => Current.op = "PUSH"
             /\ Current.op \in Jumping =>
                  /\ Destination(r, pc) \in DOMAIN r.inst
                  /\ h[Destination(r, pc)] = h[pc] - Takes
                  /\ r.inst[Destination(r, pc)].op \notin Packing
             /\ Current.op = "RET" => h[pc] = IF func.void THEN 0 ELSE 1
<1> DEFINE r == code
           h == HeightsOf(code)
<1>1. pc \in DOMAIN r.inst /\ Len(stack) = h[pc] /\ CountOnTop
  BY DEF RunInv
<1>2. Takes = Taken(r, pc)
  BY <1>1, TakesTaken
<1>3. /\ r.inst \in Seq(Instruction)
      /\ \A p \in DOMAIN r.inst :
              /\ h[p] \in Nat
              /\ Taken(r, p) \in 0..h[p]
              /\ FallsThrough(r, p) =>
                   /\ p + 1 \in DOMAIN r.inst
                   /\ h[p + 1] = h[p] - Taken(r, p) + Left(r, p)
              /\ r.inst[p].op \in Jumping =>
                   /\ Destination(r, p) \in DOMAIN r.inst
                   /\ h[Destination(r, p)] = h[p] - Taken(r, p)
              /\ r.inst[p].op \in Packing =>
                   /\ p > 1
                   /\ r.inst[p - 1].op = "PUSH"
                   /\ \A q \in DOMAIN r.inst : ~JumpsTo(r, q, p)
              /\ r.inst[p].op = "RET" => h[p] = IF func.void THEN 0 ELSE 1
  BY Zenon DEF RunInv, Balanced
<1> HIDE DEF r, h
<1>4. pc \in 1..Len(r.inst)
  BY <1>1, <1>3
<1>5. ASSUME FallsThrough(r, pc), r.inst[pc + 1].op \in Packing
      PROVE  r.inst[pc].op = "PUSH"
  <2>1. pc + 1 \in DOMAIN r.inst
    BY <1>1, <1>3, <1>5
  <2>2. r.inst[(pc + 1) - 1].op = "PUSH"
    BY <1>3, <1>5, <2>1
  <2> QED  BY <1>4, <2>2
<1>6. ASSUME r.inst[pc].op \in Jumping
      PROVE  r.inst[Destination(r, pc)].op \notin Packing
  <2>1. Destination(r, pc) \in DOMAIN r.inst
    BY <1>1, <1>3, <1>6
  <2>2. JumpsTo(r, pc, Destination(r, pc))
    BY <1>6 DEF JumpsTo
  <2> QED  BY <1>1, <1>3, <2>1, <2>2
<1>7. Current = r.inst[pc]
  BY DEF Current, r
<1>8. /\ h[pc] \in Nat /\ Len(stack) = h[pc]
      /\ Takes = Taken(r, pc) /\ Takes \in 0..Len(stack)
  BY <1>1, <1>2, <1>3
<1>9. FallsThrough(r, pc) =>
        /\ pc + 1 \in DOMAIN r.inst
        /\ h[pc + 1] = h[pc] - Takes + Left(r, pc)
        /\ r.inst[pc + 1].op \in Packing => Current.op = "PUSH"
  BY <1>1, <1>2, <1>3, <1>5, <1>7
<1>10. Current.op \in Jumping =>
         /\ Destination(r, pc) \in DOMAIN r.inst
         /\ h[Destination(r, pc)] = h[pc] - Takes
         /\ r.inst[Destination(r, pc)].op \notin Packing
  BY <1>1, <1>2, <1>3, <1>6, <1>7
<1>11. Current.op = "RET" => h[pc] = IF func.void THEN 0 ELSE 1
  BY <1>1, <1>3, <1>7
<1> QED  BY <1>8, <1>9, <1>10, <1>11 DEF r, h

-----------------------------------------------------------------------------
(* What the steps do to the height. *)

\* The machine goes on to the next instruction, with the stack as high as
\* Left says.
Advances ==
  /\ FallsThrough(code, pc)
  /\ pc' = pc + 1
  /\ UNCHANGED <<code, status>>
  /\ IsList(stack')
  /\ Len(stack') = Len(stack) - Takes + Left(code, pc)
  /\ Current.op = "PUSH" => stack'[Len(stack')].n = Current.arg

LEMMA AdvanceKeepsInv ==
  ASSUME RunInv, status = "run", Advances, NoteHeight, UNCHANGED func
  PROVE  RunInv'
<1> DEFINE h == HeightsOf(code)
<1>1. /\ code' = code /\ func' = func /\ status' = "run" /\ pc' = pc + 1
      /\ FallsThrough(code, pc)
  BY DEF Advances
<1>2. /\ h[pc] \in Nat /\ Len(stack) = h[pc]
      /\ pc + 1 \in DOMAIN code.inst
      /\ h[pc + 1] = h[pc] - Takes + Left(code, pc)
      /\ code.inst[pc + 1].op \in Packing => Current.op = "PUSH"
  BY <1>1, HereBalanced
<1>3. pc \in DOMAIN code.inst /\ code.inst \in Seq(Instruction)
  BY DEF RunInv, Balanced
<1>4. pc \in Nat \ {0}
  BY <1>3
<1>5. /\ IsList(stack')
      /\ Len(stack') = h[pc + 1]
      /\ Current.op = "PUSH" => stack'[Len(stack')].n = Current.arg
  BY <1>2 DEF Advances
<1>6. Balanced(code', func'.void)
  BY <1>1 DEF RunInv
<1>7. CountOnTop'
  <2> SUFFICES ASSUME code.inst[pc + 1].op \in Packing
               PROVE  /\ pc + 1 > 1
                      /\ Len(stack') > 0
                      /\ stack'[Len(stack') - 0].n = code.inst[(pc + 1) - 1].arg
    BY <1>1, Zenon DEF CountOnTop, Current, Under
  <2>1. Current.op = "PUSH"
    BY <1>2
  <2>2. Len(stack') > 0
    <3>1. Takes = 0 /\ Left(code, pc) = 1
      BY <2>1 DEF Takes, TakesAt, Left, Current, Operations, Silent
    <3> QED  BY <1>2, <1>5, <3>1
  <2>3. stack'[Len(stack')].n = code.inst[pc].arg
    BY <1>5, <2>1 DEF Current
  <2>4. Len(stack') - 0 = Len(stack') /\ (pc + 1) - 1 = pc /\ pc + 1 > 1
    BY <1>2, <1>4, <1>5, <2>2
  <2> QED  BY <2>2, <2>3, <2>4
<1>8. \A p \in DOMAIN heights' : heights'[p] = h[p]
  BY <1>2 DEF NoteHeight, RunInv
<1> HIDE DEF h
<1>9. HeightsOf(code') = h
  BY <1>1 DEF h
<1> QED
  BY <1>1, <1>2, <1>5, <1>6, <1>7, <1>8, <1>9, Zenon DEF RunInv

\* A step that pushes what it returns after it has taken its operands, one
\* that only takes them, and one that leaves the stack alone.
LEMMA PushAdvances ==
  ASSUME RunInv, NEW v, Pushes(v), Proceed, FallsThrough(code, pc),
         Left(code, pc) = 1, Current.op = "PUSH" => v.n = Current.arg
  PROVE  Advances
<1>1. Takes \in 0..Len(stack) /\ IsList(stack) /\ Len(stack) \in Nat
  BY HereBalanced DEF RunInv
<1> DEFINE rest == Rest(Takes)
<1>2. IsList(rest) /\ Len(rest) = Len(stack) - Takes
  BY <1>1, RestIsList DEF Rest
<1>3. stack' = Append(rest, v)
  BY DEF Pushes
<1> HIDE DEF rest
<1>4. /\ IsList(Append(rest, v))
      /\ Len(Append(rest, v)) = Len(rest) + 1
      /\ Append(rest, v)[Len(Append(rest, v))] = v
  BY <1>2, PushIsList
<1> QED  BY <1>2, <1>3, <1>4 DEF Advances, Proceed

LEMMA TakeAdvances ==
  ASSUME RunInv, stack' = Rest(Takes), Proceed, FallsThrough(code, pc),
         Left(code, pc) = 0, Current.op # "PUSH"
  PROVE  Advances
<1>1. Takes \in 0..Len(stack) /\ IsList(stack) /\ Len(stack) \in Nat
  BY HereBalanced DEF RunInv
<1>2. IsList(Rest(Takes)) /\ Len(Rest(Takes)) = Len(stack) - Takes
  BY <1>1, RestIsList DEF Rest
<1> QED  BY <1>1, <1>2 DEF Advances, Proceed

LEMMA StayAdvances ==
  ASSUME RunInv, UNCHANGED stack, Proceed, FallsThrough(code, pc),
         Takes = 0, Left(code, pc) = 0, Current.op # "PUSH"
  PROVE  Advances
<1>1. IsList(stack) /\ Len(stack) \in Nat
  BY HereBalanced DEF RunInv
<1> QED  BY <1>1 DEF Advances, Proceed

LEMMA EnterRoutineAdvances ==
  ASSUME RunInv, EnterRoutine
  PROVE  Advances
<1>1. Current.op = "INITSLOT" /\ UNCHANGED stack /\ Proceed
  BY DEF EnterRoutine, At
<1>2. FallsThrough(code, pc) /\ Takes = 0 /\ Left(code, pc) = 0
  BY <1>1 DEF FallsThrough, Takes, TakesAt, Left, Current, Operations
<1> QED  BY <1>1, <1>2, StayAdvances

LEMMA PushConstantAdvances ==
  ASSUME RunInv, PushConstant
  PROVE  Advances
<1> DEFINE v == CASE Current.op = "PUSH"     -> Num(Current.arg)
                  [] Current.op = "PUSHDATA" -> Text(Current.arg)
                  [] OTHER                   -> Null
<1>1. Current.op \in {"PUSH", "PUSHDATA", "PUSHNULL"} /\ Pushes(v) /\ Proceed
  BY DEF PushConstant, At
<1>2. FallsThrough(code, pc) /\ Left(code, pc) = 1
  BY <1>1 DEF FallsThrough, Left, Current, Operations
<1>3. Current.op = "PUSH" => v.n = Current.arg
  BY DEF Num
<1> HIDE DEF v
<1> QED  BY <1>1, <1>2, <1>3, PushAdvances

LEMMA LoadAdvances ==
  ASSUME RunInv, Load
  PROVE  Advances
<1> DEFINE v == IF Current.op = "LDLOC" THEN locals[Current.arg] ELSE args[Current.arg]
<1>1. Current.op \in {"LDLOC", "LDARG"} /\ Pushes(v) /\ Proceed
  BY DEF Load, At
<1>2. FallsThrough(code, pc) /\ Left(code, pc) = 1
  BY <1>1 DEF FallsThrough, Left, Current, Operations
<1> HIDE DEF v
<1> QED  BY <1>1, <1>2, PushAdvances

LEMMA StoreStepAdvances ==
  ASSUME RunInv, Store
  PROVE  Advances
<1>1. Current.op \in {"STLOC", "STARG"} /\ stack' = Rest(1) /\ Proceed
  BY DEF Store, At
<1>2. FallsThrough(code, pc) /\ Takes = 1 /\ Left(code, pc) = 0
  BY <1>1 DEF FallsThrough, Takes, TakesAt, Left, Current, Operations
<1> QED  BY <1>1, <1>2, TakeAdvances

LEMMA RearrangeAdvances ==
  ASSUME RunInv, Rearrange
  PROVE  Advances
<1>1. /\ Current.op \in {"DUP", "DROP", "SWAP"} /\ Proceed /\ Takes <= Len(stack)
      /\ stack' = CASE Current.op = "DUP"  -> Append(stack, Under(0))
                    [] Current.op = "DROP" -> Rest(1)
                    [] OTHER               -> Rest(2) \o Popped(2)
  BY DEF Rearrange, At, Sound
<1>2. IsList(stack) /\ Len(stack) \in Nat
  BY HereBalanced DEF RunInv
<1>3. FallsThrough(code, pc) /\ Current.op # "PUSH"
  BY <1>1 DEF FallsThrough, Current
<1>4. CASE Current.op = "DUP"
  <2>1. Takes = 1 /\ Left(code, pc) = 2
    BY <1>4 DEF Takes, TakesAt, Left, Current, Operations
  <2>2. IsList(stack') /\ Len(stack') = Len(stack) + 1
    <3>1. stack' = Append(stack, Under(0))
      BY <1>1, <1>4
    <3>2. \A v : IsList(Append(stack, v)) /\ Len(Append(stack, v)) = Len(stack) + 1
      BY <1>2, PushIsList
    <3> QED  BY <3>1, <3>2
  <2> QED  BY <1>1, <1>2, <1>3, <2>1, <2>2 DEF Advances, Proceed
<1>5. CASE Current.op = "DROP"
  <2>1. Takes = 1 /\ Left(code, pc) = 0
    BY <1>5 DEF Takes, TakesAt, Left, Current, Operations
  <2>2. stack' = Rest(1)
    BY <1>1, <1>5
  <2> QED  BY <1>1, <1>3, <2>1, <2>2, TakeAdvances
<1>6. CASE Current.op = "SWAP"
  <2>1. Takes = 2 /\ Left(code, pc) = 2
    BY <1>6 DEF Takes, TakesAt, Left, Current, Operations
  <2>2. stack' = SubSeq(stack, 1, Len(stack) - 2)
                   \o [i \in 1..2 |-> IF i = 1 THEN Under(0) ELSE Under(1)]
    <3>1. stack' = Rest(2) \o Popped(2)
      BY <1>1, <1>6
    <3>2. Popped(2) = [i \in 1..2 |-> IF i = 1 THEN Under(0) ELSE Under(1)]
      <4>1. \A i \in 1..2 : Under(i - 1) = IF i = 1 THEN Under(0) ELSE Under(1)
        <5> TAKE i \in 1..2
        <5>1. (i = 1 /\ i - 1 = 0) \/ (i = 2 /\ i - 1 = 1)
          OBVIOUS
        <5> QED  BY <5>1
      <4> QED  BY <4>1 DEF Popped
    <3> QED  BY <3>1, <3>2 DEF Rest
  <2>3. \A a, b :
          LET t == SubSeq(stack, 1, Len(stack) - 2)
                     \o [i \in 1..2 |-> IF i = 1 THEN a ELSE b]
          IN  IsList(t) /\ Len(t) = Len(stack)
    BY <1>1, <1>2, <2>1, SwapIsList
  <2>4. IsList(stack') /\ Len(stack') = Len(stack)
    BY <2>2, <2>3
  <2> QED  BY <1>1, <1>2, <1>3, <2>1, <2>4 DEF Advances, Proceed
<1> QED  BY <1>1, <1>4, <1>5, <1>6

LEMMA ComputeAdvances ==
  ASSUME RunInv, Compute
  PROVE  Advances
<1>1. /\ Current.op \in Operations /\ Proceed
      /\ IF Current.op \in Silent
         THEN stack' = Rest(Takes)
         ELSE Pushes(Operated(heap, Current.op, Pushed(Takes)))
  BY DEF Compute, At
<1>2. FallsThrough(code, pc) /\ Current.op # "PUSH"
  BY <1>1 DEF FallsThrough, Current, Operations
<1>3. CASE Current.op \in Silent
  <2>1. Left(code, pc) = 0
    BY <1>3 DEF Left, Current, Operations, Silent
  <2> QED  BY <1>1, <1>2, <1>3, <2>1, TakeAdvances
<1>4. CASE Current.op \notin Silent
  <2>1. Left(code, pc) = 1
    BY <1>1, <1>4 DEF Left, Current, Operations
  <2>2. PICK v : Pushes(v)
    BY <1>1, <1>4
  <2> QED  BY <1>1, <1>2, <2>1, <2>2, PushAdvances
<1> QED  BY <1>3, <1>4

LEMMA ConvertAdvances ==
  ASSUME RunInv, Convert
  PROVE  Advances
<1>1. Current.op = "CONVERT" /\ Proceed /\ \E v : Pushes(v)
  BY DEF Convert, At
<1>2. FallsThrough(code, pc) /\ Left(code, pc) = 1
  BY <1>1 DEF FallsThrough, Left, Current, Operations
<1> QED  BY <1>1, <1>2, PushAdvances

LEMMA ConcatenateAdvances ==
  ASSUME RunInv, Concatenate
  PROVE  Advances
<1>1. Current.op = "CAT" /\ Proceed /\ \E v : Pushes(v)
  BY DEF Concatenate, At
<1>2. FallsThrough(code, pc) /\ Left(code, pc) = 1
  BY <1>1 DEF FallsThrough, Left, Current, Operations
<1> QED  BY <1>1, <1>2, PushAdvances

LEMMA CollectAdvances ==
  ASSUME RunInv, Collect
  PROVE  Advances
<1>1. Current.op \in {"PACK", "PACKMAP"} /\ Proceed /\ \E v : Pushes(v)
  BY DEF Collect, At
<1>2. FallsThrough(code, pc) /\ Left(code, pc) = 1
  BY <1>1 DEF FallsThrough, Left, Current, Operations
<1> QED  BY <1>1, <1>2, PushAdvances

LEMMA PutItemAdvances ==
  ASSUME RunInv, PutItem
  PROVE  Advances
<1>1. Current.op = "SETITEM" /\ Proceed /\ stack' = Rest(3)
  BY DEF PutItem, At
<1>2. FallsThrough(code, pc) /\ Takes = 3 /\ Left(code, pc) = 0
  BY <1>1 DEF FallsThrough, Takes, TakesAt, Left, Current, Operations
<1> QED  BY <1>1, <1>2, TakeAdvances

LEMMA InvokeAdvances ==
  ASSUME RunInv, Invoke
  PROVE  Advances
<1>1. /\ Current.op = "CALL_L" /\ Proceed
      /\ IF Callee \in VoidFunctions THEN stack' = Rest(Takes) ELSE \E v : Pushes(v)
  BY DEF Invoke, At
<1>2. FallsThrough(code, pc) /\ Current.op # "PUSH"
  BY <1>1 DEF FallsThrough, Current
<1>3. Left(code, pc) = IF Callee \in VoidFunctions THEN 0 ELSE 1
  BY <1>1 DEF Left, Callee, Current, Operations
<1> QED  BY <1>1, <1>2, <1>3, PushAdvances, TakeAdvances

\* The system calls that return nothing, and those that do.
LEMMA SyscallAdvances ==
  ASSUME RunInv, Notify \/ Ask \/ ReadStorage \/ WriteStorage
  PROVE  Advances
<1>1. Current.op = "SYSCALL" /\ Proceed
  BY DEF Notify, Ask, ReadStorage, WriteStorage, AtSyscall, At
<1>2. FallsThrough(code, pc) /\ Current.op # "PUSH"
  BY <1>1 DEF FallsThrough, Current
<1>3. Left(code, pc) =
        IF Current.arg \in {Syscalls[n] : n \in {"get", "getTime", "call"}} THEN 1 ELSE 0
  BY <1>1 DEF Left, Current, Operations
<1>4. CASE Ask \/ ReadStorage
  <2>1. Left(code, pc) = 1
    BY <1>3, <1>4 DEF Ask, ReadStorage, AtSyscall, Syscall
  <2>2. \E v : Pushes(v)
    BY <1>4 DEF Ask, ReadStorage
  <2> QED  BY <1>1, <1>2, <2>1, <2>2, PushAdvances
<1>5. CASE Notify \/ WriteStorage
  <2>1. Left(code, pc) = 0
    BY <1>3, <1>5 DEF Notify, WriteStorage, AtSyscall, Syscall, Syscalls
  <2>2. stack' = Rest(Takes)
    BY <1>5 DEF Notify, WriteStorage
  <2> QED  BY <1>1, <1>2, <2>1, <2>2, TakeAdvances
<1> QED  BY <1>4, <1>5

\* A jump that is taken arrives at the height that its destination has, and
\* one that is not taken goes on.
LEMMA BranchKeepsInv ==
  ASSUME RunInv, status = "run", Branch, NoteHeight, UNCHANGED func
  PROVE  RunInv'
<1> DEFINE h == HeightsOf(code)
           d == Destination(code, pc)
<1>1. /\ Current.op \in Jumping /\ stack' = Rest(Takes)
      /\ code' = code /\ status' = status
      /\ pc' = IF Jumps THEN d ELSE pc + 1
  BY DEF Branch, At, Jumping, Destination, Current
<1>2. CASE Jumps
  <2>1. /\ h[pc] \in Nat /\ Len(stack) = h[pc] /\ Takes \in 0..Len(stack)
        /\ d \in DOMAIN code.inst
        /\ h[d] = h[pc] - Takes
        /\ code.inst[d].op \notin Packing
    BY <1>1, HereBalanced
  <2>2. IsList(stack') /\ Len(stack') = Len(stack) - Takes
    <3>1. IsList(stack)
      BY DEF RunInv
    <3> QED  BY <1>1, <2>1, <3>1, RestIsList DEF Rest
  <2> HIDE DEF d, h
  <2>3. pc' = d /\ Balanced(code', func'.void) /\ Len(stack') = h[d]
    BY <1>1, <1>2, <2>1, <2>2 DEF RunInv
  <2>4. CountOnTop'
    BY <1>1, <2>1, <2>3 DEF CountOnTop, Current
  <2>5. \A p \in DOMAIN heights' : heights'[p] = h[p]
    BY <2>1 DEF NoteHeight, RunInv, h
  <2>6. HeightsOf(code') = h
    BY <1>1 DEF h
  <2> QED
    BY <1>1, <2>1, <2>2, <2>3, <2>4, <2>5, <2>6, Zenon DEF RunInv
<1>3. CASE ~Jumps
  <2>1. Current.op \notin {"JMP", "JMP_L"}
    BY <1>3 DEF Jumps
  <2>2. FallsThrough(code, pc) /\ Current.op # "PUSH" /\ Left(code, pc) = 0
    BY <1>1, <2>1 DEF FallsThrough, Jumping, Left, Current, Operations
  <2>3. Proceed
    BY <1>1, <1>3 DEF Proceed
  <2> QED  BY <1>1, <2>2, <2>3, TakeAdvances, AdvanceKeepsInv
<1> QED  BY <1>2, <1>3

LEMMA StopKeepsInv ==
  ASSUME RunInv, Finish \/ Fault, NoteHeight, UNCHANGED func
  PROVE  RunInv'
<1>1. /\ UNCHANGED <<code, pc, stack, func>>
      /\ status' = "halt" => Current.op = "RET"
  BY DEF Finish, Fault, At
<1>2. \A p \in DOMAIN heights' : heights'[p] = HeightsOf(code)[p]
  BY DEF NoteHeight, RunInv
<1>3. CountOnTop'
  BY <1>1 DEF RunInv, CountOnTop, Current, Under
<1>4. HeightsOf(code') = HeightsOf(code)
  BY <1>1
<1> QED  BY <1>1, <1>2, <1>3, <1>4, Zenon DEF RunInv, Current

LEMMA InitKeepsInv ==
  ASSUME RunInit
  PROVE  RunInv
<1>1. /\ Balanced(code, func.void) /\ pc = 1 /\ stack = <<>> /\ status = "run"
      /\ heights = [p \in {} |-> 0]
  BY DEF RunInit
<1>2. /\ code.inst \in Seq(Instruction) /\ code.inst # <<>>
      /\ HeightsOf(code)[1] = 0
  BY <1>1 DEF Balanced
<1>3. pc \in DOMAIN code.inst
  BY <1>1, <1>2
<1>4. code.inst[pc].op \notin Packing
  BY <1>1, <1>3 DEF Balanced
<1>5. IsList(stack) /\ Len(stack) = 0
  <2>1. stack \in Seq({})
    BY <1>1
  <2> QED  BY <1>1, <2>1 DEF IsList
<1> QED  BY <1>1, <1>2, <1>3, <1>4, <1>5 DEF RunInv, CountOnTop, Current

LEMMA StepKeepsInv ==
  ASSUME RunInv, [RunStep]_<<machine, func, heights>>
  PROVE  RunInv'
<1>1. CASE UNCHANGED <<machine, func, heights>>
  <2>1. UNCHANGED <<code, pc, stack, status, func, heights>>
    BY <1>1 DEF machine
  <2> QED
    BY <2>1 DEF RunInv, CountOnTop, Current, Under
<1>2. CASE RunStep
  <2>1. MachineStep /\ NoteHeight /\ UNCHANGED func
    BY <1>2 DEF RunStep
  <2>2. CASE Finish \/ Fault
    BY <2>1, <2>2, StopKeepsInv
  <2>3. CASE Branch
    <3>1. status = "run"
      BY <2>3 DEF Branch, At, Inside
    <3> QED  BY <2>1, <2>3, <3>1, BranchKeepsInv
  <2>4. CASE ~(Finish \/ Fault \/ Branch)
    <3>1. Advances
      BY <2>1, <2>4, EnterRoutineAdvances, PushConstantAdvances, LoadAdvances,
         StoreStepAdvances, RearrangeAdvances, ComputeAdvances, ConvertAdvances,
         ConcatenateAdvances, CollectAdvances, PutItemAdvances, InvokeAdvances,
         SyscallAdvances, Zenon DEF MachineStep
    <3>2. status = "run"
      BY <2>1, <2>4
         DEF MachineStep, EnterRoutine, PushConstant, Load, Store, Rearrange,
             Compute, Convert, Concatenate, Collect, PutItem, Invoke, Notify,
             Ask, ReadStorage, WriteStorage, AtSyscall, At, Inside
    <3> QED  BY <2>1, <3>1, <3>2, AdvanceKeepsInv
  <2> QED  BY <2>2, <2>3, <2>4
<1> QED  BY <1>1, <1>2

\* The invariant that the four results rest on.
THEOREM RunsStayBalanced == RunSpec => []RunInv
<1>1. RunInit => RunInv
  BY InitKeepsInv
<1>2. RunInv /\ [RunStep]_<<machine, func, heights>> => RunInv'
  BY StepKeepsInv
<1> QED  BY <1>1, <1>2, PTL DEF RunSpec

-----------------------------------------------------------------------------
(* What follows for the runs. *)

\* A balanced routine finds the stack at one height at each of its positions,
\* whatever path it took: compile_expr and compile_stmt leave no value of a
\* branch behind and take none that is not there.
THEOREM HeightsAgreeInRuns == RunSpec => []HeightsAgree
<1>1. RunInv => HeightsAgree
  BY DEF RunInv, HeightsAgree
<1> QED  BY <1>1, RunsStayBalanced, PTL

\* A balanced routine never lacks an operand: if it faults, it is for what
\* its operands are.
THEOREM OperandsPresentInRuns == RunSpec => []OperandsPresent
<1>1. RunInv => OperandsPresent
  <2> SUFFICES ASSUME RunInv PROVE Takes <= Len(stack)
    BY DEF OperandsPresent
  <2>1. Takes \in 0..Len(stack) /\ Len(stack) \in Nat
    BY HereBalanced
  <2> QED  BY <2>1
<1> QED  BY <1>1, RunsStayBalanced, PTL

\* A balanced routine returns with its value alone on the stack, and a void
\* one with nothing.
THEOREM ReturnsItsValueInRuns == RunSpec => []ReturnsItsValue
<1>1. RunInv => ReturnsItsValue
  <2> SUFFICES ASSUME RunInv, status = "halt"
               PROVE  Len(stack) = IF func.void THEN 0 ELSE 1
    BY DEF ReturnsItsValue
  <2>1. Current.op = "RET"
    BY DEF RunInv
  <2> QED  BY <2>1, HereBalanced
<1> QED  BY <1>1, RunsStayBalanced, PTL

\* Control stays inside a balanced routine until it returns.
THEOREM StaysInsideInRuns == RunSpec => []StaysInside
<1>1. RunInv => StaysInside
  BY DEF RunInv, StaysInside
<1> QED  BY <1>1, RunsStayBalanced, PTL
=============================================================================
