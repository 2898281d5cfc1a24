--------------------------- MODULE BindingProofs ---------------------------
(***************************************************************************)
(* The linker implements CallBinding, for any files and any range of the   *)
(* operands: the safety part of the refinement that Linker states.         *)
(***************************************************************************)
EXTENDS LinkerProofs

-----------------------------------------------------------------------------
(* What the refinement needs beside IInv. *)

\* A call that has been patched is within reach of its callee.
OperandsFit ==
  phase \in {"routine", "calls", "linked"} =>
    \A q \in 1..Len(program) : \A p \in DOMAIN program[q].patches :
       Done(q, p) =>
         FitsI32(routines[q].inst[program[q].patches[p].at].rels[1])

\* A routine gives its entries up when its turn comes.
Emptied ==
  phase \in {"routine", "calls", "linked"} =>
    \A q \in 1..Len(program) :
       q < r \/ (phase = "calls" /\ q = r) => routines[q].patches = <<>>

BInv == IInv /\ OperandsFit /\ Emptied

LEMMA EntryFacts ==
  ASSUME IInv, NEW q \in 1..Len(program), NEW p \in DOMAIN program[q].patches
  PROVE  /\ p \in 1..Len(program[q].patches)
         /\ Len(program[q].patches) \in Nat
         /\ program[q].patches[p].at \in 1..Len(program[q].inst)
         /\ program[q].inst[program[q].patches[p].at].op = "CALL_L"
         /\ \A j \in DOMAIN program[q].patches :
               program[q].patches[p].at = program[q].patches[j].at => p = j
<1>1. Linkable(program[q]) /\ program[q].inst \in Seq(Instruction)
      /\ program[q].patches \in Seq(Patch)
  BY ProgramFacts DEF IInv
<1> QED  BY <1>1 DEF Linkable

LEMMA SameNumber == IInv => Len(program) \in Nat /\ Len(routines) = Len(program)
                            /\ DOMAIN program = 1..Len(program)
                            /\ DOMAIN routines = 1..Len(program)
                            /\ r \in 1..(Len(program) + 1)
<1> SUFFICES ASSUME IInv
             PROVE  Len(program) \in Nat /\ Len(routines) = Len(program)
                    /\ DOMAIN program = 1..Len(program)
                    /\ DOMAIN routines = 1..Len(program)
                    /\ r \in 1..(Len(program) + 1)
  OBVIOUS
<1>1. program \in Seq(NamedRoutine) /\ routines \in Seq(NamedRoutine)
  BY ProgramFacts DEF IInv, TypeOK
<1>2. Len(routines) = Len(program) /\ r \in 1..(Len(routines) + 1)
  BY DEF IInv, TypeOK, LayoutKept, SameShape
<1> QED  BY <1>1, <1>2

-----------------------------------------------------------------------------
(* BInv is an invariant. *)

LEMMA BindingInit == Init => BInv
BY InitHolds DEF Init, BInv, OperandsFit, Emptied

LEMMA EndRegisterBinds ==
  ASSUME BInv, EndRegister
  PROVE  OperandsFit' /\ Emptied'
<1>1. phase' = "routine" /\ r' = 1
  BY DEF EndRegister
<1> QED  BY <1>1 DEF OperandsFit, Emptied, Done

LEMMA TakePatchesBinds ==
  ASSUME BInv, TakePatches
  PROVE  OperandsFit' /\ Emptied'
<1>1. /\ phase = "routine" /\ phase' = "calls" /\ r \in DOMAIN routines
      /\ routines' = Taken(routines, r) /\ todo' = routines[r].patches
      /\ program' = program /\ r' = r
  BY DEF TakePatches, Taken
<1>2. /\ routines \in Seq(NamedRoutine) /\ r \in 1..Len(routines)
      /\ r \in 1..Len(program) /\ Len(routines) = Len(program)
  BY <1>1, SameNumber DEF BInv, IInv, TypeOK
<1>3. /\ \A c \in 1..Len(routines) : c # r => routines'[c] = routines[c]
      /\ routines'[r].inst = routines[r].inst
      /\ routines'[r].patches = <<>>
  BY <1>1, <1>2, TakenFacts
<1>4. todo' = program[r].patches
  BY <1>1, <1>2 DEF BInv, IInv, CallsDone, TypeOK
<1>5. ASSUME NEW q \in 1..Len(program), NEW p \in DOMAIN program[q].patches,
             Done(q, p)'
      PROVE  FitsI32(routines'[q].inst[program[q].patches[p].at].rels[1])
  <2>1. p \in 1..Len(program[q].patches) /\ Len(program[q].patches) \in Nat
    BY EntryFacts DEF BInv
  <2>2. Done(q, p)
    BY <1>1, <1>4, <1>5, <2>1 DEF Done
  <2>3. routines'[q].inst = routines[q].inst
    BY <1>2, <1>3
  <2> QED  BY <1>1, <2>2, <2>3 DEF BInv, OperandsFit
<1>6. OperandsFit'
  BY <1>1, <1>5 DEF OperandsFit
<1>7. Emptied'
  BY <1>1, <1>2, <1>3 DEF BInv, Emptied
<1> QED  BY <1>6, <1>7

LEMMA PatchCallBinds ==
  ASSUME BInv, PatchCall
  PROVE  OperandsFit' /\ Emptied'
<1> DEFINE k == todo[1].at
           sym == todo[1].sym
           n == Len(program[r].patches) - Len(todo) + 1
           rel == Relative(k, sym)
<1>1. /\ phase = "calls" /\ phase' = "calls" /\ todo # <<>>
      /\ todo' = Tail(todo)
      /\ program' = program /\ r' = r
      /\ r \in 1..Len(program)
      /\ n \in 1..Len(program[r].patches)
      /\ todo[1] = program[r].patches[n]
      /\ k \in 1..Len(program[r].inst)
      /\ FitsI32(rel)
      /\ Len(routines) = Len(program)
      /\ WrittenAt(routines, routines', r, k, rel)
  BY PatchCallFacts DEF BInv
<1>2. todo \in Seq(Patch) /\ Len(todo') = Len(todo) - 1 /\ Len(todo) \in Nat \ {0}
  BY <1>1 DEF BInv, IInv, TypeOK
<1>3. program[r].patches[n].at = k
  BY <1>1
<1>4. Len(program[r].patches) - Len(todo') = n
  <2>1. Len(program[r].patches) \in Nat
    <3>1. program[r].patches \in Seq(Patch)
      BY <1>1, ProgramFacts DEF BInv, IInv
    <3> QED  BY <3>1
  <2> QED  BY <1>2, <2>1
<1>5. Len(program[r].patches) - Len(todo) = n - 1 /\ n \in Nat
  <2>1. Len(program[r].patches) \in Nat
    BY <1>1, ProgramFacts DEF BInv, IInv
  <2> QED  BY <1>1, <1>2, <2>1
<1> HIDE DEF k, sym, n, rel
<1>6. ASSUME NEW q \in 1..Len(program), NEW p \in DOMAIN program[q].patches,
             Done(q, p)'
      PROVE  FitsI32(routines'[q].inst[program[q].patches[p].at].rels[1])
  <2>1. p \in Nat /\ q \in Nat
    BY EntryFacts, SameNumber DEF BInv
  <2>2. CASE q = r /\ p = n
    BY <1>1, <1>3, <2>2 DEF WrittenAt
  <2>3. CASE ~(q = r /\ p = n)
    <3>1. Done(q, p)
      BY <1>1, <1>4, <1>5, <1>6, <2>1, <2>3 DEF Done
    <3>2. /\ program[q].patches[p].at \in 1..Len(program[q].inst)
          /\ q = r => program[q].patches[p].at # k
      <4>1. program[q].patches[p].at \in 1..Len(program[q].inst)
        BY EntryFacts DEF BInv
      <4>2. n \in DOMAIN program[r].patches
        BY <1>1, ProgramFacts DEF BInv, IInv
      <4>3. q = r => program[q].patches[p].at # k
        BY <1>1, <1>3, <2>3, <4>2, EntryFacts DEF BInv
      <4> QED  BY <4>1, <4>3
    <3>3. Len(routines[q].inst) = Len(program[q].inst)
      BY DEF BInv, IInv, LayoutKept, SameShape
    <3>4. routines'[q].inst[program[q].patches[p].at] =
            routines[q].inst[program[q].patches[p].at]
      BY <1>1, <3>2, <3>3 DEF WrittenAt
    <3> QED  BY <1>1, <3>1, <3>4 DEF BInv, OperandsFit
  <2> QED  BY <2>2, <2>3
<1>7. OperandsFit'
  BY <1>1, <1>6 DEF OperandsFit
<1>8. \A q \in 1..Len(program) : routines'[q].patches = routines[q].patches
  BY <1>1 DEF WrittenAt
<1>9. Emptied'
  BY <1>1, <1>8 DEF BInv, Emptied
<1> QED  BY <1>7, <1>9

LEMMA EndRoutineBinds ==
  ASSUME BInv, EndRoutine \/ Finish
  PROVE  /\ OperandsFit' /\ Emptied'
         /\ \A q \in 1..Len(program) : \A p \in DOMAIN program[q].patches :
               Done(q, p)' <=> Done(q, p)
<1>1. /\ phase = "calls" => phase' = "routine" /\ r' = r + 1 /\ todo = <<>>
      /\ phase # "calls" => phase = "routine" /\ phase' = "linked" /\ r' = r
      /\ routines' = routines /\ program' = program /\ todo' = todo
  BY DEF EndRoutine, Finish
<1>2. r \in Nat /\ Len(program) \in Nat
  BY SameNumber DEF BInv
<1>3. ASSUME NEW q \in 1..Len(program), NEW p \in DOMAIN program[q].patches
      PROVE  Done(q, p)' <=> Done(q, p)
  <2>1. p \in 1..Len(program[q].patches) /\ Len(program[q].patches) \in Nat
        /\ q \in Nat
    BY <1>2, EntryFacts DEF BInv
  <2> QED  BY <1>1, <1>2, <2>1 DEF Done
<1>4. OperandsFit'
  <2> SUFFICES ASSUME NEW q \in 1..Len(program),
                      NEW p \in DOMAIN program[q].patches, Done(q, p)'
               PROVE  FitsI32(routines[q].inst[program[q].patches[p].at].rels[1])
    BY <1>1 DEF OperandsFit
  <2>1. Done(q, p) /\ phase \in {"routine", "calls"}
    BY <1>1, <1>3
  <2> QED  BY <2>1 DEF BInv, OperandsFit
<1>5. Emptied'
  BY <1>1, <1>2 DEF BInv, Emptied
<1> QED  BY <1>3, <1>4, <1>5

LEMMA BindingStep == BInv /\ [Next]_vars => BInv'
<1> SUFFICES ASSUME BInv, [Next]_vars
             PROVE  BInv'
  OBVIOUS
<1>1. IInv'
  BY RegisterStep, EndRegisterStep, TakePatchesStep, PatchCallStep,
     EndRoutineStep, FinishStep, FailStep, StutterStep DEF Next, BInv
<1>2. CASE Register \/ RejectDuplicate \/ RejectCall
  <2>1. phase' \in {"register", "failed"}
    BY <1>2 DEF Register, RejectDuplicate, RejectCall, Fail
  <2> QED  BY <1>1, <2>1 DEF BInv, OperandsFit, Emptied
<1>3. CASE EndRegister
  BY <1>1, <1>3, EndRegisterBinds DEF BInv
<1>4. CASE TakePatches
  BY <1>1, <1>4, TakePatchesBinds DEF BInv
<1>5. CASE PatchCall
  BY <1>1, <1>5, PatchCallBinds DEF BInv
<1>6. CASE EndRoutine \/ Finish
  BY <1>1, <1>6, EndRoutineBinds DEF BInv
<1>7. CASE UNCHANGED vars
  BY <1>1, <1>7 DEF vars, BInv, OperandsFit, Emptied, Done
<1> QED
  BY <1>2, <1>3, <1>4, <1>5, <1>6, <1>7 DEF Next

-----------------------------------------------------------------------------
(* Calls and their entries. *)

LEMMA SiteOfEntry ==
  ASSUME IInv, NEW q \in 1..Len(program), NEW p \in DOMAIN program[q].patches
  PROVE  /\ <<q, program[q].patches[p].at>> \in CallSites
         /\ CalledFrom(<<q, program[q].patches[p].at>>) = program[q].patches[p].sym
<1> DEFINE site == <<q, program[q].patches[p].at>>
<1>1. q \in DOMAIN program
  BY SameNumber
<1>2. site \in CallSites
  BY <1>1 DEF CallSites, EntriesOf
<1>3. PICK j \in DOMAIN program[q].patches :
         /\ program[q].patches[j].at = program[q].patches[p].at
         /\ CalledFrom(site) = program[q].patches[j].sym
  BY DEF CalledFrom
<1>4. j = p
  BY <1>3, EntryFacts
<1> QED  BY <1>2, <1>3, <1>4

LEMMA EntryOfSite ==
  ASSUME IInv, NEW site \in CallSites
  PROVE  \E q \in 1..Len(program) : \E p \in DOMAIN program[q].patches :
            site = <<q, program[q].patches[p].at>>
BY SameNumber DEF CallSites, EntriesOf

\* After the first loop the calls that are pending are those not done.
PendingAgrees ==
  phase \in {"routine", "calls", "linked"} =>
    \A q \in 1..Len(program) : \A p \in DOMAIN program[q].patches :
       <<q, program[q].patches[p].at>> \in Pending <=> ~Done(q, p)

LEMMA PendingIsNotDone == BInv => PendingAgrees
<1> SUFFICES ASSUME BInv, phase \in {"routine", "calls", "linked"},
                    NEW q \in 1..Len(program),
                    NEW p \in DOMAIN program[q].patches
             PROVE  <<q, program[q].patches[p].at>> \in Pending <=> ~Done(q, p)
  BY DEF PendingAgrees
<1> DEFINE site == <<q, program[q].patches[p].at>>
           left == Len(program[r].patches) - Len(todo)
<1>1. /\ DOMAIN routines = 1..Len(program) /\ r \in 1..(Len(program) + 1)
      /\ Len(program) \in Nat /\ q \in Nat
  BY SameNumber DEF BInv
<1>2. /\ p \in 1..Len(program[q].patches) /\ Len(program[q].patches) \in Nat
      /\ DOMAIN program[q].patches = 1..Len(program[q].patches)
      /\ \A j \in DOMAIN program[q].patches :
            program[q].patches[p].at = program[q].patches[j].at => p = j
  BY EntryFacts, ProgramFacts DEF BInv, IInv
<1>3. /\ todo \in Seq(Patch) /\ Len(todo) \in Nat /\ DOMAIN todo = 1..Len(todo)
      /\ phase # "calls" => todo = <<>>
  BY DEF BInv, IInv, TypeOK
<1>4. phase = "calls" =>
        /\ r \in 1..Len(program)
        /\ Len(todo) <= Len(program[r].patches)
        /\ \A j \in 1..Len(todo) : todo[j] = program[r].patches[left + j]
        /\ \A c \in 1..Len(program) : c > r => routines[c].patches = program[c].patches
  BY <1>1 DEF BInv, IInv, CallsDone
<1>5. phase = "routine" =>
        \A c \in 1..Len(program) : c >= r => routines[c].patches = program[c].patches
  BY DEF BInv, IInv, CallsDone
<1>6. phase = "linked" => r = Len(program) + 1
  BY DEF BInv, IInv, CallsDone
<1>7. ASSUME site \in Pending, Done(q, p)  PROVE FALSE
  <2>1. CASE \E c \in DOMAIN routines : site \in EntriesOf(routines, c)
    <3>1. \E j \in DOMAIN routines[q].patches : TRUE
      BY <2>1 DEF EntriesOf
    <3>2. routines[q].patches = <<>>
      BY <1>7 DEF Done, BInv, Emptied
    <3> QED  BY <3>1, <3>2
  <2>2. CASE \E j \in DOMAIN todo : site = <<r, todo[j].at>>
    <3>1. PICK j \in 1..Len(todo) : site = <<r, todo[j].at>>
      BY <1>3, <2>2
    <3>2. phase = "calls" /\ q = r
      BY <1>3, <3>1
    <3>3. left + j \in 1..Len(program[q].patches) /\ left \in Nat
      BY <1>2, <1>3, <1>4, <3>2
    <3>4. program[q].patches[left + j].at = program[q].patches[p].at
      BY <1>4, <3>1, <3>2
    <3>5. p = left + j
      BY <1>2, <3>3, <3>4
    <3>6. p <= left
      BY <1>1, <1>7, <3>2 DEF Done
    <3> QED  BY <3>3, <3>5, <3>6
  <2> QED  BY <1>7, <2>1, <2>2 DEF Pending
<1>8. ASSUME ~Done(q, p)  PROVE site \in Pending
  <2>1. q >= r
    BY <1>1, <1>8 DEF Done
  <2>2. CASE phase = "routine" \/ q > r
    <3>1. routines[q].patches = program[q].patches
      BY <1>1, <1>4, <1>5, <1>6, <2>1, <2>2
    <3>2. site \in EntriesOf(routines, q)
      BY <3>1 DEF EntriesOf
    <3> QED  BY <1>1, <3>2 DEF Pending
  <2>3. CASE phase # "routine" /\ q = r
    <3>1. phase = "calls"
      BY <1>1, <1>6, <2>3
    <3>2. ~(p <= left) /\ left \in Nat
      BY <1>2, <1>3, <1>4, <1>8, <2>3, <3>1 DEF Done
    <3>3. p - left \in 1..Len(todo) /\ left + (p - left) = p
      BY <1>2, <1>3, <1>4, <2>3, <3>1, <3>2
    <3>4. todo[p - left] = program[q].patches[p]
      BY <1>4, <2>3, <3>1, <3>3
    <3>5. site \in {<<r, todo[j].at>> : j \in DOMAIN todo}
      BY <1>3, <2>3, <3>3, <3>4
    <3> QED  BY <3>5 DEF Pending
  <2> QED  BY <1>1, <2>1, <2>2, <2>3
<1> QED  BY <1>7, <1>8

-----------------------------------------------------------------------------
(* The refinement, step by step. *)

\* Where the calls that are not pending lead, and how far linking has come:
\* what CallBinding sees of the linker.
BoundCalls ==
  [site \in CallSites \ Pending |-> Designates(routines, site[1], site[2])]
Status == IF phase \in {"linked", "failed"} THEN phase ELSE "linking"

LEMMA FileKept ==
  ASSUME program' = program
  PROVE  /\ UNCHANGED Binding!file
         /\ CallSites' = CallSites
<1>1. CallSites' = CallSites
  BY DEF CallSites, EntriesOf
<1>2. \A site : CalledFrom(site)' = CalledFrom(site)
  BY DEF CalledFrom
<1>3. WithinReach' = WithinReach
  BY <1>1, <1>2 DEF WithinReach, Start, Address
<1> QED
  BY <1>1, <1>2, <1>3 DEF Binding!file, Start

\* A step that CallBinding does not see.
LEMMA Unseen ==
  ASSUME program' = program, BoundCalls' = BoundCalls, Status' = Status
  PROVE  UNCHANGED Binding!vars
BY FileKept DEF Binding!vars, Binding!file, BoundCalls, Status

\* The layout is that of the program, whatever has been patched.
LEMMA ProgramLayout ==
  ASSUME IInv
  PROVE  /\ \A q : Start(routines, q) = Start(program, q)
         /\ \A q \in 1..Len(program) : \A k :
               /\ Offset(routines[q].inst, k) = Offset(program[q].inst, k)
               /\ Address(routines, q, k) = Address(program, q, k)
         /\ \A q \in 1..Len(program) : Start(program, q) \in Nat
         /\ \A q \in 1..Len(program) : \A k \in 1..Len(program[q].inst) :
               Address(program, q, k) \in Nat
<1>1. /\ routines \in Seq(NamedRoutine) /\ program \in Seq(NamedRoutine)
      /\ Len(routines) = Len(program)
  BY ProgramFacts, SameNumber DEF IInv, TypeOK
<1>2. SameLengths(routines, program)
  BY <1>1, LayoutSame DEF IInv, LayoutKept
<1>3. /\ \A q : Start(routines, q) = Start(program, q)
      /\ \A q \in 1..Len(program) : \A k :
            Offset(routines[q].inst, k) = Offset(program[q].inst, k)
  BY <1>1, <1>2, SameLayout
<1>4. \A q \in 1..Len(program) : Start(program, q) \in Nat
  BY <1>1, StartSteps
<1>5. \A q \in 1..Len(program) : \A k \in 1..Len(program[q].inst) :
         Offset(program[q].inst, k) \in Nat
  BY ProgramFacts, OffsetSteps DEF IInv
<1>6. \A q \in 1..Len(program) : \A k \in 1..Len(program[q].inst) :
         Address(program, q, k) \in Nat
  <2>1. \A a, b \in Nat : a + b \in Nat
    OBVIOUS
  <2> QED  BY <1>4, <1>5, <2>1 DEF Address
<1>7. \A q \in 1..Len(program) : \A k :
         Address(routines, q, k) = Address(program, q, k)
  BY <1>3 DEF Address
<1> QED  BY <1>3, <1>4, <1>6, <1>7

\* After the first loop every routine has a name of its own, and the table
\* knows where it starts.
LEMMA TableFacts ==
  ASSUME IInv, phase \in {"routine", "calls", "linked"}
  PROVE  /\ \A q, c \in 1..Len(program) :
               program[q].sym = program[c].sym => q = c
         /\ DOMAIN offsets = {program[q].sym : q \in 1..Len(program)}
         /\ \A q \in 1..Len(program) :
               /\ routines[q].sym = program[q].sym
               /\ offsets[program[q].sym] = Start(program, q)
<1>1. Registered = 1..Len(program)
  BY SameNumber DEF Registered
<1>2. \A q \in 1..Len(program) : routines[q].sym = program[q].sym
  BY DEF IInv, LayoutKept, SameShape
<1>3. /\ \A q, c \in 1..Len(program) : routines[q].sym = routines[c].sym => q = c
      /\ DOMAIN offsets = {routines[q].sym : q \in 1..Len(program)}
      /\ \A q \in 1..Len(program) : offsets[routines[q].sym] = Start(routines, q)
  BY <1>1 DEF IInv, SymbolTable, OffsetsAreStarts
<1> QED  BY <1>2, <1>3, ProgramLayout, SMTT(30)

LEMMA BoundKept ==
  ASSUME BInv, BInv', program' = program,
         phase \in {"routine", "calls"}, phase' \in {"routine", "calls", "linked"},
         \A q \in 1..Len(program) : \A p \in DOMAIN program[q].patches :
            Done(q, p)' <=> Done(q, p),
         \A q \in 1..Len(program) : routines'[q].inst = routines[q].inst
  PROVE  BoundCalls' = BoundCalls
<1>1. PendingAgrees /\ PendingAgrees'
  <2>1. BInv => PendingAgrees
    BY PendingIsNotDone
  <2>2. (BInv => PendingAgrees)'
    BY PendingIsNotDone, PTL
  <2> QED  BY <2>1, <2>2
<1>2. CallSites' = CallSites
  BY FileKept
<1>3. ASSUME NEW site \in CallSites
      PROVE  /\ site \in Pending' <=> site \in Pending
             /\ Designates(routines', site[1], site[2]) =
                  Designates(routines, site[1], site[2])
  <2>0. PICK q \in 1..Len(program) : \E p \in DOMAIN program[q].patches :
           site = <<q, program[q].patches[p].at>>
    BY EntryOfSite DEF BInv
  <2>1. PICK p \in DOMAIN program[q].patches :
           site = <<q, program[q].patches[p].at>>
    BY <2>0
  <2>2. site \in Pending' <=> site \in Pending
    BY <1>1, <2>1 DEF PendingAgrees
  <2>3. /\ Start(routines', q) = Start(routines, q)
        /\ routines'[q].inst = routines[q].inst
    BY <2>1, NothingMoves DEF BInv, IInv
  <2>4. site[1] = q
    BY <2>1
  <2> QED  BY <2>2, <2>3, <2>4 DEF Designates, Address
<1> QED  BY <1>2, <1>3 DEF BoundCalls

-----------------------------------------------------------------------------
(* Steps that bind no call. *)

LEMMA RegisterUnseen ==
  ASSUME BInv, Register \/ EndRegister
  PROVE  UNCHANGED Binding!vars
<1>1. /\ program' = program /\ routines' = routines /\ todo' = todo
      /\ phase = "register" /\ phase' \in {"register", "routine"}
  BY DEF Register, EndRegister
<1>2. todo = <<>>
  BY <1>1 DEF BInv, IInv, TypeOK
<1>3. Pending' = Pending
  BY <1>1, <1>2 DEF Pending, EntriesOf
<1>4. CallSites' = CallSites
  BY <1>1, FileKept
<1>5. BoundCalls' = BoundCalls
  BY <1>1, <1>3, <1>4 DEF BoundCalls
<1> QED  BY <1>1, <1>5, Unseen DEF Status

LEMMA TakePatchesUnseen ==
  ASSUME BInv, BInv', TakePatches
  PROVE  UNCHANGED Binding!vars
<1>1. /\ phase = "routine" /\ phase' = "calls" /\ r \in DOMAIN routines
      /\ routines' = Taken(routines, r) /\ todo' = routines[r].patches
      /\ program' = program /\ r' = r
  BY DEF TakePatches, Taken
<1>2. /\ routines \in Seq(NamedRoutine) /\ r \in 1..Len(routines)
      /\ r \in 1..Len(program) /\ Len(routines) = Len(program)
  BY <1>1, SameNumber DEF BInv, IInv, TypeOK
<1>3. \A q \in 1..Len(program) : routines'[q].inst = routines[q].inst
  BY <1>1, <1>2, TakenFacts
<1>4. todo' = program[r].patches
  BY <1>1, <1>2 DEF BInv, IInv, CallsDone, TypeOK
<1>5. ASSUME NEW q \in 1..Len(program), NEW p \in DOMAIN program[q].patches
      PROVE  Done(q, p)' <=> Done(q, p)
  <2>1. p \in 1..Len(program[q].patches) /\ Len(program[q].patches) \in Nat
    BY EntryFacts DEF BInv
  <2> QED  BY <1>1, <1>4, <2>1 DEF Done
<1>6. BoundCalls' = BoundCalls
  BY <1>1, <1>3, <1>5, BoundKept
<1> QED  BY <1>1, <1>6, Unseen DEF Status

LEMMA EndRoutineUnseen ==
  ASSUME BInv, BInv', EndRoutine
  PROVE  UNCHANGED Binding!vars
<1>1. /\ phase = "calls" /\ phase' = "routine"
      /\ routines' = routines /\ program' = program
  BY DEF EndRoutine
<1>2. BoundCalls' = BoundCalls
  BY <1>1, EndRoutineBinds, BoundKept
<1> QED  BY <1>1, <1>2, Unseen DEF Status

-----------------------------------------------------------------------------
(* Steps that bind a call, finish or fail. *)

LEMMA PatchCallBindsOne ==
  ASSUME BInv, BInv', PatchCall
  PROVE  \E site \in CallSites \ (CallSites \ Pending) : Binding!Bind(site)
<1> DEFINE k == todo[1].at
           sym == todo[1].sym
           n == Len(program[r].patches) - Len(todo) + 1
           rel == Relative(k, sym)
<1>1. /\ phase = "calls" /\ phase' = "calls" /\ todo # <<>>
      /\ todo' = Tail(todo)
      /\ program' = program /\ r' = r
      /\ r \in 1..Len(program)
      /\ n \in 1..Len(program[r].patches)
      /\ todo[1] = program[r].patches[n]
      /\ sym \in DOMAIN offsets
      /\ Len(routines) = Len(program)
      /\ WrittenAt(routines, routines', r, k, rel)
  BY PatchCallFacts DEF BInv
<1>2. /\ todo \in Seq(Patch) /\ Len(todo') = Len(todo) - 1
      /\ Len(todo) \in Nat \ {0}
  BY <1>1 DEF BInv, IInv, TypeOK
<1>3. /\ Len(program[r].patches) - Len(todo') = n
      /\ Len(program[r].patches) - Len(todo) = n - 1 /\ n \in Nat
  <2>1. Len(program[r].patches) \in Nat
    BY <1>1, ProgramFacts DEF BInv, IInv
  <2> QED  BY <1>1, <1>2, <2>1
<1>4. program[r].patches[n].at = k /\ program[r].patches[n].sym = sym
  BY <1>1
<1> HIDE DEF k, sym, n, rel
<1>5. PICK C \in 1..Len(program) : program[C].sym = sym
  BY <1>1, TableFacts DEF BInv
<1>6. PICK R, N, K, S :
         /\ R = r /\ N = n /\ K = k /\ S = sym
         /\ program[R].patches[N].at = K /\ program[R].patches[N].sym = S
         /\ WrittenAt(routines, routines', R, K, rel)
  BY <1>1, <1>4
<1>7. R \in 1..Len(program) /\ N \in DOMAIN program[R].patches
  BY <1>1, <1>6, ProgramFacts DEF BInv, IInv
<1> DEFINE site == <<R, K>>
<1>8. site \in CallSites /\ CalledFrom(site) = S
  BY <1>6, <1>7, SiteOfEntry DEF BInv
<1>9. PendingAgrees /\ PendingAgrees'
  <2>1. BInv => PendingAgrees
    BY PendingIsNotDone
  <2>2. (BInv => PendingAgrees)'
    BY PendingIsNotDone, PTL
  <2> QED  BY <2>1, <2>2
<1>10. ~Done(R, N) /\ Done(R, N)'
  <2>1. R \in Nat
    BY <1>7, SameNumber DEF BInv
  <2> QED  BY <1>1, <1>3, <1>6, <2>1 DEF Done
<1>11. site \in Pending /\ site \notin Pending'
  BY <1>1, <1>6, <1>7, <1>9, <1>10 DEF PendingAgrees
<1>12. ASSUME NEW other \in CallSites, other # site
       PROVE  /\ other \in Pending' <=> other \in Pending
              /\ Designates(routines', other[1], other[2]) =
                   Designates(routines, other[1], other[2])
  <2>1. PICK q \in 1..Len(program) : \E p \in DOMAIN program[q].patches :
           other = <<q, program[q].patches[p].at>>
    BY EntryOfSite DEF BInv
  <2>2. PICK p \in DOMAIN program[q].patches :
           other = <<q, program[q].patches[p].at>>
    BY <2>1
  <2>3. ~(q = R /\ p = N)
    BY <1>6, <1>12, <2>2
  <2>4. Done(q, p)' <=> Done(q, p)
    <3>1. p \in Nat /\ q \in Nat /\ R \in Nat
      BY <1>7, EntryFacts, SameNumber DEF BInv
    <3> QED  BY <1>1, <1>3, <1>6, <2>3, <3>1 DEF Done
  <2>5. other \in Pending' <=> other \in Pending
    BY <1>1, <1>9, <2>2, <2>4 DEF PendingAgrees
  <2>6. program[q].patches[p].at \in 1..Len(routines[q].inst)
    BY EntryFacts DEF BInv, IInv, LayoutKept, SameShape
  <2>7. routines'[q].inst[program[q].patches[p].at] =
          routines[q].inst[program[q].patches[p].at]
    BY <1>1, <1>6, <1>12, <2>2, <2>6 DEF WrittenAt
  <2>8. /\ Start(routines', q) = Start(routines, q)
        /\ \A j : Offset(routines'[q].inst, j) = Offset(routines[q].inst, j)
    BY <1>1, NothingMoves DEF BInv, IInv
  <2>9. other[1] = q /\ other[2] = program[q].patches[p].at
    BY <2>2
  <2> QED  BY <2>5, <2>7, <2>8, <2>9 DEF Designates, Address
<1>13. Designates(routines', R, K) = Start(program, C)
  <2>1. ReachesCallee(R, N)'
    BY <1>1, <1>7, <1>10 DEF BInv, IInv, CallsDone
  <2>2. C \in DOMAIN program /\ program[C].sym = S
    BY <1>5, <1>6, SameNumber DEF BInv
  <2>3. Designates(routines', R, K) = Start(routines', C)
    BY <1>1, <1>6, <2>1, <2>2 DEF ReachesCallee
  <2>4. Start(routines', C) = Start(routines, C)
    BY <1>1, NothingMoves DEF BInv, IInv
  <2> QED  BY <2>3, <2>4, ProgramLayout DEF BInv
<1>14. CallSites' = CallSites /\ UNCHANGED Binding!file
  BY <1>1, FileKept
<1>15. site[1] = R /\ site[2] = K
  OBVIOUS
<1> HIDE DEF site
<1>16. BoundCalls' = [s \in DOMAIN BoundCalls \cup {site} |->
                        IF s = site THEN Start(program, C) ELSE BoundCalls[s]]
  BY <1>8, <1>11, <1>12, <1>13, <1>14, <1>15 DEF BoundCalls
<1>17. /\ Status = "linking" /\ Status' = "linking"
       /\ \A q, c \in 1..Len(program) : program[q].sym = program[c].sym => q = c
       /\ DOMAIN program = 1..Len(program)
  BY <1>1, TableFacts, SameNumber DEF Status, BInv
<1>18. Binding!Bind(site)
  <2> DEFINE names == [q \in DOMAIN program |-> program[q].sym]
             entries == [q \in DOMAIN program |-> Start(program, q)]
             calls == [s \in CallSites |-> CalledFrom(s)]
  <2>1. /\ C \in DOMAIN names /\ names[C] = calls[site]
        /\ entries[C] = Start(program, C)
    BY <1>5, <1>6, <1>8, <1>17
  <2>2. Binding!OneNameEach
    BY <1>17 DEF Binding!OneNameEach
  <2> HIDE DEF names, entries, calls
  <2>3. \E c \in DOMAIN names :
           /\ names[c] = calls[site]
           /\ BoundCalls' = [s \in DOMAIN BoundCalls \cup {site} |->
                               IF s = site THEN entries[c] ELSE BoundCalls[s]]
    BY <1>16, <2>1
  <2> QED
    BY <1>14, <1>17, <2>2, <2>3
       DEF Binding!Bind, BoundCalls, Status, names, entries, calls
<1> QED  BY <1>8, <1>11, <1>18

\* What a linked script has to satisfy, from what linking has done.
LEMMA FinishFinishes ==
  ASSUME BInv, BInv', Finish
  PROVE  Binding!Finish
<1>1. /\ phase = "routine" /\ phase' = "linked"
      /\ program' = program /\ routines' = routines /\ r \notin DOMAIN routines
  BY DEF Finish
<1>2. /\ r = Len(program) + 1 /\ Len(program) \in Nat
      /\ DOMAIN program = 1..Len(program)
  BY <1>1, SameNumber DEF BInv
<1>3. \A q \in 1..Len(program) : \A p : Done(q, p)
  BY <1>2 DEF Done
<1>4. ASSUME NEW q \in 1..Len(program), NEW p \in DOMAIN program[q].patches
      PROVE  /\ <<q, program[q].patches[p].at>> \notin Pending
             /\ ReachesCallee(q, p)
             /\ FitsI32(routines[q].inst[program[q].patches[p].at].rels[1])
  BY <1>1, <1>3, PendingIsNotDone
     DEF BInv, IInv, CallsDone, OperandsFit, PendingAgrees
<1>5. \A site \in CallSites : site \notin Pending
  BY <1>4, EntryOfSite DEF BInv
<1>6. \A site \in CallSites : \E c \in 1..Len(program) :
         program[c].sym = CalledFrom(site)
  <2> SUFFICES ASSUME NEW q \in 1..Len(program),
                      NEW p \in DOMAIN program[q].patches
               PROVE  \E c \in 1..Len(program) :
                        program[c].sym = CalledFrom(<<q, program[q].patches[p].at>>)
    BY EntryOfSite DEF BInv
  <2> QED  BY <1>2, <1>4, SiteOfEntry DEF BInv, ReachesCallee
<1>7. WithinReach
  <2> SUFFICES ASSUME NEW site \in CallSites, NEW c \in 1..Len(program),
                      program[c].sym = CalledFrom(site)
               PROVE  FitsI32(Start(program, c)
                                - Address(program, site[1], site[2]))
    BY <1>2 DEF WithinReach
  <2>1. PICK q \in 1..Len(program) : \E p \in DOMAIN program[q].patches :
           site = <<q, program[q].patches[p].at>>
    BY EntryOfSite DEF BInv
  <2>2. PICK p \in DOMAIN program[q].patches :
           site = <<q, program[q].patches[p].at>>
    BY <2>1
  <2>3. PICK k : k = program[q].patches[p].at
    OBVIOUS
  <2>4. site[1] = q /\ site[2] = k
    BY <2>2, <2>3
  <2>5. program[c].sym = program[q].patches[p].sym
    BY <2>2, SiteOfEntry DEF BInv
  <2>6. Designates(routines, q, k) = Start(routines, c)
    BY <1>2, <1>4, <2>3, <2>5 DEF ReachesCallee
  <2>7. /\ Start(routines, c) = Start(program, c)
        /\ Address(routines, q, k) = Address(program, q, k)
        /\ Start(program, c) \in Nat /\ Address(program, q, k) \in Nat
    BY <2>3, ProgramLayout, EntryFacts DEF BInv
  <2>8. /\ routines[q].inst[k].rels[1] \in Int
        /\ FitsI32(routines[q].inst[k].rels[1])
    <3>1. FitsI32(routines[q].inst[k].rels[1])
      BY <1>4, <2>3
    <3>2. \A rel : FitsI32(rel) => rel \in Int
      BY RelLimitAssumption DEF FitsI32
    <3> QED  BY <3>1, <3>2
  <2>9. \A a, b, d \in Int : a + b = d => d - a = b
    OBVIOUS
  <2>10. Start(program, c) - Address(program, q, k) = routines[q].inst[k].rels[1]
    BY <2>6, <2>7, <2>8, <2>9 DEF Designates
  <2> QED  BY <2>4, <2>8, <2>10
<1>8. \A q, c \in 1..Len(program) : program[q].sym = program[c].sym => q = c
  BY <1>1, TableFacts DEF BInv
<1>9. Binding!Resolvable
  BY <1>2, <1>6, <1>7, <1>8
     DEF Binding!Resolvable, Binding!OneNameEach, Binding!Named
<1>10. BoundCalls' = BoundCalls
  BY <1>1, EndRoutineBinds, BoundKept
<1>11. DOMAIN BoundCalls = CallSites
  BY <1>5 DEF BoundCalls
<1>12. /\ Status = "linking" /\ Status' = "linked"
       /\ UNCHANGED Binding!file
  BY <1>1, FileKept DEF Status
<1> QED
  BY <1>9, <1>10, <1>11, <1>12 DEF Binding!Finish, BoundCalls, Status

\* A name that is taken already.
LEMMA DuplicateFails ==
  ASSUME BInv, RejectDuplicate
  PROVE  ~Binding!Resolvable
<1>1. /\ phase = "register" /\ r \in 1..Len(program)
      /\ routines[r].sym \in DOMAIN offsets
      /\ DOMAIN program = 1..Len(program) /\ Len(program) \in Nat
  BY SameNumber DEF RejectDuplicate, BInv
<1>2. DOMAIN offsets = {routines[q].sym : q \in 1..(r - 1)}
  BY <1>1 DEF BInv, IInv, SymbolTable, Registered
<1>3. PICK q \in 1..(r - 1) : routines[q].sym = routines[r].sym
  BY <1>1, <1>2
<1>4. q \in 1..Len(program) /\ q # r
  BY <1>1
<1>5. program[q].sym = program[r].sym
  BY <1>1, <1>3, <1>4 DEF BInv, IInv, LayoutKept, SameShape
<1>6. ~Binding!OneNameEach
  BY <1>1, <1>4, <1>5 DEF Binding!OneNameEach
<1> QED  BY <1>6 DEF Binding!Resolvable

\* A call of nothing, or one too far from its callee.
LEMMA UnpatchableFails ==
  ASSUME BInv, RejectCall
  PROVE  ~Binding!Resolvable
<1> SUFFICES ASSUME Binding!Resolvable PROVE FALSE
  OBVIOUS
<1>1. phase = "calls" /\ todo # <<>> /\ ~Patchable(todo[1])
  BY DEF RejectCall
<1>2. PICK n, k, sym :
         /\ n = Len(program[r].patches) - Len(todo) + 1
         /\ k = todo[1].at /\ sym = todo[1].sym
  OBVIOUS
<1>3. /\ r \in 1..Len(program) /\ n \in 1..Len(program[r].patches)
      /\ program[r].patches[n] = todo[1]
  BY <1>1, <1>2, HeadFacts DEF BInv
<1>4. n \in DOMAIN program[r].patches /\ program[r].patches[n].at = k
      /\ program[r].patches[n].sym = sym
  BY <1>2, <1>3, ProgramFacts DEF BInv, IInv
<1>5. k \in 1..Len(program[r].inst) /\ program[r].inst[k].op = "CALL_L"
  BY <1>3, <1>4, EntryFacts DEF BInv
<1>6. k \in DOMAIN routines[r].inst /\ routines[r].inst[k].op = "CALL_L"
  <2>1. /\ Len(routines[r].inst) = Len(program[r].inst)
        /\ routines[r].inst[k].op = program[r].inst[k].op
    BY <1>3, <1>5 DEF BInv, IInv, LayoutKept, SameShape
  <2>2. routines[r].inst \in Seq(Instruction)
    BY <1>3, SameNumber, RoutineFacts DEF BInv, IInv
  <2> QED  BY <1>5, <2>1, <2>2
<1>7. /\ <<r, k>> \in CallSites /\ CalledFrom(<<r, k>>) = sym
  BY <1>3, <1>4, SiteOfEntry DEF BInv
<1>8. DOMAIN program = 1..Len(program)
  BY SameNumber DEF BInv
<1>9. PICK c \in 1..Len(program) : program[c].sym = sym
  BY <1>7, <1>8 DEF Binding!Resolvable, Binding!Named
<1>10. WithinReach
  BY DEF Binding!Resolvable
<1>11. FitsI32(Start(program, c) - Address(program, r, k))
  <2>1. <<r, k>>[1] = r /\ <<r, k>>[2] = k
    OBVIOUS
  <2> QED  BY <1>7, <1>8, <1>9, <1>10, <2>1 DEF WithinReach
<1>12. /\ sym \in DOMAIN offsets
       /\ offsets[sym] = Start(program, c)
       /\ offsets[routines[r].sym] = Start(program, r)
  BY <1>1, <1>3, <1>9, TableFacts DEF BInv
<1>13. Relative(k, sym) = Start(program, c) - Address(program, r, k)
  BY <1>3, <1>12, ProgramLayout DEF Relative, Address, BInv
<1> QED
  BY <1>1, <1>2, <1>6, <1>11, <1>12, <1>13 DEF Patchable

LEMMA FailFails ==
  ASSUME BInv, RejectDuplicate \/ RejectCall
  PROVE  Binding!Fail
<1>1. /\ phase \in {"register", "calls"} /\ phase' = "failed"
      /\ program' = program /\ routines' = routines /\ r' = r /\ todo' = todo
  BY DEF RejectDuplicate, RejectCall, Fail
<1>2. /\ UNCHANGED Binding!file
      /\ CallSites' = CallSites
  BY <1>1, FileKept
<1>3. Pending' = Pending
  BY <1>1 DEF Pending, EntriesOf
<1>4. BoundCalls' = BoundCalls
  BY <1>1, <1>2, <1>3 DEF BoundCalls
<1>5. Status = "linking" /\ Status' = "failed"
  BY <1>1 DEF Status
<1> QED
  BY <1>2, <1>4, <1>5, DuplicateFails, UnpatchableFails
     DEF Binding!Fail, BoundCalls, Status

-----------------------------------------------------------------------------
(* The theorem. *)

LEMMA InitRefines == Init => Binding!Init
<1> SUFFICES ASSUME Init PROVE Binding!Init
  OBVIOUS
<1>1. phase = "register" /\ routines = program /\ todo = <<>>
  BY DEF Init
<1>2. CallSites \ Pending = {}
  BY <1>1 DEF CallSites, Pending
<1> QED  BY <1>1, <1>2 DEF Binding!Init

LEMMA NextRefines ==
  ASSUME BInv, BInv', [Next]_vars
  PROVE  [Binding!Next]_(Binding!vars)
<1>1. CASE Register \/ EndRegister
  BY <1>1, RegisterUnseen
<1>2. CASE TakePatches
  BY <1>2, TakePatchesUnseen
<1>3. CASE EndRoutine
  BY <1>3, EndRoutineUnseen
<1>4. CASE PatchCall
  BY <1>4, PatchCallBindsOne DEF Binding!Next
<1>5. CASE Finish
  BY <1>5, FinishFinishes DEF Binding!Next
<1>6. CASE RejectDuplicate \/ RejectCall
  BY <1>6, FailFails DEF Binding!Next
<1>7. CASE UNCHANGED vars
  <2>1. /\ program' = program /\ routines' = routines /\ r' = r
        /\ todo' = todo /\ phase' = phase
    BY <1>7 DEF vars
  <2>2. CallSites' = CallSites
    BY <2>1, FileKept
  <2>3. Pending' = Pending
    BY <2>1 DEF Pending, EntriesOf
  <2>4. BoundCalls' = BoundCalls /\ Status' = Status
    BY <2>1, <2>2, <2>3 DEF BoundCalls, Status
  <2> QED  BY <2>1, <2>4, Unseen
<1> QED
  BY <1>1, <1>2, <1>3, <1>4, <1>5, <1>6, <1>7 DEF Next

\* For any files, the linker does nothing but what CallBinding allows: it
\* binds each call to the entry of the routine it names, links only when all
\* are bound, and fails only when two routines share a name, a call names
\* none, or a callee is out of reach.
THEOREM Refinement == Spec => ImplementsBinding
<1>1. Spec => []BInv
  BY BindingInit, BindingStep, PTL DEF Spec
<1>2. BInv /\ BInv' /\ [Next]_vars => [Binding!Next]_(Binding!vars)
  BY NextRefines
<1> QED
  BY <1>1, <1>2, InitRefines, PTL DEF Spec, ImplementsBinding, Binding!Spec
=============================================================================
