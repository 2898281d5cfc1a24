---------------------------- MODULE LinkerProofs ----------------------------
(***************************************************************************)
(* Proofs about the linker, for any files and any range of the operands.   *)
(***************************************************************************)
EXTENDS Linker, BytecodeProofs

-----------------------------------------------------------------------------
(* Layout. *)

LEMMA ScriptLenNat ==
  ASSUME NEW s \in Seq(Instruction)
  PROVE  ScriptLen(s) \in Nat
<1>1. Len(s) + 1 \in 1..(Len(s) + 1)
  OBVIOUS
<1> QED  BY <1>1, OffsetSteps DEF ScriptLen

\* A routine starts where the one before it ends.
LEMMA StartSteps ==
  ASSUME NEW rs \in Seq(NamedRoutine)
  PROVE  /\ Start(rs, 1) = 0
         /\ \A q \in 1..(Len(rs) + 1) : Start(rs, q) \in Nat
         /\ \A q \in 1..Len(rs) :
               Start(rs, q + 1) = Start(rs, q) + ScriptLen(rs[q].inst)
<1>1. \A q \in 1..Len(rs) : ScriptLen(rs[q].inst) \in Nat
  <2> SUFFICES ASSUME NEW q \in 1..Len(rs)
               PROVE  ScriptLen(rs[q].inst) \in Nat
    OBVIOUS
  <2>1. rs[q] \in NamedRoutine
    OBVIOUS
  <2>2. rs[q].inst \in Seq(Instruction)
    BY <2>1 DEF NamedRoutine
  <2> QED  BY <2>2, ScriptLenNat
<1>2. RoutineLengths(rs) \in [1..Len(rs) -> Nat]
  BY <1>1 DEF RoutineLengths
<1>3. RoutineLengths(rs) \in Seq(Nat) /\ Len(RoutineLengths(rs)) = Len(rs)
  BY <1>2, FunctionIsSeq
<1>4. \A q \in 1..Len(rs) : RoutineLengths(rs)[q] = ScriptLen(rs[q].inst)
  BY DEF RoutineLengths
<1>5. IsSums(RoutineLengths(rs), PrefixSums(RoutineLengths(rs)), Len(rs))
  BY <1>3, SumsCorrect
<1> QED
  BY <1>3, <1>4, <1>5 DEF IsSums, Start

\* Routines whose instructions have the same lengths are laid out alike.
SameLengths(rs, ts) ==
  /\ Len(rs) = Len(ts)
  /\ \A q \in 1..Len(rs) : Lengths(rs[q].inst) = Lengths(ts[q].inst)

LEMMA SameLayout ==
  ASSUME NEW rs \in Seq(NamedRoutine), NEW ts \in Seq(NamedRoutine),
         SameLengths(rs, ts)
  PROVE  /\ \A q : Start(rs, q) = Start(ts, q)
         /\ \A q \in 1..Len(rs) : \A k :
               Offset(rs[q].inst, k) = Offset(ts[q].inst, k)
<1>1. \A q \in 1..Len(rs) : \A k :
         Offset(rs[q].inst, k) = Offset(ts[q].inst, k)
  BY OffsetOfLengths DEF SameLengths
<1>2. \A q \in 1..Len(rs) : Len(rs[q].inst) = Len(ts[q].inst)
  <2> SUFFICES ASSUME NEW q \in 1..Len(rs)
               PROVE  Len(rs[q].inst) = Len(ts[q].inst)
    OBVIOUS
  <2>1. rs[q] \in NamedRoutine /\ ts[q] \in NamedRoutine
    BY DEF SameLengths
  <2>2. rs[q].inst \in Seq(Instruction) /\ ts[q].inst \in Seq(Instruction)
    BY <2>1 DEF NamedRoutine
  <2>3. DOMAIN Lengths(rs[q].inst) = DOMAIN Lengths(ts[q].inst)
    BY DEF SameLengths
  <2>4. 1..Len(rs[q].inst) = 1..Len(ts[q].inst)
    BY <2>2, <2>3 DEF Lengths
  <2> QED  BY <2>2, <2>4
<1>3. \A q \in 1..Len(rs) : ScriptLen(rs[q].inst) = ScriptLen(ts[q].inst)
  BY <1>1, <1>2 DEF ScriptLen
<1>4. RoutineLengths(rs) = RoutineLengths(ts)
  BY <1>3 DEF RoutineLengths, SameLengths
<1> QED
  BY <1>1, <1>4 DEF Start

-----------------------------------------------------------------------------
(* Types. *)

\* What writing an operand leaves as it was.
Patched(rs, q, k, rel) == [rs EXCEPT ![q].inst[k].rels = <<rel>>]

\* ts is rs but for the operand of instruction k of routine q.
WrittenAt(rs, ts, q, k, rel) ==
  /\ Len(ts) = Len(rs)
  /\ \A c \in 1..Len(rs) : c # q => ts[c] = rs[c]
  /\ ts[q].sym = rs[q].sym
  /\ ts[q].patches = rs[q].patches
  /\ Len(ts[q].inst) = Len(rs[q].inst)
  /\ ts[q].inst[k].op = rs[q].inst[k].op
  /\ ts[q].inst[k].arg = rs[q].inst[k].arg
  /\ ts[q].inst[k].rels = <<rel>>
  /\ \A j \in 1..Len(rs[q].inst) : j # k => ts[q].inst[j] = rs[q].inst[j]

LEMMA PatchedFacts ==
  ASSUME NEW rs \in Seq(NamedRoutine), NEW q \in 1..Len(rs),
         NEW k \in 1..Len(rs[q].inst), NEW rel \in Int,
         NEW ts, ts = Patched(rs, q, k, rel)
  PROVE  ts \in Seq(NamedRoutine) /\ WrittenAt(rs, ts, q, k, rel)
<1> DEFINE ins == [rs[q].inst[k] EXCEPT !.rels = <<rel>>]
           body == [rs[q].inst EXCEPT ![k] = ins]
           routine == [rs[q] EXCEPT !.inst = body]
<1>1. rs[q] \in NamedRoutine
  OBVIOUS
<1>2. /\ rs[q].inst \in Seq(Instruction)
      /\ rs[q].sym \in Symbols
      /\ rs[q].patches \in Seq(Patch)
  BY <1>1 DEF NamedRoutine
<1>3. rs[q].inst[k] \in Instruction
  BY <1>2
<1>4. <<rel>> \in Seq(Int)
  OBVIOUS
<1>5. /\ ins \in Instruction
      /\ ins.op = rs[q].inst[k].op /\ ins.arg = rs[q].inst[k].arg
      /\ ins.rels = <<rel>>
  BY <1>3, <1>4 DEF Instruction
<1>6. ts = [rs EXCEPT ![q] = routine]
  BY DEF Patched
<1> HIDE DEF ins
<1>7. /\ body \in Seq(Instruction)
      /\ Len(body) = Len(rs[q].inst)
      /\ body[k] = ins
      /\ \A j \in 1..Len(rs[q].inst) : j # k => body[j] = rs[q].inst[j]
  BY <1>2, <1>5, ReplaceFacts
<1> HIDE DEF body
<1>8. /\ routine \in NamedRoutine
      /\ routine.sym = rs[q].sym
      /\ routine.patches = rs[q].patches
      /\ routine.inst = body
  BY <1>1, <1>7 DEF NamedRoutine
<1> HIDE DEF routine
<1>9. /\ ts \in Seq(NamedRoutine)
      /\ Len(ts) = Len(rs)
      /\ ts[q] = routine
      /\ \A c \in 1..Len(rs) : c # q => ts[c] = rs[c]
  BY <1>6, <1>8, ReplaceFacts
<1> QED
  BY <1>5, <1>7, <1>8, <1>9 DEF WrittenAt

\* Taking the patches of routine q.
Taken(rs, q) == [rs EXCEPT ![q].patches = <<>>]

LEMMA TakenFacts ==
  ASSUME NEW rs \in Seq(NamedRoutine), NEW q \in 1..Len(rs),
         NEW ts, ts = Taken(rs, q)
  PROVE  /\ ts \in Seq(NamedRoutine)
         /\ Len(ts) = Len(rs)
         /\ \A c \in 1..Len(rs) : c # q => ts[c] = rs[c]
         /\ ts[q].sym = rs[q].sym
         /\ ts[q].inst = rs[q].inst
         /\ ts[q].patches = <<>>
<1> DEFINE routine == [rs[q] EXCEPT !.patches = <<>>]
<1>1. rs[q] \in NamedRoutine
  OBVIOUS
<1>2. <<>> \in Seq(Patch)
  OBVIOUS
<1>3. /\ routine \in NamedRoutine
      /\ routine.sym = rs[q].sym
      /\ routine.inst = rs[q].inst
      /\ routine.patches = <<>>
  BY <1>1, <1>2 DEF NamedRoutine
<1>4. ts = [rs EXCEPT ![q] = routine]
  BY DEF Taken
<1> HIDE DEF routine
<1> QED
  BY <1>3, <1>4, ReplaceFacts

\* The operand that PatchCall writes.
LEMMA RelativeInt ==
  ASSUME TypeOK, r \in 1..Len(routines),
         NEW k \in 1..Len(routines[r].inst),
         NEW sym \in DOMAIN offsets, routines[r].sym \in DOMAIN offsets
  PROVE  Relative(k, sym) \in Int
<1>1. routines[r] \in NamedRoutine
  BY DEF TypeOK
<1>2. routines[r].inst \in Seq(Instruction)
  BY <1>1 DEF NamedRoutine
<1>3. Offset(routines[r].inst, k) \in Nat
  BY <1>2, OffsetSteps
<1>4. offsets[sym] \in Nat /\ offsets[routines[r].sym] \in Nat
  BY DEF TypeOK
<1> QED
  BY <1>3, <1>4 DEF Relative

-----------------------------------------------------------------------------
(* The inductive invariant. *)

\* The program is one of Programs, and linking changes operands and empties
\* the lists of patches, nothing else.
SameShape(rs, prog) ==
  /\ Len(rs) = Len(prog)
  /\ \A q \in 1..Len(prog) :
        /\ rs[q].sym = prog[q].sym
        /\ Len(rs[q].inst) = Len(prog[q].inst)
        /\ \A k \in 1..Len(prog[q].inst) :
              /\ rs[q].inst[k].op = prog[q].inst[k].op
              /\ rs[q].inst[k].arg = prog[q].inst[k].arg

LayoutKept == program \in Programs /\ SameShape(routines, program)

\* The symbol table holds the registered routines, each once.
SymbolTable ==
  phase # "failed" =>
    /\ DOMAIN offsets = {routines[q].sym : q \in Registered}
    /\ \A q, c \in Registered : routines[q].sym = routines[c].sym => q = c
    /\ phase = "register" => off = Start(routines, r)

\* The calls that have been patched: those of the routines before r, and of
\* routine r those that are not in todo any more.
Done(q, p) ==
  \/ q < r
  \/ phase = "calls" /\ q = r /\ p <= Len(program[r].patches) - Len(todo)

CallsDone ==
  /\ phase \in {"register", "routine"} =>
       \A q \in 1..Len(program) :
          q >= r \/ phase = "register" => routines[q].patches = program[q].patches
  /\ phase = "calls" =>
       /\ r <= Len(program)
       /\ \A q \in 1..Len(program) :
             q > r => routines[q].patches = program[q].patches
       /\ Len(todo) <= Len(program[r].patches)
       /\ \A j \in 1..Len(todo) :
             todo[j] = program[r].patches[Len(program[r].patches) - Len(todo) + j]
  /\ phase = "linked" => r = Len(program) + 1
  /\ phase \in {"routine", "calls", "linked"} =>
       \A q \in 1..Len(program) : \A p \in DOMAIN program[q].patches :
          Done(q, p) => ReachesCallee(q, p)

IInv == TypeOK /\ LayoutKept /\ SymbolTable /\ OffsetsAreStarts /\ CallsDone

LEMMA ProgramFacts ==
  ASSUME LayoutKept
  PROVE  /\ program \in Seq(NamedRoutine)
         /\ \A q \in 1..Len(program) :
               /\ Linkable(program[q])
               /\ program[q].inst \in Seq(Instruction)
               /\ program[q].patches \in Seq(Patch)
<1>1. program \in Seq(NamedRoutine) /\ \A q \in DOMAIN program : Linkable(program[q])
  BY ProgramsAssumption DEF LayoutKept
<1> QED  BY <1>1 DEF Linkable

LEMMA RoutineFacts ==
  ASSUME TypeOK, NEW q \in 1..Len(routines)
  PROVE  /\ routines[q] \in NamedRoutine
         /\ routines[q].sym \in Symbols
         /\ routines[q].inst \in Seq(Instruction)
         /\ routines[q].patches \in Seq(Patch)
<1>1. routines[q] \in NamedRoutine
  BY DEF TypeOK
<1> QED  BY <1>1 DEF NamedRoutine

\* Routines of the same shape are laid out alike.
LEMMA LayoutSame ==
  ASSUME NEW rs \in Seq(NamedRoutine), NEW prog \in Seq(NamedRoutine),
         SameShape(rs, prog)
  PROVE  SameLengths(rs, prog)
<1> SUFFICES ASSUME NEW q \in 1..Len(rs)
             PROVE  Lengths(rs[q].inst) = Lengths(prog[q].inst)
  BY DEF SameShape, SameLengths
<1>1. q \in 1..Len(prog) /\ rs[q] \in NamedRoutine /\ prog[q] \in NamedRoutine
  BY DEF SameShape
<1>2. rs[q].inst \in Seq(Instruction) /\ prog[q].inst \in Seq(Instruction)
  BY <1>1 DEF NamedRoutine
<1>3. /\ DOMAIN rs[q].inst = 1..Len(rs[q].inst)
      /\ DOMAIN prog[q].inst = 1..Len(prog[q].inst)
      /\ Len(rs[q].inst) = Len(prog[q].inst)
  BY <1>1, <1>2 DEF SameShape
<1>4. \A k \in 1..Len(prog[q].inst) :
         EncodedLen(rs[q].inst[k]) = EncodedLen(prog[q].inst[k])
  BY <1>1 DEF SameShape, EncodedLen
<1> QED
  BY <1>3, <1>4 DEF Lengths

\* The entry at the head of todo: where it is, and what it names.
LEMMA HeadFacts ==
  ASSUME IInv, phase = "calls", todo # <<>>
  PROVE  /\ r \in 1..Len(program)
         /\ Len(program[r].patches) - Len(todo) + 1 \in 1..Len(program[r].patches)
         /\ todo[1] = program[r].patches[Len(program[r].patches) - Len(todo) + 1]
         /\ todo[1].at \in 1..Len(program[r].inst)
<1>1. r \in 1..Len(program)
  BY DEF IInv, TypeOK, CallsDone, LayoutKept, SameShape
<1>2. program[r].patches \in Seq(Patch) /\ program[r].inst \in Seq(Instruction)
  BY <1>1, ProgramFacts DEF IInv
<1>3. todo \in Seq(Patch) /\ Len(todo) \in Nat \ {0} /\ 1 \in 1..Len(todo)
  BY DEF IInv, TypeOK
<1>4. Len(todo) <= Len(program[r].patches)
  BY DEF IInv, CallsDone
<1>5. todo[1] = program[r].patches[Len(program[r].patches) - Len(todo) + 1]
  BY <1>3 DEF IInv, CallsDone
<1>6. Len(program[r].patches) - Len(todo) + 1 \in 1..Len(program[r].patches)
  BY <1>2, <1>3, <1>4
<1>7. todo[1].at \in DOMAIN program[r].inst
  BY <1>1, <1>2, <1>5, <1>6, ProgramFacts DEF IInv, Linkable
<1> QED
  BY <1>1, <1>2, <1>5, <1>6, <1>7

-----------------------------------------------------------------------------
(* The first loop. *)

LEMMA InitHolds == Init => IInv
<1> SUFFICES ASSUME Init PROVE IInv
  OBVIOUS
<1>1. program \in Seq(NamedRoutine) /\ routines = program /\ program \in Programs
  BY ProgramsAssumption DEF Init
<1>2. TypeOK
  <2>1. routines \in Seq(NamedRoutine) /\ Len(routines) \in Nat
    BY <1>1
  <2>2. r \in 1..(Len(routines) + 1)
    BY <2>1 DEF Init
  <2>3. todo = <<>> /\ todo \in Seq(Patch)
    BY DEF Init
  <2>4. off \in Nat
    BY DEF Init
  <2>5. phase = "register" /\ DOMAIN offsets = {}
    BY DEF Init
  <2> QED
    BY <2>1, <2>2, <2>3, <2>4, <2>5 DEF TypeOK, Phases
<1>3. LayoutKept
  BY <1>1 DEF LayoutKept, SameShape
<1>4. Registered = {} /\ phase = "register"
  BY DEF Init, Registered
<1>5. SymbolTable
  <2>1. DOMAIN offsets = {}
    BY DEF Init
  <2>2. off = 0 /\ r = 1
    BY DEF Init
  <2>3. Start(routines, 1) = 0
    BY <1>1, StartSteps
  <2> QED
    BY <1>4, <2>1, <2>2, <2>3 DEF SymbolTable
<1>6. OffsetsAreStarts
  BY <1>4 DEF OffsetsAreStarts
<1>7. CallsDone
  BY <1>1, <1>4 DEF CallsDone
<1> QED
  BY <1>2, <1>3, <1>5, <1>6, <1>7 DEF IInv

LEMMA RegisterStep ==
  ASSUME IInv, Register
  PROVE  IInv'
<1>1. /\ phase = "register" /\ phase' = "register"
      /\ routines' = routines /\ program' = program /\ todo' = todo
      /\ r' = r + 1 /\ off' = off + ScriptLen(routines[r].inst)
      /\ routines[r].sym \notin DOMAIN offsets
      /\ offsets' = [sym \in DOMAIN offsets \cup {routines[r].sym} |->
                       IF sym = routines[r].sym THEN off ELSE offsets[sym]]
  BY DEF Register
<1>2. routines \in Seq(NamedRoutine) /\ r \in 1..Len(routines) /\ Len(routines) \in Nat
  BY DEF Register, IInv, TypeOK
<1>3. /\ Registered = 1..(r - 1)
      /\ Registered' = 1..r
      /\ Registered' = Registered \cup {r}
  BY <1>1, <1>2 DEF Registered
<1>4. off = Start(routines, r) /\ off \in Nat
  BY <1>1 DEF IInv, SymbolTable, TypeOK
<1>5. /\ DOMAIN offsets = {routines[q].sym : q \in 1..(r - 1)}
      /\ \A q \in 1..(r - 1) : offsets[routines[q].sym] = Start(routines, q)
      /\ \A q, c \in 1..(r - 1) : routines[q].sym = routines[c].sym => q = c
  BY <1>1, <1>3 DEF IInv, SymbolTable, OffsetsAreStarts
<1>6. DOMAIN offsets' = {routines[q].sym : q \in 1..r}
  BY <1>1, <1>2, <1>5
<1>7. off' = Start(routines, r + 1) /\ off' \in Nat
  <2>1. r + 1 \in 1..(Len(routines) + 1)
    BY <1>2
  <2> QED  BY <1>1, <1>2, <1>4, <2>1, StartSteps
<1>8. TypeOK'
  <2>1. \A sym \in DOMAIN offsets' : sym \in Symbols /\ offsets'[sym] \in Nat
    <3>1. routines[r].sym \in Symbols
      BY <1>2, RoutineFacts DEF IInv
    <3> QED  BY <1>1, <1>4, <3>1 DEF IInv, TypeOK
  <2>2. r' \in 1..(Len(routines') + 1)
    BY <1>1, <1>2
  <2> QED
    BY <1>1, <1>7, <2>1, <2>2 DEF IInv, TypeOK
<1>9. LayoutKept'
  BY <1>1 DEF IInv, LayoutKept, SameShape
<1>10. \A q, c \in 1..r : routines[q].sym = routines[c].sym => q = c
  <2>1. \A q \in 1..(r - 1) : routines[q].sym # routines[r].sym
    BY <1>1, <1>5
  <2> QED  BY <1>2, <1>5, <2>1
<1>11. SymbolTable'
  BY <1>1, <1>3, <1>6, <1>7, <1>10 DEF SymbolTable
<1>12. OffsetsAreStarts'
  <2>1. \A q \in 1..r : offsets'[routines[q].sym] = Start(routines, q)
    BY <1>1, <1>2, <1>4, <1>5
  <2>2. \A q \in Registered' : /\ routines'[q].sym \in DOMAIN offsets'
                               /\ offsets'[routines'[q].sym] = Start(routines', q)
    BY <1>1, <1>3, <1>6, <2>1
  <2> QED  BY <2>2 DEF OffsetsAreStarts
<1>13. CallsDone'
  BY <1>1 DEF IInv, CallsDone
<1> QED
  BY <1>8, <1>9, <1>11, <1>12, <1>13 DEF IInv

LEMMA EndRegisterStep ==
  ASSUME IInv, EndRegister
  PROVE  IInv'
<1>1. /\ phase = "register" /\ phase' = "routine"
      /\ routines' = routines /\ program' = program /\ todo' = todo
      /\ offsets' = offsets /\ off' = off /\ r' = 1
  BY DEF EndRegister
<1>2. /\ routines \in Seq(NamedRoutine) /\ Len(routines) \in Nat
      /\ r = Len(routines) + 1
  BY DEF EndRegister, IInv, TypeOK
<1>3. Registered = 1..Len(routines) /\ Registered' = 1..Len(routines)
  BY <1>1, <1>2 DEF Registered
<1>4. TypeOK'
  BY <1>1, <1>2 DEF IInv, TypeOK, Phases
<1>5. LayoutKept'
  BY <1>1 DEF IInv, LayoutKept, SameShape
<1>6. SymbolTable'
  BY <1>1, <1>3 DEF IInv, SymbolTable
<1>7. OffsetsAreStarts'
  BY <1>1, <1>3 DEF IInv, OffsetsAreStarts
<1>8. CallsDone'
  <2>1. \A q \in 1..Len(program) : routines[q].patches = program[q].patches
    BY <1>1 DEF IInv, CallsDone
  <2>2. \A q \in 1..Len(program)' : \A p : ~Done(q, p)'
    BY <1>1 DEF Done
  <2> QED  BY <1>1, <2>1, <2>2 DEF CallsDone
<1> QED
  BY <1>4, <1>5, <1>6, <1>7, <1>8 DEF IInv
-----------------------------------------------------------------------------
(* The second loop. *)

\* A step that keeps the layout moves no routine and no instruction.
LEMMA NothingMoves ==
  ASSUME TypeOK, LayoutKept, TypeOK', LayoutKept', program' = program
  PROVE  /\ \A q : Start(routines', q) = Start(routines, q)
         /\ \A q \in 1..Len(program) : \A k :
               Offset(routines'[q].inst, k) = Offset(routines[q].inst, k)
<1>1. /\ routines \in Seq(NamedRoutine) /\ routines' \in Seq(NamedRoutine)
      /\ program \in Seq(NamedRoutine)
  BY ProgramFacts DEF TypeOK
<1>2. SameLengths(routines, program) /\ SameLengths(routines', program)
  BY <1>1, LayoutSame DEF LayoutKept
<1>3. SameLengths(routines', routines)
  BY <1>2 DEF SameLengths
<1>4. Len(routines') = Len(program)
  BY DEF LayoutKept, SameShape
<1> QED
  BY <1>1, <1>3, <1>4, SameLayout

\* A call keeps leading to its callee while its operand is not rewritten.
LEMMA ReachKept ==
  ASSUME TypeOK, LayoutKept, TypeOK', LayoutKept', program' = program,
         NEW q \in 1..Len(program), NEW p \in DOMAIN program[q].patches,
         ReachesCallee(q, p),
         routines'[q].inst[program[q].patches[p].at].rels =
           routines[q].inst[program[q].patches[p].at].rels
  PROVE  ReachesCallee(q, p)'
<1>1. /\ \A c : Start(routines', c) = Start(routines, c)
      /\ \A k : Offset(routines'[q].inst, k) = Offset(routines[q].inst, k)
  BY NothingMoves
<1>2. Designates(routines', q, program[q].patches[p].at) =
        Designates(routines, q, program[q].patches[p].at)
  BY <1>1 DEF Designates, Address
<1> QED
  BY <1>1, <1>2 DEF ReachesCallee

\* The symbol table of a step that keeps layout and table after the first loop.
LEMMA TableKept ==
  ASSUME IInv, TypeOK', LayoutKept', program' = program, offsets' = offsets,
         phase \in {"routine", "calls"}, phase' \in {"routine", "calls", "linked"}
  PROVE  SymbolTable' /\ OffsetsAreStarts'
<1>1. /\ Registered = 1..Len(program) /\ Registered' = 1..Len(program)
      /\ Len(routines) = Len(program) /\ Len(routines') = Len(program)
      /\ phase # "failed" /\ phase' # "failed" /\ phase' # "register"
  BY DEF Registered, IInv, LayoutKept, SameShape, TypeOK
<1>2. \A q \in 1..Len(program) : routines'[q].sym = routines[q].sym
  BY DEF IInv, LayoutKept, SameShape
<1>3. \A q : Start(routines', q) = Start(routines, q)
  BY NothingMoves DEF IInv
<1>4. {routines'[q].sym : q \in 1..Len(program)} =
        {routines[q].sym : q \in 1..Len(program)}
  BY <1>2
<1>5. SymbolTable'
  BY <1>1, <1>2, <1>4 DEF IInv, SymbolTable
<1>6. OffsetsAreStarts'
  BY <1>1, <1>2, <1>3 DEF IInv, OffsetsAreStarts
<1> QED  BY <1>5, <1>6

LEMMA TakePatchesStep ==
  ASSUME IInv, TakePatches
  PROVE  IInv'
<1>1. /\ phase = "routine" /\ phase' = "calls" /\ r \in DOMAIN routines
      /\ routines' = Taken(routines, r) /\ todo' = routines[r].patches
      /\ program' = program /\ offsets' = offsets /\ off' = off /\ r' = r
  BY DEF TakePatches, Taken
<1>2. /\ routines \in Seq(NamedRoutine) /\ r \in 1..Len(routines)
      /\ Len(routines) = Len(program) /\ r \in 1..Len(program)
  BY <1>1 DEF IInv, TypeOK, LayoutKept, SameShape
<1>3. /\ routines' \in Seq(NamedRoutine)
      /\ Len(routines') = Len(routines)
      /\ \A c \in 1..Len(routines) : c # r => routines'[c] = routines[c]
      /\ routines'[r].sym = routines[r].sym
      /\ routines'[r].inst = routines[r].inst
  BY <1>1, <1>2, TakenFacts
<1>4. todo' = program[r].patches /\ todo' \in Seq(Patch)
  <2>1. todo' = program[r].patches
    BY <1>1, <1>2 DEF IInv, CallsDone, TypeOK
  <2> QED  BY <1>2, <2>1, ProgramFacts DEF IInv
<1>5. TypeOK'
  BY <1>1, <1>3, <1>4 DEF IInv, TypeOK, Phases
<1>6. LayoutKept'
  BY <1>1, <1>2, <1>3, SMTT(30) DEF IInv, LayoutKept, SameShape
<1>7. SymbolTable' /\ OffsetsAreStarts'
  BY <1>1, <1>5, <1>6, TableKept
<1>8. \A q \in 1..Len(program) : routines'[q].inst = routines[q].inst
  BY <1>2, <1>3
<1>9. ASSUME NEW q \in 1..Len(program), NEW p \in DOMAIN program[q].patches,
             Done(q, p)'
      PROVE  ReachesCallee(q, p)'
  <2>1. p \in Nat /\ p >= 1
    BY ProgramFacts DEF IInv
  <2>2. q < r
    BY <1>1, <1>4, <1>9, <2>1, ProgramFacts DEF Done, IInv
  <2>3. ReachesCallee(q, p)
    BY <1>1, <2>2 DEF IInv, CallsDone, Done
  <2> QED
    BY <1>1, <1>5, <1>6, <1>8, <2>3, ReachKept DEF IInv
<1>10. CallsDone'
  <2>1. \A q \in 1..Len(program) : q > r => routines'[q].patches = program[q].patches
    BY <1>1, <1>2, <1>3 DEF IInv, CallsDone
  <2>2. Len(todo') \in Nat /\ \A j \in 1..Len(todo') :
           todo'[j] = program[r].patches[Len(program[r].patches) - Len(todo') + j]
    BY <1>4
  <2> QED
    BY <1>1, <1>2, <1>4, <1>9, <2>1, <2>2 DEF CallsDone
<1> QED
  BY <1>5, <1>6, <1>7, <1>10 DEF IInv

\* What PatchCall reads and writes: entry n of routine r, which calls sym at
\* position k.
LEMMA PatchCallFacts ==
  ASSUME IInv, PatchCall, NEW k, k = todo[1].at, NEW sym, sym = todo[1].sym,
         NEW n, n = Len(program[r].patches) - Len(todo) + 1,
         NEW rel, rel = Relative(k, sym)
  PROVE  /\ phase = "calls" /\ phase' = "calls" /\ todo # <<>>
         /\ todo' = Tail(todo)
         /\ program' = program /\ offsets' = offsets /\ off' = off /\ r' = r
         /\ r \in 1..Len(program)
         /\ n \in 1..Len(program[r].patches)
         /\ todo[1] = program[r].patches[n]
         /\ k \in 1..Len(program[r].inst)
         /\ routines \in Seq(NamedRoutine) /\ Len(routines) = Len(program)
         /\ r \in 1..Len(routines) /\ k \in 1..Len(routines[r].inst)
         /\ sym \in DOMAIN offsets
         /\ Registered = 1..Len(program)
         /\ DOMAIN offsets = {routines[q].sym : q \in 1..Len(program)}
         /\ \A q \in 1..Len(program) : offsets[routines[q].sym] = Start(routines, q)
         /\ rel \in Int /\ FitsI32(rel)
         /\ routines' \in Seq(NamedRoutine)
         /\ WrittenAt(routines, routines', r, k, rel)
<1>1. /\ phase = "calls" /\ phase' = "calls" /\ todo # <<>>
      /\ Patchable(todo[1])
      /\ routines' = Patched(routines, r, k, rel)
      /\ todo' = Tail(todo)
      /\ program' = program /\ offsets' = offsets /\ off' = off /\ r' = r
  BY DEF PatchCall, Patched
<1>2. /\ r \in 1..Len(program)
      /\ n \in 1..Len(program[r].patches)
      /\ todo[1] = program[r].patches[n]
      /\ k \in 1..Len(program[r].inst)
  BY <1>1, HeadFacts
<1>3. /\ routines \in Seq(NamedRoutine) /\ Len(routines) = Len(program)
      /\ r \in 1..Len(routines) /\ k \in 1..Len(routines[r].inst)
  BY <1>2 DEF IInv, TypeOK, LayoutKept, SameShape
<1>4. /\ sym \in DOMAIN offsets
      /\ Registered = 1..Len(program)
      /\ DOMAIN offsets = {routines[q].sym : q \in 1..Len(program)}
      /\ \A q \in 1..Len(program) : offsets[routines[q].sym] = Start(routines, q)
  <2>1. Registered = 1..Len(program) /\ phase # "failed"
    BY <1>1, <1>3 DEF Registered
  <2> QED  BY <1>1, <2>1 DEF Patchable, IInv, SymbolTable, OffsetsAreStarts
<1>5. rel \in Int /\ FitsI32(rel)
  BY <1>1, <1>2, <1>3, <1>4, RelativeInt DEF IInv, Patchable
<1>a. rel \in Int /\ routines' = Patched(routines, r, k, rel)
  BY <1>1, <1>5
<1>6. /\ routines' \in Seq(NamedRoutine)
      /\ WrittenAt(routines, routines', r, k, rel)
  BY <1>a, <1>3, PatchedFacts
<1> QED
  BY <1>1, <1>2, <1>3, <1>4, <1>5, <1>6

LEMMA PatchCallStep ==
  ASSUME IInv, PatchCall
  PROVE  IInv'
<1> DEFINE k == todo[1].at
           sym == todo[1].sym
           n == Len(program[r].patches) - Len(todo) + 1
           rel == Relative(k, sym)
<1>1. /\ phase = "calls" /\ phase' = "calls" /\ todo # <<>>
      /\ todo' = Tail(todo)
      /\ program' = program /\ offsets' = offsets /\ off' = off /\ r' = r
  BY PatchCallFacts
<1>2. /\ r \in 1..Len(program)
      /\ n \in 1..Len(program[r].patches)
      /\ todo[1] = program[r].patches[n]
      /\ k \in 1..Len(program[r].inst)
  BY PatchCallFacts
<1>3. /\ routines \in Seq(NamedRoutine) /\ Len(routines) = Len(program)
      /\ r \in 1..Len(routines) /\ k \in 1..Len(routines[r].inst)
  BY PatchCallFacts
<1>4. /\ sym \in DOMAIN offsets
      /\ Registered = 1..Len(program)
      /\ DOMAIN offsets = {routines[q].sym : q \in 1..Len(program)}
      /\ \A q \in 1..Len(program) : offsets[routines[q].sym] = Start(routines, q)
  BY PatchCallFacts
<1>5. /\ rel \in Int
      /\ routines' \in Seq(NamedRoutine)
      /\ WrittenAt(routines, routines', r, k, rel)
  BY PatchCallFacts
<1> HIDE DEF k, sym, n, rel
<1>6. /\ rel \in Int
      /\ routines' \in Seq(NamedRoutine)
      /\ Len(routines') = Len(routines)
      /\ \A c \in 1..Len(routines) : c # r => routines'[c] = routines[c]
      /\ routines'[r].sym = routines[r].sym
      /\ routines'[r].patches = routines[r].patches
      /\ Len(routines'[r].inst) = Len(routines[r].inst)
      /\ routines'[r].inst[k].op = routines[r].inst[k].op
      /\ routines'[r].inst[k].arg = routines[r].inst[k].arg
      /\ routines'[r].inst[k].rels = <<rel>>
      /\ \A j \in 1..Len(routines[r].inst) :
            j # k => routines'[r].inst[j] = routines[r].inst[j]
  BY <1>5 DEF WrittenAt
<1>7. todo \in Seq(Patch) /\ todo' \in Seq(Patch) /\ Len(todo') = Len(todo) - 1
      /\ Len(todo) \in Nat \ {0}
      /\ \A j \in 1..Len(todo') : todo'[j] = todo[j + 1]
  BY <1>1 DEF IInv, TypeOK
<1>8. TypeOK'
  BY <1>1, <1>6, <1>7 DEF IInv, TypeOK, Phases
<1>9. LayoutKept'
  <2>1. ASSUME NEW q \in 1..Len(program)
        PROVE  /\ routines'[q].sym = program[q].sym
               /\ Len(routines'[q].inst) = Len(program[q].inst)
               /\ \A j \in 1..Len(program[q].inst) :
                     /\ routines'[q].inst[j].op = program[q].inst[j].op
                     /\ routines'[q].inst[j].arg = program[q].inst[j].arg
    <3>1. CASE q = r
      <4>1. /\ routines[q].sym = program[q].sym
            /\ Len(routines[q].inst) = Len(program[q].inst)
            /\ \A j \in 1..Len(program[q].inst) :
                  /\ routines[q].inst[j].op = program[q].inst[j].op
                  /\ routines[q].inst[j].arg = program[q].inst[j].arg
        BY DEF IInv, LayoutKept, SameShape
      <4>2. \A j \in 1..Len(program[q].inst) :
                  /\ routines'[q].inst[j].op = routines[q].inst[j].op
                  /\ routines'[q].inst[j].arg = routines[q].inst[j].arg
        BY <1>6, <3>1, <4>1
      <4> QED  BY <1>6, <3>1, <4>1, <4>2
    <3>2. CASE q # r
      BY <1>3, <1>6, <3>2 DEF IInv, LayoutKept, SameShape
    <3> QED  BY <3>1, <3>2
  <2> QED  BY <1>1, <1>3, <1>6, <2>1 DEF IInv, LayoutKept, SameShape
<1>10. SymbolTable' /\ OffsetsAreStarts'
  BY <1>1, <1>8, <1>9, TableKept
<1>11. ASSUME NEW m, m = n  PROVE  ReachesCallee(r, m)'
  <2>1. Start(routines', r) = Start(routines, r)
        /\ Offset(routines'[r].inst, k) = Offset(routines[r].inst, k)
    BY <1>1, <1>2, <1>8, <1>9, NothingMoves DEF IInv
  <2>2. Start(routines, r) \in Nat /\ Offset(routines[r].inst, k) \in Nat
    BY <1>3, StartSteps, RoutineFacts, OffsetSteps DEF IInv
  <2>3. offsets[routines[r].sym] = Start(routines, r)
    BY <1>2, <1>4
  <2>4. offsets[sym] \in Nat
    BY <1>4 DEF IInv, TypeOK
  <2>5. Designates(routines', r, k) = offsets[sym]
    BY <1>6, <2>1, <2>2, <2>3, <2>4 DEF Designates, Address, Relative, rel
  <2>6. \A c \in 1..Len(program) : program[c].sym = sym =>
           Designates(routines', r, k) = Start(routines', c)
    <3>1. \A c : Start(routines', c) = Start(routines, c)
      BY <1>1, <1>8, <1>9, NothingMoves DEF IInv
    <3>2. \A c \in 1..Len(program) : program[c].sym = routines[c].sym
      BY DEF IInv, LayoutKept, SameShape
    <3> QED  BY <1>4, <2>5, <3>1, <3>2
  <2>7. \E c \in 1..Len(program) : program[c].sym = sym
    BY <1>4 DEF IInv, LayoutKept, SameShape
  <2>8. DOMAIN program = 1..Len(program)
    BY ProgramFacts DEF IInv
  <2>9. program[r].patches[m].at = k /\ program[r].patches[m].sym = sym
    BY <1>2, <1>11 DEF k, sym
  <2>10. program' = program /\ r' = r
    BY <1>1
  <2> QED
    BY <2>6, <2>7, <2>8, <2>9, <2>10 DEF ReachesCallee
<1>12. ASSUME NEW q \in 1..Len(program), NEW p \in DOMAIN program[q].patches,
              Done(q, p)'
       PROVE  ReachesCallee(q, p)'
  <2>0. p \in Nat /\ program[r].patches \in Seq(Patch)
        /\ program[q].patches \in Seq(Patch)
    BY <1>2, ProgramFacts DEF IInv
  <2>1. CASE q = r /\ p = n
    BY <1>1, <1>11, <2>1 DEF ReachesCallee
  <2>2. CASE ~(q = r /\ p = n)
    <3>1. Done(q, p)
      BY <1>1, <1>7, <1>12, <2>0, <2>2, SMTT(30) DEF Done, n
    <3>2. ReachesCallee(q, p)
      BY <1>1, <3>1 DEF IInv, CallsDone
    <3>3. program[q].patches[p].at \in 1..Len(program[q].inst)
      BY <2>0, ProgramFacts DEF IInv, Linkable
    <3>4. q = r => program[q].patches[p].at # k
      BY <1>2, <2>0, <2>2, ProgramFacts DEF IInv, Linkable, k
    <3>5. routines'[q].inst[program[q].patches[p].at].rels =
            routines[q].inst[program[q].patches[p].at].rels
      BY <1>3, <1>6, <3>3, <3>4 DEF IInv, LayoutKept, SameShape
    <3> QED
      BY <1>1, <1>8, <1>9, <3>2, <3>5, ReachKept DEF IInv
  <2> QED  BY <2>1, <2>2
<1>13. CallsDone'
  <2>1. \A q \in 1..Len(program) : q > r => routines'[q].patches = program[q].patches
    BY <1>1, <1>3, <1>6 DEF IInv, CallsDone
  <2>2. \A j \in 1..Len(todo') :
           todo'[j] = program[r].patches[Len(program[r].patches) - Len(todo') + j]
    <3>1. Len(program[r].patches) \in Nat
      BY <1>2, ProgramFacts DEF IInv
    <3>2. \A j \in 1..Len(todo) :
             todo[j] = program[r].patches[Len(program[r].patches) - Len(todo) + j]
      BY <1>1 DEF IInv, CallsDone
    <3> QED  BY <1>7, <3>1, <3>2
  <2>3. Len(todo') <= Len(program[r].patches) /\ r <= Len(program)
    <3>1. Len(todo) <= Len(program[r].patches)
      BY <1>1 DEF IInv, CallsDone
    <3>2. Len(program[r].patches) \in Nat
      BY <1>2, ProgramFacts DEF IInv
    <3> QED  BY <1>2, <1>7, <3>1, <3>2
  <2> QED
    BY <1>1, <1>12, <2>1, <2>2, <2>3 DEF CallsDone
<1> QED
  BY <1>8, <1>9, <1>10, <1>13 DEF IInv

LEMMA EndRoutineStep ==
  ASSUME IInv, EndRoutine
  PROVE  IInv'
<1>1. /\ phase = "calls" /\ phase' = "routine" /\ todo = <<>> /\ todo' = <<>>
      /\ routines' = routines /\ program' = program
      /\ offsets' = offsets /\ off' = off /\ r' = r + 1
  BY DEF EndRoutine
<1>2. r \in 1..Len(program) /\ Len(routines) = Len(program)
  BY <1>1 DEF IInv, TypeOK, CallsDone, LayoutKept, SameShape
<1>3. TypeOK'
  BY <1>1, <1>2 DEF IInv, TypeOK, Phases
<1>4. LayoutKept'
  BY <1>1 DEF IInv, LayoutKept, SameShape
<1>5. SymbolTable' /\ OffsetsAreStarts'
  BY <1>1, <1>3, <1>4, TableKept
<1>6. ASSUME NEW q \in 1..Len(program), NEW p \in DOMAIN program[q].patches,
             Done(q, p)'
      PROVE  ReachesCallee(q, p)'
  <2>1. p \in 1..Len(program[q].patches) /\ Len(program[q].patches) \in Nat
    BY ProgramFacts DEF IInv
  <2>2. Done(q, p)
    BY <1>1, <1>2, <1>6, <2>1 DEF Done
  <2>3. ReachesCallee(q, p)
    BY <1>1, <2>2 DEF IInv, CallsDone
  <2> QED
    BY <1>1, <1>3, <1>4, <2>3, ReachKept DEF IInv
<1>7. CallsDone'
  <2>1. \A q \in 1..Len(program) : q >= r + 1 => routines[q].patches = program[q].patches
    BY <1>1, <1>2 DEF IInv, CallsDone
  <2> QED  BY <1>1, <1>6, <2>1 DEF CallsDone
<1> QED
  BY <1>3, <1>4, <1>5, <1>7 DEF IInv

LEMMA FinishStep ==
  ASSUME IInv, Finish
  PROVE  IInv'
<1>1. /\ phase = "routine" /\ phase' = "linked" /\ r \notin DOMAIN routines
      /\ routines' = routines /\ program' = program /\ todo' = todo
      /\ offsets' = offsets /\ off' = off /\ r' = r
  BY DEF Finish
<1>2. r = Len(program) + 1 /\ todo = <<>>
  BY <1>1 DEF IInv, TypeOK, LayoutKept, SameShape
<1>3. TypeOK'
  BY <1>1, <1>2 DEF IInv, TypeOK, Phases
<1>4. LayoutKept'
  BY <1>1 DEF IInv, LayoutKept, SameShape
<1>5. SymbolTable' /\ OffsetsAreStarts'
  BY <1>1, <1>3, <1>4, TableKept
<1>6. ASSUME NEW q \in 1..Len(program), NEW p \in DOMAIN program[q].patches
      PROVE  ReachesCallee(q, p)'
  <2>1. ReachesCallee(q, p)
    <3>1. Len(program) \in Nat
      BY ProgramFacts DEF IInv
    <3>2. Done(q, p)
      BY <1>2, <3>1 DEF Done
    <3> QED  BY <1>1, <3>2 DEF IInv, CallsDone
  <2> QED
    BY <1>1, <1>3, <1>4, <2>1, ReachKept DEF IInv
<1>7. CallsDone'
  BY <1>1, <1>2, <1>6 DEF CallsDone
<1> QED
  BY <1>3, <1>4, <1>5, <1>7 DEF IInv

LEMMA FailStep ==
  ASSUME IInv, RejectDuplicate \/ RejectCall
  PROVE  IInv'
<1>1. /\ phase' = "failed"
      /\ routines' = routines /\ program' = program /\ todo' = todo
      /\ offsets' = offsets /\ off' = off /\ r' = r
  BY DEF RejectDuplicate, RejectCall, Fail
<1>2. TypeOK'
  BY <1>1 DEF IInv, TypeOK, Phases
<1>3. LayoutKept'
  BY <1>1 DEF IInv, LayoutKept, SameShape
<1>4. SymbolTable' /\ OffsetsAreStarts'
  BY <1>1 DEF SymbolTable, OffsetsAreStarts
<1>5. CallsDone'
  BY <1>1 DEF CallsDone
<1> QED
  BY <1>2, <1>3, <1>4, <1>5 DEF IInv

LEMMA StutterStep ==
  ASSUME IInv, UNCHANGED vars
  PROVE  IInv'
<1>1. /\ routines' = routines /\ program' = program /\ todo' = todo
      /\ offsets' = offsets /\ off' = off /\ r' = r /\ phase' = phase
  BY DEF vars
<1>2. TypeOK' /\ LayoutKept'
  BY <1>1 DEF IInv, TypeOK, LayoutKept, SameShape
<1>3. SymbolTable' /\ OffsetsAreStarts'
  <2>1. Registered' = Registered
    BY <1>1 DEF Registered
  <2> QED  BY <1>1, <2>1 DEF IInv, SymbolTable, OffsetsAreStarts
<1>4. CallsDone'
  BY <1>1 DEF IInv, CallsDone, Done, ReachesCallee
<1> QED
  BY <1>2, <1>3, <1>4 DEF IInv

-----------------------------------------------------------------------------
(* The theorems. *)

\* The inductive invariant holds of every file.
THEOREM InvariantHolds == Spec => []IInv
<1>1. IInv /\ [Next]_vars => IInv'
  BY RegisterStep, EndRegisterStep, TakePatchesStep, PatchCallStep,
     EndRoutineStep, FinishStep, FailStep, StutterStep DEF Next
<1> QED
  BY <1>1, InitHolds, PTL DEF Spec

\* The variables keep their types and no call of a routine is left over.
THEOREM TypeCorrect == Spec => []TypeOK
<1>1. IInv => TypeOK
  BY DEF IInv
<1> QED
  BY <1>1, InvariantHolds, PTL

\* Patching operands moves no routine: the symbol table stays right.
THEOREM OffsetsCorrect == Spec => []OffsetsAreStarts
<1>1. IInv => OffsetsAreStarts
  BY DEF IInv
<1> QED
  BY <1>1, InvariantHolds, PTL

\* In whatever file links, every call leads to the routine it names.
THEOREM CallsCorrect == Spec => []CallsReachCallees
<1>1. IInv => CallsReachCallees
  <2> SUFFICES ASSUME IInv, phase = "linked",
                      NEW q \in DOMAIN program,
                      NEW p \in DOMAIN program[q].patches
               PROVE  ReachesCallee(q, p)
    BY DEF CallsReachCallees
  <2>1. /\ program \in Seq(NamedRoutine) /\ q \in 1..Len(program)
        /\ Len(program) \in Nat
    BY ProgramFacts DEF IInv
  <2>2. Done(q, p)
    BY <2>1 DEF IInv, CallsDone, Done
  <2> QED
    BY <2>1, <2>2 DEF IInv, CallsDone
<1> QED
  BY <1>1, InvariantHolds, PTL

-----------------------------------------------------------------------------
(* Termination. *)

\* For any file and any reach of a CALL_L, no step of the linker is in vain:
\* with its counts never below zero, it can take only finitely many.
THEOREM EveryStepCounts ==
  Spec => /\ [](LoopsLeft \in Nat /\ RoutinesLeft \in Nat
                /\ ToTake \in Nat /\ Len(todo) \in Nat)
          /\ ComesNearer
<1> DEFINE Nearer ==
      \/ LoopsLeft' < LoopsLeft
      \/ /\ LoopsLeft' = LoopsLeft
         /\ \/ RoutinesLeft' < RoutinesLeft
            \/ RoutinesLeft' = RoutinesLeft /\ ToTake' < ToTake
            \/ /\ RoutinesLeft' = RoutinesLeft /\ ToTake' = ToTake
               /\ Len(todo') < Len(todo)
<1>1. TypeOK => /\ LoopsLeft \in Nat /\ RoutinesLeft \in Nat
                /\ ToTake \in Nat /\ Len(todo) \in Nat
  <2> SUFFICES ASSUME TypeOK
               PROVE  /\ LoopsLeft \in Nat /\ RoutinesLeft \in Nat
                      /\ ToTake \in Nat /\ Len(todo) \in Nat
    OBVIOUS
  <2>1. LoopsLeft \in Nat /\ ToTake \in Nat
    BY DEF LoopsLeft, ToTake
  <2>2. Len(routines) \in Nat /\ Len(todo) \in Nat
    BY DEF TypeOK
  <2>3. RoutinesLeft \in Nat
    BY <2>2 DEF TypeOK, RoutinesLeft
  <2> QED  BY <2>1, <2>2, <2>3
<1>2. TypeOK /\ [Next]_vars => [Nearer]_vars
  <2> SUFFICES ASSUME TypeOK, Next PROVE Nearer
    OBVIOUS
  <2>1. r \in Nat /\ Len(routines) \in Nat /\ todo \in Seq(Patch)
    BY DEF TypeOK
  <2>2. CASE Register \/ EndRoutine
    BY <2>1, <2>2 DEF Register, EndRoutine, LoopsLeft, RoutinesLeft
  <2>3. CASE RejectDuplicate \/ EndRegister \/ RejectCall \/ Finish
    BY <2>3 DEF RejectDuplicate, EndRegister, RejectCall, Finish, Fail, LoopsLeft
  <2>4. CASE TakePatches
    <3>1. Len(routines') = Len(routines) /\ r' = r
      BY <2>1, <2>4 DEF TakePatches, TypeOK
    <3> QED  BY <2>1, <2>4, <3>1 DEF TakePatches, LoopsLeft, RoutinesLeft, ToTake
  <2>5. CASE PatchCall
    <3>1. Len(routines') = Len(routines) /\ r' = r /\ phase' = phase
      BY <2>1, <2>5 DEF PatchCall, TypeOK
    <3>2. Len(todo') < Len(todo)
      BY <2>1, <2>5 DEF PatchCall
    <3> QED  BY <3>1, <3>2 DEF LoopsLeft, RoutinesLeft, ToTake
  <2> QED  BY <2>2, <2>3, <2>4, <2>5 DEF Next
<1> QED  BY <1>1, <1>2, TypeCorrect, PTL DEF Spec, ComesNearer
=============================================================================
