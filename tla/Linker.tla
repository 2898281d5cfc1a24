------------------------------- MODULE Linker -------------------------------
(***************************************************************************)
(* CompiledSourceFile::link_call_l_patches (codegen/mod.rs).  A first loop *)
(* over the routines, in script order, gives each link symbol the offset   *)
(* at which its routine will start; a second one writes into every CALL_L  *)
(* the distance to the routine it calls.  Both loops stop at an error,     *)
(* which fails the compilation.                                            *)
(***************************************************************************)
EXTENDS Routines

CONSTANTS Programs,   \* the files: sequences of named routines
          RelLimit    \* 2^31: a CALL_L operand is an i32

\* A CompiledFunction, by its link_symbol.
NamedRoutine == [sym : Symbols, inst : Seq(Instruction), patches : Seq(Patch)]

ASSUME ProgramsAssumption ==
  \A prog \in Programs :
     /\ prog \in Seq(NamedRoutine)
     /\ \A q \in DOMAIN prog : Linkable(prog[q])
ASSUME RelLimitAssumption == RelLimit \in Nat

VARIABLES program,    \* ghost: the routines before linking
          routines,   \* package functions, struct methods, contract methods
          offsets,    \* link symbol -> start of its routine
          off,        \* where the next routine starts
          r,          \* the routine at hand
          todo,       \* the call patches of routine r that are left
          phase

vars == <<program, routines, offsets, off, r, todo, phase>>

Phases == {"register", "routine", "calls", "linked", "failed"}

Init ==
  /\ program \in Programs
  /\ routines = program
  /\ offsets = [sym \in {} |-> 0]
  /\ off = 0
  /\ r = 1
  /\ todo = <<>>
  /\ phase = "register"

Fail ==
  /\ phase' = "failed"
  /\ UNCHANGED <<program, routines, offsets, off, r, todo>>

-----------------------------------------------------------------------------
(* The first loop: HashMap::insert, and the length of each routine. *)

\* Mutant: the offset of a routine taken after its own length is added.
RegisterAfter ==
  /\ phase = "register"
  /\ r \in DOMAIN routines
  /\ routines[r].sym \notin DOMAIN offsets
  /\ LET end == off + ScriptLen(routines[r].inst)
     IN  /\ offsets' = [sym \in DOMAIN offsets \cup {routines[r].sym} |->
                          IF sym = routines[r].sym THEN end ELSE offsets[sym]]
         /\ off' = end
  /\ r' = r + 1
  /\ UNCHANGED <<program, routines, todo, phase>>

Register ==
  /\ phase = "register"
  /\ r \in DOMAIN routines
  /\ routines[r].sym \notin DOMAIN offsets
  /\ offsets' = [sym \in DOMAIN offsets \cup {routines[r].sym} |->
                   IF sym = routines[r].sym THEN off ELSE offsets[sym]]
  /\ off' = off + ScriptLen(routines[r].inst)
  /\ r' = r + 1
  /\ UNCHANGED <<program, routines, todo, phase>>

RejectDuplicate ==
  /\ phase = "register"
  /\ r \in DOMAIN routines
  /\ routines[r].sym \in DOMAIN offsets
  /\ Fail

EndRegister ==
  /\ phase = "register"
  /\ r \notin DOMAIN routines
  /\ phase' = "routine"
  /\ r' = 1
  /\ UNCHANGED <<program, routines, offsets, off, todo>>

-----------------------------------------------------------------------------
(* The second loop: the closure `apply`, routine by routine. *)

\* std::mem::take(&mut f.call_patches)
TakePatches ==
  /\ phase = "routine"
  /\ r \in DOMAIN routines
  /\ todo' = routines[r].patches
  /\ routines' = [routines EXCEPT ![r].patches = <<>>]
  /\ phase' = "calls"
  /\ UNCHANGED <<program, offsets, off, r>>

\* Mutant: the distance counted from the end of the call.
RelativeToNext(k, sym) ==
  offsets[sym] - (offsets[routines[r].sym] + Offset(routines[r].inst, k + 1))

\* target_pc - call_pc, for a call at position k of routine r.
Relative(k, sym) ==
  offsets[sym] - (offsets[routines[r].sym] + Offset(routines[r].inst, k))

FitsI32(rel) == rel \in -RelLimit..(RelLimit - 1)

\* Mutant: only the upper end of the i32 is checked.
PatchableAbove(p) ==
  /\ p.sym \in DOMAIN offsets
  /\ Relative(p.at, p.sym) < RelLimit
  /\ p.at \in DOMAIN routines[r].inst
  /\ routines[r].inst[p.at].op = "CALL_L"

Patchable(p) ==
  /\ p.sym \in DOMAIN offsets
  /\ FitsI32(Relative(p.at, p.sym))
  /\ p.at \in DOMAIN routines[r].inst
  /\ routines[r].inst[p.at].op = "CALL_L"

PatchCall ==
  /\ phase = "calls"
  /\ todo # <<>>
  /\ Patchable(todo[1])
  /\ routines' = [routines EXCEPT ![r].inst[todo[1].at].rels =
                    <<Relative(todo[1].at, todo[1].sym)>>]
  /\ todo' = Tail(todo)
  /\ UNCHANGED <<program, offsets, off, r, phase>>

\* No such symbol, too far away, or not a CALL_L.
RejectCall ==
  /\ phase = "calls"
  /\ todo # <<>>
  /\ ~Patchable(todo[1])
  /\ Fail

\* Mutant: a routine is left after one of its calls.
EndRoutineEarly ==
  /\ phase = "calls"
  /\ r' = r + 1
  /\ phase' = "routine"
  /\ UNCHANGED <<program, routines, offsets, off, todo>>

\* Mutant: a routine is done again and again.
EndRoutineInPlace ==
  /\ phase = "calls"
  /\ todo = <<>>
  /\ phase' = "routine"
  /\ UNCHANGED <<program, routines, offsets, off, r, todo>>

EndRoutine ==
  /\ phase = "calls"
  /\ todo = <<>>
  /\ r' = r + 1
  /\ phase' = "routine"
  /\ UNCHANGED <<program, routines, offsets, off, todo>>

Finish ==
  /\ phase = "routine"
  /\ r \notin DOMAIN routines
  /\ phase' = "linked"
  /\ UNCHANGED <<program, routines, offsets, off, r, todo>>

Next ==
  \/ Register \/ RejectDuplicate \/ EndRegister
  \/ TakePatches \/ PatchCall \/ RejectCall \/ EndRoutine \/ Finish

Spec == Init /\ [][Next]_vars

\* Two loops of one function.
FairSpec == Spec /\ WF_vars(Next)

-----------------------------------------------------------------------------
(* The flattened script (flatten_to_bytes): where things are in it. *)

RoutineLengths(rs) == [q \in DOMAIN rs |-> ScriptLen(rs[q].inst)]
Start(rs, q) == PrefixSums(RoutineLengths(rs))[q]
Address(rs, q, k) == Start(rs, q) + Offset(rs[q].inst, k)

\* Where the call at position k of routine q leads.
Designates(rs, q, k) == Address(rs, q, k) + rs[q].inst[k].rels[1]

-----------------------------------------------------------------------------
(* Properties. *)

\* The variables keep their types, and no call of a routine is left over when
\* the loop goes to the next one.
TypeOK ==
  /\ routines \in Seq(NamedRoutine)
  /\ \A sym \in DOMAIN offsets : sym \in Symbols /\ offsets[sym] \in Nat
  /\ off \in Nat
  /\ r \in 1..(Len(routines) + 1)
  /\ todo \in Seq(Patch)
  /\ phase \in Phases
  /\ phase \in {"register", "routine", "linked"} => todo = <<>>

\* Patching moves nothing: at every moment of both loops the recorded offset
\* of a symbol is where its routine starts in the script as it then is.
Registered == IF phase = "register" THEN 1..(r - 1) ELSE DOMAIN routines

OffsetsAreStarts ==
  phase # "failed" =>
    \A q \in Registered :
       /\ routines[q].sym \in DOMAIN offsets
       /\ offsets[routines[q].sym] = Start(routines, q)

\* In a linked script every CALL_L leads to the first byte of the one
\* routine that its call_patches entry named.
ReachesCallee(q, p) ==
  LET call == program[q].patches[p]
  IN  /\ \E c \in DOMAIN program : program[c].sym = call.sym
      /\ \A c \in DOMAIN program : program[c].sym = call.sym =>
            Designates(routines, q, call.at) = Start(routines, c)

CallsReachCallees ==
  phase = "linked" =>
    \A q \in DOMAIN program : \A p \in DOMAIN program[q].patches :
       ReachesCallee(q, p)

-----------------------------------------------------------------------------
(* Linking binds calls as CallBinding says, whatever the layout. *)

EntriesOf(rs, q) == {<<q, rs[q].patches[p].at>> : p \in DOMAIN rs[q].patches}

CallSites == UNION {EntriesOf(program, q) : q \in DOMAIN program}
Pending == (UNION {EntriesOf(routines, q) : q \in DOMAIN routines})
           \cup {<<r, todo[p].at>> : p \in DOMAIN todo}

CalledFrom(site) ==
  LET ps == program[site[1]].patches
  IN  ps[CHOOSE p \in DOMAIN ps : ps[p].at = site[2]].sym

WithinReach ==
  \A site \in CallSites : \A c \in DOMAIN program :
     program[c].sym = CalledFrom(site) =>
       FitsI32(Start(program, c) - Address(program, site[1], site[2]))

Binding == INSTANCE CallBinding WITH
  calls     <- [site \in CallSites |-> CalledFrom(site)],
  names     <- [q \in DOMAIN program |-> program[q].sym],
  entries   <- [q \in DOMAIN program |-> Start(program, q)],
  reachable <- WithinReach,
  bound     <- [site \in CallSites \ Pending |->
                  Designates(routines, site[1], site[2])],
  status    <- IF phase \in {"linked", "failed"} THEN phase ELSE "linking"

\* The linker binds and refuses exactly as CallBinding does: every step is a
\* call bound to the entry it names, the end, a justified failure, or nothing
\* to be seen.
ImplementsBinding == Binding!Spec

\* Both loops come to an end (the loops of one function: WF_vars(Next)).
LinkingEnds == Binding!Ends

\* What the linker has left: loops, routines of the loop, patches to take, and
\* patches taken.
LoopsLeft ==
  CASE phase = "register"             -> 2
    [] phase \in {"routine", "calls"} -> 1
    [] OTHER                          -> 0
RoutinesLeft == Len(routines) + 1 - r
ToTake == IF phase = "routine" THEN 1 ELSE 0

\* Why it ends: every step ends a loop, a routine, or a patch.
ComesNearer ==
  [][ \/ LoopsLeft' < LoopsLeft
      \/ /\ LoopsLeft' = LoopsLeft
         /\ \/ RoutinesLeft' < RoutinesLeft
            \/ RoutinesLeft' = RoutinesLeft /\ ToTake' < ToTake
            \/ /\ RoutinesLeft' = RoutinesLeft /\ ToTake' = ToTake
               /\ Len(todo') < Len(todo) ]_vars
=============================================================================
