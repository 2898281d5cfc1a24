------------------------------ MODULE Peephole ------------------------------
(***************************************************************************)
(* The peephole optimizer of one compiled routine (codegen/opt.rs,         *)
(* impl Optimizer for CompiledFunction).  It runs between code generation  *)
(* and link_call_l_patches, so every edit has to keep two things that      *)
(* refer to positions: the PC-relative operands of the branches, which are *)
(* byte distances, and call_patches, which are instruction positions.      *)
(*                                                                         *)
(* A round runs five passes over the instructions; rounds repeat while one *)
(* of them changed something, up to MaxRounds.  An action is one iteration *)
(* of a pass's scan.                                                       *)
(***************************************************************************)
EXTENDS Routines

CONSTANTS Emitted,     \* the routines code generation may hand over
          MaxRounds    \* MAX_ROUNDS, 64 in the code

ASSUME EmittedAssumption == \A f \in Emitted : Routine(f)
ASSUME MaxRoundsAssumption == MaxRounds \in Nat \ {0}

VARIABLES emitted,   \* ghost: the routine before optimization
          inst,      \* CompiledFunction::instructions
          patches,   \* CompiledFunction::call_patches
          pass,      \* the pass that is running
          index,     \* its scan position
          changed,   \* whether a pass of this round changed something
          round      \* rounds started

vars == <<emitted, inst, patches, pass, index, changed, round>>

Passes == {"merge", "dupdrop", "storeload", "jump", "shorten"}
NextPass == [merge |-> "dupdrop", dupdrop |-> "storeload",
             storeload |-> "jump", jump |-> "shorten",
             shorten |-> "endround"]

Init ==
  /\ emitted \in Emitted
  /\ inst = emitted.inst
  /\ patches = emitted.patches
  /\ pass = "merge"
  /\ index = 1
  /\ changed = FALSE
  /\ round = 1

-----------------------------------------------------------------------------
(* Call patches. *)

\* call_patch_touches_range
PatchTouches(i, n) ==
  \E p \in DOMAIN patches : patches[p].at \in i..(i + n - 1)

\* Mutant: the entry of the instruction behind the removed ones stays.
ShiftStrictlyAfter(i, n) ==
  [p \in DOMAIN patches |->
     IF patches[p].at > i + n
     THEN [patches[p] EXCEPT !.at = @ - n]
     ELSE patches[p]]

\* shift_call_patches_after_remove
ShiftPatches(i, n) ==
  [p \in DOMAIN patches |->
     IF patches[p].at >= i + n
     THEN [patches[p] EXCEPT !.at = @ - n]
     ELSE patches[p]]

-----------------------------------------------------------------------------
(* PC-relative operands. *)

\* An edit of the script: the bytes [start, start + len) go, and with them
\* the instruction at position gone, if there is one.  A strict edit refuses
\* a branch into those bytes, the other leads it to what follows them.
NoOffset == -1
NoInstruction(s) == Len(s) + 1

\* map_byte_offset_after_delete and map_byte_offset_after_strict_remove
MovedOffset(edit, p) ==
  CASE p < edit.start             -> p
    [] p >= edit.start + edit.len -> p - edit.len
    [] OTHER                      -> IF edit.strict THEN NoOffset ELSE edit.start

\* Mutant: new positions taken for old ones.
OldIndexUnshifted(edit, j) == j

\* The old_index closures of the two callers of relayout_pc_relatives.
OldIndex(edit, j) == IF j < edit.gone THEN j ELSE j + 1

\* Where operand r of instruction j of the edited script `new` leads, as an
\* offset in `new`.  What usize::try_from refuses gives NoOffset too.
MovedTarget(was, new, edit, j, r) ==
  LET abs == Target(was, OldIndex(edit, j), new[j].rels[r])
  IN  IF abs < 0 THEN NoOffset ELSE MovedOffset(edit, abs)

MovedRel(was, new, edit, j, r) ==
  MovedTarget(was, new, edit, j, r) - Offset(new, j)

\* relayout_pc_relatives: the script with every operand re-encoded, or
\* Refused when one of them cannot be.
Refused == <<>>
Relayout(was, new, edit) ==
  IF \A j \in DOMAIN new : \A r \in DOMAIN new[j].rels :
        /\ MovedTarget(was, new, edit, j, r) # NoOffset
        /\ new[j].op \in ShortBranches => FitsI8(MovedRel(was, new, edit, j, r))
  THEN [j \in DOMAIN new |->
          [new[j] EXCEPT !.rels =
             [r \in DOMAIN @ |-> MovedRel(was, new, edit, j, r)]]]
  ELSE Refused

-----------------------------------------------------------------------------
(* What each pass looks for at position i of its scan. *)

\* load_slot: both kinds of load, by slot number.
LoadSlots(i) == IF i.op \in {"LDLOC", "LDARG"} THEN {i.arg} ELSE {}

\* store_slot and load_local_slot.
StoresLocal(i, n) == i.op = "STLOC" /\ i.arg = n
LoadsLocal(i, n) == i.op = "LDLOC" /\ i.arg = n

\* Mutant: any two loads.
MergeableAny(i) ==
  /\ LoadSlots(inst[i]) # {}
  /\ LoadSlots(inst[i + 1]) # {}
  /\ ~PatchTouches(i, 2)

Mergeable(i) ==
  /\ LoadSlots(inst[i]) # {}
  /\ LoadSlots(inst[i]) = LoadSlots(inst[i + 1])
  /\ ~PatchTouches(i, 2)

DupThenDrop(i) ==
  /\ inst[i].op = "DUP"
  /\ inst[i + 1].op = "DROP"
  /\ ~PatchTouches(i, 2)

\* The forward scan of peel_redundant_stloc_ldloc_pair.
ReloadedBeforeNextStore(i, n) ==
  \E k \in (i + 2)..Len(inst) :
     /\ LoadsLocal(inst[k], n)
     /\ \A j \in (i + 2)..(k - 1) : ~StoresLocal(inst[j], n)

StoreThenLoad(i) ==
  LET n == inst[i].arg
  IN  /\ StoresLocal(inst[i], n)
      /\ LoadsLocal(inst[i + 1], n)
      /\ ~PatchTouches(i, 2)
      /\ ~ReloadedBeforeNextStore(i, n)

\* The jump at i goes.
JumpEdit(i) == [start |-> Offset(inst, i), len |-> EncodedLen(inst[i]),
                gone |-> i, strict |-> FALSE]
RemoveJump(i) == Relayout(inst, Drain(inst, i, 1), JumpEdit(i))

\* The long branch at i is narrowed: the high three bytes of its operand go.
NarrowEdit(i) == [start |-> Offset(inst, i) + 2, len |-> 3,
                  gone |-> NoInstruction(inst), strict |-> TRUE]
Narrow(i) ==
  Relayout(inst, [inst EXCEPT ![i].op = ShortForm[@]], NarrowEdit(i))

JumpToNext(i) ==
  /\ inst[i].op \in {"JMP", "JMP_L"}
  /\ inst[i].rels[1] = EncodedLen(inst[i])
  /\ i < Len(inst)
  /\ ~PatchTouches(i, 1)
  /\ RemoveJump(i) # Refused

Narrowable(i) ==
  /\ inst[i].op \in Shortenable
  /\ FitsI8(inst[i].rels[1])
  /\ Narrow(i) # Refused

-----------------------------------------------------------------------------
(* One iteration of the scan of each pass. *)

Scanning(p, last) == pass = p /\ index <= last

\* merge_adjacent_duplicate_loads
MergeDuplicateLoad ==
  /\ Scanning("merge", Len(inst) - 1)
  /\ Mergeable(index)
  /\ inst' = [inst EXCEPT ![index + 1].op = "DUP", ![index + 1].arg = 0]
  /\ index' = index + 1
  /\ changed' = TRUE
  /\ UNCHANGED <<emitted, patches, pass, round>>

\* Mutant: the scan steps over what moved to the place of the pair.
RemovePairAndStep ==
  /\ inst' = Drain(inst, index, 2)
  /\ patches' = ShiftPatches(index, 2)
  /\ index' = index + 2
  /\ changed' = TRUE
  /\ UNCHANGED <<emitted, pass, round>>

\* The end of an iteration that drains the pair at index.
RemovePair ==
  /\ inst' = Drain(inst, index, 2)
  /\ patches' = ShiftPatches(index, 2)
  /\ changed' = TRUE
  /\ UNCHANGED <<emitted, pass, index, round>>

\* peel_redundant_dup_drop
PeelDupDrop ==
  /\ Scanning("dupdrop", Len(inst) - 1)
  /\ DupThenDrop(index)
  /\ RemovePair

\* peel_redundant_stloc_ldloc_pair
PeelStoreLoad ==
  /\ Scanning("storeload", Len(inst) - 1)
  /\ StoreThenLoad(index)
  /\ RemovePair

\* peel_redundant_uncond_jmp_to_next
PeelJump ==
  /\ Scanning("jump", Len(inst))
  /\ JumpToNext(index)
  /\ inst' = RemoveJump(index)
  /\ patches' = ShiftPatches(index, 1)
  /\ changed' = TRUE
  /\ UNCHANGED <<emitted, pass, index, round>>

\* Mutant: narrowing does not ask for another round.
NarrowSilently ==
  /\ Scanning("shorten", Len(inst))
  /\ Narrowable(index)
  /\ inst' = Narrow(index)
  /\ index' = index + 1
  /\ UNCHANGED <<emitted, patches, pass, changed, round>>

\* try_shorten_long_pc_branch_at, from shorten_long_pc_relative_branches
NarrowBranch ==
  /\ Scanning("shorten", Len(inst))
  /\ Narrowable(index)
  /\ inst' = Narrow(index)
  /\ index' = index + 1
  /\ changed' = TRUE
  /\ UNCHANGED <<emitted, patches, pass, round>>

\* Mutant: peel_redundant_stloc_ldloc_pair does not step over a pair whose
\* slot is loaded again.
AdvanceUnlessReloaded ==
  /\ \/ Scanning("merge", Len(inst) - 1) /\ ~Mergeable(index)
     \/ Scanning("dupdrop", Len(inst) - 1) /\ ~DupThenDrop(index)
     \/ /\ Scanning("storeload", Len(inst) - 1)
        /\ ~ /\ StoresLocal(inst[index], inst[index].arg)
             /\ LoadsLocal(inst[index + 1], inst[index].arg)
     \/ Scanning("jump", Len(inst)) /\ ~JumpToNext(index)
     \/ Scanning("shorten", Len(inst)) /\ ~Narrowable(index)
  /\ index' = index + 1
  /\ UNCHANGED <<emitted, inst, patches, pass, changed, round>>

\* An iteration that finds nothing to do.
Advance ==
  /\ \/ Scanning("merge", Len(inst) - 1) /\ ~Mergeable(index)
     \/ Scanning("dupdrop", Len(inst) - 1) /\ ~DupThenDrop(index)
     \/ Scanning("storeload", Len(inst) - 1) /\ ~StoreThenLoad(index)
     \/ Scanning("jump", Len(inst)) /\ ~JumpToNext(index)
     \/ Scanning("shorten", Len(inst)) /\ ~Narrowable(index)
  /\ index' = index + 1
  /\ UNCHANGED <<emitted, inst, patches, pass, changed, round>>

EndPass ==
  /\ pass \in Passes
  /\ index > IF pass \in {"jump", "shorten"} THEN Len(inst) ELSE Len(inst) - 1
  /\ pass' = NextPass[pass]
  /\ index' = 1
  /\ UNCHANGED <<emitted, inst, patches, changed, round>>

\* CompiledFunction::optimize: another round while something changed.
EndRound ==
  /\ pass = "endround"
  /\ IF changed /\ round < MaxRounds
     THEN pass' = "merge" /\ round' = round + 1
     ELSE pass' = "done" /\ UNCHANGED round
  /\ changed' = FALSE
  /\ UNCHANGED <<emitted, inst, patches, index>>

Next ==
  \/ MergeDuplicateLoad
  \/ PeelDupDrop
  \/ PeelStoreLoad
  \/ PeelJump
  \/ NarrowBranch
  \/ Advance
  \/ EndPass
  \/ EndRound

Spec == Init /\ [][Next]_vars

\* The passes are loops of one function: nothing can keep them from running.
FairSpec == Spec /\ WF_vars(Next)
-----------------------------------------------------------------------------
(* Properties. *)

\* The variables keep their types, and the scan of the running pass never
\* leaves the routine that it is shortening.
TypeOK ==
  /\ Routine(emitted)
  /\ inst \in Seq(Instruction)
  /\ patches \in Seq(Patch)
  /\ pass \in Passes \cup {"endround", "done"}
  /\ index \in 1..(Len(inst) + 1)
  /\ changed \in BOOLEAN
  /\ round \in 1..MaxRounds

\* Whatever is removed, each call_patches entry stays on the very CALL_L it
\* was pushed for, with its symbol, and no CALL_L is left without an entry:
\* the linker then patches every call and nothing but calls
\* (shift_call_patches_after_remove, call_patch_touches_range).
PatchOnItsCall(p) ==
  /\ patches[p].sym = emitted.patches[p].sym
  /\ patches[p].at \in DOMAIN inst
  /\ inst[patches[p].at].op = "CALL_L"
  /\ inst[patches[p].at].id = emitted.patches[p].at

CallHasPatch(k) ==
  inst[k].op = "CALL_L" => \E p \in DOMAIN patches : patches[p].at = k

PatchesTrackCalls ==
  /\ Len(patches) = Len(emitted.patches)
  /\ \A p \in DOMAIN patches : PatchOnItsCall(p)
  /\ \A k \in DOMAIN inst : CallHasPatch(k)

\* The id of the first instruction of `was`, from position k on, that is
\* still in `new`; 0 for the end of the script.
FirstKept(was, new, k) ==
  LET kept == {j \in k..Len(was) : \E m \in DOMAIN new : new[m].id = was[j].id}
  IN  IF kept = {} THEN 0
      ELSE was[CHOOSE j \in kept : \A m \in kept : j <= m].id

IdAt(s, k) == IF k \in DOMAIN s THEN s[k].id ELSE 0

\* Every branch of the edited script designates what it designated before,
\* or, when that is gone, the instruction that now stands in its place.
SameTargets(was, new) ==
  \A m \in DOMAIN new, k \in DOMAIN was : was[k].id = new[m].id =>
    \A r \in DOMAIN new[m].rels :
       LET before == InstructionAt(was, Target(was, k, was[k].rels[r]))
           after  == InstructionAt(new, Target(new, m, new[m].rels[r]))
       IN  /\ after # 0
           /\ IdAt(new, after) = FirstKept(was, new, before)

\* The two passes that move code and re-encode operands keep what every
\* branch designates (relayout_pc_relatives and its two offset maps).
RelayoutKeepsTargets ==
  [][inst' # inst /\ pass \in {"jump", "shorten"} /\ WellTargeted(inst) =>
       SameTargets(inst, inst')]_vars

\* When optimize stops before its last round, no pass has anything left to
\* do: none was skipped by the flags that decide on another round.
NothingLeftToDo ==
  pass = "done" /\ round < MaxRounds =>
    /\ \A i \in 1..(Len(inst) - 1) :
          ~Mergeable(i) /\ ~DupThenDrop(i) /\ ~StoreThenLoad(i)
    /\ \A i \in 1..Len(inst) : ~JumpToNext(i) /\ ~Narrowable(i)

\* optimize returns: every scan ends although three of the passes stay at
\* the same position after a removal.
Terminates == <>(pass = "done")

\* What the optimizer has left: rounds, passes of this round, and instructions
\* that the scan has not been over.
RoundsLeft == MaxRounds - round
PassesLeft ==
  CASE pass = "merge"     -> 6 [] pass = "dupdrop"  -> 5
    [] pass = "storeload" -> 4 [] pass = "jump"     -> 3
    [] pass = "shorten"   -> 2 [] pass = "endround" -> 1
    [] OTHER              -> 0
ScanLeft == Len(inst) + 1 - index

\* Why it returns: every step uses up a round, or a pass of the round, or an
\* instruction of the pass, also those that stay where they are and take
\* instructions away (the loops of optimize and of its five passes).
ComesNearer ==
  [][ \/ RoundsLeft' < RoundsLeft
      \/ RoundsLeft' = RoundsLeft /\ PassesLeft' < PassesLeft
      \/ /\ RoundsLeft' = RoundsLeft /\ PassesLeft' = PassesLeft
         /\ ScanLeft' < ScanLeft ]_vars

-----------------------------------------------------------------------------
(* What opt.rs says of itself and does not do. *)

\* The module comment: no instruction is removed "without adjusting all
\* branch targets".
EditsKeepTargets ==
  [][inst' # inst /\ WellTargeted(inst) => SameTargets(inst, inst')]_vars

\* The control flow of a script: the positions that can follow position k.
Successors(s, k) ==
  LET falls == IF s[k].op \in {"RET", "JMP", "JMP_L"} THEN {} ELSE {k + 1}
      leads == IF s[k].op \in {"CALL", "CALL_L"} THEN {} ELSE
               {InstructionAt(s, Target(s, k, s[k].rels[r])) :
                  r \in DOMAIN s[k].rels}
  IN  (falls \cup leads) \cap DOMAIN s

\* merge_adjacent_duplicate_loads: "the same stack effect". The DUP pushes
\* what the second load pushed only if that load reads the same variable and
\* is reached from the first one alone. (While no edit has moved code, the
\* operands are as they were emitted.)
MergeKeepsValue ==
  [][MergeDuplicateLoad =>
       /\ inst[index].op = inst[index + 1].op
       /\ Offsets(inst) = Offsets(emitted.inst) =>
            \A k \in DOMAIN inst :
               index + 1 \in Successors(inst, k) => k = index]_vars
=============================================================================
