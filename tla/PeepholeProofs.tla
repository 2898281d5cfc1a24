--------------------------- MODULE PeepholeProofs ---------------------------
(***************************************************************************)
(* Proofs about the peephole optimizer, for any set of emitted routines    *)
(* and any number of rounds.                                               *)
(***************************************************************************)
EXTENDS Peephole, BytecodeProofs

\* Drain keeps the other instructions, in order.
LEMMA DrainFacts ==
  ASSUME NEW S, NEW s \in Seq(S), NEW i \in 1..Len(s), NEW n \in Nat,
         i + n - 1 <= Len(s)
  PROVE  /\ Drain(s, i, n) \in Seq(S)
         /\ Len(Drain(s, i, n)) = Len(s) - n
         /\ \A k \in 1..(Len(s) - n) :
               Drain(s, i, n)[k] = IF k < i THEN s[k] ELSE s[k + n]
<1>1. Len(s) - n \in Nat
  OBVIOUS
<1>2. \A k \in 1..(Len(s) - n) : k < i => s[k] \in S
  OBVIOUS
<1>3. \A k \in 1..(Len(s) - n) : ~(k < i) => s[k + n] \in S
  OBVIOUS
<1> QED  BY <1>1, <1>2, <1>3 DEF Drain

\* The script that a pass obtains by re-encoding operands differs from the
\* edited one in the operands only.
SameButOperands(t, d) ==
  /\ t \in Seq(Instruction)
  /\ Len(t) = Len(d)
  /\ \A j \in 1..Len(d) :
        /\ t[j].op = d[j].op
        /\ t[j].arg = d[j].arg
        /\ t[j].id = d[j].id
        /\ DOMAIN t[j].rels = DOMAIN d[j].rels

\* An instruction's operands are a sequence of integers.
LEMMA OperandTypes ==
  ASSUME NEW i \in Instruction
  PROVE  /\ i.rels \in Seq(Int)
         /\ DOMAIN i.rels = 1..Len(i.rels)
         /\ Len(i.rels) \in Nat
         /\ \A r \in DOMAIN i.rels : i.rels[r] \in Int
<1>1. i.rels \in Seq(Int)
  BY DEF Instruction
<1> QED  BY <1>1

\* The operands that a relayout computes are integers.
LEMMA MovedRelInt ==
  ASSUME NEW was \in Seq(Instruction), NEW new \in Seq(Instruction), NEW edit,
         edit.start \in Int, edit.len \in Int, edit.gone \in Nat,
         NEW j \in 1..Len(new), OldIndex(edit, j) \in 1..Len(was),
         NEW r \in DOMAIN new[j].rels
  PROVE  MovedRel(was, new, edit, j, r) \in Int
<1>0. new[j] \in Instruction
  OBVIOUS
<1>1. new[j].rels[r] \in Int
  BY <1>0, OperandTypes
<1>2. Offset(was, OldIndex(edit, j)) \in Int /\ Offset(new, j) \in Int
  BY OffsetSteps
<1>3. Target(was, OldIndex(edit, j), new[j].rels[r]) \in Int
  BY <1>1, <1>2 DEF Target
<1>4. \A p \in Int : MovedOffset(edit, p) \in Int
  BY DEF MovedOffset, NoOffset
<1>5. MovedTarget(was, new, edit, j, r) \in Int
  BY <1>3, <1>4 DEF MovedTarget, NoOffset
<1> QED
  BY <1>2, <1>5 DEF MovedRel

LEMMA RelayoutShape ==
  ASSUME NEW was \in Seq(Instruction), NEW new \in Seq(Instruction), NEW edit,
         edit.start \in Int, edit.len \in Int, edit.gone \in Nat,
         \A j \in 1..Len(new) : OldIndex(edit, j) \in 1..Len(was),
         Relayout(was, new, edit) # Refused
  PROVE  SameButOperands(Relayout(was, new, edit), new)
<1> DEFINE rels(j) == [r \in DOMAIN new[j].rels |-> MovedRel(was, new, edit, j, r)]
           t == [j \in DOMAIN new |-> [new[j] EXCEPT !.rels = rels(j)]]
<1>1. Relayout(was, new, edit) = t
  BY DEF Relayout
<1>2. \A j \in 1..Len(new) :
         /\ new[j] \in Instruction
         /\ rels(j) \in Seq(Int)
         /\ DOMAIN rels(j) = DOMAIN new[j].rels
  <2> SUFFICES ASSUME NEW j \in 1..Len(new)
               PROVE  /\ rels(j) \in Seq(Int)
                      /\ DOMAIN rels(j) = DOMAIN new[j].rels
    OBVIOUS
  <2>0. new[j] \in Instruction
    OBVIOUS
  <2>1. /\ new[j].rels \in Seq(Int)
        /\ DOMAIN new[j].rels = 1..Len(new[j].rels)
        /\ Len(new[j].rels) \in Nat
    BY <2>0, OperandTypes
  <2>2. \A r \in DOMAIN new[j].rels : MovedRel(was, new, edit, j, r) \in Int
    BY MovedRelInt
  <2>3. rels(j) \in [1..Len(new[j].rels) -> Int]
    BY <2>1, <2>2
  <2> HIDE DEF rels
  <2> QED  BY <2>1, <2>3, FunctionIsSeq
<1>3. t = [j \in 1..Len(new) |-> [new[j] EXCEPT !.rels = rels(j)]]
  OBVIOUS
<1> HIDE DEF rels
<1>4. \A j \in 1..Len(new) :
         /\ t[j] = [new[j] EXCEPT !.rels = rels(j)]
         /\ t[j] \in Instruction
         /\ t[j].op = new[j].op /\ t[j].arg = new[j].arg /\ t[j].id = new[j].id
         /\ t[j].rels = rels(j)
  <2> SUFFICES ASSUME NEW j \in 1..Len(new),
                      NEW u, u = [new[j] EXCEPT !.rels = rels(j)]
               PROVE  /\ u \in Instruction
                      /\ u.op = new[j].op /\ u.arg = new[j].arg
                      /\ u.id = new[j].id /\ u.rels = rels(j)
    BY <1>3
  <2> QED  BY <1>2 DEF Instruction
<1> HIDE DEF t
<1>5. t \in [1..Len(new) -> Instruction]
  BY <1>3, <1>4
<1>6. t \in Seq(Instruction) /\ Len(t) = Len(new)
  BY <1>5, FunctionIsSeq, SMTT(30)
<1> QED
  BY <1>1, <1>2, <1>4, <1>6 DEF SameButOperands

-----------------------------------------------------------------------------
(* The edits keep types. *)

LEMMA RemoveJumpShape ==
  ASSUME inst \in Seq(Instruction), NEW i \in 1..Len(inst),
         RemoveJump(i) # Refused
  PROVE  SameButOperands(RemoveJump(i), Drain(inst, i, 1))
<1> DEFINE d == Drain(inst, i, 1)
<1>1. d \in Seq(Instruction) /\ Len(d) = Len(inst) - 1
  BY DrainFacts
<1>2. \A j \in 1..Len(d) : OldIndex(JumpEdit(i), j) \in 1..Len(inst)
  BY <1>1 DEF OldIndex, JumpEdit
<1>3. JumpEdit(i).start \in Int /\ JumpEdit(i).len \in Int /\ JumpEdit(i).gone \in Nat
  BY OffsetSteps, EncodedLenPositive DEF JumpEdit
<1> HIDE DEF d
<1> QED
  BY <1>1, <1>2, <1>3, RelayoutShape DEF RemoveJump, d

Shortened(s, i) == [s EXCEPT ![i].op = ShortForm[@]]

\* Narrowing changes the opcode at i, to another that is not CALL_L.
LEMMA ShortenedFacts ==
  ASSUME NEW s \in Seq(Instruction), NEW i \in 1..Len(s),
         s[i].op \in Shortenable
  PROVE  /\ Shortened(s, i) \in Seq(Instruction)
         /\ Len(Shortened(s, i)) = Len(s)
         /\ Shortened(s, i)[i].op = ShortForm[s[i].op]
         /\ s[i].op # "CALL_L" /\ ShortForm[s[i].op] # "CALL_L"
         /\ \A j \in 1..Len(s) :
               /\ Shortened(s, i)[j].id = s[j].id
               /\ Shortened(s, i)[j].arg = s[j].arg
               /\ Shortened(s, i)[j].rels = s[j].rels
               /\ j # i => Shortened(s, i)[j] = s[j]
<1>1. /\ ShortForm[s[i].op] \in Ops
      /\ s[i].op # "CALL_L" /\ ShortForm[s[i].op] # "CALL_L"
      /\ s[i].op # "PUSH" /\ ShortForm[s[i].op] # "PUSH"
  BY DEF Ops, Branches, ShortBranches, Shortenable, ShortForm
<1>2. s[i] \in Instruction
  OBVIOUS
<1>3. [s[i] EXCEPT !.op = ShortForm[@]] \in Instruction
  <2>1. s[i].arg \in Int /\ s[i].arg >= 0 /\ s[i].rels \in Seq(Int) /\ s[i].id \in Nat
    BY <1>1, <1>2 DEF Instruction
  <2>2. s[i] = [op |-> s[i].op, arg |-> s[i].arg, rels |-> s[i].rels, id |-> s[i].id]
    BY <1>2 DEF Instruction
  <2>3. [s[i] EXCEPT !.op = ShortForm[@]]
          = [op |-> ShortForm[s[i].op], arg |-> s[i].arg, rels |-> s[i].rels, id |-> s[i].id]
    BY <2>2
  <2> QED  BY <1>1, <2>1, <2>3 DEF Instruction
<1>4. Shortened(s, i) = [s EXCEPT ![i] = [s[i] EXCEPT !.op = ShortForm[@]]]
  BY DEF Shortened
<1>5. Shortened(s, i)[i] = [s[i] EXCEPT !.op = ShortForm[@]]
  BY <1>4
<1>6. \A j \in 1..Len(s) : j # i => Shortened(s, i)[j] = s[j]
  BY <1>4
<1>7. Shortened(s, i) \in [1..Len(s) -> Instruction]
  BY <1>3, <1>4
<1>8. Shortened(s, i) \in Seq(Instruction) /\ Len(Shortened(s, i)) = Len(s)
  BY <1>7, FunctionIsSeq
<1>9. /\ Shortened(s, i)[i].id = s[i].id
      /\ Shortened(s, i)[i].arg = s[i].arg
      /\ Shortened(s, i)[i].rels = s[i].rels
      /\ Shortened(s, i)[i].op = ShortForm[s[i].op]
  BY <1>2, <1>5 DEF Instruction
<1> QED
  BY <1>1, <1>6, <1>8, <1>9

LEMMA NarrowShape ==
  ASSUME inst \in Seq(Instruction), NEW i \in 1..Len(inst), Narrowable(i)
  PROVE  SameButOperands(Narrow(i), Shortened(inst, i))
<1> DEFINE d == Shortened(inst, i)
<1>1. d \in Seq(Instruction) /\ Len(d) = Len(inst)
  BY ShortenedFacts DEF Narrowable
<1>2. \A j \in 1..Len(d) : OldIndex(NarrowEdit(i), j) \in 1..Len(inst)
  BY <1>1 DEF OldIndex, NarrowEdit, NoInstruction
<1>3. /\ NarrowEdit(i).start \in Int /\ NarrowEdit(i).len \in Int
      /\ NarrowEdit(i).gone \in Nat
  BY OffsetSteps DEF NarrowEdit, NoInstruction
<1>4. Narrow(i) = Relayout(inst, d, NarrowEdit(i)) /\ Narrow(i) # Refused
  BY DEF Narrow, Narrowable, Shortened
<1> HIDE DEF d
<1> QED
  BY <1>1, <1>2, <1>3, <1>4, RelayoutShape DEF d

Merged(s, k) == [s EXCEPT ![k].op = "DUP", ![k].arg = 0]

\* A load whose slot is dropped is an instruction.
LEMMA DupIsInstruction ==
  ASSUME NEW i \in Instruction
  PROVE  [i EXCEPT !.op = "DUP", !.arg = 0] \in Instruction
<1> SUFFICES ASSUME NEW dup, dup = [i EXCEPT !.op = "DUP", !.arg = 0]
             PROVE  dup \in Instruction
  OBVIOUS
<1>1. dup = [op |-> "DUP", arg |-> 0, rels |-> i.rels, id |-> i.id]
  BY DEF Instruction
<1>2. i.rels \in Seq(Int) /\ i.id \in Nat
  BY DEF Instruction
<1> QED  BY <1>1, <1>2 DEF Instruction, Ops, PlainOps

\* Merging makes the load at k a DUP.
LEMMA MergedFacts ==
  ASSUME NEW s \in Seq(Instruction), NEW k \in 1..Len(s)
  PROVE  /\ Merged(s, k) \in Seq(Instruction)
         /\ Len(Merged(s, k)) = Len(s)
         /\ Merged(s, k)[k].op = "DUP"
         /\ Merged(s, k)[k].id = s[k].id
         /\ \A j \in 1..Len(s) : j # k => Merged(s, k)[j] = s[j]
<1> DEFINE dup == [s[k] EXCEPT !.op = "DUP", !.arg = 0]
<1>1. s[k] \in Instruction
  OBVIOUS
<1>2. dup \in Instruction /\ dup.op = "DUP" /\ dup.id = s[k].id
  <2>1. dup \in Instruction
    BY <1>1, DupIsInstruction
  <2>2. dup.op = "DUP" /\ dup.id = s[k].id
    BY <1>1 DEF Instruction
  <2> QED  BY <2>1, <2>2
<1>3. Merged(s, k) = [s EXCEPT ![k] = dup]
  BY DEF Merged
<1> HIDE DEF dup
<1> QED  BY <1>2, <1>3, ReplaceFacts

\* Shifting keeps every entry a patch, and moves it by n past the removal.
LEMMA ShiftFacts ==
  ASSUME patches \in Seq(Patch), NEW i \in Nat \ {0}, NEW n \in Nat
  PROVE  /\ ShiftPatches(i, n) \in Seq(Patch)
         /\ Len(ShiftPatches(i, n)) = Len(patches)
         /\ \A p \in 1..Len(patches) :
               /\ ShiftPatches(i, n)[p].sym = patches[p].sym
               /\ ShiftPatches(i, n)[p].at =
                    IF patches[p].at >= i + n THEN patches[p].at - n
                                              ELSE patches[p].at
<1>1. ShiftPatches(i, n) =
        [p \in 1..Len(patches) |->
           IF patches[p].at >= i + n THEN [patches[p] EXCEPT !.at = @ - n]
                                     ELSE patches[p]]
  BY DEF ShiftPatches
<1>2. ASSUME NEW p \in 1..Len(patches)
      PROVE  /\ ShiftPatches(i, n)[p] \in Patch
             /\ ShiftPatches(i, n)[p].sym = patches[p].sym
             /\ ShiftPatches(i, n)[p].at =
                  IF patches[p].at >= i + n THEN patches[p].at - n
                                            ELSE patches[p].at
  <2>1. patches[p] \in Patch
    OBVIOUS
  <2>2. ShiftPatches(i, n)[p] =
          IF patches[p].at >= i + n THEN [patches[p] EXCEPT !.at = @ - n]
                                    ELSE patches[p]
    BY <1>1
  <2>3. patches[p].at \in Nat \ {0} /\ patches[p].sym \in Symbols
    BY <2>1 DEF Patch
  <2>4. CASE patches[p].at >= i + n
    <3>1. patches[p].at - n \in Nat \ {0}
      BY <2>3, <2>4
    <3>2. ShiftPatches(i, n)[p] = [patches[p] EXCEPT !.at = @ - n]
      BY <2>2, <2>4
    <3> QED  BY <2>1, <2>4, <3>1, <3>2 DEF Patch
  <2>5. CASE ~(patches[p].at >= i + n)
    BY <2>1, <2>2, <2>5
  <2> QED  BY <2>4, <2>5
<1>3. ShiftPatches(i, n) \in [1..Len(patches) -> Patch]
  BY <1>1, <1>2
<1> QED  BY <1>2, <1>3, FunctionIsSeq

\* The variables keep their types, whatever routines are emitted.
THEOREM TypeCorrect == Spec => []TypeOK
<1>1. Init => TypeOK
  <2> SUFFICES ASSUME Init PROVE TypeOK
    OBVIOUS
  <2>1. Routine(emitted)
    BY EmittedAssumption DEF Init
  <2>2. inst \in Seq(Instruction) /\ patches \in Seq(Patch)
    BY <2>1 DEF Init, Routine, Linkable
  <2>3. round \in 1..MaxRounds
    BY MaxRoundsAssumption DEF Init
  <2>4. index \in 1..(Len(inst) + 1)
    BY <2>2 DEF Init
  <2>5. changed \in BOOLEAN
    BY DEF Init
  <2>6. pass \in Passes \cup {"endround", "done"}
    BY DEF Init, Passes
  <2> QED  BY <2>1, <2>2, <2>3, <2>4, <2>5, <2>6 DEF TypeOK
<1>2. TypeOK /\ [Next]_vars => TypeOK'
  <2> SUFFICES ASSUME TypeOK, [Next]_vars PROVE TypeOK'
    OBVIOUS
  <2>0. index \in Nat \ {0} /\ Len(inst) \in Nat /\ inst \in Seq(Instruction)
    BY DEF TypeOK
  <2>1. CASE MergeDuplicateLoad
    <3>1. index + 1 \in 1..Len(inst)
      BY <2>0, <2>1 DEF MergeDuplicateLoad, Scanning
    <3>2. inst' \in Seq(Instruction) /\ Len(inst') = Len(inst)
      BY <2>0, <2>1, <3>1, MergedFacts DEF MergeDuplicateLoad, Merged
    <3> QED  BY <2>0, <2>1, <3>2 DEF MergeDuplicateLoad, TypeOK
  <2>2. CASE (PeelDupDrop \/ PeelStoreLoad)
    <3>1. index \in 1..Len(inst) /\ index + 2 - 1 <= Len(inst) /\ RemovePair
      BY <2>0, <2>2 DEF PeelDupDrop, PeelStoreLoad, Scanning
    <3>2. inst' \in Seq(Instruction) /\ Len(inst') = Len(inst) - 2
      BY <2>0, <3>1, DrainFacts DEF RemovePair
    <3>3. ShiftPatches(index, 2) \in Seq(Patch)
      BY <2>0, ShiftFacts DEF TypeOK
    <3>4. index' \in 1..(Len(inst') + 1)
      BY <2>0, <3>1, <3>2 DEF RemovePair
    <3> QED  BY <3>1, <3>2, <3>3, <3>4 DEF RemovePair, TypeOK
  <2>3. CASE PeelJump
    <3>1. /\ index \in 1..Len(inst) /\ index < Len(inst)
          /\ RemoveJump(index) # Refused
      BY <2>0, <2>3 DEF PeelJump, Scanning, JumpToNext
    <3>2. inst' \in Seq(Instruction) /\ Len(inst') = Len(inst) - 1
      BY <2>0, <2>3, <3>1, RemoveJumpShape, DrainFacts
         DEF PeelJump, SameButOperands
    <3>3. ShiftPatches(index, 1) \in Seq(Patch)
      BY <2>0, ShiftFacts DEF TypeOK
    <3>4. index' \in 1..(Len(inst') + 1)
      BY <2>0, <2>3, <3>1, <3>2 DEF PeelJump
    <3> QED  BY <2>3, <3>2, <3>3, <3>4 DEF PeelJump, TypeOK
  <2>4. CASE NarrowBranch
    <3>1. index \in 1..Len(inst) /\ Narrowable(index)
      BY <2>0, <2>4 DEF NarrowBranch, Scanning
    <3>2. Narrow(index) \in Seq(Instruction) /\ Len(Narrow(index)) = Len(inst)
      BY <2>0, <3>1, NarrowShape, ShortenedFacts DEF Narrowable, SameButOperands
    <3>3. inst' = Narrow(index) /\ index' = index + 1
      BY <2>4 DEF NarrowBranch
    <3>4. index' \in 1..(Len(inst') + 1)
      BY <2>0, <3>1, <3>2, <3>3
    <3> QED  BY <2>4, <3>2, <3>3, <3>4 DEF NarrowBranch, TypeOK
  <2>5. CASE Advance
    <3>1. index <= Len(inst) /\ inst' = inst /\ index' = index + 1
      BY <2>0, <2>5 DEF Advance, Scanning
    <3>2. index' \in 1..(Len(inst') + 1)
      BY <2>0, <3>1
    <3> QED  BY <2>5, <3>2 DEF Advance, TypeOK
  <2>6. CASE EndPass
    <3>1. NextPass[pass] \in Passes \cup {"endround"}
      BY <2>6 DEF EndPass, Passes, NextPass
    <3>2. index' \in 1..(Len(inst') + 1)
      BY <2>0, <2>6 DEF EndPass
    <3> QED  BY <2>6, <3>1, <3>2 DEF EndPass, TypeOK
  <2>7. CASE EndRound
    <3>1. /\ pass' \in Passes \cup {"endround", "done"}
          /\ round' \in 1..MaxRounds
      <4>1. CASE changed /\ round < MaxRounds
        BY <2>7, <4>1, MaxRoundsAssumption DEF EndRound, TypeOK, Passes
      <4>2. CASE ~(changed /\ round < MaxRounds)
        BY <2>7, <4>2 DEF EndRound, TypeOK
      <4> QED  BY <4>1, <4>2
    <3> QED  BY <2>7, <3>1 DEF EndRound, TypeOK
  <2>8. CASE UNCHANGED vars
    BY <2>8 DEF vars, TypeOK
  <2> QED
    BY <2>1, <2>2, <2>3, <2>4, <2>5, <2>6, <2>7, <2>8 DEF Next
<1> QED
  BY <1>1, <1>2, PTL DEF Spec

-----------------------------------------------------------------------------
(* Call patches. *)

\* A step that leaves the patches alone, and every CALL_L where it is.
LEMMA SamePlacesTrackCalls ==
  ASSUME TypeOK, PatchesTrackCalls,
         emitted' = emitted, patches' = patches,
         inst' \in Seq(Instruction), Len(inst') = Len(inst),
         \A k \in 1..Len(inst) :
            /\ inst'[k].id = inst[k].id
            /\ inst'[k].op = "CALL_L" <=> inst[k].op = "CALL_L"
  PROVE  PatchesTrackCalls'
<1>1. /\ DOMAIN inst = 1..Len(inst) /\ DOMAIN inst' = 1..Len(inst)
  BY DEF TypeOK
<1>2. \A p \in DOMAIN patches : PatchOnItsCall(p)'
  BY <1>1 DEF PatchesTrackCalls, PatchOnItsCall
<1>3. \A k \in DOMAIN inst' : CallHasPatch(k)'
  BY <1>1 DEF PatchesTrackCalls, CallHasPatch
<1> QED
  BY <1>2, <1>3 DEF PatchesTrackCalls

\* A step that removes instructions no patch is for, and shifts the patches.
LEMMA RemovalTracksCalls ==
  ASSUME TypeOK, PatchesTrackCalls,
         NEW i \in 1..Len(inst), NEW n \in Nat, i + n - 1 <= Len(inst),
         ~PatchTouches(i, n),
         SameButOperands(inst', Drain(inst, i, n)),
         patches' = ShiftPatches(i, n), emitted' = emitted
  PROVE  PatchesTrackCalls'
<1>0. inst \in Seq(Instruction) /\ patches \in Seq(Patch)
  BY DEF TypeOK
<1>1. /\ inst' \in Seq(Instruction)
      /\ Len(inst') = Len(inst) - n
      /\ \A k \in 1..(Len(inst) - n) :
            /\ inst'[k].id = inst[IF k < i THEN k ELSE k + n].id
            /\ inst'[k].op = inst[IF k < i THEN k ELSE k + n].op
  BY <1>0, DrainFacts, ZenonT(40) DEF SameButOperands
<1>a. i \in Nat \ {0}
  BY <1>0
<1>2. /\ patches' \in Seq(Patch)
      /\ Len(patches') = Len(patches)
      /\ \A p \in 1..Len(patches) :
            /\ patches'[p].sym = patches[p].sym
            /\ patches'[p].at = IF patches[p].at >= i + n
                                THEN patches[p].at - n ELSE patches[p].at
  BY <1>0, <1>a, ShiftFacts
<1>3. /\ DOMAIN patches = 1..Len(patches)
      /\ DOMAIN patches' = 1..Len(patches)
      /\ DOMAIN inst = 1..Len(inst)
      /\ DOMAIN inst' = 1..(Len(inst) - n)
      /\ Len(inst) \in Nat
  BY <1>0, <1>1, <1>2
<1>4. \A p \in 1..Len(patches) : patches[p].at \in Nat
  <2> SUFFICES ASSUME NEW p \in 1..Len(patches) PROVE patches[p].at \in Nat
    OBVIOUS
  <2>1. patches[p] \in Patch
    BY <1>0
  <2> QED  BY <2>1 DEF Patch
<1>5. \A p \in 1..Len(patches) : patches[p].at < i \/ patches[p].at >= i + n
  BY <1>3, <1>4 DEF PatchTouches
<1>6. ASSUME NEW p \in 1..Len(patches)
      PROVE  PatchOnItsCall(p)'
  <2>1. /\ patches[p].sym = emitted.patches[p].sym
        /\ patches[p].at \in 1..Len(inst)
        /\ inst[patches[p].at].op = "CALL_L"
        /\ inst[patches[p].at].id = emitted.patches[p].at
    BY <1>3 DEF PatchesTrackCalls, PatchOnItsCall
  <2>2. /\ patches'[p].at \in 1..(Len(inst) - n)
        /\ (IF patches'[p].at < i THEN patches'[p].at
                                  ELSE patches'[p].at + n) = patches[p].at
    BY <1>2, <1>3, <1>5, <2>1
  <2> QED
    BY <1>1, <1>2, <1>3, <2>1, <2>2 DEF PatchOnItsCall
<1>7. ASSUME NEW k \in 1..(Len(inst) - n), inst'[k].op = "CALL_L"
      PROVE  \E p \in DOMAIN patches' : patches'[p].at = k
  <2> DEFINE old == IF k < i THEN k ELSE k + n
  <2>1. old \in 1..Len(inst) /\ inst[old].op = "CALL_L"
    <3>1. CASE k < i
      BY <1>1, <1>3, <1>7, <3>1
    <3>2. CASE ~(k < i)
      BY <1>1, <1>3, <1>7, <3>2
    <3> QED  BY <3>1, <3>2
  <2>2. PICK p \in 1..Len(patches) : patches[p].at = old
    BY <1>3, <2>1 DEF PatchesTrackCalls, CallHasPatch
  <2>3. patches'[p].at = k
    BY <1>2, <1>3, <1>5, <2>2
  <2> QED  BY <1>3, <2>3
<1>8. \A k \in DOMAIN inst' : CallHasPatch(k)'
  BY <1>3, <1>7 DEF CallHasPatch
<1>9. Len(patches') = Len(emitted'.patches)
  BY <1>2 DEF PatchesTrackCalls
<1> QED
  BY <1>3, <1>6, <1>8, <1>9 DEF PatchesTrackCalls

\* Every call_patches entry stays on its own CALL_L and every CALL_L keeps
\* its entry, whatever routines are emitted.
THEOREM PatchesTracked == Spec => []PatchesTrackCalls
<1>1. Init => PatchesTrackCalls
  BY EmittedAssumption
     DEF Init, Routine, Linkable, PatchesTrackCalls, PatchOnItsCall, CallHasPatch
<1>2. TypeOK /\ PatchesTrackCalls /\ [Next]_vars => PatchesTrackCalls'
  <2> SUFFICES ASSUME TypeOK, PatchesTrackCalls, [Next]_vars
               PROVE  PatchesTrackCalls'
    OBVIOUS
  <2>0. index \in Nat \ {0} /\ Len(inst) \in Nat /\ inst \in Seq(Instruction)
    BY DEF TypeOK
  <2>1. CASE MergeDuplicateLoad
    <3>1. index + 1 \in 1..Len(inst) /\ inst' = Merged(inst, index + 1)
      BY <2>0, <2>1 DEF MergeDuplicateLoad, Scanning, Merged
    <3>2. inst[index + 1].op # "CALL_L"
      BY <2>1 DEF MergeDuplicateLoad, Mergeable, LoadSlots
    <3>3. \A k \in 1..Len(inst) :
             /\ inst'[k].id = inst[k].id
             /\ inst'[k].op = "CALL_L" <=> inst[k].op = "CALL_L"
      BY <2>0, <3>1, <3>2, MergedFacts
    <3>4. inst' \in Seq(Instruction) /\ Len(inst') = Len(inst)
      BY <2>0, <3>1, MergedFacts
    <3>5. patches' = patches /\ emitted' = emitted
      BY <2>1 DEF MergeDuplicateLoad
    <3> QED  BY <3>3, <3>4, <3>5, SamePlacesTrackCalls
  <2>2. CASE PeelDupDrop \/ PeelStoreLoad
    <3>1. /\ index \in 1..Len(inst) /\ index + 2 - 1 <= Len(inst)
          /\ RemovePair /\ ~PatchTouches(index, 2)
      BY <2>0, <2>2 DEF PeelDupDrop, PeelStoreLoad, Scanning, DupThenDrop,
                        StoreThenLoad
    <3>2. Drain(inst, index, 2) \in Seq(Instruction)
      BY <2>0, <3>1, DrainFacts
    <3>3. SameButOperands(inst', Drain(inst, index, 2))
      BY <3>1, <3>2 DEF RemovePair, SameButOperands
    <3>4. patches' = ShiftPatches(index, 2) /\ emitted' = emitted
      BY <3>1 DEF RemovePair
    <3> QED  BY <3>1, <3>3, <3>4, RemovalTracksCalls
  <2>3. CASE PeelJump
    <3>1. /\ index \in 1..Len(inst) /\ index + 1 - 1 <= Len(inst)
          /\ RemoveJump(index) # Refused /\ ~PatchTouches(index, 1)
      BY <2>0, <2>3 DEF PeelJump, Scanning, JumpToNext
    <3>2. SameButOperands(inst', Drain(inst, index, 1))
      BY <2>0, <2>3, <3>1, RemoveJumpShape DEF PeelJump
    <3>3. patches' = ShiftPatches(index, 1) /\ emitted' = emitted
      BY <2>3 DEF PeelJump
    <3> QED  BY <3>1, <3>2, <3>3, RemovalTracksCalls
  <2>4. CASE NarrowBranch
    <3>1. index \in 1..Len(inst) /\ Narrowable(index)
      BY <2>0, <2>4 DEF NarrowBranch, Scanning
    <3>2. SameButOperands(inst', Shortened(inst, index))
      BY <2>0, <2>4, <3>1, NarrowShape DEF NarrowBranch
    <3>3. inst[index].op \in Shortenable
      BY <3>1 DEF Narrowable
    <3>4. \A k \in 1..Len(inst) :
             /\ inst'[k].id = inst[k].id
             /\ inst'[k].op = "CALL_L" <=> inst[k].op = "CALL_L"
      BY <2>0, <3>1, <3>2, <3>3, ShortenedFacts DEF SameButOperands
    <3>5. inst' \in Seq(Instruction) /\ Len(inst') = Len(inst)
      BY <2>0, <3>1, <3>2, <3>3, ShortenedFacts DEF SameButOperands
    <3>6. patches' = patches /\ emitted' = emitted
      BY <2>4 DEF NarrowBranch
    <3> QED  BY <3>4, <3>5, <3>6, SamePlacesTrackCalls
  <2>5. CASE Advance \/ EndPass \/ EndRound \/ UNCHANGED vars
    <3>1. inst' = inst /\ patches' = patches /\ emitted' = emitted
      BY <2>5 DEF Advance, EndPass, EndRound, vars
    <3> QED  BY <2>0, <3>1, SamePlacesTrackCalls
  <2> QED
    BY <2>1, <2>2, <2>3, <2>4, <2>5 DEF Next
<1> QED
  BY <1>1, <1>2, TypeCorrect, PTL DEF Spec

-----------------------------------------------------------------------------
(* The end of the rounds. *)

Later == [merge     |-> {"dupdrop", "storeload", "jump", "shorten", "endround", "done"},
          dupdrop   |-> {"storeload", "jump", "shorten", "endround", "done"},
          storeload |-> {"jump", "shorten", "endround", "done"},
          jump      |-> {"shorten", "endround", "done"},
          shorten   |-> {"endround", "done"}]

\* Pass p has been at position i, in this round or in the last one.
Scanned(p, i) == (pass = p /\ i < index) \/ pass \in Later[p]

\* While nothing has changed, what a pass has left behind has nothing for it.
NothingAt(i) ==
  /\ i \in 1..(Len(inst) - 1) =>
       /\ Scanned("merge", i) => ~Mergeable(i)
       /\ Scanned("dupdrop", i) => ~DupThenDrop(i)
       /\ Scanned("storeload", i) => ~StoreThenLoad(i)
  /\ i \in 1..Len(inst) =>
       /\ Scanned("jump", i) => ~JumpToNext(i)
       /\ Scanned("shorten", i) => ~Narrowable(i)

Unchanged == IF pass = "done" THEN round < MaxRounds ELSE ~changed

Quiet ==
  /\ pass = "endround" => index = 1
  /\ Unchanged => \A i \in 1..Len(inst) : NothingAt(i)

\* The patterns are about the instructions and the patches.
LEMMA SamePatterns ==
  ASSUME inst' = inst, patches' = patches, NEW i
  PROVE  /\ Mergeable(i)' <=> Mergeable(i)
         /\ DupThenDrop(i)' <=> DupThenDrop(i)
         /\ StoreThenLoad(i)' <=> StoreThenLoad(i)
         /\ JumpToNext(i)' <=> JumpToNext(i)
         /\ Narrowable(i)' <=> Narrowable(i)
BY DEF Mergeable, DupThenDrop, StoreThenLoad, JumpToNext, Narrowable, PatchTouches,
       ReloadedBeforeNextStore, RemoveJump, JumpEdit, Narrow, NarrowEdit

LEMMA QuietStep ==
  ASSUME TypeOK, Quiet, [Next]_vars
  PROVE  Quiet'
<1>0. index \in Nat \ {0} /\ Len(inst) \in Nat
  BY DEF TypeOK
<1>1. CASE MergeDuplicateLoad \/ PeelDupDrop \/ PeelStoreLoad \/ PeelJump \/ NarrowBranch
  <2>1. changed' = TRUE /\ pass' = pass /\ pass \in Passes
    BY <1>1 DEF MergeDuplicateLoad, PeelDupDrop, PeelStoreLoad, PeelJump, NarrowBranch,
                RemovePair, Scanning, Passes
  <2>2. pass' \notin {"endround", "done"}
    BY <2>1 DEF Passes
  <2> QED  BY <2>1, <2>2 DEF Quiet, Unchanged
<1>2. CASE Advance
  <2>1. /\ UNCHANGED <<inst, patches, pass, changed, round>>
        /\ index' = index + 1 /\ pass \in Passes
    BY <1>2 DEF Advance, Scanning, Passes
  <2>2. pass \notin {"endround", "done"}
    BY <2>1 DEF Passes
  <2>3. ASSUME Unchanged', NEW i \in 1..Len(inst) PROVE NothingAt(i)'
    <3>1. NothingAt(i)
      BY <2>1, <2>3 DEF Quiet, Unchanged
    <3>2. \A p \in Passes : Scanned(p, i)' => Scanned(p, i) \/ (pass = p /\ i = index)
      BY <1>0, <2>1 DEF Scanned
    <3>3. \A p \in Passes : pass = p /\ i = index /\ Scanned(p, i)' => p = pass
      OBVIOUS
    <3>4. i = index =>
            /\ pass = "merge" /\ i \in 1..(Len(inst) - 1) => ~Mergeable(i)
            /\ pass = "dupdrop" /\ i \in 1..(Len(inst) - 1) => ~DupThenDrop(i)
            /\ pass = "storeload" /\ i \in 1..(Len(inst) - 1) => ~StoreThenLoad(i)
            /\ pass = "jump" => ~JumpToNext(i)
            /\ pass = "shorten" => ~Narrowable(i)
      BY <1>2 DEF Advance, Scanning
    <3>5. \A p \in {"merge", "dupdrop", "storeload", "jump", "shorten"} :
            Scanned(p, i)' => Scanned(p, i) \/ (pass = p /\ i = index)
      BY <3>2 DEF Passes
    <3>6. inst' = inst /\ patches' = patches
      BY <2>1
    <3> QED  BY <3>1, <3>4, <3>5, <3>6, SamePatterns DEF NothingAt
  <2> QED  BY <2>1, <2>2, <2>3 DEF Quiet
<1>3. CASE EndPass
  <2>1. /\ UNCHANGED <<inst, patches, changed, round>>
        /\ pass \in Passes /\ pass' = NextPass[pass] /\ index' = 1
        /\ index > IF pass \in {"jump", "shorten"} THEN Len(inst) ELSE Len(inst) - 1
    BY <1>3 DEF EndPass
  <2>2. pass # "done" /\ pass' # "done" /\ (pass' = "endround" => index' = 1)
    BY <2>1 DEF Passes, NextPass
  <2>3. ASSUME Unchanged', NEW i \in 1..Len(inst) PROVE NothingAt(i)'
    <3>1. NothingAt(i)
      BY <2>1, <2>2, <2>3 DEF Quiet, Unchanged
    <3>2. \A p \in Passes : Scanned(p, i)' => pass = p \/ pass \in Later[p]
      <4>1. ~(i < index')
        BY <2>1
      <4> QED  BY <2>1, <4>1 DEF Scanned, Later, Passes, NextPass
    <3>3. /\ pass \in {"merge", "dupdrop", "storeload"} /\ i \in 1..(Len(inst) - 1) => i < index
          /\ pass \in {"jump", "shorten"} => i < index
      BY <1>0, <2>1
    <3>4. /\ i \in 1..(Len(inst) - 1) =>
               \A p \in {"merge", "dupdrop", "storeload"} : Scanned(p, i)' => Scanned(p, i)
          /\ \A p \in {"jump", "shorten"} : Scanned(p, i)' => Scanned(p, i)
      BY <3>2, <3>3 DEF Scanned, Passes
    <3>5. inst' = inst /\ patches' = patches
      BY <2>1
    <3> QED  BY <3>1, <3>4, <3>5, SamePatterns DEF NothingAt
  <2> QED  BY <2>1, <2>2, <2>3 DEF Quiet
<1>4. CASE EndRound
  <2>1. /\ UNCHANGED <<inst, patches, index>> /\ pass = "endround" /\ index' = 1
        /\ pass' \in {"merge", "done"} /\ changed' = FALSE
    BY <1>4 DEF EndRound, Quiet
  <2>2. ASSUME pass' = "merge", NEW i \in 1..Len(inst) PROVE NothingAt(i)'
    <3>1. \A p \in Passes : ~Scanned(p, i)'
      BY <2>1, <2>2 DEF Scanned, Later, Passes
    <3> QED  BY <3>1 DEF NothingAt, Passes
  <2>3. ASSUME pass' = "done", Unchanged', NEW i \in 1..Len(inst) PROVE NothingAt(i)'
    <3>1. ~changed
      BY <1>4, <2>3 DEF EndRound, Unchanged
    <3>2. NothingAt(i)
      BY <2>1, <3>1 DEF Quiet, Unchanged
    <3>3. \A p \in {"merge", "dupdrop", "storeload", "jump", "shorten"} : Scanned(p, i)
      BY <2>1 DEF Scanned, Later
    <3>4. inst' = inst /\ patches' = patches
      BY <2>1
    <3> QED  BY <3>2, <3>3, <3>4, SamePatterns DEF NothingAt
  <2> QED  BY <2>1, <2>2, <2>3 DEF Quiet
<1>5. CASE UNCHANGED vars
  <2>1. inst' = inst /\ patches' = patches
    BY <1>5 DEF vars
  <2>2. \A i : NothingAt(i)' <=> NothingAt(i)
    BY <1>5, <2>1, SamePatterns DEF NothingAt, Scanned, vars
  <2> QED  BY <1>5, <2>2 DEF Quiet, Unchanged, vars
<1> QED  BY <1>1, <1>2, <1>3, <1>4, <1>5 DEF Next

\* When the optimizer stops before its last round, no pass has anything left
\* to do, whatever routines are emitted: the flag that a pass sets is enough
\* to decide whether all of them have to run again. CompiledFunction::optimize.
THEOREM FixpointReached == Spec => []NothingLeftToDo
<1>1. Init => Quiet
  <2> SUFFICES ASSUME Init PROVE Quiet
    OBVIOUS
  <2>1. \A i \in Nat \ {0} : \A p \in Passes : ~Scanned(p, i)
    BY DEF Init, Scanned, Later, Passes
  <2>2. \A i \in 1..Len(inst) : NothingAt(i)
    BY <2>1 DEF NothingAt, Passes
  <2> QED  BY <2>2 DEF Init, Quiet
<1>2. TypeOK /\ Quiet /\ [Next]_vars => Quiet'
  BY QuietStep
<1>3. TypeOK /\ Quiet => NothingLeftToDo
  <2> SUFFICES ASSUME TypeOK, Quiet, pass = "done", round < MaxRounds
               PROVE  /\ \A i \in 1..(Len(inst) - 1) :
                           ~Mergeable(i) /\ ~DupThenDrop(i) /\ ~StoreThenLoad(i)
                      /\ \A i \in 1..Len(inst) : ~JumpToNext(i) /\ ~Narrowable(i)
    BY DEF NothingLeftToDo
  <2>1. \A i \in 1..Len(inst) : NothingAt(i)
    BY DEF Quiet, Unchanged
  <2>2. \A i : \A p \in {"merge", "dupdrop", "storeload", "jump", "shorten"} : Scanned(p, i)
    BY DEF Scanned, Later
  <2>3. Len(inst) \in Nat
    BY DEF TypeOK
  <2>4. \A i \in 1..(Len(inst) - 1) : i \in 1..Len(inst)
    BY <2>3
  <2> QED  BY <2>1, <2>2, <2>4 DEF NothingAt
<1> QED  BY <1>1, <1>2, <1>3, TypeCorrect, PTL DEF Spec

-----------------------------------------------------------------------------
(* Re-encoding. *)

\* The ghost ids tell the instructions apart.
Distinct == \A j, k \in 1..Len(inst) : inst[j].id = inst[k].id => j = k

LEMMA DistinctStep ==
  ASSUME TypeOK, Distinct, [Next]_vars
  PROVE  Distinct'
<1>0. index \in Nat \ {0} /\ Len(inst) \in Nat /\ inst \in Seq(Instruction)
  BY DEF TypeOK
<1>1. ASSUME NEW d \in Seq(Instruction), NEW i \in 1..Len(inst), NEW n \in Nat,
             i + n - 1 <= Len(inst), SameButOperands(d, Drain(inst, i, n)), inst' = d
      PROVE  Distinct'
  <2>1. /\ Len(d) = Len(inst) - n
        /\ \A k \in 1..Len(d) : d[k].id = inst[IF k < i THEN k ELSE k + n].id
    BY <1>0, <1>1, DrainFacts, SMTT(30) DEF SameButOperands
  <2>2. \A j, k \in 1..Len(d) : d[j].id = d[k].id => j = k
    <3> SUFFICES ASSUME NEW j \in 1..Len(d), NEW k \in 1..Len(d), d[j].id = d[k].id
                 PROVE  j = k
      OBVIOUS
    <3> DEFINE old(l) == IF l < i THEN l ELSE l + n
    <3>1. old(j) \in 1..Len(inst) /\ old(k) \in 1..Len(inst)
      BY <1>0, <2>1
    <3>2. inst[old(j)].id = inst[old(k)].id
      BY <2>1
    <3>3. old(j) = old(k)
      BY <3>1, <3>2 DEF Distinct
    <3> QED  BY <1>0, <2>1, <3>3
  <2> QED  BY <1>1, <2>2 DEF Distinct
<1>2. ASSUME Len(inst') = Len(inst), \A k \in 1..Len(inst) : inst'[k].id = inst[k].id
      PROVE  Distinct'
  BY <1>2 DEF Distinct
<1>3. CASE MergeDuplicateLoad
  <2>1. index + 1 \in 1..Len(inst) /\ inst' = Merged(inst, index + 1)
    BY <1>0, <1>3 DEF MergeDuplicateLoad, Scanning, Merged
  <2> QED  BY <1>0, <1>2, <2>1, MergedFacts
<1>4. CASE PeelDupDrop \/ PeelStoreLoad
  <2>1. index \in 1..Len(inst) /\ index + 2 - 1 <= Len(inst) /\ inst' = Drain(inst, index, 2)
    BY <1>0, <1>4 DEF PeelDupDrop, PeelStoreLoad, Scanning, RemovePair
  <2>2. Drain(inst, index, 2) \in Seq(Instruction)
    BY <1>0, <2>1, DrainFacts
  <2>3. SameButOperands(Drain(inst, index, 2), Drain(inst, index, 2))
    BY <2>2 DEF SameButOperands
  <2> QED  BY <1>1, <2>1, <2>2, <2>3
<1>5. CASE PeelJump
  <2>1. /\ index \in 1..Len(inst) /\ index + 1 - 1 <= Len(inst)
        /\ RemoveJump(index) # Refused /\ inst' = RemoveJump(index)
    BY <1>0, <1>5 DEF PeelJump, Scanning, JumpToNext
  <2>2. SameButOperands(inst', Drain(inst, index, 1))
    BY <1>0, <2>1, RemoveJumpShape
  <2>3. inst' \in Seq(Instruction)
    BY <2>2 DEF SameButOperands
  <2> QED  BY <1>1, <2>1, <2>2, <2>3
<1>6. CASE NarrowBranch
  <2>1. index \in 1..Len(inst) /\ Narrowable(index) /\ inst' = Narrow(index)
    BY <1>0, <1>6 DEF NarrowBranch, Scanning
  <2>2. SameButOperands(inst', Shortened(inst, index))
    BY <1>0, <2>1, NarrowShape
  <2>3. /\ Len(Shortened(inst, index)) = Len(inst)
        /\ \A k \in 1..Len(inst) : Shortened(inst, index)[k].id = inst[k].id
    BY <1>0, <2>1, ShortenedFacts DEF Narrowable
  <2> QED  BY <1>2, <2>2, <2>3 DEF SameButOperands
<1>7. CASE Advance \/ EndPass \/ EndRound \/ UNCHANGED vars
  BY <1>7 DEF Advance, EndPass, EndRound, vars, Distinct
<1> QED  BY <1>3, <1>4, <1>5, <1>6, <1>7 DEF Next

\* The operands do not matter to the layout.
LEMMA SameLayout ==
  ASSUME NEW d \in Seq(Instruction), NEW t, SameButOperands(t, d), NEW k
  PROVE  Offset(t, k) = Offset(d, k)
<1>1. DOMAIN t = 1..Len(d) /\ DOMAIN d = 1..Len(d)
  BY DEF SameButOperands
<1>2. \A j \in 1..Len(d) : EncodedLen(t[j]) = EncodedLen(d[j])
  BY DEF SameButOperands, EncodedLen
<1>3. Lengths(t) = Lengths(d)
  BY <1>1, <1>2 DEF Lengths
<1> QED  BY <1>3, OffsetOfLengths

\* The operands after a relayout.
LEMMA RelayoutOperands ==
  ASSUME NEW was, NEW new \in Seq(Instruction), NEW edit, Relayout(was, new, edit) # Refused,
         NEW j \in 1..Len(new), NEW r \in DOMAIN new[j].rels
  PROVE  /\ Relayout(was, new, edit)[j].rels[r] = MovedRel(was, new, edit, j, r)
         /\ MovedTarget(was, new, edit, j, r) # NoOffset
<1> DEFINE rels == [q \in DOMAIN new[j].rels |-> MovedRel(was, new, edit, j, q)]
<1>1. new[j] \in Instruction /\ DOMAIN new = 1..Len(new)
  OBVIOUS
<1>2. Relayout(was, new, edit)[j] = [new[j] EXCEPT !.rels = rels]
  BY <1>1 DEF Relayout
<1>3. rels[r] = MovedRel(was, new, edit, j, r)
  OBVIOUS
<1> HIDE DEF rels
<1>4. Relayout(was, new, edit)[j].rels = rels
  BY <1>1, <1>2 DEF Instruction
<1>5. MovedTarget(was, new, edit, j, r) # NoOffset
  BY <1>1 DEF Relayout
<1> QED  BY <1>3, <1>4, <1>5

\* The first instruction from k on that is still there is j, or there is none.
LEMMA FirstKeptIs ==
  ASSUME NEW was \in Seq(Instruction), NEW new, NEW k \in 1..(Len(was) + 1),
         NEW j \in k..Len(was), \E m \in DOMAIN new : new[m].id = was[j].id,
         \A l \in k..(j - 1) : ~\E m \in DOMAIN new : new[m].id = was[l].id
  PROVE  FirstKept(was, new, k) = was[j].id
<1> DEFINE kept == {l \in k..Len(was) : \E m \in DOMAIN new : new[m].id = was[l].id}
<1>1. j \in kept
  OBVIOUS
<1>2. \A l \in kept : j <= l
  <2> SUFFICES ASSUME NEW l \in kept, ~(j <= l) PROVE FALSE
    OBVIOUS
  <2>1. l \in k..(j - 1)
    OBVIOUS
  <2> QED  BY <2>1
<1>3. \A l \in kept : (\A m \in kept : l <= m) => l = j
  BY <1>1, <1>2
<1>4. (CHOOSE l \in kept : \A m \in kept : l <= m) = j
  <2> HIDE DEF kept
  <2> QED  BY <1>1, <1>2, <1>3
<1> QED  BY <1>1, <1>4 DEF FirstKept

LEMMA NothingKept ==
  ASSUME NEW was \in Seq(Instruction), NEW new, NEW k, k = Len(was) + 1
  PROVE  FirstKept(was, new, k) = 0
<1>1. k..Len(was) = {}
  OBVIOUS
<1> QED  BY <1>1 DEF FirstKept

\* An edit re-encoded by Relayout: when place says where each position of the
\* old script is in the new one, and both the offset map of the edit and the
\* instructions agree with it, every branch leads where it led.
LEMMA TargetsMoved ==
  ASSUME NEW was \in Seq(Instruction), NEW new \in Seq(Instruction), NEW edit,
         edit.start \in Int, edit.len \in Int, edit.gone \in Nat,
         WellTargeted(was), Relayout(was, new, edit) # Refused,
         \A j, k \in 1..Len(was) : was[j].id = was[k].id => j = k,
         \A j \in 1..Len(new) : /\ OldIndex(edit, j) \in 1..Len(was)
                                /\ new[j].id = was[OldIndex(edit, j)].id
                                /\ new[j].rels = was[OldIndex(edit, j)].rels,
         NEW place \in [1..(Len(was) + 1) -> 1..(Len(new) + 1)],
         \A k \in 1..(Len(was) + 1) :
            /\ MovedOffset(edit, Offset(was, k)) = Offset(new, place[k])
            /\ IdAt(new, place[k]) = FirstKept(was, new, k)
  PROVE  SameTargets(was, Relayout(was, new, edit))
<1> DEFINE t == Relayout(was, new, edit)
<1>1. SameButOperands(t, new)
  BY RelayoutShape
<1>2. /\ t \in Seq(Instruction) /\ Len(t) = Len(new)
      /\ DOMAIN t = 1..Len(new) /\ DOMAIN new = 1..Len(new) /\ DOMAIN was = 1..Len(was)
      /\ \A j \in 1..Len(new) : t[j].id = new[j].id /\ DOMAIN t[j].rels = DOMAIN new[j].rels
  BY <1>1 DEF SameButOperands
<1>3. \A j \in 1..Len(new) : \A r \in DOMAIN new[j].rels :
        t[j].rels[r] = MovedRel(was, new, edit, j, r)
  BY RelayoutOperands
<1>4. \A k : Offset(t, k) = Offset(new, k)
  BY <1>1, SameLayout
<1>5. ASSUME NEW k PROVE FirstKept(was, t, k) = FirstKept(was, new, k)
  <2> HIDE DEF t
  <2>1. \A x : (\E m \in DOMAIN t : t[m].id = x) <=> (\E m \in DOMAIN new : new[m].id = x)
    BY <1>2
  <2>2. {j \in k..Len(was) : \E m \in DOMAIN t : t[m].id = was[j].id}
          = {j \in k..Len(was) : \E m \in DOMAIN new : new[m].id = was[j].id}
    BY <2>1
  <2> DEFINE least(S) == CHOOSE j \in S : \A m \in S : j <= m
             first(S) == IF S = {} THEN 0 ELSE was[least(S)].id
  <2>3. \A u : FirstKept(was, u, k) =
                first({j \in k..Len(was) : \E m \in DOMAIN u : u[m].id = was[j].id})
    BY DEF FirstKept
  <2> HIDE DEF first
  <2> QED  BY <2>2, <2>3, ZenonT(40)
<1>6. \A k : IdAt(t, k) = IdAt(new, k)
  BY <1>2 DEF IdAt
<1> HIDE DEF t
<1> SUFFICES ASSUME NEW m \in DOMAIN t, NEW k \in DOMAIN was, was[k].id = t[m].id,
                    NEW r \in DOMAIN t[m].rels
             PROVE  LET before == InstructionAt(was, Target(was, k, was[k].rels[r]))
                        after  == InstructionAt(t, Target(t, m, t[m].rels[r]))
                    IN  after # 0 /\ IdAt(t, after) = FirstKept(was, t, before)
  BY DEF SameTargets, t
<1> DEFINE before == InstructionAt(was, Target(was, k, was[k].rels[r]))
<1>7. m \in 1..Len(new) /\ OldIndex(edit, m) = k /\ new[m].rels = was[k].rels
      /\ r \in DOMAIN new[m].rels
  BY <1>2
<1>8. before # 0
  BY <1>2, <1>7 DEF WellTargeted
<1>9. before \in 1..(Len(was) + 1) /\ Offset(was, before) = Target(was, k, was[k].rels[r])
  BY <1>8, InstructionAtFound
<1> HIDE DEF before
<1>10. Offset(was, before) \in Nat
  BY <1>9, OffsetSteps
<1>11. MovedTarget(was, new, edit, m, r) = MovedOffset(edit, Offset(was, before))
  <2>1. Target(was, OldIndex(edit, m), new[m].rels[r]) = Offset(was, before)
    BY <1>7, <1>9
  <2> QED  BY <1>10, <2>1 DEF MovedTarget
<1>12. MovedTarget(was, new, edit, m, r) = Offset(new, place[before])
       /\ place[before] \in 1..(Len(new) + 1)
  BY <1>9, <1>11
<1>13. t[m].rels[r] = Offset(new, place[before]) - Offset(new, m)
  BY <1>3, <1>7, <1>12 DEF MovedRel
<1>14. Offset(new, place[before]) \in Nat /\ Offset(new, m) \in Nat
  BY <1>7, <1>12, OffsetSteps
<1>15. Target(t, m, t[m].rels[r]) = Offset(t, place[before])
  BY <1>4, <1>13, <1>14 DEF Target
<1>16. InstructionAt(t, Target(t, m, t[m].rels[r])) = place[before]
  BY <1>2, <1>12, <1>15, InstructionAtOffset
<1>17. place[before] # 0
  BY <1>12
<1>18. IdAt(t, place[before]) = FirstKept(was, t, before)
  BY <1>5, <1>6, <1>9
<1> QED  BY <1>16, <1>17, <1>18 DEF before

\* Removing a jump: the instructions behind it move up by its length, and a
\* branch that led to the jump leads to what was behind it.
LEMMA JumpKeepsTargets ==
  ASSUME inst \in Seq(Instruction), Distinct, WellTargeted(inst),
         NEW i \in 1..Len(inst), i < Len(inst), RemoveJump(i) # Refused
  PROVE  SameTargets(inst, RemoveJump(i))
<1> DEFINE d == Drain(inst, i, 1)
           edit == JumpEdit(i)
           place == [k \in 1..(Len(inst) + 1) |-> IF k <= i THEN k ELSE k - 1]
           len == EncodedLen(inst[i])
<1>1. /\ d \in Seq(Instruction) /\ Len(d) = Len(inst) - 1 /\ Len(inst) \in Nat
      /\ \A k \in 1..(Len(inst) - 1) : d[k] = inst[IF k < i THEN k ELSE k + 1]
      /\ DOMAIN d = 1..Len(d)
  <2>1. Len(inst) \in Nat /\ 1 \in Nat /\ i + 1 - 1 <= Len(inst)
    OBVIOUS
  <2>2. /\ d \in Seq(Instruction) /\ Len(d) = Len(inst) - 1
        /\ \A k \in 1..(Len(inst) - 1) : d[k] = IF k < i THEN inst[k] ELSE inst[k + 1]
    BY <2>1, DrainFacts
  <2> HIDE DEF d
  <2> QED  BY <2>1, <2>2
<1>2. /\ edit.start = Offset(inst, i) /\ edit.len = len /\ edit.gone = i /\ edit.strict = FALSE
      /\ Offset(inst, i) \in Nat /\ len \in Nat \ {0}
  BY OffsetSteps, EncodedLenPositive DEF JumpEdit
<1> HIDE DEF d, edit, len
<1>3. \A k \in 1..i : Offset(d, k) = Offset(inst, k)
  <2>1. Offset(d, 1) = Offset(inst, 1) + 0
    BY <1>1, OffsetSteps
  <2>2. \A k \in 0..(i - 1 - 1) : EncodedLen(d[1 + k]) = EncodedLen(inst[1 + k])
    <3>1. \A k \in 0..(i - 1 - 1) : 1 + k \in 1..(Len(inst) - 1) /\ 1 + k < i
      BY <1>1
    <3> QED  BY <1>1, <3>1
  <2>3. /\ 1 \in 1..(Len(inst) + 1) /\ 1 \in 1..(Len(d) + 1) /\ 0 \in Int /\ i - 1 \in Nat
        /\ 1 + (i - 1) <= Len(inst) + 1 /\ 1 + (i - 1) <= Len(d) + 1
    BY <1>1
  <2>4. \A k \in 0..(i - 1) : Offset(d, 1 + k) = Offset(inst, 1 + k) + 0
    BY <1>1, <2>1, <2>2, <2>3, OffsetsMoveTogether, ZenonT(40)
  <2> SUFFICES ASSUME NEW k \in 1..i PROVE Offset(d, k) = Offset(inst, k)
    OBVIOUS
  <2>5. k - 1 \in 0..(i - 1) /\ 1 + (k - 1) = k /\ k \in 1..(Len(inst) + 1)
    BY <1>1
  <2>6. Offset(d, k) = Offset(inst, k) + 0
    BY <2>4, <2>5
  <2>7. Offset(inst, k) \in Nat
    BY <2>5, OffsetSteps
  <2> QED  BY <2>6, <2>7
<1>4. \A k \in (i + 1)..(Len(inst) + 1) : Offset(d, k - 1) = Offset(inst, k) - len
  <2>1. Offset(d, i) = Offset(inst, i + 1) + (-len)
    <3>1. i \in 1..i /\ Offset(inst, i + 1) = Offset(inst, i) + len
      BY OffsetSteps DEF len
    <3>2. Offset(d, i) = Offset(inst, i)
      BY <1>3, <3>1
    <3> QED  BY <1>2, <3>1, <3>2
  <2>2. \A k \in 0..(Len(inst) - i - 1) : EncodedLen(d[i + k]) = EncodedLen(inst[i + 1 + k])
    <3>1. \A k \in 0..(Len(inst) - i - 1) :
            i + k \in 1..(Len(inst) - 1) /\ ~(i + k < i) /\ i + k + 1 = i + 1 + k
      BY <1>1
    <3> QED  BY <1>1, <3>1
  <2>3. /\ i + 1 \in 1..(Len(inst) + 1) /\ i \in 1..(Len(d) + 1) /\ -len \in Int
        /\ Len(inst) - i \in Nat
        /\ i + 1 + (Len(inst) - i) <= Len(inst) + 1 /\ i + (Len(inst) - i) <= Len(d) + 1
    BY <1>1, <1>2
  <2>4. \A k \in 0..(Len(inst) - i) : Offset(d, i + k) = Offset(inst, i + 1 + k) + (-len)
    BY <1>1, <2>1, <2>2, <2>3, OffsetsMoveTogether, ZenonT(40)
  <2> SUFFICES ASSUME NEW k \in (i + 1)..(Len(inst) + 1)
               PROVE  Offset(d, k - 1) = Offset(inst, k) - len
    OBVIOUS
  <2>5. /\ k - i - 1 \in 0..(Len(inst) - i) /\ i + (k - i - 1) = k - 1
        /\ i + 1 + (k - i - 1) = k /\ k \in 1..(Len(inst) + 1)
    BY <1>1
  <2>6. Offset(d, k - 1) = Offset(inst, k) + (-len)
    BY <2>4, <2>5
  <2>7. Offset(inst, k) \in Nat
    BY <2>5, OffsetSteps
  <2> QED  BY <1>2, <2>6, <2>7
<1>5. place \in [1..(Len(inst) + 1) -> 1..(Len(d) + 1)]
  BY <1>1
<1>6. ASSUME NEW k \in 1..(Len(inst) + 1)
      PROVE  MovedOffset(edit, Offset(inst, k)) = Offset(d, place[k])
  <2>0. Offset(inst, k) \in Nat
    BY OffsetSteps
  <2>1. CASE k < i
    <3>1. Offset(inst, k) < Offset(inst, i)
      BY <1>1, <2>1, OffsetInjective
    <3>2. place[k] = k /\ k \in 1..i
      BY <1>1, <2>1
    <3>3. Offset(inst, k) < Offset(inst, i) /\ ~(Offset(inst, k) >= Offset(inst, i) + len)
      BY <1>2, <2>0, <3>1
    <3>4. MovedOffset(edit, Offset(inst, k)) = Offset(inst, k)
      BY <1>2, <3>3 DEF MovedOffset
    <3> QED  BY <1>3, <3>2, <3>4
  <2>2. CASE k = i
    <3>1. place[k] = i /\ i \in 1..i
      BY <2>2
    <3>2. ~(Offset(inst, i) < Offset(inst, i)) /\ ~(Offset(inst, i) >= Offset(inst, i) + len)
      BY <1>2
    <3>3. MovedOffset(edit, Offset(inst, k)) = Offset(inst, i)
      BY <1>2, <2>2, <3>2 DEF MovedOffset
    <3> QED  BY <1>3, <3>1, <3>3
  <2>3. CASE k > i
    <3>1. Offset(inst, i) + len <= Offset(inst, k)
      BY <1>1, <2>3, OffsetIncreasing DEF len
    <3>2. place[k] = k - 1 /\ k \in (i + 1)..(Len(inst) + 1)
      BY <1>1, <2>3
    <3>3. ~(Offset(inst, k) < Offset(inst, i)) /\ Offset(inst, k) >= Offset(inst, i) + len
      BY <1>2, <2>0, <3>1
    <3>4. MovedOffset(edit, Offset(inst, k)) = Offset(inst, k) - len
      BY <1>2, <3>3 DEF MovedOffset
    <3> QED  BY <1>4, <3>2, <3>4
  <2>4. k < i \/ k = i \/ k > i
    OBVIOUS
  <2> QED  BY <2>1, <2>2, <2>3, <2>4, Zenon
<1>7. ASSUME NEW k \in 1..(Len(inst) + 1)
      PROVE  IdAt(d, place[k]) = FirstKept(inst, d, k)
  <2>1. CASE k = Len(inst) + 1
    <3>1. place[k] \notin DOMAIN d
      BY <1>1, <2>1
    <3> QED  BY <2>1, <3>1, NothingKept DEF IdAt
  <2>2. CASE k # Len(inst) + 1
    <3> DEFINE j == IF k = i THEN i + 1 ELSE k
    <3>1. j \in k..Len(inst) /\ place[k] \in DOMAIN d /\ d[place[k]] = inst[j]
      <4>1. CASE k < i
        BY <1>1, <2>2, <4>1
      <4>2. CASE k = i
        BY <1>1, <2>2, <4>2
      <4>3. CASE k > i
        <5>1. place[k] = k - 1 /\ k - 1 \in 1..(Len(inst) - 1) /\ ~(k - 1 < i) /\ (k - 1) + 1 = k
          BY <1>1, <2>2, <4>3
        <5>2. d[k - 1] = inst[k]
          BY <1>1, <5>1
        <5> QED  BY <1>1, <2>2, <4>3, <5>1, <5>2
      <4> QED  BY <1>1, <4>1, <4>2, <4>3
    <3>2. \A l \in k..(j - 1) : l = i
      BY <1>1
    <3>3. ASSUME NEW m \in DOMAIN d, d[m].id = inst[i].id PROVE FALSE
      <4> DEFINE o == IF m < i THEN m ELSE m + 1
      <4>1. o \in 1..Len(inst) /\ d[m] = inst[o] /\ o # i
        BY <1>1
      <4> QED  BY <3>3, <4>1 DEF Distinct
    <3>4. \A l \in k..(j - 1) : ~\E m \in DOMAIN d : d[m].id = inst[l].id
      BY <3>2, <3>3
    <3> HIDE DEF j, place
    <3>5. FirstKept(inst, d, k) = inst[j].id
      BY <3>1, <3>4, FirstKeptIs
    <3> QED  BY <3>1, <3>5 DEF IdAt
  <2> QED  BY <2>1, <2>2
<1>8. \A j \in 1..Len(d) : /\ OldIndex(edit, j) \in 1..Len(inst)
                           /\ d[j].id = inst[OldIndex(edit, j)].id
                           /\ d[j].rels = inst[OldIndex(edit, j)].rels
  BY <1>1, <1>2 DEF OldIndex
<1>9. edit.start \in Int /\ edit.len \in Int /\ edit.gone \in Nat
  BY <1>1, <1>2
<1>10. RemoveJump(i) = Relayout(inst, d, edit)
  BY DEF RemoveJump, d, edit
<1>11. \A j, k \in 1..Len(inst) : inst[j].id = inst[k].id => j = k
  BY DEF Distinct
<1> HIDE DEF place
<1>12. \A k \in 1..(Len(inst) + 1) :
         /\ MovedOffset(edit, Offset(inst, k)) = Offset(d, place[k])
         /\ IdAt(d, place[k]) = FirstKept(inst, d, k)
  BY <1>6, <1>7
<1>13. Relayout(inst, d, edit) # Refused
  BY <1>10
<1>14. SameTargets(inst, Relayout(inst, d, edit))
  BY <1>1, <1>5, <1>8, <1>9, <1>11, <1>12, <1>13, TargetsMoved
<1> QED  BY <1>10, <1>14

\* The long branches that have a short form, and those forms.
LEMMA ShortFormsAreShorter ==
  ASSUME NEW i, NEW j, i.op \in Shortenable, j.op = ShortForm[i.op]
  PROVE  EncodedLen(i) = 5 /\ EncodedLen(j) = 2
<1>1. Shortenable = {"JMP_L", "JMPIF_L", "JMPIFNOT_L", "JMPEQ_L", "JMPNE_L", "JMPGT_L",
                     "JMPGE_L", "JMPLT_L", "JMPLE_L", "ENDTRY_L"}
  BY DEF Shortenable, ShortForm
<1>2. j.op \in {"JMP", "JMPIF", "JMPIFNOT", "JMPEQ", "JMPNE", "JMPGT", "JMPGE", "JMPLT",
               "JMPLE", "ENDTRY"}
  BY <1>1 DEF ShortForm
<1>3. ShortBranches = {"JMP", "JMPIF", "JMPIFNOT", "JMPEQ", "JMPNE", "JMPGT", "JMPGE", "JMPLT",
                       "JMPLE", "ENDTRY", "CALL", "TRY"}
  BY <1>1 DEF ShortBranches, ShortForm
<1>4. ASSUME NEW k, k.op \in Shortenable PROVE EncodedLen(k) = 5
  <2>1. /\ k.op \notin SlotOps /\ k.op # "TRY_L" /\ k.op \in LongBranches \ {"TRY_L"}
        /\ k.op \notin {"TRY", "INITSLOT", "CALLT"} /\ k.op \notin ShortBranches \ {"TRY"}
        /\ k.op \notin {"CONVERT", "PUSH", "PUSHDATA", "SYSCALL"}
    BY <1>1, <1>3, <1>4 DEF SlotOps, LongBranches
  <2> QED  BY <2>1 DEF EncodedLen
<1>5. ASSUME NEW k, k.op \in ShortBranches \ {"CALL", "TRY"} PROVE EncodedLen(k) = 2
  <2>1. /\ k.op \notin SlotOps /\ k.op # "TRY_L" /\ k.op \notin LongBranches \ {"TRY_L"}
        /\ k.op \notin {"TRY", "INITSLOT", "CALLT"} /\ k.op \in ShortBranches \ {"TRY"}
        /\ k.op \notin {"CONVERT", "PUSH", "PUSHDATA", "SYSCALL"}
    BY <1>1, <1>3, <1>5 DEF SlotOps, LongBranches
  <2> QED  BY <2>1 DEF EncodedLen
<1> QED  BY <1>2, <1>3, <1>4, <1>5

\* Narrowing a branch: the instructions behind it move up by three bytes, and
\* no branch led into those.
LEMMA NarrowKeepsTargets ==
  ASSUME inst \in Seq(Instruction), Distinct, WellTargeted(inst),
         NEW i \in 1..Len(inst), Narrowable(i)
  PROVE  SameTargets(inst, Narrow(i))
<1> DEFINE d == Shortened(inst, i)
           edit == NarrowEdit(i)
           place == [k \in 1..(Len(inst) + 1) |-> k]
<1>1. /\ d \in Seq(Instruction) /\ Len(d) = Len(inst) /\ Len(inst) \in Nat
      /\ \A j \in 1..Len(inst) : d[j].id = inst[j].id /\ d[j].rels = inst[j].rels
      /\ \A j \in 1..Len(inst) : j # i => d[j] = inst[j]
      /\ d[i].op = ShortForm[inst[i].op]
      /\ DOMAIN d = 1..Len(inst) /\ DOMAIN inst = 1..Len(inst)
  BY ShortenedFacts DEF Narrowable
<1>2. EncodedLen(inst[i]) = 5 /\ EncodedLen(d[i]) = 2
  <2>1. inst[i].op \in Shortenable /\ d[i].op = ShortForm[inst[i].op]
    BY <1>1 DEF Narrowable
  <2> HIDE DEF d
  <2> QED  BY <2>1, ShortFormsAreShorter
<1>3. /\ edit.start = Offset(inst, i) + 2 /\ edit.len = 3 /\ edit.gone = Len(inst) + 1
      /\ Offset(inst, i) \in Nat
  BY OffsetSteps DEF NarrowEdit, NoInstruction
<1> HIDE DEF d, edit
<1>4. \A k \in 1..i : Offset(d, k) = Offset(inst, k)
  <2>1. Offset(d, 1) = Offset(inst, 1) + 0
    BY <1>1, OffsetSteps
  <2>2. \A k \in 0..(i - 1 - 1) : EncodedLen(d[1 + k]) = EncodedLen(inst[1 + k])
    <3>1. \A k \in 0..(i - 1 - 1) : 1 + k \in 1..Len(inst) /\ 1 + k # i
      BY <1>1
    <3> QED  BY <1>1, <3>1
  <2>3. /\ 1 \in 1..(Len(inst) + 1) /\ 1 \in 1..(Len(d) + 1) /\ 0 \in Int /\ i - 1 \in Nat
        /\ 1 + (i - 1) <= Len(inst) + 1 /\ 1 + (i - 1) <= Len(d) + 1
    BY <1>1
  <2>4. \A k \in 0..(i - 1) : Offset(d, 1 + k) = Offset(inst, 1 + k) + 0
    BY <1>1, <2>1, <2>2, <2>3, OffsetsMoveTogether
  <2> SUFFICES ASSUME NEW k \in 1..i PROVE Offset(d, k) = Offset(inst, k)
    OBVIOUS
  <2>5. k - 1 \in 0..(i - 1) /\ 1 + (k - 1) = k /\ k \in 1..(Len(inst) + 1)
    BY <1>1
  <2>6. Offset(d, k) = Offset(inst, k) + 0
    BY <2>4, <2>5
  <2>7. Offset(inst, k) \in Nat
    BY <2>5, OffsetSteps
  <2> QED  BY <2>6, <2>7
<1>5. \A k \in (i + 1)..(Len(inst) + 1) : Offset(d, k) = Offset(inst, k) - 3
  <2>1. Offset(d, i + 1) = Offset(inst, i + 1) + (-3)
    <3>1. i \in 1..i /\ Offset(inst, i + 1) = Offset(inst, i) + 5
      BY <1>2, OffsetSteps
    <3>2. Offset(d, i + 1) = Offset(d, i) + 2
      BY <1>1, <1>2, OffsetSteps
    <3>3. Offset(d, i) = Offset(inst, i)
      BY <1>4, <3>1
    <3> QED  BY <1>3, <3>1, <3>2, <3>3
  <2>2. \A k \in 0..(Len(inst) - i - 1) : EncodedLen(d[i + 1 + k]) = EncodedLen(inst[i + 1 + k])
    <3>1. \A k \in 0..(Len(inst) - i - 1) : i + 1 + k \in 1..Len(inst) /\ i + 1 + k # i
      BY <1>1
    <3> QED  BY <1>1, <3>1
  <2>3. /\ i + 1 \in 1..(Len(inst) + 1) /\ i + 1 \in 1..(Len(d) + 1) /\ -3 \in Int
        /\ Len(inst) - i \in Nat
        /\ i + 1 + (Len(inst) - i) <= Len(inst) + 1 /\ i + 1 + (Len(inst) - i) <= Len(d) + 1
    BY <1>1
  <2>4. \A k \in 0..(Len(inst) - i) : Offset(d, i + 1 + k) = Offset(inst, i + 1 + k) + (-3)
    BY <1>1, <2>1, <2>2, <2>3, OffsetsMoveTogether, ZenonT(40)
  <2> SUFFICES ASSUME NEW k \in (i + 1)..(Len(inst) + 1)
               PROVE  Offset(d, k) = Offset(inst, k) - 3
    OBVIOUS
  <2>5. /\ k - i - 1 \in 0..(Len(inst) - i) /\ i + 1 + (k - i - 1) = k
        /\ k \in 1..(Len(inst) + 1)
    BY <1>1
  <2>6. Offset(d, k) = Offset(inst, k) + (-3)
    BY <2>4, <2>5
  <2>7. Offset(inst, k) \in Nat
    BY <2>5, OffsetSteps
  <2> QED  BY <2>6, <2>7
<1>6. place \in [1..(Len(inst) + 1) -> 1..(Len(d) + 1)]
  BY <1>1
<1>7. ASSUME NEW k \in 1..(Len(inst) + 1)
      PROVE  MovedOffset(edit, Offset(inst, k)) = Offset(d, k)
  <2>0. Offset(inst, k) \in Nat
    BY OffsetSteps
  <2>1. CASE k <= i
    <3>1. Offset(inst, k) <= Offset(inst, i)
      <4>1. CASE k = i
        BY <1>3, <4>1
      <4>2. CASE k < i
        BY <1>1, <1>3, <2>0, <4>2, OffsetInjective
      <4> QED  BY <2>1, <4>1, <4>2
    <3>2. Offset(inst, k) < Offset(inst, i) + 2
      BY <1>3, <2>0, <3>1
    <3>3. k \in 1..i
      BY <1>1, <2>1
    <3>4. Offset(inst, k) < Offset(inst, i) + 2 /\ ~(Offset(inst, k) >= Offset(inst, i) + 2 + 3)
      BY <1>3, <2>0, <3>2
    <3>5. MovedOffset(edit, Offset(inst, k)) = Offset(inst, k)
      BY <1>3, <3>4 DEF MovedOffset
    <3> QED  BY <1>4, <3>3, <3>5
  <2>2. CASE k > i
    <3>1. Offset(inst, i) + 5 <= Offset(inst, k)
      BY <1>1, <1>2, <2>2, OffsetIncreasing
    <3>2. k \in (i + 1)..(Len(inst) + 1)
      BY <1>1, <2>2
    <3>3. ~(Offset(inst, k) < Offset(inst, i) + 2) /\ Offset(inst, k) >= Offset(inst, i) + 2 + 3
      BY <1>3, <2>0, <3>1
    <3>4. MovedOffset(edit, Offset(inst, k)) = Offset(inst, k) - 3
      BY <1>3, <3>3 DEF MovedOffset
    <3> QED  BY <1>5, <3>2, <3>4
  <2>3. k <= i \/ k > i
    OBVIOUS
  <2> QED  BY <2>1, <2>2, <2>3, Zenon
<1>8. ASSUME NEW k \in 1..(Len(inst) + 1)
      PROVE  IdAt(d, k) = FirstKept(inst, d, k)
  <2>1. CASE k = Len(inst) + 1
    <3>1. k \notin DOMAIN d
      BY <1>1, <2>1
    <3> QED  BY <2>1, <3>1, NothingKept DEF IdAt
  <2>2. CASE k # Len(inst) + 1
    <3>1. k \in k..Len(inst) /\ k \in DOMAIN d /\ d[k].id = inst[k].id /\ k..(k - 1) = {}
      BY <1>1, <2>2
    <3>2. FirstKept(inst, d, k) = inst[k].id
      BY <3>1, FirstKeptIs
    <3> QED  BY <3>1, <3>2 DEF IdAt
  <2> QED  BY <2>1, <2>2
<1>9. \A j \in 1..Len(d) : OldIndex(edit, j) = j
  BY <1>1, <1>3 DEF OldIndex
<1>10. edit.start \in Int /\ edit.len \in Int /\ edit.gone \in Nat
  BY <1>1, <1>3
<1>11. Narrow(i) = Relayout(inst, d, edit) /\ Narrow(i) # Refused
  BY DEF Narrow, Narrowable, Shortened, d, edit
<1>12. \A k \in 1..(Len(inst) + 1) : place[k] = k
  OBVIOUS
<1>13. \A j, k \in 1..Len(inst) : inst[j].id = inst[k].id => j = k
  BY DEF Distinct
<1>14. \A k \in 1..(Len(inst) + 1) :
         /\ MovedOffset(edit, Offset(inst, k)) = Offset(d, place[k])
         /\ IdAt(d, place[k]) = FirstKept(inst, d, k)
  BY <1>7, <1>8, <1>12
<1>15. \A j \in 1..Len(d) : /\ OldIndex(edit, j) \in 1..Len(inst)
                            /\ d[j].id = inst[OldIndex(edit, j)].id
                            /\ d[j].rels = inst[OldIndex(edit, j)].rels
  BY <1>1, <1>9
<1> HIDE DEF place
<1>16. SameTargets(inst, Relayout(inst, d, edit))
  BY <1>1, <1>6, <1>10, <1>11, <1>13, <1>14, <1>15, TargetsMoved
<1> QED  BY <1>11, <1>16

\* The passes that remove jumps and narrow branches keep what every branch of
\* the script designates, wherever it is: the two offset maps and the index
\* map of relayout_pc_relatives are right at every boundary.
THEOREM TargetsKept == Spec => RelayoutKeepsTargets
<1>1. Init => Distinct
  <2> SUFFICES ASSUME Init PROVE Distinct
    OBVIOUS
  <2>1. Routine(emitted) /\ inst = emitted.inst
    BY EmittedAssumption DEF Init
  <2>2. inst \in Seq(Instruction)
    BY <2>1 DEF Routine, Linkable
  <2>3. \A k \in 1..Len(inst) : inst[k].id = k
    BY <2>1, <2>2 DEF Routine
  <2> QED  BY <2>3 DEF Distinct
<1>2. TypeOK /\ Distinct /\ [Next]_vars => Distinct'
  BY DistinctStep
<1>3. TypeOK /\ Distinct /\ [Next]_vars =>
        (inst' # inst /\ pass \in {"jump", "shorten"} /\ WellTargeted(inst) =>
           SameTargets(inst, inst'))
  <2> SUFFICES ASSUME TypeOK, Distinct, [Next]_vars, inst' # inst, pass \in {"jump", "shorten"},
                      WellTargeted(inst)
               PROVE  SameTargets(inst, inst')
    OBVIOUS
  <2>0. index \in Nat \ {0} /\ Len(inst) \in Nat /\ inst \in Seq(Instruction)
    BY DEF TypeOK
  <2>1. PeelJump \/ NarrowBranch
    BY DEF Next, vars, MergeDuplicateLoad, PeelDupDrop, PeelStoreLoad, Scanning, Advance, EndPass,
           EndRound
  <2>2. CASE PeelJump
    <3>1. /\ index \in 1..Len(inst) /\ index < Len(inst)
          /\ RemoveJump(index) # Refused /\ inst' = RemoveJump(index)
      BY <2>0, <2>2 DEF PeelJump, Scanning, JumpToNext
    <3> QED  BY <2>0, <3>1, JumpKeepsTargets
  <2>3. CASE NarrowBranch
    <3>1. index \in 1..Len(inst) /\ Narrowable(index) /\ inst' = Narrow(index)
      BY <2>0, <2>3 DEF NarrowBranch, Scanning
    <3> QED  BY <2>0, <3>1, NarrowKeepsTargets
  <2> QED  BY <2>1, <2>2, <2>3
<1> QED  BY <1>1, <1>2, <1>3, TypeCorrect, PTL DEF Spec, RelayoutKeepsTargets

-----------------------------------------------------------------------------
(* Termination. *)

\* Every step of a pass shortens what its scan has left.
LEMMA ScanStep ==
  ASSUME TypeOK,
         MergeDuplicateLoad \/ PeelDupDrop \/ PeelStoreLoad \/ PeelJump
           \/ NarrowBranch \/ Advance
  PROVE  pass' = pass /\ round' = round /\ ScanLeft' < ScanLeft
<1>0. index \in Nat \ {0} /\ Len(inst) \in Nat /\ inst \in Seq(Instruction)
  BY DEF TypeOK
<1>1. CASE MergeDuplicateLoad
  <2>1. Len(inst') = Len(inst)
    <3>1. index + 1 \in 1..Len(inst)
      BY <1>0, <1>1 DEF MergeDuplicateLoad, Scanning
    <3> QED  BY <1>0, <1>1, <3>1, MergedFacts DEF MergeDuplicateLoad, Merged
  <2> QED  BY <1>0, <1>1, <2>1 DEF MergeDuplicateLoad, ScanLeft
<1>2. CASE PeelDupDrop \/ PeelStoreLoad
  <2>1. index \in 1..Len(inst) /\ index + 2 - 1 <= Len(inst) /\ RemovePair
    BY <1>0, <1>2 DEF PeelDupDrop, PeelStoreLoad, Scanning
  <2>2. Len(inst') = Len(inst) - 2
    BY <1>0, <2>1, DrainFacts DEF RemovePair
  <2> QED  BY <1>0, <2>1, <2>2 DEF RemovePair, ScanLeft
<1>3. CASE PeelJump
  <2>1. index \in 1..Len(inst) /\ RemoveJump(index) # Refused
    BY <1>0, <1>3 DEF PeelJump, Scanning, JumpToNext
  <2>2. Len(inst') = Len(Drain(inst, index, 1))
    BY <1>0, <1>3, <2>1, RemoveJumpShape DEF PeelJump, SameButOperands
  <2>3. Len(Drain(inst, index, 1)) = Len(inst) - 1
    BY <1>0, <2>1, DrainFacts
  <2> QED  BY <1>0, <1>3, <2>2, <2>3 DEF PeelJump, ScanLeft
<1>4. CASE NarrowBranch
  <2>1. index \in 1..Len(inst) /\ Narrowable(index)
    BY <1>0, <1>4 DEF NarrowBranch, Scanning
  <2>2. Len(inst') = Len(Shortened(inst, index))
    BY <1>0, <1>4, <2>1, NarrowShape DEF NarrowBranch, SameButOperands
  <2>3. Len(Shortened(inst, index)) = Len(inst)
    BY <1>0, <2>1, ShortenedFacts DEF Narrowable
  <2> QED  BY <1>0, <1>4, <2>2, <2>3 DEF NarrowBranch, ScanLeft
<1>5. CASE Advance
  BY <1>0, <1>5 DEF Advance, ScanLeft
<1> QED  BY <1>1, <1>2, <1>3, <1>4, <1>5

\* For any routine and any limit of rounds, no step of optimize is in vain:
\* with its counts never below zero (TypeOK), it can take only
\* finitely many.
THEOREM EveryStepCounts ==
  Spec => [](RoundsLeft \in Nat /\ PassesLeft \in Nat /\ ScanLeft \in Nat) /\ ComesNearer
<1>1. TypeOK => RoundsLeft \in Nat /\ PassesLeft \in Nat /\ ScanLeft \in Nat
  <2> SUFFICES ASSUME TypeOK
               PROVE  RoundsLeft \in Nat /\ PassesLeft \in Nat /\ ScanLeft \in Nat
    OBVIOUS
  <2>1. RoundsLeft \in Nat
    BY MaxRoundsAssumption DEF TypeOK, RoundsLeft
  <2>2. PassesLeft \in Nat
    BY DEF PassesLeft
  <2>3. ScanLeft \in Nat
    <3>1. Len(inst) \in Nat
      BY DEF TypeOK
    <3> QED  BY <3>1 DEF TypeOK, ScanLeft
  <2> QED  BY <2>1, <2>2, <2>3
<1> DEFINE Nearer ==
      \/ RoundsLeft' < RoundsLeft
      \/ RoundsLeft' = RoundsLeft /\ PassesLeft' < PassesLeft
      \/ /\ RoundsLeft' = RoundsLeft /\ PassesLeft' = PassesLeft
         /\ ScanLeft' < ScanLeft
<1>2. TypeOK /\ [Next]_vars => [Nearer]_vars
  <2> SUFFICES ASSUME TypeOK, Next PROVE Nearer
    BY DEF Next
  <2>1. CASE EndRound
    <3>1. round \in Nat /\ MaxRounds \in Nat
      BY MaxRoundsAssumption DEF TypeOK
    <3> QED  BY <2>1, <3>1 DEF EndRound, RoundsLeft, PassesLeft
  <2>2. CASE EndPass
    BY <2>2 DEF EndPass, RoundsLeft, PassesLeft, Passes, NextPass
  <2>3. CASE ~(EndRound \/ EndPass)
    <3>1. pass' = pass /\ round' = round /\ ScanLeft' < ScanLeft
      BY <2>3, ScanStep DEF Next
    <3> QED  BY <3>1 DEF RoundsLeft, PassesLeft
  <2> QED  BY <2>1, <2>2, <2>3
<1> QED  BY <1>1, <1>2, TypeCorrect, PTL DEF Spec, ComesNearer
=============================================================================
