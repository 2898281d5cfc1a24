------------------------------- MODULE VarEnv -------------------------------
(***************************************************************************)
(* VarEnv (codegen/env.rs): the map from the names of a function to its    *)
(* argument and local slots, as operators on an environment record.        *)
(*   args    parameter name -> index                                       *)
(*   scopes  the stack of blocks, each a map from local name to slot       *)
(*   next    next_local, the number of local slots handed out              *)
(* The code keeps next_local in a u8 and refuses to hand out slot u8::MAX; *)
(* SlotLimit is that value.                                                *)
(***************************************************************************)
EXTENDS Naturals, Sequences

CONSTANT SlotLimit

ASSUME SlotLimitAssumption == SlotLimit \in Nat \ {0}

NoNames == [x \in {} |-> 0]
Extend(m, x, slot) == [y \in DOMAIN m \cup {x} |-> IF y = x THEN slot ELSE m[y]]

\* VarEnv::new: a later parameter of the same name replaces an earlier one.
NewEnv(params) ==
  [args   |-> [x \in {params[i] : i \in DOMAIN params} |->
                 (CHOOSE i \in DOMAIN params :
                    /\ params[i] = x
                    /\ \A j \in DOMAIN params : params[j] = x => j <= i) - 1],
   scopes |-> <<NoNames>>,
   next   |-> 0]

\* VarEnv::new refuses more parameters than a u8 can index.
ParamsFit(params) == Len(params) <= SlotLimit

EnterBlock(env) == [env EXCEPT !.scopes = Append(@, NoNames)]
\* Mutant: the block is left open.
ExitBlockOpen(env) == env

ExitBlock(env) == [env EXCEPT !.scopes = SubSeq(@, 1, Len(@) - 1)]

Top(env) == env.scopes[Len(env.scopes)]

\* alloc_slot: LocalLimitExceeded at the limit, else the next slot.
SlotsLeft(env) == env.next # SlotLimit
\* Mutant: next_local is not advanced.
AllocSlotAgain(env) == env

AllocSlot(env) == [env EXCEPT !.next = @ + 1]

\* declare_local: also refuses a name of the same block (DuplicateLocal).
\* Mutant: no check against the limit.
CanDeclareAnyway(env, x) == x \notin DOMAIN Top(env)

CanDeclare(env, x) == SlotsLeft(env) /\ x \notin DOMAIN Top(env)
\* Mutant: next_local taken for a count that includes the new one.
DeclareLocalBelow(env, x) ==
  [env EXCEPT !.scopes[Len(env.scopes)] = Extend(@, x, env.next - 1),
              !.next = @ + 1]

DeclareLocal(env, x) ==
  [env EXCEPT !.scopes[Len(env.scopes)] = Extend(@, x, env.next),
              !.next = @ + 1]

\* resolve: the innermost block that has the name, then the parameters.
Undefined == [kind |-> "undefined", slot |-> 0]
\* Mutant: the scopes searched from the outermost.
Outermost(env, x) ==
  CHOOSE d \in DOMAIN env.scopes :
     /\ x \in DOMAIN env.scopes[d]
     /\ \A e \in DOMAIN env.scopes : x \in DOMAIN env.scopes[e] => d <= e

Innermost(env, x) ==
  CHOOSE d \in DOMAIN env.scopes :
     /\ x \in DOMAIN env.scopes[d]
     /\ \A e \in DOMAIN env.scopes : x \in DOMAIN env.scopes[e] => e <= d

Resolve(env, x) ==
  IF \E d \in DOMAIN env.scopes : x \in DOMAIN env.scopes[d]
  THEN [kind |-> "local", slot |-> env.scopes[Innermost(env, x)][x]]
  ELSE IF x \in DOMAIN env.args
       THEN [kind |-> "arg", slot |-> env.args[x]]
       ELSE Undefined

\* local_count, which patch_initslot_local_count writes into INITSLOT.
LocalCount(env) == env.next
=============================================================================
