------------------------------- MODULE Scopes -------------------------------
(***************************************************************************)
(* What a name means.  The type checker walks a function with FnEnv        *)
(* (typecheck/context.rs, typecheck/stmt.rs), then FunctionCompiler walks  *)
(* it again with VarEnv (codegen/env.rs, codegen/function.rs); the second  *)
(* pass must find for every name the variable that the first one found.    *)
(* The passes share no state and meet the same statements in the same      *)
(* order, so the model takes each statement through both of them.          *)
(*                                                                         *)
(* A declaration is identified by its number, parameters first; 0 is none. *)
(***************************************************************************)
EXTENDS VarEnv

CONSTANTS Names,       \* names of variables
          ParamLists,  \* the parameter lists of functions
          MaxDepth     \* bound: blocks open at once, the body apart

ASSUME ParamListsAssumption == ParamLists \subseteq Seq(Names)
ASSUME MaxDepthAssumption == MaxDepth \in Nat

VARIABLES checker,   \* FnEnv.scopes: each maps a name to its declaration
          env,       \* VarEnv
          owner,     \* ghost: owner[s + 1] is the declaration slot s is for
          open,      \* the blocks and loops being walked, innermost last
          decls,     \* ghost: declarations so far
          initRead,  \* ghost: the variable that the last initializer read
          status

vars == <<checker, env, owner, open, decls, initRead, status>>

Statuses == {"walking", "done",
             "rejected",                \* TypeError
             "no slots", "duplicate"}   \* LocalLimitExceeded, DuplicateLocal

\* FnEnv::declare and FnEnv::resolve
CheckerTop == checker[Len(checker)]
CheckerDeclare(scopes, x, d) == [scopes EXCEPT ![Len(scopes)] = Extend(@, x, d)]
Checked(x) ==
  IF \E k \in DOMAIN checker : x \in DOMAIN checker[k]
  THEN checker[CHOOSE k \in DOMAIN checker :
                 /\ x \in DOMAIN checker[k]
                 /\ \A m \in DOMAIN checker : x \in DOMAIN checker[m] => m <= k][x]
  ELSE 0

\* The declaration behind the slot that VarEnv::resolve returns.
CompiledIn(e, owners, x) ==
  LET s == Resolve(e, x)
  IN  CASE s.kind = "local" -> owners[s.slot + 1]
        [] s.kind = "arg"   -> s.slot + 1
        [] OTHER            -> 0
Compiled(x) == CompiledIn(env, owner, x)

NoRead == [checked |-> 0, compiled |-> 0]
NotAVariable == 0   \* owner of a slot that no name is bound to

HasDuplicate(params) ==
  \E i, j \in DOMAIN params : i # j /\ params[i] = params[j]

\* check_function and FunctionCompiler::new, up to the first statement.
Init ==
  \E params \in ParamLists :
    /\ checker = <<[x \in {params[i] : i \in DOMAIN params} |->
                      CHOOSE i \in DOMAIN params : params[i] = x], NoNames>>
    /\ env = EnterBlock(NewEnv(params))
    /\ owner = <<>>
    /\ open = <<>>
    /\ decls = Len(params)
    /\ initRead = NoRead
    /\ status = IF HasDuplicate(params) THEN "rejected"
                ELSE IF ParamsFit(params) THEN "walking" ELSE "no slots"

Stop(why) ==
  /\ status' = why
  /\ UNCHANGED <<checker, env, owner, open, decls, initRead>>

-----------------------------------------------------------------------------
(* Stmt::Var.  The checker infers the initializer and then declares the    *)
(* name; FunctionCompiler declares it and then compiles the initializer.   *)

\* y is a name that the initializer reads.
DeclareVar(x, y) ==
  /\ status = "walking"
  /\ Checked(y) # 0
  /\ x \notin DOMAIN CheckerTop
  /\ CanDeclare(env, x)
  /\ checker' = CheckerDeclare(checker, x, decls + 1)
  /\ env' = DeclareLocal(env, x)
  /\ owner' = Append(owner, decls + 1)
  /\ decls' = decls + 1
  /\ initRead' = [checked  |-> Checked(y),
                  compiled |-> CompiledIn(env', owner', y)]
  /\ UNCHANGED <<open, status>>

\* No initializer, or one that reads no variable.
DeclareConstant(x) ==
  /\ status = "walking"
  /\ x \notin DOMAIN CheckerTop
  /\ CanDeclare(env, x)
  /\ checker' = CheckerDeclare(checker, x, decls + 1)
  /\ env' = DeclareLocal(env, x)
  /\ owner' = Append(owner, decls + 1)
  /\ decls' = decls + 1
  /\ initRead' = NoRead
  /\ UNCHANGED <<open, status>>

\* A name the checker knows in this block, or an initializer it cannot
\* resolve.
RejectVar(x, y) ==
  /\ status = "walking"
  /\ x \in DOMAIN CheckerTop \/ Checked(y) = 0
  /\ Stop("rejected")

OutOfSlots(x) ==
  /\ status = "walking"
  /\ x \notin DOMAIN CheckerTop
  /\ ~SlotsLeft(env)
  /\ Stop("no slots")

DuplicateLocal(x) ==
  /\ status = "walking"
  /\ x \notin DOMAIN CheckerTop
  /\ SlotsLeft(env)
  /\ ~CanDeclare(env, x)
  /\ Stop("duplicate")

-----------------------------------------------------------------------------
(* Expressions that keep an intermediate value in a slot: index and member *)
(* assignments, compound assignments to storage.                           *)
Temporary ==
  /\ status = "walking"
  /\ SlotsLeft(env)
  /\ env' = AllocSlot(env)
  /\ owner' = Append(owner, NotAVariable)
  /\ UNCHANGED <<checker, open, decls, initRead, status>>

-----------------------------------------------------------------------------
(* Blocks: check_block and compile_block, of Stmt::Block, If and While. *)

Meanings == [x \in Names |-> Checked(x)]

Enter ==
  /\ status = "walking"
  /\ Len(open) < MaxDepth
  /\ checker' = Append(checker, NoNames)
  /\ env' = EnterBlock(env)
  /\ open' = Append(open, [scopes |-> 1, hidden |-> {}, before |-> Meanings])
  /\ UNCHANGED <<owner, decls, initRead, status>>

\* The checker gives the names of a loop a scope and its body another one.
\* FunctionCompiler takes hidden slots, then one scope for both.
EnterArrayLoop(item) ==
  LET one == AllocSlot(env)
      two == AllocSlot(one)
      declared == DeclareLocal(EnterBlock(two), item)
  IN  /\ status = "walking"
      /\ Len(open) < MaxDepth
      /\ env.next + 3 <= SlotLimit
      /\ checker' = checker \o <<Extend(NoNames, item, decls + 1), NoNames>>
      /\ env' = declared
      /\ owner' = owner \o <<NotAVariable, NotAVariable, decls + 1>>
      /\ decls' = decls + 1
      /\ open' = Append(open, [scopes |-> 2, hidden |-> {env.next, one.next},
                               before |-> Meanings])
      /\ UNCHANGED <<initRead, status>>

EnterMapLoop(key, value) ==
  LET one == AllocSlot(env)
      two == AllocSlot(one)
      three == AllocSlot(two)
      declared == DeclareLocal(DeclareLocal(EnterBlock(three), key), value)
  IN  /\ status = "walking"
      /\ Len(open) < MaxDepth
      /\ key # value
      /\ env.next + 5 <= SlotLimit
      /\ checker' = checker \o
           <<Extend(Extend(NoNames, key, decls + 1), value, decls + 2), NoNames>>
      /\ env' = declared
      /\ owner' = owner \o <<NotAVariable, NotAVariable, NotAVariable,
                             decls + 1, decls + 2>>
      /\ decls' = decls + 2
      /\ open' = Append(open,
                   [scopes |-> 2, hidden |-> {env.next, one.next, two.next},
                    before |-> Meanings])
      /\ UNCHANGED <<initRead, status>>

RejectMapLoop(key) ==   \* for key, key in map
  /\ status = "walking"
  /\ Stop("rejected")

NoSlotsForLoop(needed) ==
  /\ status = "walking"
  /\ env.next + needed > SlotLimit
  /\ Stop("no slots")

Exit ==
  /\ status = "walking"
  /\ open # <<>>
  /\ checker' = SubSeq(checker, 1, Len(checker) - open[Len(open)].scopes)
  /\ env' = ExitBlock(env)
  /\ open' = SubSeq(open, 1, Len(open) - 1)
  /\ UNCHANGED <<owner, decls, initRead, status>>

Finish ==
  /\ status = "walking"
  /\ open = <<>>
  /\ Stop("done")

Next ==
  \/ \E x \in Names : DeclareConstant(x) \/ OutOfSlots(x) \/ DuplicateLocal(x)
  \/ \E x, y \in Names : DeclareVar(x, y) \/ RejectVar(x, y)
  \/ Temporary
  \/ Enter
  \/ \E item \in Names : EnterArrayLoop(item) \/ RejectMapLoop(item)
  \/ \E key, value \in Names : EnterMapLoop(key, value)
  \/ NoSlotsForLoop(3) \/ NoSlotsForLoop(5)
  \/ Exit
  \/ Finish

Spec == Init /\ [][Next]_vars

-----------------------------------------------------------------------------
(* Properties. *)

Open == [scopes : {1, 2}, hidden : SUBSET Nat, before : [Names -> Nat]]

\* The variables keep their types, and no slot beyond the limit of a u8 is
\* ever handed out.
TypeOK ==
  /\ Len(checker) \in Nat \ {0}
  /\ \A k \in DOMAIN checker : \A x \in DOMAIN checker[k] :
        x \in Names /\ checker[k][x] \in 1..decls
  /\ \A d \in DOMAIN env.scopes : \A x \in DOMAIN env.scopes[d] :
        x \in Names /\ env.scopes[d][x] \in 0..(env.next - 1)
  /\ env.next \in 0..SlotLimit
  /\ owner \in Seq(0..decls)
  /\ open \in Seq(Open)
  /\ decls \in Nat
  /\ initRead \in [checked : 0..decls, compiled : 0..decls]
  /\ status \in Statuses

\* Two variables that are live at once, in one block or in nested ones, are
\* in different slots, and none is in a slot where an enclosing loop keeps
\* its collection or its counter.
Live == {v \in (1..Len(env.scopes)) \X Names : v[2] \in DOMAIN env.scopes[v[1]]}
SlotOf(v) == env.scopes[v[1]][v[2]]

SlotsNotShared ==
  /\ \A v, w \in Live : SlotOf(v) = SlotOf(w) => v = w
  /\ \A v \in Live : \A k \in DOMAIN open : SlotOf(v) \notin open[k].hidden

\* At every point of every function, every name means the same declaration
\* to the type checker and to the code generator, although they nest the
\* scopes of a loop differently and only one of them knows arguments apart.
NamesAgree ==
  status # "rejected" => \A x \in Names : Compiled(x) = Checked(x)

\* A name means after a block what it meant before the block: neither pass
\* lets a declaration out of it.
BlocksRestoreNames ==
  [][Len(open') < Len(open) =>
       \A x \in Names : Compiled(x)' = open[Len(open)].before[x]]_vars

\* An initializer reads the variables that the checker typed it with, except
\* for the variable it initializes: FunctionCompiler has declared that one
\* already, the checker has not. function.rs:125.
InitializersAgree ==
  [][initRead' # initRead => initRead'.compiled \in {initRead'.checked, decls'}]_vars
=============================================================================
