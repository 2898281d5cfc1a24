-------------------------------- MODULE IrOpt --------------------------------
(***************************************************************************)
(* The optimizer of the intermediate representation (ir/opt.rs,            *)
(* FunctionIr::optimize): constants are folded, copies propagated, equal   *)
(* pure instructions of a block shared, and what is not used is removed.   *)
(*                                                                         *)
(* The first two passes take a block per step, sharing takes an            *)
(* instruction, the search for used values takes a value off its worklist. *)
(***************************************************************************)
EXTENDS Ir

CONSTANTS Functions,   \* the blocks that lowering may hand over
          MaxInt       \* i64::MAX

VARIABLES blocks,  \* FunctionIr::blocks
          pass,    \* the pass that is running
          block,   \* the block it has come to
          at,      \* the instruction that sharing has come to
          subst,   \* what sharing puts in the place of a value of this block
          table,   \* the instructions of this block that others may share
          used,    \* the values found to be used
          work     \* the values still to look at

vars == <<blocks, pass, block, at, subst, table, used, work>>

NoSubst == [v \in {} |-> Val(v)]

Init ==
  /\ blocks \in Functions
  /\ pass = "fold"
  /\ block = 1
  /\ at = 1
  /\ subst = NoSubst
  /\ table = {}
  /\ used = {}
  /\ work = {}

\* Mutant: one block too many.
NextBlockLate(next) ==
  IF block > Len(blocks)
  THEN pass' = next /\ block' = 1
  ELSE pass' = pass /\ block' = block + 1

\* The pass goes on with the next block, or the pass `next` begins.
NextBlock(next) ==
  IF block = Len(blocks)
  THEN pass' = next /\ block' = 1
  ELSE pass' = pass /\ block' = block + 1

-----------------------------------------------------------------------------
(* const_fold. Only what was a constant before the pass counts, and only    *)
(* in the same block.                                                       *)

\* The constants of instrs that define the value of a reference.
ConstRefs(instrs, ref) ==
  { instrs[i].k :
      i \in {j \in DOMAIN instrs : /\ instrs[j].op = "CONST"
                                   /\ ref = Val(instrs[j].out)} }

BoolK(p) == Literal("bool", IF p THEN 1 ELSE 0)

\* fold_unary puts a sign in front of the spelling.
FoldUnary(op, k) ==
  CASE op = "NOT" /\ k.s = "bool"               -> {BoolK(k.n = 0)}
    [] op = "NEGATE" /\ k.s \in {"int", "hex"}  -> {Literal(k.s, -k.n)}
    [] OTHER -> {}

\* i64 division rounds towards zero; sums, differences and products wrap
\* around, as they do where overflow checks are off.
Quotient(n, d) ==
  LET q == (IF n < 0 THEN -n ELSE n) \div (IF d < 0 THEN -d ELSE d)
  IN  IF (n < 0) = (d < 0) THEN q ELSE -q

Wrapped(n) == ((n + MaxInt + 1) % (2 * (MaxInt + 1))) - MaxInt - 1

\* The literals that parse as i64: decimal and in range.
Parses(k) == k.s = "int" /\ k.n \in (-MaxInt - 1)..MaxInt

FoldArithmetic(op, n, m) ==
  CASE op = "ADD" -> Wrapped(n + m)
    [] op = "SUB" -> Wrapped(n - m)
    [] op = "MUL" -> Wrapped(n * m)
    [] op = "DIV" -> Quotient(n, m)

\* fold_binary: integers are equal when their spellings are.
FoldBinary(op, j, k) ==
  CASE op \in {"EQUAL", "NOTEQUAL"} ->
         IF \/ {j.s, k.s} \subseteq {"int", "hex"}
            \/ {j.s, k.s} = {"bool"}
         THEN {BoolK((j = k) = (op = "EQUAL"))}
         ELSE {}
    [] op \in {"ADD", "SUB", "MUL", "DIV"} /\ Parses(j) /\ Parses(k) ->
         {Literal("int", FoldArithmetic(op, j.n, k.n))}
    [] OTHER -> {}

\* The literals an instruction folds to: one or none.
Folded(instrs, i) ==
  CASE i.op \in UnaryOps ->
         UNION {FoldUnary(i.op, k) : k \in ConstRefs(instrs, i.args[1])}
    [] i.op \in BinaryOps ->
         UNION {FoldBinary(i.op, j, k) : j \in ConstRefs(instrs, i.args[1]),
                                         k \in ConstRefs(instrs, i.args[2])}
    [] OTHER -> {}

Fold(instrs, i) ==
  IF Folded(instrs, i) = {} THEN i
  ELSE Instr(i.out, "CONST", CHOOSE k \in Folded(instrs, i) : TRUE, <<>>)

\* Division panics when the divisor is zero or the quotient is out of range,
\* with or without overflow checks.
DivisionPanics(instrs, i) ==
  /\ i.op = "DIV"
  /\ \E j \in ConstRefs(instrs, i.args[1]), k \in ConstRefs(instrs, i.args[2]) :
        /\ Parses(j) /\ Parses(k)
        /\ k.n = 0 \/ (j.n = -MaxInt - 1 /\ k.n = -1)

Panics(instrs) == \E i \in DOMAIN instrs : DivisionPanics(instrs, instrs[i])

FoldConstants ==
  /\ pass = "fold"
  /\ ~Panics(blocks[block].instrs)
  /\ blocks' = [blocks EXCEPT ![block].instrs =
                  [i \in DOMAIN @ |-> Fold(@, @[i])]]
  /\ NextBlock("copy")
  /\ UNCHANGED <<at, subst, table, used, work>>

Panic ==
  /\ pass = "fold"
  /\ Panics(blocks[block].instrs)
  /\ pass' = "panicked"
  /\ UNCHANGED <<blocks, block, at, subst, table, used, work>>

-----------------------------------------------------------------------------
(* copy_prop *)

\* What the copies among some instructions stand for.
CopiesIn(instrs) ==
  LET copies == {i \in instrs : i.op = "COPY"}
  IN  [v \in {i.out : i \in copies} |-> (CHOOSE i \in copies : i.out = v).args[1]]

\* Mutant: one map for all the blocks of the function.
CopiesOfFunction(b) == CopiesIn(InstrsOf(blocks))

\* The map of one block: a parameter means something else in another block.
CopiesOf(b) == CopiesIn(InstrsOf(<<blocks[b]>>))

PropagateCopies ==
  /\ pass = "copy"
  /\ blocks' = [blocks EXCEPT ![block] = RewriteBlock(@, CopiesOf(block))]
  /\ NextBlock("share")
  /\ UNCHANGED <<at, subst, table, used, work>>

-----------------------------------------------------------------------------
(* comm_subexpr_elimination *)

\* The instructions that have a PureKey.
Shareable ==
  BinaryOps \cup UnaryOps \cup
  {"CONST", "FIELDGET", "COPY", "ISNULL", "INDEXGET", "SIZE", "KEYS", "VALUES",
   "HASKEY", "SUBSTR", "SQRT", "MODMUL", "MODPOW", "WITHIN", "CONVERT", "MIN",
   "MAX"}

\* Mutant: a call is shared like an expression.
ShareableOrCall(i) == i.op \in Shareable \cup {"PACKAGECALL"}

HasPureKey(i) == ~HasSideEffects(i) /\ i.op \in Shareable

SameKey(i, j) == i.op = j.op /\ i.k = j.k /\ i.args = j.args

AtInstr == pass = "share" /\ at <= Len(blocks[block].instrs)
Normalised == RewriteInstr(blocks[block].instrs[at], subst)

\* An instruction that is not shared: its arguments stay until the end of
\* the block.
Pass ==
  /\ AtInstr
  /\ ~HasPureKey(blocks[block].instrs[at])
  /\ at' = at + 1
  /\ UNCHANGED <<blocks, pass, block, subst, table, used, work>>

\* The first instruction with its key.
Enter ==
  /\ AtInstr
  /\ HasPureKey(blocks[block].instrs[at])
  /\ \A i \in table : ~SameKey(i, Normalised)
  /\ blocks' = [blocks EXCEPT ![block].instrs[at] = Normalised]
  /\ table' = table \cup {Normalised}
  /\ at' = at + 1
  /\ UNCHANGED <<pass, block, subst, used, work>>

\* A later one becomes a copy of the first.
Share ==
  /\ AtInstr
  /\ HasPureKey(blocks[block].instrs[at])
  /\ \E i \in table :
       /\ SameKey(i, Normalised)
       /\ blocks' = [blocks EXCEPT ![block].instrs[at] =
                       Instr(@.out, "COPY", NoK, <<Val(i.out)>>)]
       /\ subst' = [v \in DOMAIN subst \cup {Normalised.out} |->
                      IF v = Normalised.out THEN Val(i.out) ELSE subst[v]]
  /\ at' = at + 1
  /\ UNCHANGED <<pass, block, table, used, work>>

\* The remaining uses in this block.
RewriteUses ==
  /\ pass = "share"
  /\ at > Len(blocks[block].instrs)
  /\ blocks' = [blocks EXCEPT ![block] = RewriteBlock(@, subst)]
  /\ subst' = NoSubst
  /\ table' = {}
  /\ at' = 1
  /\ NextBlock("roots")
  /\ UNCHANGED <<used, work>>

-----------------------------------------------------------------------------
(* dead_code_elimination *)

\* Mutant: the operands of what is kept anyway are no roots.
RootsOfTerm(b) == UsesInTerm(b.term)

Roots(b) ==
  UsesInTerm(b.term) \cup
  UNION {UsesInInstr(i) : i \in {j \in InstrsOf(<<b>>) : MustBeKept(j)}}

CollectRoots ==
  /\ pass = "roots"
  /\ work' = work \cup Roots(blocks[block])
  /\ NextBlock("mark")
  /\ UNCHANGED <<blocks, at, subst, table, used>>

\* The operands of the instruction that defines a value.
OperandsOf(v) == UNION {UsesInInstr(i) : i \in {j \in InstrsOf(blocks) : j.out = v}}

\* Mutant: the value stays on the worklist.
MarkWithoutPop ==
  /\ pass = "mark"
  /\ work # {}
  /\ LET v == CHOOSE w \in work : TRUE
     IN  /\ used' = used \cup {v}
         /\ work' = work \cup OperandsOf(v)
  /\ UNCHANGED <<blocks, pass, block, at, subst, table>>

\* A value off the worklist. Which one is first does not matter to what is
\* found in the end, and values found before are not looked at again.
Mark ==
  /\ pass = "mark"
  /\ work # {}
  /\ LET v == CHOOSE w \in work : TRUE
     IN  /\ used' = used \cup {v}
         /\ work' = (work \cup OperandsOf(v)) \ (used \cup {v})
  /\ UNCHANGED <<blocks, pass, block, at, subst, table>>

Marked ==
  /\ pass = "mark"
  /\ work = {}
  /\ pass' = "sweep"
  /\ UNCHANGED <<blocks, block, at, subst, table, used, work>>

Stays(i) == MustBeKept(i) \/ i.out \in used

\* The retain of a block, an instruction at a time.
Retain ==
  /\ pass = "sweep"
  /\ at <= Len(blocks[block].instrs)
  /\ Stays(blocks[block].instrs[at])
  /\ at' = at + 1
  /\ UNCHANGED <<blocks, pass, block, subst, table, used, work>>

Remove ==
  /\ pass = "sweep"
  /\ at <= Len(blocks[block].instrs)
  /\ ~Stays(blocks[block].instrs[at])
  /\ blocks' = [blocks EXCEPT ![block].instrs =
                  SubSeq(@, 1, at - 1) \o SubSeq(@, at + 1, Len(@))]
  /\ UNCHANGED <<pass, block, at, subst, table, used, work>>

Swept ==
  /\ pass = "sweep"
  /\ at > Len(blocks[block].instrs)
  /\ at' = 1
  /\ NextBlock("done")
  /\ UNCHANGED <<blocks, subst, table, used, work>>

Next ==
  \/ FoldConstants \/ Panic \/ PropagateCopies
  \/ Pass \/ Enter \/ Share \/ RewriteUses
  \/ CollectRoots \/ Mark \/ Marked \/ Retain \/ Remove \/ Swept

Spec == Init /\ [][Next]_vars
FairSpec == Spec /\ WF_vars(Next)

-----------------------------------------------------------------------------
\* What lowering hands over and the passes keep: references that are values
\* or parameters, instructions and terminators with lists of them, and one
\* reference in a copy.
Reference == [r : {"value", "param"}, n : Nat]
IsInstr(i) ==
  /\ i = [out |-> i.out, op |-> i.op, k |-> i.k, args |-> i.args]
  /\ i.out \in Nat
  /\ i.args \in Seq(Reference)
  /\ i.op = "COPY" => Len(i.args) = 1
IsTerm(t) ==
  /\ t = [t |-> t.t, refs |-> t.refs, to |-> t.to, args |-> t.args,
          else |-> t.else, elseargs |-> t.elseargs]
  /\ t.refs \in Seq(Reference)
  /\ t.args \in Seq(Reference)
  /\ t.elseargs \in Seq(Reference)
IsList(s) == s \in Seq({s[i] : i \in DOMAIN s})
IsBlock(b) ==
  /\ b = [params |-> b.params, instrs |-> b.instrs, term |-> b.term]
  /\ IsList(b.instrs)
  /\ \A i \in DOMAIN b.instrs : IsInstr(b.instrs[i])
  /\ IsTerm(b.term)
AreBlocks(bs) ==
  /\ IsList(bs)
  /\ bs # <<>>
  /\ \A n \in DOMAIN bs : IsBlock(bs[n])

Passes == {"fold", "copy", "share", "roots", "mark", "sweep", "done", "panicked"}

\* The optimizer keeps the blocks in shape and stays inside them.
\* FunctionIr::optimize.
TypeOK ==
  /\ AreBlocks(blocks)
  /\ pass \in Passes
  /\ block \in 1..Len(blocks)
  /\ at \in Nat \ {0}

\* The references in a block, and the values that some blocks use and define.
RefsOf(refs) == {refs[j] : j \in DOMAIN refs}
RefsIn(b) ==
  (UNION {RefsOf(b.instrs[i].args) : i \in DOMAIN b.instrs}) \cup RefsOf(TermRefs(b.term))

UsedIn(bs) == UNION {{r.n : r \in {t \in RefsIn(bs[n]) : t.r = "value"}} : n \in DOMAIN bs}
DefinedIn(bs) == {i.out : i \in InstrsOf(bs)}

\* Lowering uses what it has defined.
ASSUME FunctionsAssumption ==
  \A f \in Functions : AreBlocks(f) /\ UsedIn(f) \subseteq DefinedIn(f)
ASSUME MaxIntAssumption == MaxInt \in Nat \ {0}

\* Whatever is used is defined: sharing and the removal of dead code leave no
\* use without its definition, in its own block or in another. Within the last
\* pass an instruction may go before one that uses it and goes too.
\* comm_subexpr_elimination, dead_code_elimination.
UsesDefined == pass # "sweep" => UsedIn(blocks) \subseteq DefinedIn(blocks)

\* A parameter is a parameter of its own block: no step brings one into a
\* block that did not refer to it. copy_prop, opt.rs:312.
ParamsStayLocal ==
  [][ \A n \in DOMAIN blocks' :
        {r \in RefsIn(blocks'[n]) : r.r = "param"} \subseteq RefsIn(blocks[n]) ]_vars

\* Every block keeps its calls, stores and events, each once and in their
\* order: the later ones are the earlier ones, by a map that keeps the order.
\* must_keep_even_if_unused, retain.
KeptIn(b) == {i \in DOMAIN b.instrs : MustBeKept(b.instrs[i])}
SameEffect(i, j) == i.out = j.out /\ i.op = j.op /\ i.k = j.k
SameEffects(b, c) ==
  \E f \in [KeptIn(b) -> KeptIn(c)] :
    /\ \A j \in KeptIn(c) : \E i \in KeptIn(b) : f[i] = j
    /\ \A i, j \in KeptIn(b) : i < j => f[i] < f[j]
    /\ \A i \in KeptIn(b) : SameEffect(b.instrs[i], c.instrs[f[i]])
EffectsKept == [][ \A n \in DOMAIN blocks' : SameEffects(blocks[n], blocks'[n]) ]_vars

\* The passes come to an end on whatever lowering hands over: a value is expanded
\* once by dead_code_elimination, whether or not loops lead back to it.
\* opt.rs:358.
OptimizerEnds == <>(pass \in {"done", "panicked"})

\* What the optimizer has left: passes, blocks of the pass, instructions of the
\* block, and defined values that the search has not found to be used.
PassesLeft ==
  CASE pass = "fold"  -> 6 [] pass = "copy" -> 5 [] pass = "share" -> 4
    [] pass = "roots" -> 3 [] pass = "mark" -> 2 [] pass = "sweep" -> 1
    [] OTHER          -> 0
BlocksLeft == Len(blocks) - block
InstrsLeft == Len(blocks[block].instrs) + 1 - at
NotFound   == Cardinality(DefinedIn(blocks) \ used)

\* Why they do: every step ends a pass, a block or an instruction, or finds a
\* value that had not been found, although the search follows loops.
\* FunctionIr::optimize, dead_code_elimination.
ComesNearer ==
  [][ \/ PassesLeft' < PassesLeft
      \/ /\ PassesLeft' = PassesLeft
         /\ \/ BlocksLeft' < BlocksLeft
            \/ BlocksLeft' = BlocksLeft /\ InstrsLeft' < InstrsLeft
            \/ /\ BlocksLeft' = BlocksLeft /\ InstrsLeft' = InstrsLeft
               /\ NotFound' < NotFound ]_vars
=============================================================================
