--------------------------------- MODULE Ir ---------------------------------
(***************************************************************************)
(* The intermediate representation (ir/mod.rs): basic blocks with          *)
(* parameters, instructions that define one value each, terminators.       *)
(*                                                                         *)
(* An instruction is a record: out, the value it defines; op; args, the    *)
(* references it uses, in the order of its fields (the receiver of a       *)
(* struct call first, keys and values of a map in turn); and k, the rest   *)
(* of its fields, as a name and a number. op is the opcode for the         *)
(* instructions that are a NeoVM instruction with operands.                *)
(* Blocks and values are numbered from 1, parameters from 0; block 1 is    *)
(* the entry.                                                              *)
(***************************************************************************)
EXTENDS Integers, Sequences, FiniteSets

\* ValueRef
Val(id) == [r |-> "value", n |-> id]
Par(i)  == [r |-> "param", n |-> i]

K(s, n) == [s |-> s, n |-> n]
NoK == K("", 0)

\* Literal: integers keep the spelling class of the source, decimal or not.
Literal(type, n) == K(type, n)

BinaryOps == {"ADD", "SUB", "MUL", "DIV", "LT", "EQUAL", "NOTEQUAL"}
UnaryOps == {"NEGATE", "NOT"}

\* Instructions whose code is their operands and one opcode.
PureDirectOps ==
  UnaryOps \cup
  {"SIZE", "KEYS", "VALUES", "HASKEY", "SUBSTR", "SQRT", "MODMUL", "MODPOW",
   "WITHIN", "MIN", "MAX"}
EffectfulDirectOps ==
  {"APPEND", "POPITEM", "CLEARITEMS", "REMOVE", "ASSERTMSG", "ABORTMSG"}

\* Mutant: a store to an item is taken for a pure instruction.
SideEffectsWithoutStores ==
  EffectfulDirectOps \cup
  {"FIELDSET", "STORAGEPUT", "MAPPUT", "MAPCOMPOUND", "MAPREMOVE", "EMIT",
   "PACKAGECALL", "SELFCALL", "STRUCTCALL", "RUNTIMECALL"}

\* has_side_effects
SideEffects ==
  EffectfulDirectOps \cup
  {"INDEXSET", "FIELDSET", "STORAGEPUT", "MAPPUT", "MAPCOMPOUND", "MAPREMOVE",
   "EMIT", "PACKAGECALL", "SELFCALL", "STRUCTCALL", "RUNTIMECALL"}

\* must_keep_even_if_unused
MustKeep == SideEffects \cup {"STRUCTPACK"}

HasSideEffects(i) == i.op \in SideEffects
MustBeKept(i) == i.op \in MustKeep

Instr(out, op, k, args) == [out |-> out, op |-> op, k |-> k, args |-> args]

-----------------------------------------------------------------------------
\* Terminator. refs is the condition of a branch or the value of a return.
Unset == [t |-> "unset", refs |-> <<>>, to |-> 0, args |-> <<>>,
          else |-> 0, elseargs |-> <<>>]
ReturnTerm(refs) == [Unset EXCEPT !.t = "return", !.refs = refs]
JumpTerm(to, args) == [Unset EXCEPT !.t = "jump", !.to = to, !.args = args]
BranchTerm(cond, to, args, else, elseargs) ==
  [t |-> "branch", refs |-> <<cond>>, to |-> to, args |-> args,
   else |-> else, elseargs |-> elseargs]

TermRefs(t) == t.refs \o t.args \o t.elseargs

\* BasicBlock; params are their names.
EmptyBlock == [params |-> <<>>, instrs |-> <<>>, term |-> Unset]

-----------------------------------------------------------------------------
\* collect_uses_in_instr, collect_uses_in_term, and the collectors of
\* ir_codegen/analysis.rs: the values among some references.
ValuesOf(refs) == {refs[i].n : i \in {j \in DOMAIN refs : refs[j].r = "value"}}

UsesInInstr(i) == ValuesOf(i.args)
UsesInTerm(t) == ValuesOf(TermRefs(t))

\* rewrite, rewrite_value_refs_in_instr, rewrite_value_refs_in_term: sub is
\* a function from values to references.
Rewrite(ref, sub) ==
  IF ref.r = "value" /\ ref.n \in DOMAIN sub THEN sub[ref.n] ELSE ref
RewriteAll(refs, sub) == [i \in DOMAIN refs |-> Rewrite(refs[i], sub)]
RewriteInstr(i, sub) == [i EXCEPT !.args = RewriteAll(@, sub)]
RewriteTerm(t, sub) ==
  [t EXCEPT !.refs = RewriteAll(@, sub), !.args = RewriteAll(@, sub),
            !.elseargs = RewriteAll(@, sub)]
RewriteBlock(b, sub) ==
  [b EXCEPT !.instrs = [i \in DOMAIN @ |-> RewriteInstr(@[i], sub)],
            !.term = RewriteTerm(@, sub)]

\* All the instructions of some blocks.
InstrsOf(blocks) ==
  UNION { {blocks[b].instrs[i] : i \in DOMAIN blocks[b].instrs} :
            b \in DOMAIN blocks }
=============================================================================
