# neo-lang in TLA+

neo-lang is a small contract language; `neo-compiler` compiles a source file to
a script for the Neo virtual machine. This directory holds TLA+ models of the
compiler's back end, the TLC configurations that check them, and TLAPS proofs.

The compiler is one sequential program. What is hard in it is not concurrency
but *position*: passes that edit a list of instructions while other data
(branch operands, call entries, slot numbers, token indices) refers to places
in it, written by one component and used by another, much later. The models
therefore make the order of steps and the references between tables explicit
and leave out text, wording and formatting.

Paths below are relative to `src/neo-compiler/src/`.

## 1. The system

| component | state | operations | status |
|---|---|---|---|
| lexer, parser (`syntax/`) | cursor over tokens | tokenize, parse | not modelled |
| type checker (`typecheck/`) | `FnEnv`: a stack of scopes, name -> type | `check_function`, `check_stmt`, `declare`, `resolve` | scopes modelled, types not |
| file driver (`codegen/mod.rs`, `codegen/function.rs`) | routines so far, token registry | `codegen_source_file`: compile each routine, optimize, link | partly |
| IR lowering (`ir/lower/`) | blocks under construction, environments | `lower_function_to_ir`: one operation per statement and expression | all but calls of other contracts |
| IR optimizer (`ir/opt.rs`) | blocks, substitution, table of shared values, worklist | `const_fold`, `copy_prop`, `comm_subexpr_elimination`, `dead_code_elimination` | modelled |
| IR code generator (`codegen/ir_codegen/`) | `Builder`, stack plan, spill slots, pending jumps | `compile_ir`: plan, emit each block, patch jumps | all but calls of other contracts |
| syntax-tree code generator (`codegen/function.rs`, `codegen/expr/`) | `Builder`, `VarEnv`, `pending_call_l` | one per statement and expression | all but calls of other contracts |
| contract storage (in both code generators) | storage of the contract | read, write, test, remove a field or a map entry | for integers |
| variable environment (`codegen/env.rs`) | arguments, stack of blocks, `next_local` | `enter_block`, `exit_block`, `declare_local`, `alloc_slot`, `resolve` | modelled |
| token registry (`target/method_token.rs`) | `tokens`, `index` | `intern` | modelled |
| peephole optimizer (`codegen/opt.rs`) | instructions, `call_patches`, scan position | five passes in rounds | modelled |
| linker (`link_call_l_patches`) | symbol -> offset | register, patch | modelled |
| syscalls, built-in operations | tables | emit plans: plain, wrapped, with or without a value | plans of a few calls |
| initializer, getters | - | syntax trees of constants and storage accesses | not modelled |
| NEF container, disassembler | bytes | encode, decode | not modelled |
| natives, stdlib, cost tables, manifest, CLI, dumps | - | tables, file I/O, formatting | not modelled |

How they meet:

```
parse -> type_check -> for each routine: compile_function
                          lower -> optimize IR -> emit  --fails-->  syntax-tree generator
                       -> optimize (peephole) each routine
                       -> link CALL_L across routines -> NEF + manifest
```

* The type checker and the code generator each walk a function with a scope
  stack of their own and share nothing; a name must come out as the same
  variable in both.
* Both code generators leave `CALL_L` with an empty operand and an entry
  `(position, symbol)` in `call_patches`. The optimizer edits the instructions
  under those entries; the linker resolves them.
* Branches are PC-relative byte distances as soon as code generation ends, so
  every later edit has to re-encode them.
* All routines of a file share one token registry. A routine that the IR
  pipeline gives up on is compiled a second time; what the first attempt
  interned stays.
* The IR pipeline names a value by number in three places that nothing ties
  together: the instruction that defines it, the arguments of jumps and the
  parameters of the blocks they enter. Lowering writes them, the IR optimizer
  rewrites them, and the stack plan relies on them.
* `compile_function` takes the IR pipeline only for the functions that
  `should_use_ir_pipeline` wants, and takes the other generator, silently, when
  lowering or emission returns an error.

What makes each component correct, and where that could go wrong, is the list
`hazards` of `PROJECT.json`, each entry at its source line.

## 2. Modules

| module | models |
|---|---|
| `Bytecode` | instructions, encoded lengths, offsets, PC-relative targets |
| `Routines` | what code generation hands on: instructions and call entries that match one to one |
| `Peephole` | `codegen/opt.rs`: one action per iteration of a pass |
| `CallBinding` | abstract specification of linking, without layout |
| `Linker` | `link_call_l_patches`: both loops, step by step; implements `CallBinding` |
| `VarEnv` | `codegen/env.rs` as operators on a record |
| `Scopes` | type checker and code generator walking the same function |
| `MethodTokens` | the token registry under the driver and the fallback |
| `Ast`, `Emitter` | the syntax tree; the part of `Builder` that both code generators use |
| `AstCodegen` | the syntax-tree code generator, as operators; it also produces the inputs of `Peephole` |
| `Ir` | the intermediate representation and the walks over it |
| `IrLower` | `ir/lower`: the SSA builder, as operators |
| `IrOpt` | `ir/opt.rs`: a state machine, one action per step of a pass |
| `IrCodegen` | `codegen/ir_codegen`: stack plan, spills, emission, as operators |
| `Values`, `Machine` | the virtual machine on one routine, one action per kind of instruction; not part of the repository, modelled from what the code generators rely on |
| `Balance` | a run of any routine, without a source: the heights of the stack, and when a routine is balanced |
| `Meaning` | reference definition: what a syntax tree is supposed to do |
| `Execution` | `AstCodegen`, `Machine` and `Meaning` composed: a compiled function runs and is compared with its meaning |
| `Optimized` | `Execution` with `Peephole` between compilation and run, or without |
| `Pipeline` | `compile_function`: `IrLower`, the steps of `IrOpt`, `IrCodegen` or the fallback to `AstCodegen`, then the run of `Execution` |
| `MC*` | instances for TLC; `MCSources` has the functions that four of them compile |
| `*Proofs` | theorems; `BytecodeProofs` holds the facts about offsets that `PeepholeProofs` and `LinkerProofs` use, `BindingProofs` the refinement of `CallBinding`, `BalanceProofs` what holds of every run of a balanced routine |

### Peephole

`inst`, `patches`, `pass`, `index`, `changed`, `round` are the variables of
`optimize` and its five passes. An action is one iteration of a `while`:
`MergeDuplicateLoad`, `PeelDupDrop`, `PeelStoreLoad`, `PeelJump`,
`NarrowBranch` change something, `Advance` is an iteration that does not,
`EndPass` and `EndRound` are the sequence and the loop of `optimize`. A pass
that re-encodes operands does so on a copy and gives the edit up when an
operand cannot be encoded; `Relayout` returns `Refused` then, and the guards
`JumpToNext` and `Narrowable` include it. An instruction carries a ghost `id`,
its position when emitted, so that a property can follow it through edits.

Slot instructions have one opcode each, as the code's helpers `load_slot` and
`store_slot` see them; `EncodedLen` keeps the difference of their lengths.
`TRY`, `ENDTRY` and the comparing jumps are in the model because the optimizer
handles them, although no code generator emits them.

### Linker and CallBinding

`CallBinding` says: calls are bound one at a time, in any order, each to the
entry of the routine with its name; linking fails only if two routines share a
name, a call names none, or a callee is out of reach. That is its `Spec`, which
`Linker` implements (`ImplementsBinding`); that linking ends is `Ends`, checked as
`LinkingEnds`. `Linker` maps its state to it: `bound` is where each call that is no longer pending
leads *in the flattened script*, computed from the instructions, not from the
linker's table.

### Scopes

One action per statement that concerns names, taken through both passes:
`DeclareVar`, `DeclareConstant`, `Temporary`, `Enter`, `EnterArrayLoop`,
`EnterMapLoop`, `Exit`, and the ways either pass stops. `owner`, `decls`,
`open` and `initRead` are ghosts that name the declarations.

### MethodTokens

A routine is the list of external calls in the order each code generator makes
them. `InternAgain` and `InternNew` are `intern`; `Fallback` is
`compile_function` giving up on the IR at any point; `Refuse` an error of the
second generator; `EndRoutine` and `Finish` the driver's loops.

### AstCodegen

`FunctionCompiler` with every statement, and every kind of expression but calls
of other contracts, which matter for their tokens only (`MethodTokens`). What
the builder of the code holds (instructions, call entries, environment,
`value_struct`) is a record that the operators hand on. `MCPeephole` compiles
its inputs with it; four more are those of `opt.rs`'s unit tests for patterns
that no source function of the instance compiles to.

Of the tables of built-in operations and system calls the models keep what
decides the code: whether there is one opcode or a wrapped call, whether a value
is left, and how many arguments there are. Strings are their lengths, storage
holds integers, and a key is a name's length with an integer behind it.

### Ir, IrLower, IrOpt, IrCodegen

`Ir` gives an instruction one shape, whatever its kind: what it defines, its
opcode, its references, and the rest as one constant. `PureDirectOps` and
`SideEffects` are the classes of `has_side_effects`.

`IrLower` follows `ir/lower` with its environment of names: a join block has
one parameter for each variable the branches leave different, a loop header one
for each variable the body is found to assign, `&&` and `||` join on one
parameter. The code enumerates a `HashSet` of names in places; `up` is one of
two orders of it, chosen once for a function. An error anywhere sets `ok` to
FALSE, and the function is discarded.

`IrOpt` has the four passes of `FunctionIr::optimize`. `FoldConstants`, `Panic`
and `PropagateCopies` take a block per step. Sharing goes through the
instructions: `Pass` (impure or unkeyed), `Enter` (new key), `Share` (equal to
an earlier one), then `RewriteUses` over the block. The removal of dead
code is `CollectRoots` per block, `Mark` per value of the worklist, `Marked`,
and `Retain` or `Remove` per instruction, with `Swept` at the end of a block.

`IrCodegen` plans which values are spilled (used more than once, or elsewhere),
emits pure instructions where they are used, stores the arguments of a jump
into the parameters of its target, and patches jumps when every block has its
place. Anything that the code answers with an error makes `ok` FALSE.

`IrLower`, `IrCodegen`, `AstCodegen` and `Meaning` follow trees and use RECURSIVE
operators, so they hold no theorems; `Ir` and `IrOpt` do not, and
`IrOptProofs` proves about them.

### Execution, Optimized

`Execution!Init` compiles a function and fixes an input; then `Machine` runs the
instructions: one step each, with a fault when an operand is missing or of the
wrong kind, and no step past the end. A call of another routine is one step
that takes its arguments, records them in `trace` and pushes a reply, which is a
function of the arguments.

`Balance` is the part of this that needs no source. `heights` is a ghost: the
height of the stack the first time each position was reached. The four
properties of a run that concern the stack are stated there (`HeightsAgree`,
`OperandsPresent`, `ReturnsItsValue`, `StaysInside`). `Balanced` is a condition
on the routine alone: `HeightsOf` goes over the instructions once and gives each
a height; the routine is balanced if every instruction then finds its operands,
every successor expects what is left, a jump leads to an instruction, and `RET`
finds the result alone. `RunSpec` runs a balanced routine on arguments, heap,
storage and replies of which nothing is assumed.

`Meaning` runs the syntax tree itself, with scopes of named variables, and knows
nothing of slots, jumps or a stack. It follows the language description of the
repository's `README.md`, and `codegen/mod.rs` for the order in which arguments
are evaluated (last to first). It is the reference that the code is compared
with, so it is in no way derived from what the code generator emits.

`Machine` makes the top of the stack the first item of a packed array. The
repository has the same understanding: `emit_array_lit` pushes the items of an
array literal in reverse for that reason (`codegen/expr/member.rs:123`).

In `Pipeline` the initial state chooses a function and lowers it; the steps
of `IrOpt` follow (`Optimize`), `EmitIr` turns the blocks into instructions or
fails, `FallBack` compiles the syntax tree instead, `LoadCode` chooses the
arguments and what the source means for them, and `Execute` is the machine.
A panic of the optimizer is a state with no way out: the compiler is gone.

In `Optimized` the routine is compiled first; it goes through every step of
`Peephole`, or through none, and `LoadScript` then hands the result to the machine
and chooses the arguments. `codegen_source_file` optimizes every routine. The
functions that are run with the optimizer (`Optimizable`) are those without
adjacent loads of one slot and without a store whose value is loaded once, and
functions without branches: outside of these the three passes that do not
re-encode branches change what a routine does, which `peephole_targets` and
`peephole_merge` show. The runs without it judge the code generator alone, on
all functions.

## 3. Runs

| run | states | shows |
|---|---|---|
| `peephole` | 52,461 | call entries follow their calls, re-encoding keeps targets, the fixpoint is a fixpoint and is reached |
| `linker` | 5,593 | calls reach their callees; the linker implements `CallBinding` |
| `scopes` | 2,007,169 | names agree between the passes, slots are not shared, blocks restore names, an initializer reads the variable that the type checker means |
| `method_tokens` | 26,527 | operands keep their tokens through fallbacks; no duplicates; nothing left behind by a dropped attempt |
| `execution` | 82,202 | what the syntax-tree generator emits returns, fails, calls, stores and notifies as its source means; every routine is balanced; no instruction lacks an operand, control stays inside, the run ends; and all this still after the optimizer removed and narrowed jumps, merged loads and removed pairs in straight code |
| `ir_opt` | 5,432 | the IR optimizer alone: blocks keep their shape, uses their definitions, parameters their block, calls, stores and events their order; the passes end |
| `pipeline` | 46,800 | outcome and effects as in `execution`, for what comes of lowering, IR optimization and emission, or of the fallback from it; every routine is balanced, and the routines it calls exist; the optimizer and the code end |

Bounds, and why they are enough:

* `MaxRounds` is the code's 64. The inputs reach their fixpoint in a few
  rounds, so `NothingLeftToDo` is never vacuous. They are 179 routines with
  loops, conditions, `&&`, `||`, calls on both sides of edits, branches that
  start too long for an `i8` operand (a string of 100 bytes) and slots whose
  instructions have one and two bytes.
* `RelLimit` is 30 instead of 2^31, so that a routine of the instance
  can be out of reach in either direction.
* `SlotLimit` is 6 instead of 255 in `scopes`: a map loop takes five slots, so
  the limit is met before, between and after the slots of a loop. Two names
  suffice for shadowing, three nested blocks for a loop in a block in a loop.
* `IndexMax` is 1 instead of 65535 with three tokens: the table is filled, and
  one token does not fit.
* `execution` compiles 205 functions: every kind of expression as a
  statement, as an argument and as an initializer; conditions with `&&` and `||`
  nested on both sides; each statement alone and inside an array loop; loops in
  loops; returns from inside a loop; a shadowing block; fields, maps and system
  calls inside array and map loops. Each runs on eight inputs: an array of
  length 0 or 2, a boolean, an integer that is a valid index or not, with a
  struct, a map and a storage where some keys are missing. So each branch is
  taken both ways, a loop is skipped and is repeated, and an index out of range
  fails in the middle of an expression.
* 96 of them go through the optimizer as well. `HeightsAgree` is not about
  the optimizer's own steps, which leave `heights` empty, but about the run that
  follows. `CodeBalanced` looks at a routine once, when it is emitted and when
  the optimizer is done with it: it is the premise of `BalanceProofs`, decided by
  TLC, so for these routines what the run shows of the stack on eight inputs
  holds on all. In `pipeline` it replaces the four properties of the run.
* `ir_opt` takes all that lowering makes of the same functions and of those that
  the pipeline gets wrong, in both orders of `up`: 134 different lists of
  blocks. The optimizer needs no input, so that nothing is left out here.
  `MaxInt` is 2047, as in `pipeline`. TLC evaluates `FunctionsAssumption`, from
  which `IrOptProofs` proves, on these lists.
* `pipeline` takes 122 functions, 102 of which are lowered, on twelve inputs:
  those of `execution`, and the same with an array of length 1. The other
  functions are not wanted by `should_use_ir_pipeline`. They are straight
  code; literals to fold, with one in two spellings; stores to items, fields,
  maps and storage; branches and loops; one
  that neither generator has code for, and one whose division by a literal zero
  stops the compiler. `MaxInt` is 2047 instead of 2^63 - 1: `2000 + 40` folds
  within it. Four kinds of function are left out because the code gets them wrong,
  and each is a finding or described below: an `if` that assigns variables from
  outside, a read that is shared across a store, arguments whose effects come in
  another order, and calls of `void` functions (`VoidFunctions` is empty here).

Fairness: six specifications have a liveness property. `Peephole`, `MethodTokens`,
`Linker` (for `LinkingEnds`), `IrOpt`, `Optimized` and `Pipeline` each assume weak
fairness of the steps of loops in one function of one thread, which nothing can
suspend. `Optimized` assumes it of the machine alone, which executes one
instruction after the other, `Pipeline` of the IR optimizer too. `Scopes` has no liveness
property: the length of a function is unbounded there.

`CHECK_DEADLOCK FALSE` is set throughout: these programs end.

### Disagreements found

Five runs check a property that a comment of the code states and that the code
does not have; each gives a counterexample. They are the `findings`.

* `peephole_targets`: merging, `DUP`/`DROP` and store/load removal change
  the script's length and leave the branches across the edit as they were.
* `peephole_merge`: the second of two loads becomes a `DUP` also when it loads
  something else (`LDLOC n; LDARG n` counts as two loads of one slot) and when
  a branch leads straight to it.
* `execution_void`: a `void` function that ends in `if b { return; }` has no
  `RET` on the other path, and runs into the next routine of the script. The
  function of the run has a loop whose variable is read in its body, which the
  IR code generator refuses (`codegen/ir_codegen/builder.rs:150`), so that it
  comes to this generator.
* `pipeline_join`: a jump pushes its arguments last to first and the block it
  enters stores the top into its last parameter, so that two variables assigned
  in both branches of an `if` come out exchanged.
* `pipeline_share`: equal reads of an item or a field share one result although
  the item was stored to in between: `s[0] += 1; log(s[0]);` logs the old item.

The models reproduce these as well, without a run of their own. In the
syntax-tree generator and around it:

* the arguments of an event are pushed first to last before `PACK`, so they
  arrive in reverse (`codegen/function.rs:202`, against `codegen/mod.rs:15`; the IR
  generator does the same, `codegen/ir_codegen/builder.rs:653`); the passing runs
  notify with one argument;
* a method call leaves the symbol `Struct.method`, its routine is
  `Struct::method` (`codegen/expr/struct_call.rs:47`); the IR generator has it
  right, which `CalleesExist` checks;
* `var x = x + 1;` over an outer `x` reads the new slot, which is still empty
  (`codegen/function.rs:125`); the type checker and lowering mean the outer
  variable. `InitializersAgree` covers initializers that read another name;
* the fields of a struct literal are pushed first to last before `PACK` too, so
  `s.a` reads the last field (`codegen/expr/member.rs:70`); the passing runs use
  literals of equal fields;
* `s[0] = 1` duplicates the value on top of the three operands of `SETITEM`,
  which then takes the wrong ones and fails (`codegen/expr/assignment.rs:29`);
  the passing run of this generator assigns to an item that does not exist;
* `value_struct` keeps the struct type of the last variable of a name, also after
  its block (`codegen/function.rs:128`);
* a variable of a loop body named like the loop's item is in an inner block for
  the type checker and a duplicate for the code generator
  (`codegen/function.rs:245`, action `DuplicateLocal`);
* of three equal loads in a row only the second is merged in a pass
  (`codegen/opt.rs:151`), and a store is removed although a load behind a
  backward branch needs it (`codegen/opt.rs:546`);
* 65536 tokens are accepted, the message says 65535
  (`target/method_token.rs:30`).

In the IR pipeline:

* arguments of a call are evaluated first to last, while the syntax-tree
  generator evaluates them last to first: the order of their effects depends on
  which generator a function gets;
* an `if` inside a branch, or anything else that leaves another block current,
  has its last block without a terminator (`ir/lower/builder.rs:100`); emission
  then refuses the function, so that nested control flow always falls back;
* an `if` whose arms assign a variable from outside gives its branch the arguments
  of the jumps that end the arms (`ir/lower/builder.rs:160`). They are pushed
  on the way into an arm that has no parameters
  (`codegen/ir_codegen/branch_emit.rs:102`), and again at its end, so the
  function returns with more than its value on the stack;
* `Copy(Param(i))` becomes `LDARG i` wherever it stands
  (`codegen/ir_codegen/builder.rs:270`), which is right for the formals of the
  function and not for the parameters of another block; `ParamsStayLocal` is the
  part of this that the optimizer is responsible for;
* the value of a call is dropped when it is unused, also when the callee is
  `void` and leaves none (`codegen/ir_codegen/builder.rs:684`);
* pure instructions are emitted where their value is used, so an instruction that
  can fail does so later than in the source, or not at all when it is unused
  and removed (`ir/opt.rs:371`);
* literals are equal when their spellings are: `3 == 0x3` folds to false
  (`ir/opt.rs:920`). The functions of the run compare literals of two spellings
  only where they differ in value as well;
* folding adds, subtracts and multiplies `i64` without checks: it wraps around
  or stops the compiler, depending on how the compiler was built, while integers
  of the virtual machine go on. Division by a literal zero stops the compiler
  (`ir/opt.rs:915`, action `Panic`).

`RelayoutKeepsTargets` is stated for scripts whose branches still lead to
instructions; the first finding is why that premise is needed.

## 4. Proofs

All theorems hold for every value of the constants that satisfies the named
assumptions (`EmittedAssumption`, `ProgramsAssumption`, `FilesAssumption`,
`FunctionsAssumption`, ...), which say only that the inputs are well-formed
routines, files, token lists or blocks. TLC evaluates each of them on the
instance of the run that has the property. Every safety property of the runs
`peephole`, `linker`, `scopes`, `method_tokens` and `ir_opt` is a theorem, and so
are the four of `execution` that concern the stack, for balanced routines.

Peephole (`PeepholeProofs`):

* `TypeCorrect`: `TypeOK` is inductive by itself. The work is in showing that a
  drain and a relayout return instruction sequences of the right length, and
  that every scan position stays inside after a removal.
* `PatchesTracked`: `PatchesTrackCalls`, inductive together with `TypeOK`. Two
  lemmas carry it: an edit that keeps the place of every instruction and changes
  no `CALL_L` keeps the property (`SamePlacesTrackCalls`), and a removal of a
  range without entries, followed by `ShiftPatches`, does too
  (`RemovalTracksCalls`).
* `FixpointReached`: `NothingLeftToDo` speaks of the end only. The invariant is
  `Quiet`: as long as `changed` is FALSE, no position that a pass has been at
  holds anything for it. It holds since a pass that finds something sets
  `changed`, and one that does not moves on with instructions and entries as
  they were, on which alone the patterns depend (`SamePatterns`).
* `TargetsKept`: `RelayoutKeepsTargets` from `Distinct`, the ghost ids tell
  instructions apart. An edit is described by where it puts each instruction
  (`place`); then the offset that `relayout_pc_relatives` computes from its two
  maps is the distance to the place of the old target (`TargetsMoved`). That
  needs what the maps return for a length that changed (`OffsetsMoveTogether`),
  which instruction is the first one kept at or behind the target of a removed
  jump (`FirstKeptIs`), and that a short form is never longer than what it
  replaces (`ShortFormsAreShorter`).

Linker (`LinkerProofs`, `BindingProofs`):

* `OffsetsCorrect`, `CallsCorrect`: the properties are not inductive. `IInv`
  adds that the routines differ from the program only in operands of calls and
  in entries taken (hence the layout is that of the program, `SameLayout`); that
  `off` is where routine `r` starts; that the entries taken are those already
  patched; and that a patched call leads to its callee. Offsets are a recursive
  function; what it computes is proved once, in `BytecodeProofs`, from the
  well-foundedness of `<`.
* `Refinement`: `Linker` implements `CallBinding`. Beside `IInv` it needs
  `OperandsFit` (what was patched was within reach) and `Emptied` (routines that
  had their turn have no entry left), so that a link that succeeds was
  `Resolvable` and one that fails was not. Registering a symbol, opening a
  routine and closing it map to stutters, patching a call to `Bind`, the two
  ends to `Finish` and `Fail`.

Token registry (`MethodTokensProofs`):

* `TokensKept`, `TokensDistinct`: from `Inverse`, the two halves of the registry
  are inverse to each other.
* `TokensUsed`, `OneGenerator`: a dropped attempt leaves tokens without a call
  for a while, so neither property is inductive. `Progress` says that what a
  routine has emitted is the beginning of what one of its generators emits;
  `Accounted` that each token has a call in a finished routine, in the one at
  hand, or, after a fallback, among those its syntax tree has. The last needs
  that the syntax tree has all the calls of the IR, which `FilesAssumption` says.

Scopes (`ScopesProofs`):

* The type checker and the code generator keep stacks of different heights: a
  loop is two scopes of one and one block of the other, and parameters are a
  scope of the checker and `args` of the code generator. `Nesting` is the part
  of `IInv` that relates them, by a map between the two stacks: scopes of the
  checker belong to blocks of the environment, in order, and a block has the
  names of its scopes, each in the slot of the same declaration. Every
  statement is then one lemma about how that map grows or shrinks.
* `NamesMatch` follows, since both look a name up in the innermost place that
  has it. `SlotsSeparate` needs that slots are below `next` and never reused;
  `NamesRestored` that `before` is what the enclosing blocks would answer now
  (`BeforeKept`); `InitializersMatch` is an action property from `NamesMatch`
  before the step.

IR optimizer (`IrOptProofs`):

* `TypeCorrect` needs `SubstOK` beside `TypeOK`: what the substitution puts in
  place is a value that some instruction defines, and outside of sharing there
  is no substitution. `ParamsAreLocal` is an action property from the same
  invariant: each pass puts in place of a reference a value, or a parameter out
  of a copy of the same block.
* `UsesAreDefined`: `UsesDefined` is not inductive: within the last pass an
  instruction may go before one that uses it and goes too. `IInv` adds
  `SearchOK` (the roots of the blocks visited, and the operands of what is used,
  are used or in the worklist) and `SweepOK` (the worklist is empty by then, and
  the instructions passed are those to be kept). When the sweep ends, every
  instruction left is used or has to be kept, so its operands were marked, so
  their definitions were kept (`UsesStep`). Lemmas state once what each walk
  over blocks returns (`RefsInIs`, `UsedInIs`, `OperandsInIs`) and what a step
  may do to a block (`SameShape`, `SameBlocks`).
* `EffectsAreKept`: every step but the removal of an instruction leaves
  instructions in their places, and none of them folds, copies or shares
  anything that must be kept, since the three classes of operations do not
  overlap (`NoEffects`, `ActsStep`); a removal takes out one that need not be
  kept, and the later ones move up (`EffectsWithout`).
* That lowering hands over what the proofs start from, well-formed blocks that
  use what they define, is `FunctionsAssumption`. It is about `IrLower`, which is
  recursive, and is checked on what lowering makes in run `ir_opt`.

Stack heights (`BalanceProofs`):

* The four properties of a run hold on any arguments, heap and storage, for any
  replies of the routines called, and for any arities, as long as the routine is
  balanced: `HeightsAgreeInRuns`, `OperandsPresentInRuns`,
  `ReturnsItsValueInRuns`, `StaysInsideInRuns`.
* None of them is inductive. `RunInv` says that the routine is balanced, that
  the stack is exactly as high as `HeightsOf` says of the position, that
  `heights` has only recorded such heights, and (`CountOnTop`) that a packing
  instruction finds on top the count that the `PUSH` before it put there. The last
  is needed because `PACK` and `PACKMAP` take as many items as the top of the stack
  says: the stack alone, not the routine, determines their operands, so `Balanced`
  asks that they follow a `PUSH` and that no jump leads between the two.
* Every kind of instruction but a branch, `RET` and a fault is shown to take what
  `Taken` says, leave what `Left` says and go on to the next position
  (`Advances`); one lemma, `AdvanceKeepsInv`, then keeps the invariant, and
  `BranchKeepsInv` the same at both ends of a jump.
* `Balanced` asserts of `HeightsOf` all that the proof uses of it, so that the
  proof never needs to know how the function computes the heights: it serves
  only to find a witness. That a routine of the code generators is balanced is
  decided by TLC (`CodeBalanced`), routine by routine.

Termination (`EveryStepCounts` in `PeepholeProofs`, `LinkerProofs`,
`MethodTokensProofs` and `IrOptProofs`):

* For each of the four, every step lowers a tuple of counts in lexicographic
  order (`ComesNearer`), and no count is ever below zero, so that only finitely
  many steps are possible whatever the input. That holds although passes of
  `Peephole` stay where they are after a deletion, although a fallback of
  `compile_function` starts the calls of a routine again, and although the
  search of `dead_code_elimination` follows loops of blocks. TLC checked each
  `ComesNearer` on the instance of its run before it was proved.
* In `Linker` and `Peephole` the counts follow from `TypeOK`. In `MethodTokens`
  the calls that are left need `Progress`. In `IrOpt` they need `AtOK` (a pass
  over instructions is at most one past the last of its block), that what is on
  the worklist has not been found before, and that the values a function
  defines are finitely many (`DefinedIsFinite`).
* What the theorems leave to the liveness properties is that the code does not
  stop before it is done, which is a matter of `ENABLED` and fairness.

Only model-checked: liveness (`Terminates`, `LinkingEnds`, `OptimizerEnds`,
`RunsEnd`, `Finishes`), which is out of the prover's reach; and `TypeOK`,
`OutcomeAgrees`, `TraceAgrees`, `CodeBalanced` and `CalleesExist` of `Execution`,
`Optimized` and `Pipeline`, which rest on recursive definitions over syntax
trees and values: what those compute for every tree needs induction over data.

## 5. What is left

To be proved: an abstract registry of tokens that `MethodTokens` implements; that
the optimizer keeps a routine balanced, for the edits that re-encode branches.

To be composed: driver, generators, optimizer and linker on one file, with
control that never runs from a routine into the next one. Each pair that shares
data is composed already (`Execution`, `Optimized`, `Pipeline`, `MethodTokens`),
and the optimizer's findings leave little that holds for the whole.

Not modelled:

* lexer, parser, type rules: recursive descent over text or over one tree, with
  no state that another component touches, but for the scopes, which `Scopes` has;
* initializer and getters: they build syntax trees before code generation, which
  `AstCodegen` compiles like any other;
* calls of other contracts, but for their tokens: their code is a `CALLT`;
* the NEF container and the disassembler: formats of bytes, written and read by
  one function each;
* tables (`natives`, `stdlib`, the rows of syscalls, costs), the manifest, the
  command line and the dumps: no state that a step could break;
* values wider than `i64`, text and byte strings but for their lengths, gas, and
  the limits of the virtual machine.
