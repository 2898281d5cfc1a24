------------------------------- MODULE Meaning -------------------------------
(***************************************************************************)
(* What a function of a source file is supposed to do: a reference         *)
(* definition that runs the syntax tree itself, for the modules that       *)
(* check what the code generator makes of it. It follows the language      *)
(* description (README.md: block scopes, short-circuit operators, failing  *)
(* executions) and the order of evaluation that codegen/mod.rs fixes for   *)
(* arguments, last to first.                                               *)
(*                                                                         *)
(* A state of a run is a record:                                           *)
(*   scopes  the open blocks, each a map from names to values              *)
(*   heap    arrays, maps and structs; tags has the struct of each, "" for *)
(*           none                                                          *)
(*   store   the contract's storage                                        *)
(*   trace   calls, events and writes to storage so far                    *)
(*   val     the value of the last expression, or the returned value       *)
(*   ctl     "go", "ret" after a return statement, "fault" after a failure *)
(***************************************************************************)
EXTENDS Ast, Values

CONSTANTS StructFields,    \* the field names of each struct, in order
          ContractName,    \* the contract the functions belong to
          ReturnsNothing,  \* the functions that return nothing
          Answer(_, _)     \* what a function returns for given arguments

Going(st) == st.ctl = "go"
Give(st, v) == [st EXCEPT !.val = v]
Failed(st) == [st EXCEPT !.ctl = "fault"]

Holds(st, d, x) == x \in DOMAIN st.scopes[d]
Home(st, x) ==
  CHOOSE d \in DOMAIN st.scopes :
     /\ Holds(st, d, x)
     /\ \A e \in DOMAIN st.scopes : Holds(st, e, x) => e <= d
Lookup(st, x) == st.scopes[Home(st, x)][x]
Assigned(st, x) == [st EXCEPT !.scopes[Home(st, x)][x] = st.val]

Bind(m, x, v) == [y \in DOMAIN m \cup {x} |-> IF y = x THEN v ELSE m[y]]
Declared(st, x) ==
  [st EXCEPT !.scopes = [@ EXCEPT ![Len(@)] = Bind(@, x, st.val)]]
Opened(st) == [st EXCEPT !.scopes = Append(@, [x \in {} |-> Null])]
Closed(st) == [st EXCEPT !.scopes = SubSeq(@, 1, Len(@) - 1)]

Allocated(st, tag, items) ==
  [st EXCEPT !.heap = Append(@, items), !.tags = Append(@, tag),
             !.val = Ref(Len(st.heap) + 1)]

\* An operation on values, for what comes from a last operand's state st.
Computed(st, op, vs) ==
  IF ~Going(st) THEN st
  ELSE IF ~Operable(st.heap, op, vs) THEN Failed(st)
  ELSE [st EXCEPT !.heap = HeapAfter(@, op, vs),
                  !.tags = @ \o IF op \in {"KEYS", "VALUES"} THEN <<"">> ELSE <<>>,
                  !.val = IF op \in Silent THEN Null ELSE Operated(st.heap, op, vs)]

Combined(op, l, r) == Computed(r, op, <<l.val, r.val>>)
Fetched(a, i) == Computed(i, "PICKITEM", <<a.val, i.val>>)
Applied(op, many) == Computed(many.st, op, many.vals)

Written(a, i, v) ==
  IF ~Going(v) THEN v
  ELSE IF CanHold(v.heap, a.val, i.val)
       THEN [v EXCEPT !.heap = WithItem(@, a.val, i.val, v.val)]
       ELSE Failed(v)

\* Contract fields: codegen/mod.rs:5-8 and expr/contract_storage.rs:136 name
\* the keys.
FieldKey(f) == Text(f)
ItemKey(f, k) == Key(f + 1, k.n)
Read(st, key) ==
  Give(st, IF key \in DOMAIN st.store THEN st.store[key] ELSE Null)
Kept(st, key) ==
  IF ~Going(st) THEN st
  ELSE [st EXCEPT
          !.store = [k \in DOMAIN @ \cup {key} |-> IF k = key THEN st.val ELSE @[k]],
          !.trace = Append(@, Event("put", <<Shown(<<>>, key),
                                             Shown(<<>>, Bytes(st.val.n))>>))]
Dropped(st, key) ==
  [st EXCEPT !.store = [k \in DOMAIN @ \ {key} |-> @[k]],
             !.trace = Append(@, Event("delete", <<Shown(<<>>, key)>>))]

FieldPosition(t, f) ==
  CHOOSE i \in DOMAIN StructFields[t] : StructFields[t][i] = f
Field(st, v, f) == st.heap[v.n][FieldPosition(st.tags[v.n], f)]

\* The value of a variable that is a struct with that field.
Fielded(st, x, f) == Give(st, Field(st, Lookup(st, x), f))
FieldWritten(v, x, f) ==
  IF ~Going(v) THEN v
  ELSE LET struct == Lookup(v, x)
       IN  [v EXCEPT !.heap[struct.n][FieldPosition(v.tags[struct.n], f)] = v.val]

\* A system call that is asked for a value, or told something.
Asked(many, name) ==
  LET given == AllShown(many.st.heap, many.vals)
  IN  IF ~Going(many.st) THEN many.st
      ELSE [many.st EXCEPT !.trace = Append(@, Event(name, given)),
                           !.val = IF name = "burnGas" THEN Null
                                   ELSE Answer(name, given)]

\* A call of f; given is the list of arguments that many.st and vals hold.
Called(many, f) ==
  IF ~Going(many.st) THEN many.st
  ELSE LET given == AllShown(many.st.heap, many.vals)
       IN  [many.st EXCEPT
              !.trace = Append(@, Event(f, given)),
              !.val = IF f \in ReturnsNothing THEN Null ELSE Answer(f, given)]

\* A call of a method on the struct in variable x, its first argument.
Invoked(many, x, m) ==
  Called([many EXCEPT !.vals = <<Lookup(many.st, x)>> \o @],
         many.st.tags[Lookup(many.st, x).n] \o "::" \o m)

Emitted(many, name) ==
  IF ~Going(many.st) THEN many.st
  ELSE [many.st EXCEPT !.trace = Append(@, Event("notify",
          <<Shown(<<>>, Text(name)), Shown(<<many.vals>>, Ref(1))>>))]

Forth(es) == [k \in 1..Len(es) |-> k]
Back(es) == [k \in 1..Len(es) |-> Len(es) + 1 - k]
Blank(es, st) == [st |-> st, vals |-> [k \in 1..Len(es) |-> Null]]
Noted(many, k, st) == [st |-> st, vals |-> [many.vals EXCEPT ![k] = st.val]]

-----------------------------------------------------------------------------
RECURSIVE Eval(_, _), EvalAll(_, _, _)

\* The expressions es in the given order of positions.
EvalAll(es, order, many) ==
  IF order = <<>> \/ ~Going(many.st)
  THEN many
  ELSE EvalAll(es, Tail(order),
               Noted(many, Head(order), Eval(es[Head(order)], many.st)))

AndThen(l, right) ==
  IF Going(l) /\ Truth(l.val) THEN Eval(right, l)
  ELSE IF Going(l) THEN Give(l, Bool(FALSE)) ELSE l
OrElse(l, right) == IF Going(l) /\ ~Truth(l.val) THEN Eval(right, l) ELSE l

Binary(op, l, right) == Combined(op, l, Eval(right, l))
Indexed(a, index) == Fetched(a, Eval(index, a))
Stored(a, i, value) == Written(a, i, Eval(value, i))
StoredAt(a, e) == Stored(a, Eval(e.index, a), e.value)

\* a[i] += v reads the item before it evaluates v.
Added(a, i, value) == Written(a, i, Binary("ADD", Fetched(a, i), value))
AddedAt(a, e) == Added(a, Eval(e.index, a), e.value)

\* contract[k] += v reads the item before it evaluates v.
ItemAdded(k, e) ==
  Kept(Binary("ADD", Read(k, ItemKey(e.field, k.val)), e.value),
       ItemKey(e.field, k.val))

\* The value is evaluated before the key. expr/assignment.rs:19-25
ItemSet(v, k, e) ==
  IF Going(k) THEN Kept(Give(k, v.val), ItemKey(e.field, k.val)) ELSE k
ItemSetAt(v, e) == ItemSet(v, Eval(e.key, v), e)
ItemHeld(k, e) == Give(k, Bool(ItemKey(e.field, k.val) \in DOMAIN k.store))

\* runtime.call adds the call flags to its three arguments.
WithFlags(many) ==
  [many EXCEPT !.vals = <<@[1], @[2], Num(5), @[3]>>]

EvalStorage(e, st) ==
  CASE e.e = "selfget" -> Read(st, FieldKey(e.field))
    [] e.e = "selfset" -> Kept(Eval(e.value, st), FieldKey(e.field))
    [] e.e = "selfadd" -> Kept(Binary("ADD", Read(st, FieldKey(e.field)), e.value),
                               FieldKey(e.field))
    [] e.e = "mapset"  -> ItemSetAt(Eval(e.value, st), e)
    [] OTHER ->
         LET k == Eval(e.key, st)
         IN  IF ~Going(k) THEN k
             ELSE CASE e.e = "mapget" -> Read(k, ItemKey(e.field, k.val))
                    [] e.e = "mapadd" -> ItemAdded(k, e)
                    [] e.e = "maphas" -> ItemHeld(k, e)
                    [] e.e = "mapremove" -> Dropped(k, ItemKey(e.field, k.val))

Packed(many, tag) ==
  IF Going(many.st) THEN Allocated(many.st, tag, many.vals) ELSE many.st
Mapped(many) ==
  IF Going(many.st) THEN Give(Packed(many, ""), MapRef(Len(many.st.heap) + 1))
                    ELSE many.st

Tested(st, eq) ==
  IF Going(st) THEN Give(st, Bool(eq = (st.val = Null))) ELSE st
Recast(st, type) ==
  IF ~Going(st) THEN st
  ELSE IF Convertible(st.val) THEN Give(st, Converted(st.val, type)) ELSE Failed(st)

Eval(e, st) ==
  CASE ~Going(st)       -> st
    [] e.e \in {"int", "hex"} -> Give(st, Num(e.n))
    [] e.e = "bool"     -> Give(st, Bool(e.b))
    [] e.e = "string"   -> Give(st, Text(e.len))
    [] e.e = "ident"    -> Give(st, Lookup(st, e.name))
    [] e.e = "binary"   -> Binary(e.op, Eval(e.left, st), e.right)
    [] e.e = "and"      -> AndThen(Eval(e.left, st), e.right)
    [] e.e = "or"       -> OrElse(Eval(e.left, st), e.right)
    [] e.e = "assign"   -> Assigned(Eval(e.value, st), e.target)
    [] e.e = "addassign" ->
         Assigned(Binary("ADD", Give(st, Lookup(st, e.target)), e.value), e.target)
    [] e.e = "call"     -> Called(EvalAll(e.args, Back(e.args), Blank(e.args, st)),
                                  e.callee)
    [] e.e = "method"   -> Invoked(EvalAll(e.args, Back(e.args), Blank(e.args, st)),
                                   e.name, e.method)
    [] e.e = "index"    -> Indexed(Eval(e.base, st), e.index)
    [] e.e = "setindex" -> StoredAt(Eval(e.base, st), e)
    [] e.e = "addindex" -> AddedAt(Eval(e.base, st), e)
    [] e.e = "array"    -> Packed(EvalAll(e.items, Back(e.items), Blank(e.items, st)),
                                  "")
    [] e.e = "struct"   -> Packed(EvalAll(e.vals, Forth(e.vals), Blank(e.vals, st)),
                                  e.type)
    [] e.e = "member"   -> Fielded(st, e.name, e.field)
    [] e.e = "setmember" -> FieldWritten(Eval(e.value, st), e.name, e.field)
    [] e.e = "addmember" ->
         FieldWritten(Binary("ADD", Fielded(st, e.name, e.field), e.value),
                      e.name, e.field)
    [] e.e = "null"     -> Give(st, Null)
    [] e.e = "unary"    -> Applied(e.op, EvalAll(<<e.operand>>, <<1>>,
                                                 Blank(<<e.operand>>, st)))
    [] e.e = "isnull"   -> Tested(Eval(e.operand, st), e.eq)
    [] e.e = "cast"     -> Recast(Eval(e.operand, st), e.type)
    [] e.e = "builtin"  -> Applied(e.op, EvalAll(e.args, Forth(e.args),
                                                 Blank(e.args, st)))
    [] e.e = "map"      -> Mapped(EvalAll(e.pairs, Forth(e.pairs), Blank(e.pairs, st)))
    [] e.e = "selfcall" ->
         Called(EvalAll(e.args, Back(e.args), Blank(e.args, st)),
                ContractName \o "::" \o e.callee)
    [] e.e = "runtime"  ->
         LET many == EvalAll(e.args, Back(e.args), Blank(e.args, st))
         IN  Asked(IF e.callee = "call" THEN WithFlags(many) ELSE many, e.callee)
    [] OTHER            -> EvalStorage(e, st)

-----------------------------------------------------------------------------
RECURSIVE Exec(_, _), ExecAll(_, _), Loop(_, _), EachItem(_, _, _),
          EachEntry(_, _, _)

ExecAll(body, st) ==
  IF body = <<>> \/ ~Going(st) THEN st ELSE ExecAll(Tail(body), Exec(Head(body), st))

InBlock(body, st) == Closed(ExecAll(body, Opened(st)))

Choose(s, c) ==
  IF ~Going(c) THEN c
  ELSE IF Truth(c.val) THEN InBlock(s.then, c)
  ELSE IF s.else # <<>> THEN InBlock(s.else[1], c) ELSE c

Again(s, c) ==
  IF Going(c) /\ Truth(c.val) THEN Loop(s, InBlock(s.body, c)) ELSE c
Loop(s, st) == Again(s, Eval(s.cond, st))

\* The loop from the item at position k of the array a on.
ItemBlock(s, st, item) ==
  Closed(ExecAll(s.body, Declared(Give(Opened(st), item), s.item)))
EachItem(s, a, st) ==
  IF Going(st) /\ a.k <= Len(st.heap[a.ref])
  THEN EachItem(s, [a EXCEPT !.k = @ + 1],
                ItemBlock(s, st, st.heap[a.ref][a.k]))
  ELSE st
OverItems(s, a) ==
  IF Going(a) THEN EachItem(s, [ref |-> a.val.n, k |-> 1], a) ELSE a

\* The loop over the keys that map a had at the start, from position k on;
\* each value is read when its turn comes.
Bound(s, st, key, item) ==
  Declared(Give(Declared(Give(Opened(st), key), s.key), item), s.item)
EntryBlock(s, st, key, v) ==
  IF HasItem(st.heap, v, key)
  THEN Closed(ExecAll(s.body, Bound(s, st, key, ItemOf(st.heap, v, key))))
  ELSE Failed(st)
EachEntry(s, a, st) ==
  IF Going(st) /\ a.keys # <<>>
  THEN EachEntry(s, [a EXCEPT !.keys = Tail(@)],
                 EntryBlock(s, st, Head(a.keys), a.val))
  ELSE st
OverEntries(s, a) ==
  IF Going(a) THEN EachEntry(s, [val |-> a.val, keys |-> KeysOf(a.heap[a.val.n])],
                             [a EXCEPT !.heap = Append(@, KeysOf(a.heap[a.val.n])),
                                       !.tags = Append(@, "")])
              ELSE a

Returned(st) == IF Going(st) THEN [st EXCEPT !.ctl = "ret"] ELSE st

Exec(s, st) ==
  CASE s.s = "var"    -> IF s.init = None
                         THEN Declared(Give(st, Null), s.name)
                         ELSE Declared(Eval(s.init, st), s.name)
    [] s.s = "expr"   -> Eval(s.expr, st)
    [] s.s = "if"     -> Choose(s, Eval(s.cond, st))
    [] s.s = "while"  -> Loop(s, st)
    [] s.s = "for"    -> OverItems(s, Eval(s.iter, st))
    [] s.s = "formap" -> OverEntries(s, Eval(s.iter, st))
    [] s.s = "block"  -> InBlock(s.body, st)
    [] s.s = "emit"   -> Emitted(EvalAll(s.args, Forth(s.args), Blank(s.args, st)),
                                 s.len)
    [] s.s = "return" -> IF s.expr = None
                         THEN Returned(st)
                         ELSE Returned(Eval(s.expr, st))

\* A run of f on an input: the values of its parameters, a heap whose arrays
\* have the given tags, and storage, which holds the bytes of integers.
Started(f, in) ==
  [scopes |-> << [x \in {f.params[i] : i \in DOMAIN f.params} |->
                    in.vals[CHOOSE i \in DOMAIN f.params : f.params[i] = x]] >>,
   heap |-> in.heap, tags |-> in.tags,
   store |-> [key \in DOMAIN in.store |-> Num(in.store[key].n)],
   trace |-> <<>>, val |-> Null, ctl |-> "go"]

Outcome(f, st) ==
  [status |-> IF st.ctl = "fault" THEN "fault" ELSE "halt",
   trace  |-> st.trace,
   result |-> IF f.void \/ st.ctl = "fault" THEN <<>> ELSE <<Shown(st.heap, st.val)>>]

MeaningOf(f, in) == Outcome(f, InBlock(f.body, Started(f, in)))
=============================================================================
