------------------------------- MODULE Values -------------------------------
(***************************************************************************)
(* The values of a running routine, for Machine and Meaning: integers (a   *)
(* boolean is 1 or 0), strings by their length, the bytes of an integer,   *)
(* storage keys made of a name and an integer, null, and references to the *)
(* arrays and maps of a heap. The entry of an array is the sequence of its *)
(* items, that of a map its keys and values in turn.                       *)
(***************************************************************************)
EXTENDS Integers, Sequences

Num(n)   == [k |-> "num", n |-> n]
Text(n)  == [k |-> "text", n |-> n]
Bytes(n) == [k |-> "bytes", n |-> n]
Ref(n)   == [k |-> "ref", n |-> n]
MapRef(n) == [k |-> "map", n |-> n]
Null     == [k |-> "null", n |-> 0]
\* A name of the given length, with its zero byte, and the bytes of n.
Key(len, n) == [k |-> "key", n |-> 1000 * len + n]

Bool(p) == Num(IF p THEN 1 ELSE 0)
Truth(v) == v.n # 0

Convertible(v) == v.k \in {"num", "bytes", "null"}
Converted(v, type) ==
  IF v.k = "null" THEN Null
  ELSE IF type = "Boolean" THEN Bool(Truth(v))
  ELSE IF type = "Integer" THEN Num(v.n) ELSE Bytes(v.n)

-----------------------------------------------------------------------------
\* Where array or map v of heap has the item with index or key i; 0 if it
\* has none.
Place(heap, v, i) ==
  CASE v.k = "ref" /\ i.k = "num" /\ i.n + 1 \in DOMAIN heap[v.n] -> i.n + 1
    [] v.k = "map" /\ (\E j \in DOMAIN heap[v.n] :
                         j % 2 = 1 /\ heap[v.n][j] = i) ->
         1 + CHOOSE j \in DOMAIN heap[v.n] : j % 2 = 1 /\ heap[v.n][j] = i
    [] OTHER -> 0

HasItem(heap, v, i) == Place(heap, v, i) # 0
ItemOf(heap, v, i) == heap[v.n][Place(heap, v, i)]
CanHold(heap, v, i) == v.k = "map" \/ HasItem(heap, v, i)
WithItem(heap, v, i, x) ==
  IF HasItem(heap, v, i)
  THEN [heap EXCEPT ![v.n] = [@ EXCEPT ![Place(heap, v, i)] = x]]
  ELSE [heap EXCEPT ![v.n] = @ \o <<i, x>>]

KeysOf(items) == [j \in 1..(Len(items) \div 2) |-> items[2 * j - 1]]
ItemsOf(items) == [j \in 1..(Len(items) \div 2) |-> items[2 * j]]

-----------------------------------------------------------------------------
\* Operations on the values vs, in the order in which they are pushed.
Operands(op) ==
  IF op \in {"INC", "NEGATE", "NOT", "ISNULL", "SIZE", "KEYS", "VALUES",
             "POPITEM", "CLEARITEMS", "ABORTMSG"}
  THEN 1 ELSE IF op = "WITHIN" THEN 3 ELSE 2

Operations ==
  {"ADD", "SUB", "MUL", "DIV", "INC", "NEGATE", "NOT", "LT", "EQUAL", "NOTEQUAL",
   "ISNULL", "WITHIN", "MIN", "MAX", "SIZE", "KEYS", "VALUES", "HASKEY",
   "PICKITEM", "POPITEM", "APPEND", "REMOVE", "CLEARITEMS", "ASSERTMSG",
   "ABORTMSG"}
\* Those that leave no value.
Silent == {"APPEND", "REMOVE", "CLEARITEMS", "ASSERTMSG", "ABORTMSG"}

Operable(heap, op, vs) ==
  CASE op \in {"EQUAL", "NOTEQUAL", "ISNULL", "NOT"} -> TRUE
    [] op = "SIZE"     -> vs[1].k \in {"ref", "map", "text"}
    [] op \in {"KEYS", "VALUES"} -> vs[1].k = "map"
    [] op = "HASKEY"   -> vs[1].k \in {"ref", "map"}
    [] op = "PICKITEM" -> HasItem(heap, vs[1], vs[2])
    [] op = "POPITEM"  -> vs[1].k = "ref" /\ heap[vs[1].n] # <<>>
    [] op = "APPEND"   -> vs[1].k = "ref"
    [] op = "CLEARITEMS" -> vs[1].k \in {"ref", "map"}
    [] op = "REMOVE"   -> CanHold(heap, vs[1], vs[2])
    [] op = "ASSERTMSG" -> Truth(vs[1])
    [] op = "ABORTMSG" -> FALSE
    [] OTHER -> /\ \A i \in DOMAIN vs : vs[i].k = "num"
                /\ op = "DIV" => vs[2].n # 0

\* The value of an operation that is not in Silent.
Operated(heap, op, vs) ==
  CASE op = "ADD"    -> Num(vs[1].n + vs[2].n)
    [] op = "SUB"    -> Num(vs[1].n - vs[2].n)
    [] op = "MUL"    -> Num(vs[1].n * vs[2].n)
    [] op = "DIV"    -> Num(vs[1].n \div vs[2].n)
    [] op = "INC"    -> Num(vs[1].n + 1)
    [] op = "NEGATE" -> Num(-vs[1].n)
    [] op = "NOT"    -> Bool(~Truth(vs[1]))
    [] op = "LT"     -> Bool(vs[1].n < vs[2].n)
    [] op = "EQUAL"  -> Bool(vs[1] = vs[2])
    [] op = "NOTEQUAL" -> Bool(vs[1] # vs[2])
    [] op = "ISNULL" -> Bool(vs[1] = Null)
    [] op = "WITHIN" -> Bool(vs[2].n <= vs[1].n /\ vs[1].n < vs[3].n)
    [] op = "MIN"    -> IF vs[1].n < vs[2].n THEN vs[1] ELSE vs[2]
    [] op = "MAX"    -> IF vs[1].n < vs[2].n THEN vs[2] ELSE vs[1]
    [] op = "SIZE"   -> Num(IF vs[1].k = "text" THEN vs[1].n
                            ELSE IF vs[1].k = "map" THEN Len(heap[vs[1].n]) \div 2
                            ELSE Len(heap[vs[1].n]))
    [] op = "HASKEY" -> Bool(HasItem(heap, vs[1], vs[2]))
    [] op = "PICKITEM" -> ItemOf(heap, vs[1], vs[2])
    [] op = "POPITEM" -> heap[vs[1].n][Len(heap[vs[1].n])]
    [] op \in {"KEYS", "VALUES"} -> Ref(Len(heap) + 1)

Without(items, v, j) ==
  IF v.k = "map" THEN SubSeq(items, 1, j - 2) \o SubSeq(items, j + 1, Len(items))
                 ELSE SubSeq(items, 1, j - 1) \o SubSeq(items, j + 1, Len(items))

\* The heap after an operation.
HeapAfter(heap, op, vs) ==
  CASE op = "KEYS"    -> Append(heap, KeysOf(heap[vs[1].n]))
    [] op = "VALUES"  -> Append(heap, ItemsOf(heap[vs[1].n]))
    [] op = "APPEND"  -> [heap EXCEPT ![vs[1].n] = Append(@, vs[2])]
    [] op = "POPITEM" -> [heap EXCEPT ![vs[1].n] = SubSeq(@, 1, Len(@) - 1)]
    [] op = "CLEARITEMS" -> [heap EXCEPT ![vs[1].n] = <<>>]
    [] op = "REMOVE" /\ HasItem(heap, vs[1], vs[2]) ->
         [heap EXCEPT ![vs[1].n] = Without(@, vs[1], Place(heap, vs[1], vs[2]))]
    [] OTHER -> heap

\* What another routine or an event sees of v, and of some values.
Shown(heap, v) ==
  [k |-> v.k, n |-> IF v.k \in {"ref", "map"} THEN 0 ELSE v.n,
   items |-> IF v.k \in {"ref", "map"} THEN heap[v.n] ELSE <<>>]
AllShown(heap, vals) == [i \in DOMAIN vals |-> Shown(heap, vals[i])]

\* An entry of a trace: a call, an event with its name as first argument, or
\* a write to storage.
Event(sym, args) == [sym |-> sym, args |-> args]
=============================================================================
