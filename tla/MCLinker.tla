------------------------------ MODULE MCLinker ------------------------------
(***************************************************************************)
(* Instances of Linker for TLC: files of up to three routines that call    *)
(* each other, themselves, or nothing that exists; with one name twice;    *)
(* and with a routine longer than RelLimit between a call and its callee.  *)
(* A routine without instructions is in, as `int f() {}` compiles to one.  *)
(***************************************************************************)
EXTENDS Linker

MCSymbols == {"f", "g", "Point::add", "none"}

Calling(sym) == [code |-> <<Ins("LDARG", 0), Jump("CALL_L", 0), Ins("RET", 0)>>,
                 calls |-> <<[at |-> 2, sym |-> sym]>>]
Twice(s, t) == [code |-> <<Jump("CALL_L", 0), Jump("JMPIFNOT", 8),
                           Ins("LDARG", 7), Jump("CALL_L", 0), Ins("RET", 0)>>,
                calls |-> <<[at |-> 1, sym |-> s], [at |-> 4, sym |-> t]>>]
Bodies ==
  { [code |-> <<>>, calls |-> <<>>],
    [code |-> <<Ins("PUSHDATA", 20), Ins("RET", 0)>>, calls |-> <<>>],
    Calling("f"), Calling("g"), Calling("none"),
    Twice("g", "f"), Twice("Point::add", "g") }

Named(sym, body) == [sym |-> sym, inst |-> body.code, patches |-> body.calls]

MCPrograms ==
  { <<Named("f", x)>> : x \in Bodies }
  \cup { <<Named("f", x), Named("g", y), Named(third, z)>> :
            x \in Bodies, y \in Bodies, z \in Bodies,
            third \in {"Point::add", "f"} }
=============================================================================
