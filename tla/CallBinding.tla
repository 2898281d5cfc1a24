---------------------------- MODULE CallBinding ----------------------------
(***************************************************************************)
(* What linking promises, without layout: every call of a file is bound to *)
(* the entry of the routine that its symbol names, or linking fails, and   *)
(* it fails only when two routines have one name, a call names no routine, *)
(* or a callee is too far away.  codegen/mod.rs says it of CALL_L: "linked *)
(* in the flattened script".  Linker implements this.                      *)
(***************************************************************************)
EXTENDS Naturals, Sequences

VARIABLES calls,     \* call site -> the symbol it calls
          names,     \* the symbols of the routines, in script order
          entries,   \* where each of them starts
          reachable, \* whether every callee is within reach of its callers
          bound,     \* call site -> where the call leads
          status

vars == <<calls, names, entries, reachable, bound, status>>
file == <<calls, names, entries, reachable>>

OneNameEach == \A r, q \in DOMAIN names : names[r] = names[q] => r = q
Named(sym) == \E r \in DOMAIN names : names[r] = sym

Resolvable ==
  /\ OneNameEach
  /\ \A site \in DOMAIN calls : Named(calls[site])
  /\ reachable

Init ==
  /\ bound = [site \in {} |-> 0]
  /\ status = "linking"

Bind(site) ==
  /\ status = "linking"
  /\ OneNameEach
  /\ \E r \in DOMAIN names :
        /\ names[r] = calls[site]
        /\ bound' = [s \in DOMAIN bound \cup {site} |->
                       IF s = site THEN entries[r] ELSE bound[s]]
  /\ UNCHANGED <<file, status>>

Finish ==
  /\ status = "linking"
  /\ Resolvable
  /\ DOMAIN bound = DOMAIN calls
  /\ status' = "linked"
  /\ UNCHANGED <<file, bound>>

Fail ==
  /\ status = "linking"
  /\ ~Resolvable
  /\ status' = "failed"
  /\ UNCHANGED <<file, bound>>

Next ==
  \/ \E site \in DOMAIN calls \ DOMAIN bound : Bind(site)
  \/ Finish
  \/ Fail

Spec == Init /\ [][Next]_vars

\* Linking comes to an end.
Ends == <>(status # "linking")
=============================================================================
