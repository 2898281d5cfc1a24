---------------------------- MODULE IrOptProofs ----------------------------
(***************************************************************************)
(* Proofs about the optimizer of the intermediate representation, for      *)
(* every set of functions it may be handed.                                *)
(***************************************************************************)
EXTENDS IrOpt, FiniteSetTheorems, TLAPS

-----------------------------------------------------------------------------
(* Lists, and the references in them. *)

\* A function on 1..n with values in S is a sequence over S.
LEMMA ListFromFunction ==
  ASSUME NEW S, NEW n \in Nat, NEW f \in [1..n -> S]
  PROVE  f \in Seq(S) /\ Len(f) = n /\ DOMAIN f = 1..n
OBVIOUS

\* What IsList says, in terms of the domain.
LEMMA ListFacts ==
  ASSUME NEW s, IsList(s)
  PROVE  Len(s) \in Nat /\ DOMAIN s = 1..Len(s)
BY DEF IsList

\* A function on 1..n is a list.
LEMMA ListIntro ==
  ASSUME NEW n \in Nat, NEW s, DOMAIN s = 1..n, s = [i \in 1..n |-> s[i]]
  PROVE  IsList(s) /\ Len(s) = n
<1>1. s \in [1..n -> {s[i] : i \in DOMAIN s}]
  OBVIOUS
<1>2. s \in Seq({s[i] : i \in DOMAIN s}) /\ Len(s) = n
  BY <1>1, ListFromFunction
<1> QED  BY <1>2 DEF IsList

\* Putting something in the place of an element leaves a list.
LEMMA ListReplace ==
  ASSUME NEW s, IsList(s), NEW k \in DOMAIN s, NEW x
  PROVE  LET t == [s EXCEPT ![k] = x]
         IN  /\ IsList(t)
             /\ DOMAIN t = DOMAIN s
             /\ Len(t) = Len(s)
             /\ t[k] = x
             /\ \A j \in DOMAIN s : j # k => t[j] = s[j]
<1> DEFINE t == [s EXCEPT ![k] = x]
<1>1. Len(s) \in Nat /\ DOMAIN s = 1..Len(s)
  BY ListFacts
<1>2. DOMAIN t = 1..Len(s) /\ t = [i \in 1..Len(s) |-> t[i]]
  BY <1>1
<1>3. IsList(t) /\ Len(t) = Len(s)
  BY <1>1, <1>2, ListIntro
<1> QED  BY <1>1, <1>2, <1>3

\* The references of a terminator are those of its three lists.
LEMMA TermRefsIn ==
  ASSUME NEW t, IsTerm(t)
  PROVE  /\ TermRefs(t) \in Seq(Reference)
         /\ RefsOf(TermRefs(t)) =
              RefsOf(t.refs) \cup RefsOf(t.args) \cup RefsOf(t.elseargs)
<1>1. t.refs \in Seq(Reference) /\ t.args \in Seq(Reference) /\ t.elseargs \in Seq(Reference)
  BY DEF IsTerm
<1>2. ASSUME NEW s \in Seq(Reference), NEW u \in Seq(Reference)
      PROVE  s \o u \in Seq(Reference) /\ RefsOf(s \o u) = RefsOf(s) \cup RefsOf(u)
  <2>1. /\ s \o u \in Seq(Reference)
        /\ Len(s \o u) = Len(s) + Len(u)
        /\ \A j \in 1..(Len(s) + Len(u)) :
             (s \o u)[j] = IF j <= Len(s) THEN s[j] ELSE u[j - Len(s)]
    OBVIOUS
  <2>2. DOMAIN (s \o u) = 1..(Len(s) + Len(u)) /\ DOMAIN s = 1..Len(s) /\ DOMAIN u = 1..Len(u)
        /\ Len(s) \in Nat /\ Len(u) \in Nat
    BY <2>1
  <2>3. RefsOf(s \o u) \subseteq RefsOf(s) \cup RefsOf(u)
    <3> SUFFICES ASSUME NEW j \in DOMAIN (s \o u)
                 PROVE  (s \o u)[j] \in RefsOf(s) \cup RefsOf(u)
      BY DEF RefsOf
    <3>1. CASE j <= Len(s)
      BY <2>1, <2>2, <3>1 DEF RefsOf
    <3>2. CASE ~(j <= Len(s))
      <4>1. j - Len(s) \in DOMAIN u /\ (s \o u)[j] = u[j - Len(s)]
        BY <2>1, <2>2, <3>2
      <4> QED  BY <4>1 DEF RefsOf
    <3> QED  BY <3>1, <3>2
  <2>4. RefsOf(s) \subseteq RefsOf(s \o u)
    <3> SUFFICES ASSUME NEW j \in DOMAIN s PROVE s[j] \in RefsOf(s \o u)
      BY DEF RefsOf
    <3>1. j \in DOMAIN (s \o u) /\ (s \o u)[j] = s[j]
      BY <2>1, <2>2
    <3> QED  BY <3>1 DEF RefsOf
  <2>5. RefsOf(u) \subseteq RefsOf(s \o u)
    <3> SUFFICES ASSUME NEW j \in DOMAIN u PROVE u[j] \in RefsOf(s \o u)
      BY DEF RefsOf
    <3>1. j + Len(s) \in DOMAIN (s \o u) /\ (s \o u)[j + Len(s)] = u[j]
      BY <2>1, <2>2
    <3> QED  BY <3>1 DEF RefsOf
  <2> QED  BY <2>1, <2>3, <2>4, <2>5
<1>3. t.refs \o t.args \in Seq(Reference)
  BY <1>1, <1>2
<1>4. RefsOf(t.refs \o t.args) = RefsOf(t.refs) \cup RefsOf(t.args)
  BY <1>1, <1>2
<1>5. /\ (t.refs \o t.args) \o t.elseargs \in Seq(Reference)
      /\ RefsOf((t.refs \o t.args) \o t.elseargs)
           = RefsOf(t.refs \o t.args) \cup RefsOf(t.elseargs)
  BY <1>1, <1>2, <1>3
<1> QED  BY <1>4, <1>5 DEF TermRefs

-----------------------------------------------------------------------------
(* What is in a block, a value and an instruction at a time. *)

LEMMA RefsInIs ==
  ASSUME NEW b, IsBlock(b)
  PROVE  \A r : r \in RefsIn(b) <=>
                  \/ \E i \in DOMAIN b.instrs : r \in RefsOf(b.instrs[i].args)
                  \/ r \in RefsOf(b.term.refs)
                  \/ r \in RefsOf(b.term.args)
                  \/ r \in RefsOf(b.term.elseargs)
<1>1. RefsOf(TermRefs(b.term)) =
        RefsOf(b.term.refs) \cup RefsOf(b.term.args) \cup RefsOf(b.term.elseargs)
  BY TermRefsIn DEF IsBlock
<1> DEFINE inInstrs == UNION {RefsOf(b.instrs[i].args) : i \in DOMAIN b.instrs}
           inTerm == RefsOf(TermRefs(b.term))
<1>2. RefsIn(b) = inInstrs \cup inTerm
  BY DEF RefsIn
<1>3. \A r : r \in inInstrs <=> \E i \in DOMAIN b.instrs : r \in RefsOf(b.instrs[i].args)
  OBVIOUS
<1> SUFFICES ASSUME NEW r
             PROVE  r \in RefsIn(b) <=>
                      \/ \E i \in DOMAIN b.instrs : r \in RefsOf(b.instrs[i].args)
                      \/ r \in RefsOf(b.term.refs)
                      \/ r \in RefsOf(b.term.args)
                      \/ r \in RefsOf(b.term.elseargs)
  OBVIOUS
<1> HIDE DEF inInstrs
<1>4. r \in RefsIn(b) <=> r \in inInstrs \/ r \in inTerm
  BY <1>2
<1>5. r \in inTerm <=>
        \/ r \in RefsOf(b.term.refs)
        \/ r \in RefsOf(b.term.args)
        \/ r \in RefsOf(b.term.elseargs)
  BY <1>1
<1> QED  BY <1>3, <1>4, <1>5

LEMMA UsedInIs ==
  ASSUME NEW bs
  PROVE  \A v : v \in UsedIn(bs) <=>
                  \E n \in DOMAIN bs : \E r \in RefsIn(bs[n]) : r.r = "value" /\ r.n = v
BY DEF UsedIn

LEMMA DefinedInIs ==
  ASSUME NEW bs
  PROVE  \A v : v \in DefinedIn(bs) <=>
                  \E n \in DOMAIN bs : \E i \in DOMAIN bs[n].instrs : v = bs[n].instrs[i].out
BY DEF DefinedIn, InstrsOf

\* The references of a block are values or parameters.
LEMMA ReferencesIn ==
  ASSUME NEW b, IsBlock(b)
  PROVE  RefsIn(b) \subseteq Reference
<1> SUFFICES ASSUME NEW r \in RefsIn(b) PROVE r \in Reference
  OBVIOUS
<1>1. ASSUME NEW s \in Seq(Reference), r \in RefsOf(s) PROVE r \in Reference
  BY <1>1 DEF RefsOf
<1>2. /\ b.term.refs \in Seq(Reference) /\ b.term.args \in Seq(Reference)
      /\ b.term.elseargs \in Seq(Reference)
  BY DEF IsBlock, IsTerm
<1>3. \A i \in DOMAIN b.instrs : b.instrs[i].args \in Seq(Reference)
  BY DEF IsBlock, IsInstr
<1> QED  BY <1>1, <1>2, <1>3, RefsInIs

LEMMA DefinedAreNat ==
  ASSUME NEW bs, AreBlocks(bs)
  PROVE  \A w \in DefinedIn(bs) : w \in Nat
<1> SUFFICES ASSUME NEW w \in DefinedIn(bs) PROVE w \in Nat
  OBVIOUS
<1>1. PICK n \in DOMAIN bs : \E i \in DOMAIN bs[n].instrs : w = bs[n].instrs[i].out
  BY DefinedInIs
<1>2. IsBlock(bs[n])
  BY DEF AreBlocks
<1>3. \A i \in DOMAIN bs[n].instrs : bs[n].instrs[i].out \in Nat
  BY <1>2 DEF IsBlock, IsInstr
<1> QED  BY <1>1, <1>3

\* The values among some references.
LEMMA ValuesOfIs ==
  ASSUME NEW refs
  PROVE  \A v : v \in ValuesOf(refs) <=> \E r \in RefsOf(refs) : r.r = "value" /\ r.n = v
BY DEF ValuesOf, RefsOf

-----------------------------------------------------------------------------
(* Rewriting. *)

\* What the places of values are taken by are references.
IsSubst(sub) == \A v \in DOMAIN sub : sub[v] \in Reference
Places(sub) == {sub[v] : v \in DOMAIN sub}

LEMMA RewriteAllFacts ==
  ASSUME NEW refs \in Seq(Reference), NEW sub, IsSubst(sub)
  PROVE  /\ RewriteAll(refs, sub) \in Seq(Reference)
         /\ Len(RewriteAll(refs, sub)) = Len(refs)
         /\ RefsOf(RewriteAll(refs, sub)) \subseteq RefsOf(refs) \cup Places(sub)
<1> DEFINE out == RewriteAll(refs, sub)
<1>1. Len(refs) \in Nat /\ DOMAIN refs = 1..Len(refs) /\ \A j \in DOMAIN refs : refs[j] \in Reference
  OBVIOUS
<1>2. DOMAIN out = DOMAIN refs /\ \A j \in DOMAIN refs : out[j] = Rewrite(refs[j], sub)
  BY DEF RewriteAll
<1>3. \A j \in DOMAIN refs : out[j] \in Reference /\ out[j] \in {refs[j]} \cup Places(sub)
  BY <1>1, <1>2 DEF Rewrite, IsSubst, Places
<1>4. out \in [1..Len(refs) -> Reference]
  BY <1>1, <1>3 DEF RewriteAll
<1>5. out \in Seq(Reference) /\ Len(out) = Len(refs)
  BY <1>1, <1>4, ListFromFunction
<1>6. RefsOf(out) \subseteq RefsOf(refs) \cup Places(sub)
  BY <1>2, <1>3 DEF RefsOf
<1> QED  BY <1>5, <1>6

LEMMA RewriteInstrFacts ==
  ASSUME NEW i, IsInstr(i), NEW sub, IsSubst(sub)
  PROVE  /\ IsInstr(RewriteInstr(i, sub))
         /\ RewriteInstr(i, sub).out = i.out
         /\ RewriteInstr(i, sub).op = i.op
         /\ RefsOf(RewriteInstr(i, sub).args) \subseteq RefsOf(i.args) \cup Places(sub)
<1>1. /\ i = [out |-> i.out, op |-> i.op, k |-> i.k, args |-> i.args]
      /\ i.out \in Nat /\ i.args \in Seq(Reference) /\ (i.op = "COPY" => Len(i.args) = 1)
  BY DEF IsInstr
<1>2. RewriteInstr(i, sub) = [out |-> i.out, op |-> i.op, k |-> i.k,
                              args |-> RewriteAll(i.args, sub)]
  BY <1>1 DEF RewriteInstr
<1>3. /\ RewriteAll(i.args, sub) \in Seq(Reference)
      /\ Len(RewriteAll(i.args, sub)) = Len(i.args)
      /\ RefsOf(RewriteAll(i.args, sub)) \subseteq RefsOf(i.args) \cup Places(sub)
  BY <1>1, RewriteAllFacts
<1> HIDE DEF RefsOf, Places, IsSubst
<1> QED  BY <1>1, <1>2, <1>3 DEF IsInstr

LEMMA RewriteTermFacts ==
  ASSUME NEW t, IsTerm(t), NEW sub, IsSubst(sub)
  PROVE  /\ IsTerm(RewriteTerm(t, sub))
         /\ RefsOf(RewriteTerm(t, sub).refs) \subseteq RefsOf(t.refs) \cup Places(sub)
         /\ RefsOf(RewriteTerm(t, sub).args) \subseteq RefsOf(t.args) \cup Places(sub)
         /\ RefsOf(RewriteTerm(t, sub).elseargs) \subseteq RefsOf(t.elseargs) \cup Places(sub)
<1>1. /\ t = [t |-> t.t, refs |-> t.refs, to |-> t.to, args |-> t.args,
              else |-> t.else, elseargs |-> t.elseargs]
      /\ t.refs \in Seq(Reference) /\ t.args \in Seq(Reference) /\ t.elseargs \in Seq(Reference)
  BY DEF IsTerm
<1>2. RewriteTerm(t, sub) =
        [t |-> t.t, refs |-> RewriteAll(t.refs, sub), to |-> t.to,
         args |-> RewriteAll(t.args, sub), else |-> t.else,
         elseargs |-> RewriteAll(t.elseargs, sub)]
  <2> DEFINE t1 == [t EXCEPT !.refs = RewriteAll(t.refs, sub)]
             t2 == [t1 EXCEPT !.args = RewriteAll(t1.args, sub)]
             t3 == [t2 EXCEPT !.elseargs = RewriteAll(t2.elseargs, sub)]
  <2>1. RewriteTerm(t, sub) = t3
    BY DEF RewriteTerm
  <2>2. t1 = [t |-> t.t, refs |-> RewriteAll(t.refs, sub), to |-> t.to, args |-> t.args,
              else |-> t.else, elseargs |-> t.elseargs]
    <3>1. ASSUME NEW a, NEW b, NEW c, NEW d, NEW e, NEW f, NEW x,
                 t = [t |-> a, refs |-> b, to |-> c, args |-> d, else |-> e, elseargs |-> f]
          PROVE  [t EXCEPT !.refs = x] = [t |-> a, refs |-> x, to |-> c, args |-> d,
                                          else |-> e, elseargs |-> f]
      BY <3>1
    <3> QED  BY <1>1, <3>1
  <2> HIDE DEF t1
  <2>3. t2 = [t |-> t.t, refs |-> RewriteAll(t.refs, sub), to |-> t.to,
              args |-> RewriteAll(t.args, sub), else |-> t.else, elseargs |-> t.elseargs]
    BY <2>2
  <2> HIDE DEF t2
  <2>4. t3 = [t |-> t.t, refs |-> RewriteAll(t.refs, sub), to |-> t.to,
              args |-> RewriteAll(t.args, sub), else |-> t.else,
              elseargs |-> RewriteAll(t.elseargs, sub)]
    BY <2>3
  <2> QED  BY <2>1, <2>4
<1>3. \A s \in Seq(Reference) :
        /\ RewriteAll(s, sub) \in Seq(Reference)
        /\ RefsOf(RewriteAll(s, sub)) \subseteq RefsOf(s) \cup Places(sub)
  BY RewriteAllFacts
<1> QED  BY <1>1, <1>2, <1>3 DEF IsTerm

\* Another block in the place of one: it defines what that defined, and its
\* references were there before or are new.
SameShape(b, c, new) ==
  /\ IsBlock(c)
  /\ DOMAIN c.instrs = DOMAIN b.instrs
  /\ \A i \in DOMAIN b.instrs : c.instrs[i].out = b.instrs[i].out
  /\ RefsIn(c) \subseteq RefsIn(b) \cup new

LEMMA RewriteBlockFacts ==
  ASSUME NEW b, IsBlock(b), NEW sub, IsSubst(sub)
  PROVE  SameShape(b, RewriteBlock(b, sub), Places(sub))
<1> DEFINE c == RewriteBlock(b, sub)
           instrs == [i \in DOMAIN b.instrs |-> RewriteInstr(b.instrs[i], sub)]
<1>1. /\ b = [params |-> b.params, instrs |-> b.instrs, term |-> b.term]
      /\ IsList(b.instrs) /\ IsTerm(b.term)
      /\ \A i \in DOMAIN b.instrs : IsInstr(b.instrs[i])
  BY DEF IsBlock
<1>2. c = [params |-> b.params, instrs |-> instrs, term |-> RewriteTerm(b.term, sub)]
  <2> DEFINE b1 == [b EXCEPT !.instrs = instrs]
             b2 == [b1 EXCEPT !.term = RewriteTerm(b1.term, sub)]
  <2>1. c = b2
    BY DEF RewriteBlock
  <2> HIDE DEF instrs, c
  <2>2. b1 = [params |-> b.params, instrs |-> instrs, term |-> b.term]
    BY <1>1
  <2> HIDE DEF b1
  <2>3. b2 = [params |-> b.params, instrs |-> instrs, term |-> RewriteTerm(b.term, sub)]
    BY <2>2
  <2> QED  BY <2>1, <2>3
<1>3. c.instrs = instrs /\ c.term = RewriteTerm(b.term, sub)
  BY <1>2
<1>4. IsList(instrs) /\ DOMAIN instrs = DOMAIN b.instrs
  BY <1>1, ListFacts, ListIntro
<1>5. \A i \in DOMAIN b.instrs :
        /\ IsInstr(c.instrs[i])
        /\ c.instrs[i].out = b.instrs[i].out
        /\ RefsOf(c.instrs[i].args) \subseteq RefsOf(b.instrs[i].args) \cup Places(sub)
  BY <1>1, <1>3, RewriteInstrFacts
<1>6. /\ IsTerm(c.term)
      /\ RefsOf(c.term.refs) \subseteq RefsOf(b.term.refs) \cup Places(sub)
      /\ RefsOf(c.term.args) \subseteq RefsOf(b.term.args) \cup Places(sub)
      /\ RefsOf(c.term.elseargs) \subseteq RefsOf(b.term.elseargs) \cup Places(sub)
  BY <1>1, <1>3, RewriteTermFacts
<1>7. c = [params |-> c.params, instrs |-> c.instrs, term |-> c.term]
  BY <1>2
<1> HIDE DEF c, instrs
<1>8. IsBlock(c)
  BY <1>3, <1>4, <1>5, <1>6, <1>7 DEF IsBlock
<1>9. RefsIn(c) \subseteq RefsIn(b) \cup Places(sub)
  BY <1>3, <1>4, <1>5, <1>6, <1>8, RefsInIs
<1>10. SameShape(b, c, Places(sub))
  BY <1>3, <1>4, <1>5, <1>8, <1>9 DEF SameShape
<1> QED  BY <1>10 DEF c

\* One instruction for another that defines the same value.
LEMMA InstrReplaced ==
  ASSUME NEW b, IsBlock(b), NEW k \in DOMAIN b.instrs, NEW i, IsInstr(i),
         i.out = b.instrs[k].out,
         NEW new, RefsOf(i.args) \subseteq RefsOf(b.instrs[k].args) \cup new
  PROVE  SameShape(b, [b EXCEPT !.instrs = [b.instrs EXCEPT ![k] = i]], new)
<1> DEFINE instrs == [b.instrs EXCEPT ![k] = i]
           c == [b EXCEPT !.instrs = instrs]
<1>1. /\ b = [params |-> b.params, instrs |-> b.instrs, term |-> b.term]
      /\ IsList(b.instrs) /\ IsTerm(b.term)
      /\ \A j \in DOMAIN b.instrs : IsInstr(b.instrs[j])
  BY DEF IsBlock
<1>2. /\ IsList(instrs) /\ DOMAIN instrs = DOMAIN b.instrs /\ instrs[k] = i
      /\ \A j \in DOMAIN b.instrs : j # k => instrs[j] = b.instrs[j]
  BY <1>1, ListReplace
<1> HIDE DEF instrs
<1>3. c = [params |-> b.params, instrs |-> instrs, term |-> b.term]
  BY <1>1
<1>4. c.instrs = instrs /\ c.term = b.term
      /\ c = [params |-> c.params, instrs |-> c.instrs, term |-> c.term]
  BY <1>3
<1> HIDE DEF c
<1>5. \A j \in DOMAIN b.instrs :
        /\ IsInstr(c.instrs[j])
        /\ c.instrs[j].out = b.instrs[j].out
        /\ RefsOf(c.instrs[j].args) \subseteq RefsOf(b.instrs[j].args) \cup new
  <2> SUFFICES ASSUME NEW j \in DOMAIN b.instrs
               PROVE  /\ IsInstr(c.instrs[j])
                      /\ c.instrs[j].out = b.instrs[j].out
                      /\ RefsOf(c.instrs[j].args) \subseteq RefsOf(b.instrs[j].args) \cup new
    OBVIOUS
  <2>1. CASE j = k
    BY <1>2, <1>4, <2>1
  <2>2. CASE j # k
    BY <1>1, <1>2, <1>4, <2>2
  <2> QED  BY <2>1, <2>2
<1>6. IsBlock(c)
  BY <1>1, <1>2, <1>4, <1>5 DEF IsBlock
<1>7. RefsIn(c) \subseteq RefsIn(b) \cup new
  BY <1>2, <1>4, <1>5, <1>6, RefsInIs
<1>8. SameShape(b, c, new)
  BY <1>2, <1>4, <1>5, <1>6, <1>7 DEF SameShape
<1> QED  BY <1>8 DEF c, instrs

-----------------------------------------------------------------------------
(* A step replaces one block. *)

\* The values that some references are.
Vals(ids) == {Val(v) : v \in ids}

\* A block of the same shape in the place of one: what is defined is what was,
\* what is used was used before or is defined, and no parameter is new.
LEMMA BlockReplaced ==
  ASSUME NEW bs, AreBlocks(bs), NEW n \in DOMAIN bs, NEW c, NEW new, SameShape(bs[n], c, new)
  PROVE  LET cs == [bs EXCEPT ![n] = c]
         IN  /\ AreBlocks(cs)
             /\ DOMAIN cs = DOMAIN bs
             /\ Len(cs) = Len(bs)
             /\ \A m \in DOMAIN bs : SameShape(bs[m], cs[m], new)
<1> DEFINE cs == [bs EXCEPT ![n] = c]
<1>1. /\ IsList(bs) /\ bs # <<>>
      /\ \A m \in DOMAIN bs : IsBlock(bs[m])
  BY DEF AreBlocks
<1>2. /\ IsList(cs) /\ DOMAIN cs = DOMAIN bs /\ Len(cs) = Len(bs) /\ cs[n] = c
      /\ \A m \in DOMAIN bs : m # n => cs[m] = bs[m]
  BY <1>1, ListReplace
<1> HIDE DEF cs
<1>3. \A m \in DOMAIN bs : m # n => SameShape(bs[m], cs[m], new)
  BY <1>1, <1>2 DEF SameShape
<1>4. \A m \in DOMAIN bs : SameShape(bs[m], cs[m], new)
  BY <1>2, <1>3
<1>5. \A m \in DOMAIN bs : IsBlock(cs[m])
  BY <1>4 DEF SameShape
<1>6. cs # <<>>
  BY <1>1, <1>2
<1>7. AreBlocks(cs)
  BY <1>2, <1>5, <1>6 DEF AreBlocks
<1> QED  BY <1>2, <1>4, <1>7 DEF cs

LEMMA SameDefinitions ==
  ASSUME NEW bs, NEW cs, DOMAIN cs = DOMAIN bs,
         NEW new, \A m \in DOMAIN bs : SameShape(bs[m], cs[m], new)
  PROVE  DefinedIn(cs) = DefinedIn(bs)
<1>1. \A m \in DOMAIN bs : /\ DOMAIN cs[m].instrs = DOMAIN bs[m].instrs
                           /\ \A i \in DOMAIN bs[m].instrs :
                                cs[m].instrs[i].out = bs[m].instrs[i].out
  BY DEF SameShape
<1>2. \A v : v \in DefinedIn(cs) <=> v \in DefinedIn(bs)
  BY <1>1, DefinedInIs
<1> QED  BY <1>2

LEMMA UsesStayDefined ==
  ASSUME NEW bs, NEW cs, DOMAIN cs = DOMAIN bs,
         NEW new, \A m \in DOMAIN bs : SameShape(bs[m], cs[m], new),
         \A r \in new : r.r = "value" => r.n \in DefinedIn(bs),
         UsedIn(bs) \subseteq DefinedIn(bs)
  PROVE  UsedIn(cs) \subseteq DefinedIn(cs)
<1>1. DefinedIn(cs) = DefinedIn(bs)
  BY SameDefinitions
<1> SUFFICES ASSUME NEW v \in UsedIn(cs) PROVE v \in DefinedIn(bs)
  BY <1>1
<1>2. PICK m \in DOMAIN bs : \E r \in RefsIn(cs[m]) : r.r = "value" /\ r.n = v
  BY UsedInIs
<1>3. PICK r \in RefsIn(cs[m]) : r.r = "value" /\ r.n = v
  BY <1>2
<1>4. r \in RefsIn(bs[m]) \cup new
  BY <1>3 DEF SameShape
<1>5. CASE r \in new
  BY <1>3, <1>5
<1>6. CASE r \in RefsIn(bs[m])
  BY <1>3, <1>6, UsedInIs
<1> QED  BY <1>4, <1>5, <1>6

-----------------------------------------------------------------------------
(* The invariant of the first three passes. *)

\* What sharing puts in the place of a value is the value of an instruction.
SubstOK ==
  /\ \A v \in DOMAIN subst : subst[v] \in Vals(DefinedIn(blocks))
  /\ \A i \in table : i.out \in DefinedIn(blocks)
  /\ pass # "share" => DOMAIN subst = {} /\ table = {}

\* The blocks after a step have the shape of those before.
SameBlocks(new) ==
  /\ AreBlocks(blocks')
  /\ DOMAIN blocks' = DOMAIN blocks
  /\ Len(blocks') = Len(blocks)
  /\ \A m \in DOMAIN blocks : SameShape(blocks[m], blocks'[m], new)

\* The block and the instruction a pass has come to.
LEMMA Here ==
  ASSUME TypeOK
  PROVE  /\ block \in DOMAIN blocks
         /\ IsBlock(blocks[block])
         /\ Len(blocks[block].instrs) \in Nat
         /\ DOMAIN blocks[block].instrs = 1..Len(blocks[block].instrs)
         /\ at <= Len(blocks[block].instrs) =>
              /\ at \in DOMAIN blocks[block].instrs
              /\ IsInstr(blocks[block].instrs[at])
<1>1. block \in DOMAIN blocks
  BY ListFacts DEF TypeOK, AreBlocks
<1>2. IsBlock(blocks[block]) /\ at \in Nat \ {0}
  BY <1>1 DEF TypeOK, AreBlocks
<1>3. /\ Len(blocks[block].instrs) \in Nat
      /\ DOMAIN blocks[block].instrs = 1..Len(blocks[block].instrs)
  BY <1>2, ListFacts DEF IsBlock
<1>4. at <= Len(blocks[block].instrs) => at \in DOMAIN blocks[block].instrs
  BY <1>2, <1>3
<1>5. \A i \in DOMAIN blocks[block].instrs : IsInstr(blocks[block].instrs[i])
  BY <1>2 DEF IsBlock
<1> QED  BY <1>1, <1>2, <1>3, <1>4, <1>5

\* Replacing the block at hand.
LEMMA HereReplaced ==
  ASSUME TypeOK, NEW c, NEW new, SameShape(blocks[block], c, new),
         blocks' = [blocks EXCEPT ![block] = c]
  PROVE  SameBlocks(new)
<1>1. AreBlocks(blocks) /\ block \in DOMAIN blocks
  BY Here DEF TypeOK
<1>2. /\ AreBlocks([blocks EXCEPT ![block] = c])
      /\ DOMAIN [blocks EXCEPT ![block] = c] = DOMAIN blocks
      /\ Len([blocks EXCEPT ![block] = c]) = Len(blocks)
      /\ \A m \in DOMAIN blocks : SameShape(blocks[m], [blocks EXCEPT ![block] = c][m], new)
  BY <1>1, BlockReplaced
<1> QED  BY <1>2 DEF SameBlocks

LEMMA SameShapeRefl ==
  ASSUME NEW b, IsBlock(b), NEW new
  PROVE  SameShape(b, b, new)
BY DEF SameShape

LEMMA SameBlocksRefl ==
  ASSUME TypeOK, UNCHANGED blocks, NEW new
  PROVE  SameBlocks(new)
BY SameShapeRefl DEF TypeOK, AreBlocks, SameBlocks

\* Folding one instruction: the same value is defined, from what was used or
\* from nothing.
LEMMA FoldFacts ==
  ASSUME NEW instrs, NEW i, IsInstr(i)
  PROVE  /\ IsInstr(Fold(instrs, i))
         /\ Fold(instrs, i).out = i.out
         /\ RefsOf(Fold(instrs, i).args) \subseteq RefsOf(i.args)
<1> DEFINE k == CHOOSE k \in Folded(instrs, i) : TRUE
<1>1. CASE Folded(instrs, i) = {}
  BY <1>1 DEF Fold
<1>2. CASE Folded(instrs, i) # {}
  <2>1. Fold(instrs, i) = [out |-> i.out, op |-> "CONST", k |-> k, args |-> <<>>]
    BY <1>2 DEF Fold, Instr
  <2> HIDE DEF k
  <2>2. <<>> \in Seq(Reference) /\ RefsOf(<<>>) = {}
    BY DEF RefsOf
  <2>3. i.out \in Nat
    BY DEF IsInstr
  <2> QED  BY <2>1, <2>2, <2>3 DEF IsInstr
<1> QED  BY <1>1, <1>2

LEMMA FoldStep ==
  ASSUME TypeOK, FoldConstants
  PROVE  SameBlocks({})
<1> DEFINE b == blocks[block]
           instrs == [i \in DOMAIN b.instrs |-> Fold(b.instrs, b.instrs[i])]
           c == [b EXCEPT !.instrs = instrs]
<1>1. IsBlock(b) /\ block \in DOMAIN blocks
  BY Here
<1>2. blocks' = [blocks EXCEPT ![block] = c]
  BY DEF FoldConstants
<1>3. SameShape(b, c, {})
  <2> HIDE DEF b
  <2>1. /\ b = [params |-> b.params, instrs |-> b.instrs, term |-> b.term]
        /\ IsList(b.instrs) /\ IsTerm(b.term)
        /\ \A j \in DOMAIN b.instrs : IsInstr(b.instrs[j])
    BY <1>1 DEF IsBlock
  <2>2. IsList(instrs) /\ DOMAIN instrs = DOMAIN b.instrs
    BY <2>1, ListFacts, ListIntro
  <2>3. \A j \in DOMAIN b.instrs :
          /\ IsInstr(instrs[j])
          /\ instrs[j].out = b.instrs[j].out
          /\ RefsOf(instrs[j].args) \subseteq RefsOf(b.instrs[j].args)
    BY <2>1, FoldFacts
  <2> HIDE DEF instrs
  <2>4. c = [params |-> b.params, instrs |-> instrs, term |-> b.term]
    BY <2>1
  <2>5. /\ c.instrs = instrs /\ c.term = b.term
        /\ c = [params |-> c.params, instrs |-> c.instrs, term |-> c.term]
    BY <2>4
  <2> HIDE DEF c
  <2>6. IsBlock(c)
    BY <2>1, <2>2, <2>3, <2>5 DEF IsBlock
  <2>7. RefsIn(c) \subseteq RefsIn(b)
    BY <1>1, <2>2, <2>3, <2>5, <2>6, RefsInIs
  <2> QED  BY <2>2, <2>3, <2>5, <2>6, <2>7 DEF SameShape
<1> HIDE DEF c
<1> QED  BY <1>2, <1>3, HereReplaced

LEMMA CopyStep ==
  ASSUME TypeOK, PropagateCopies
  PROVE  SameBlocks({})
<1> DEFINE b == blocks[block]
           sub == CopiesOf(block)
           copies == {i \in InstrsOf(<<b>>) : i.op = "COPY"}
<1>1. IsBlock(b) /\ block \in DOMAIN blocks
  BY Here
<1>2. \A i \in copies : /\ \E j \in DOMAIN b.instrs : i = b.instrs[j]
                        /\ i.op = "COPY"
  BY DEF InstrsOf
<1>3. \A i \in copies : i.args[1] \in Reference /\ i.args[1] \in RefsIn(b)
  <2> SUFFICES ASSUME NEW i \in copies
               PROVE  i.args[1] \in Reference /\ i.args[1] \in RefsIn(b)
    OBVIOUS
  <2>1. PICK j \in DOMAIN b.instrs : i = b.instrs[j]
    BY <1>2
  <2>2. i.args \in Seq(Reference) /\ Len(i.args) = 1
    BY <1>1, <1>2, <2>1 DEF IsBlock, IsInstr
  <2>3. i.args[1] \in RefsOf(i.args) /\ i.args[1] \in Reference
    BY <2>2 DEF RefsOf
  <2> QED  BY <1>1, <2>1, <2>3, RefsInIs
<1>4. \A v \in DOMAIN sub : \E i \in copies : sub[v] = i.args[1]
  BY DEF CopiesOf, CopiesIn
<1>5. IsSubst(sub) /\ Places(sub) \subseteq RefsIn(b)
  BY <1>3, <1>4 DEF IsSubst, Places
<1> HIDE DEF b, sub, copies
<1>6. SameShape(b, RewriteBlock(b, sub), Places(sub))
  BY <1>1, <1>5, RewriteBlockFacts
<1>7. SameShape(b, RewriteBlock(b, sub), {})
  BY <1>5, <1>6 DEF SameShape
<1>8. blocks' = [blocks EXCEPT ![block] = RewriteBlock(b, sub)]
  BY DEF PropagateCopies, b, sub
<1> QED  BY <1>7, <1>8, HereReplaced DEF b

\* The substitution of sharing brings in values that are defined.
LEMMA SubstFacts ==
  ASSUME TypeOK, SubstOK
  PROVE  /\ IsSubst(subst)
         /\ Places(subst) \subseteq Vals(DefinedIn(blocks))
<1>1. \A v \in DOMAIN subst : subst[v] \in Vals(DefinedIn(blocks))
  BY DEF SubstOK
<1>2. \A w \in DefinedIn(blocks) : w \in Nat
  BY DefinedAreNat DEF TypeOK
<1>3. Vals(DefinedIn(blocks)) \subseteq Reference
  BY <1>2 DEF Vals, Val, Reference
<1> QED  BY <1>1, <1>3 DEF IsSubst, Places

\* The instruction that Enter and Share deal with, after its rewriting.
LEMMA NormalisedFacts ==
  ASSUME TypeOK, SubstOK, at <= Len(blocks[block].instrs)
  PROVE  /\ IsInstr(Normalised)
         /\ Normalised.out = blocks[block].instrs[at].out
         /\ RefsOf(Normalised.args) \subseteq
              RefsOf(blocks[block].instrs[at].args) \cup Vals(DefinedIn(blocks))
<1>1. IsInstr(blocks[block].instrs[at])
  BY Here
<1>2. IsSubst(subst) /\ Places(subst) \subseteq Vals(DefinedIn(blocks))
  BY SubstFacts
<1>3. /\ IsInstr(Normalised)
      /\ Normalised.out = blocks[block].instrs[at].out
      /\ RefsOf(Normalised.args) \subseteq
           RefsOf(blocks[block].instrs[at].args) \cup Places(subst)
  BY <1>1, <1>2, RewriteInstrFacts DEF Normalised
<1> QED  BY <1>2, <1>3

\* Putting an instruction in the place of the one at hand.
LEMMA InstrHereReplaced ==
  ASSUME TypeOK, at <= Len(blocks[block].instrs), NEW i, IsInstr(i),
         i.out = blocks[block].instrs[at].out,
         NEW new, RefsOf(i.args) \subseteq RefsOf(blocks[block].instrs[at].args) \cup new,
         blocks' = [blocks EXCEPT ![block].instrs[at] = i]
  PROVE  SameBlocks(new)
<1> DEFINE b == blocks[block]
           c == [b EXCEPT !.instrs = [b.instrs EXCEPT ![at] = i]]
<1>1. IsBlock(b) /\ at \in DOMAIN b.instrs
  BY Here
<1>2. SameShape(b, c, new)
  BY <1>1, InstrReplaced
<1>3. blocks' = [blocks EXCEPT ![block] = c]
  OBVIOUS
<1> HIDE DEF c
<1> QED  BY <1>2, <1>3, HereReplaced

LEMMA EnterStep ==
  ASSUME TypeOK, SubstOK, Enter
  PROVE  /\ SameBlocks(Vals(DefinedIn(blocks)))
         /\ \A i \in table' : i.out \in DefinedIn(blocks)
<1>1. at <= Len(blocks[block].instrs)
  BY DEF Enter, AtInstr
<1>2. /\ IsInstr(Normalised)
      /\ Normalised.out = blocks[block].instrs[at].out
      /\ RefsOf(Normalised.args) \subseteq
           RefsOf(blocks[block].instrs[at].args) \cup Vals(DefinedIn(blocks))
  BY <1>1, NormalisedFacts
<1>3. blocks' = [blocks EXCEPT ![block].instrs[at] = Normalised]
  BY DEF Enter
<1>4. SameBlocks(Vals(DefinedIn(blocks)))
  BY <1>1, <1>2, <1>3, InstrHereReplaced
<1>5. Normalised.out \in DefinedIn(blocks)
  BY <1>1, <1>2, Here, DefinedInIs
<1> QED  BY <1>4, <1>5 DEF Enter, SubstOK

LEMMA ShareStep ==
  ASSUME TypeOK, SubstOK, Share
  PROVE  /\ SameBlocks(Vals(DefinedIn(blocks)))
         /\ \A v \in DOMAIN subst' : subst'[v] \in Vals(DefinedIn(blocks))
<1> DEFINE old == blocks[block].instrs[at]
           D == DefinedIn(blocks)
<1>1. at <= Len(blocks[block].instrs)
  BY DEF Share, AtInstr
<1>2. PICK i \in table :
        /\ blocks' = [blocks EXCEPT ![block].instrs[at] =
                        Instr(old.out, "COPY", NoK, <<Val(i.out)>>)]
        /\ subst' = [v \in DOMAIN subst \cup {Normalised.out} |->
                       IF v = Normalised.out THEN Val(i.out) ELSE subst[v]]
  BY DEF Share
<1>3. IsInstr(old)
  BY <1>1, Here
<1>4. i.out \in D /\ i.out \in Nat /\ Val(i.out) \in Vals(D)
  <2>1. i.out \in D
    BY DEF SubstOK
  <2>2. \A w \in D : w \in Nat
    BY DefinedAreNat DEF TypeOK
  <2> QED  BY <2>1, <2>2 DEF Vals
<1> DEFINE copy == Instr(old.out, "COPY", NoK, <<Val(i.out)>>)
<1>5. /\ IsInstr(copy)
      /\ copy.out = old.out
      /\ RefsOf(copy.args) \subseteq Vals(D)
  <2>1. copy = [out |-> old.out, op |-> "COPY", k |-> NoK, args |-> <<Val(i.out)>>]
    BY DEF Instr
  <2>2. Val(i.out) \in Reference
    BY <1>4 DEF Val, Reference
  <2>3. /\ <<Val(i.out)>> \in Seq(Reference)
        /\ Len(<<Val(i.out)>>) = 1
        /\ RefsOf(<<Val(i.out)>>) = {Val(i.out)}
    BY <2>2 DEF RefsOf
  <2>4. old.out \in Nat
    BY <1>3 DEF IsInstr
  <2> HIDE DEF copy, old, D
  <2> QED  BY <1>4, <2>1, <2>3, <2>4 DEF IsInstr
<1>6. blocks' = [blocks EXCEPT ![block].instrs[at] = copy]
  BY <1>2
<1> HIDE DEF copy
<1>7. SameBlocks(Vals(D))
  BY <1>1, <1>5, <1>6, InstrHereReplaced
<1>8. \A v \in DOMAIN subst' : subst'[v] \in Vals(D)
  BY <1>2, <1>4 DEF SubstOK
<1> QED  BY <1>7, <1>8

LEMMA RewriteUsesStep ==
  ASSUME TypeOK, SubstOK, RewriteUses
  PROVE  SameBlocks(Vals(DefinedIn(blocks)))
<1>1. IsBlock(blocks[block])
  BY Here
<1>2. IsSubst(subst) /\ Places(subst) \subseteq Vals(DefinedIn(blocks))
  BY SubstFacts
<1>3. SameShape(blocks[block], RewriteBlock(blocks[block], subst), Places(subst))
  BY <1>1, <1>2, RewriteBlockFacts
<1>4. SameShape(blocks[block], RewriteBlock(blocks[block], subst), Vals(DefinedIn(blocks)))
  BY <1>2, <1>3 DEF SameShape
<1>5. blocks' = [blocks EXCEPT ![block] = RewriteBlock(blocks[block], subst)]
  BY DEF RewriteUses
<1> QED  BY <1>4, <1>5, HereReplaced

-----------------------------------------------------------------------------
(* Removal. *)

\* What an element of a list is after one has gone.
LEMMA ListRemove ==
  ASSUME NEW s, IsList(s), NEW k \in DOMAIN s
  PROVE  LET t == SubSeq(s, 1, k - 1) \o SubSeq(s, k + 1, Len(s))
         IN  /\ IsList(t)
             /\ Len(t) = Len(s) - 1
             /\ DOMAIN t = 1..(Len(s) - 1)
             /\ \A j \in 1..(Len(s) - 1) : t[j] = IF j < k THEN s[j] ELSE s[j + 1]
<1> DEFINE S == {s[i] : i \in DOMAIN s}
           l == SubSeq(s, 1, k - 1)
           r == SubSeq(s, k + 1, Len(s))
           t == l \o r
<1>1. s \in Seq(S) /\ Len(s) \in Nat /\ DOMAIN s = 1..Len(s) /\ k \in 1..Len(s)
  BY ListFacts DEF IsList
<1> HIDE DEF S
<1>2. /\ l \in Seq(S) /\ Len(l) = k - 1
      /\ \A j \in 1..(k - 1) : l[j] = s[j]
  BY <1>1
<1>3. /\ r \in Seq(S) /\ Len(r) = Len(s) - k
      /\ \A j \in 1..(Len(s) - k) : r[j] = s[k + j]
  BY <1>1
<1> HIDE DEF l, r
<1>4. /\ t \in Seq(S)
      /\ Len(t) = Len(s) - 1
      /\ DOMAIN t = 1..(Len(s) - 1)
      /\ \A j \in 1..(Len(s) - 1) : t[j] = IF j <= k - 1 THEN l[j] ELSE r[j - (k - 1)]
  <2>1. ASSUME NEW x \in Seq(S), NEW y \in Seq(S)
        PROVE  /\ x \o y \in Seq(S)
               /\ Len(x \o y) = Len(x) + Len(y)
               /\ DOMAIN (x \o y) = 1..(Len(x) + Len(y))
               /\ \A j \in 1..(Len(x) + Len(y)) :
                    (x \o y)[j] = IF j <= Len(x) THEN x[j] ELSE y[j - Len(x)]
    OBVIOUS
  <2>2. Len(l) + Len(r) = Len(s) - 1
    BY <1>1, <1>2, <1>3
  <2>3. /\ t \in Seq(S)
        /\ Len(t) = Len(l) + Len(r)
        /\ DOMAIN t = 1..(Len(l) + Len(r))
        /\ \A j \in 1..(Len(l) + Len(r)) :
             t[j] = IF j <= Len(l) THEN l[j] ELSE r[j - Len(l)]
    BY <1>2, <1>3, <2>1
  <2> HIDE DEF t
  <2> QED  BY <1>2, <2>2, <2>3
<1> HIDE DEF t
<1>5. DOMAIN t = 1..(Len(s) - 1)
  BY <1>4
<1>6. \A j \in 1..(Len(s) - 1) : t[j] = IF j < k THEN s[j] ELSE s[j + 1]
  <2> SUFFICES ASSUME NEW j \in 1..(Len(s) - 1)
               PROVE  t[j] = IF j < k THEN s[j] ELSE s[j + 1]
    OBVIOUS
  <2>1. CASE j < k
    BY <1>1, <1>2, <1>4, <2>1
  <2>2. CASE ~(j < k)
    <3>1. t[j] = r[j - (k - 1)] /\ j - (k - 1) \in 1..(Len(s) - k)
      BY <1>1, <1>4, <2>2
    <3>2. r[j - (k - 1)] = s[k + (j - (k - 1))] /\ k + (j - (k - 1)) = j + 1
      BY <1>1, <1>3, <3>1
    <3> QED  BY <2>2, <3>1, <3>2
  <2> QED  BY <2>1, <2>2
<1>7. t = [i \in 1..(Len(s) - 1) |-> t[i]]
  BY <1>4, <1>5
<1>8. IsList(t)
  BY <1>1, <1>5, <1>7, ListIntro
<1> QED  BY <1>4, <1>5, <1>6, <1>8 DEF t, l, r

\* A block without one of its instructions: it refers to nothing new, and
\* lacks at most the value of that one.
Without(b, k) ==
  [b EXCEPT !.instrs = SubSeq(b.instrs, 1, k - 1) \o SubSeq(b.instrs, k + 1, Len(b.instrs))]

LEMMA WithoutFacts ==
  ASSUME NEW b, IsBlock(b), NEW k \in DOMAIN b.instrs
  PROVE  LET c == Without(b, k)
         IN  /\ IsBlock(c)
             /\ c.term = b.term
             /\ DOMAIN c.instrs = 1..(Len(b.instrs) - 1)
             /\ \A j \in DOMAIN c.instrs :
                  c.instrs[j] = IF j < k THEN b.instrs[j] ELSE b.instrs[j + 1]
             /\ \A j \in DOMAIN c.instrs :
                  \E i \in DOMAIN b.instrs : c.instrs[j] = b.instrs[i]
             /\ \A i \in DOMAIN b.instrs :
                  i # k => \E j \in DOMAIN c.instrs : c.instrs[j] = b.instrs[i]
             /\ RefsIn(c) \subseteq RefsIn(b)
<1> DEFINE instrs == SubSeq(b.instrs, 1, k - 1) \o SubSeq(b.instrs, k + 1, Len(b.instrs))
           c == Without(b, k)
<1>1. /\ b = [params |-> b.params, instrs |-> b.instrs, term |-> b.term]
      /\ IsList(b.instrs) /\ IsTerm(b.term)
      /\ \A j \in DOMAIN b.instrs : IsInstr(b.instrs[j])
  BY DEF IsBlock
<1>2. Len(b.instrs) \in Nat /\ DOMAIN b.instrs = 1..Len(b.instrs)
  BY <1>1, ListFacts
<1>3. /\ IsList(instrs)
      /\ DOMAIN instrs = 1..(Len(b.instrs) - 1)
      /\ \A j \in 1..(Len(b.instrs) - 1) :
           instrs[j] = IF j < k THEN b.instrs[j] ELSE b.instrs[j + 1]
  BY <1>1, ListRemove
<1>4. c = [b EXCEPT !.instrs = instrs]
  BY DEF Without
<1> HIDE DEF instrs
<1>5. c = [params |-> b.params, instrs |-> instrs, term |-> b.term]
  BY <1>1, <1>4
<1> HIDE DEF c
<1>6. /\ c.instrs = instrs /\ c.term = b.term
      /\ c = [params |-> c.params, instrs |-> c.instrs, term |-> c.term]
  BY <1>5
<1>7. \A j \in DOMAIN c.instrs : \E i \in DOMAIN b.instrs : c.instrs[j] = b.instrs[i]
  <2> SUFFICES ASSUME NEW j \in DOMAIN c.instrs
               PROVE  \E i \in DOMAIN b.instrs : c.instrs[j] = b.instrs[i]
    OBVIOUS
  <2>1. j \in 1..(Len(b.instrs) - 1)
    BY <1>3, <1>6
  <2>2. j \in DOMAIN b.instrs /\ j + 1 \in DOMAIN b.instrs
    BY <1>2, <2>1
  <2>3. c.instrs[j] = b.instrs[j] \/ c.instrs[j] = b.instrs[j + 1]
    BY <1>3, <1>6, <2>1
  <2> QED  BY <2>2, <2>3
<1>8. \A i \in DOMAIN b.instrs : i # k => \E j \in DOMAIN c.instrs : c.instrs[j] = b.instrs[i]
  <2> SUFFICES ASSUME NEW i \in DOMAIN b.instrs, i # k
               PROVE  \E j \in DOMAIN c.instrs : c.instrs[j] = b.instrs[i]
    OBVIOUS
  <2>1. k \in 1..Len(b.instrs) /\ i \in 1..Len(b.instrs)
    BY <1>2
  <2>2. CASE i < k
    <3>1. i \in 1..(Len(b.instrs) - 1)
      BY <1>2, <2>1, <2>2
    <3> QED  BY <1>3, <1>6, <2>2, <3>1
  <2>3. CASE ~(i < k)
    <3>1. i - 1 \in 1..(Len(b.instrs) - 1) /\ ~(i - 1 < k) /\ (i - 1) + 1 = i
      BY <1>2, <2>1, <2>3
    <3>2. instrs[i - 1] = b.instrs[i]
      BY <1>3, <3>1
    <3> QED  BY <1>3, <1>6, <3>1, <3>2
  <2> QED  BY <2>2, <2>3
<1>9. IsBlock(c)
  BY <1>1, <1>3, <1>6, <1>7 DEF IsBlock
<1>10. RefsIn(c) \subseteq RefsIn(b)
  BY <1>6, <1>7, <1>9, RefsInIs
<1> QED  BY <1>3, <1>6, <1>7, <1>8, <1>9, <1>10 DEF c
-----------------------------------------------------------------------------

LEMMA RemoveStep ==
  ASSUME TypeOK, Remove
  PROVE  /\ AreBlocks(blocks')
         /\ DOMAIN blocks' = DOMAIN blocks
         /\ Len(blocks') = Len(blocks)
         /\ at \in DOMAIN blocks[block].instrs
         /\ blocks'[block] = Without(blocks[block], at)
         /\ \A m \in DOMAIN blocks : m # block => blocks'[m] = blocks[m]
<1> DEFINE c == Without(blocks[block], at)
<1>1. IsBlock(blocks[block]) /\ at \in DOMAIN blocks[block].instrs /\ block \in DOMAIN blocks
  BY Here DEF Remove
<1>2. blocks' = [blocks EXCEPT ![block] = c]
  BY DEF Remove, Without
<1>3. IsBlock(c)
  BY <1>1, WithoutFacts
<1>4. IsList(blocks) /\ blocks # <<>> /\ \A m \in DOMAIN blocks : IsBlock(blocks[m])
  BY DEF TypeOK, AreBlocks
<1> HIDE DEF c
<1>5. /\ IsList(blocks') /\ DOMAIN blocks' = DOMAIN blocks /\ Len(blocks') = Len(blocks)
      /\ blocks'[block] = c
      /\ \A m \in DOMAIN blocks : m # block => blocks'[m] = blocks[m]
  BY <1>1, <1>2, <1>4, ListReplace, ZenonT(40)
<1>6. \A m \in DOMAIN blocks' : IsBlock(blocks'[m])
  BY <1>3, <1>4, <1>5
<1>7. blocks' # <<>>
  BY <1>1, <1>5
<1>8. AreBlocks(blocks')
  BY <1>5, <1>6, <1>7 DEF AreBlocks
<1> QED  BY <1>1, <1>5, <1>8 DEF c

-----------------------------------------------------------------------------
(* Type correctness. *)

LEMMA NextBlockFacts ==
  ASSUME TypeOK, Len(blocks') = Len(blocks), NEW next \in Passes, NextBlock(next)
  PROVE  pass' \in Passes /\ block' \in 1..Len(blocks')
<1>1. Len(blocks) \in Nat /\ block \in 1..Len(blocks) /\ pass \in Passes
  BY ListFacts DEF TypeOK, AreBlocks
<1> QED  BY <1>1 DEF NextBlock

\* What the steps of the passes but the last do to the blocks.
LEMMA ShapeStep ==
  ASSUME TypeOK, SubstOK, [Next]_vars, ~Remove
  PROVE  SameBlocks(Vals(DefinedIn(blocks)))
<1> DEFINE new == Vals(DefinedIn(blocks))
<1>0. ASSUME SameBlocks({}) PROVE SameBlocks(new)
  BY <1>0 DEF SameBlocks, SameShape
<1> HIDE DEF new
<1>1. CASE FoldConstants
  BY <1>0, <1>1, FoldStep DEF new
<1>2. CASE PropagateCopies
  BY <1>0, <1>2, CopyStep DEF new
<1>3. CASE Enter
  BY <1>3, EnterStep DEF new
<1>4. CASE Share
  BY <1>4, ShareStep DEF new
<1>5. CASE RewriteUses
  BY <1>5, RewriteUsesStep DEF new
<1>6. CASE UNCHANGED blocks
  BY <1>6, SameBlocksRefl
<1>7. CASE Panic \/ Pass \/ CollectRoots \/ Mark \/ Marked \/ Retain \/ Swept \/ UNCHANGED vars
  BY <1>6, <1>7 DEF Panic, Pass, CollectRoots, Mark, Marked, Retain, Swept, vars
<1> QED  BY <1>1, <1>2, <1>3, <1>4, <1>5, <1>7 DEF Next, new

LEMMA TypeStep ==
  ASSUME TypeOK, SubstOK, [Next]_vars
  PROVE  TypeOK'
<1>1. AreBlocks(blocks') /\ Len(blocks') = Len(blocks)
  BY ShapeStep, RemoveStep DEF SameBlocks
<1>2. at' \in Nat \ {0}
  BY DEF TypeOK, Next, vars, FoldConstants, Panic, PropagateCopies, Pass, Enter, Share,
         RewriteUses, CollectRoots, Mark, Marked, Retain, Remove, Swept
<1>3. pass' \in Passes /\ block' \in 1..Len(blocks')
  <2>1. CASE FoldConstants \/ PropagateCopies \/ RewriteUses \/ CollectRoots \/ Swept
    <3>1. {"copy", "share", "roots", "mark", "done"} \subseteq Passes
      BY DEF Passes
    <3>2. PICK next \in Passes : NextBlock(next)
      BY <2>1, <3>1 DEF FoldConstants, PropagateCopies, RewriteUses, CollectRoots, Swept
    <3> QED  BY <1>1, <3>2, NextBlockFacts
  <2>2. CASE Panic \/ Marked
    BY <1>1, <2>2 DEF TypeOK, Panic, Marked, Passes
  <2>3. CASE Pass \/ Enter \/ Share \/ Mark \/ Retain \/ Remove \/ UNCHANGED vars
    BY <1>1, <2>3 DEF TypeOK, Pass, Enter, Share, Mark, Retain, Remove, vars
  <2> QED  BY <2>1, <2>2, <2>3 DEF Next
<1> QED  BY <1>1, <1>2, <1>3 DEF TypeOK

LEMMA SubstStep ==
  ASSUME TypeOK, SubstOK, [Next]_vars
  PROVE  SubstOK'
<1>1. CASE Remove
  <2>1. pass = "sweep" /\ UNCHANGED <<pass, subst, table>>
    BY <1>1 DEF Remove
  <2> QED  BY <2>1 DEF SubstOK
<1>2. CASE ~Remove
  <2>1. DefinedIn(blocks') = DefinedIn(blocks)
    <3>1. SameBlocks(Vals(DefinedIn(blocks)))
      BY <1>2, ShapeStep
    <3> QED  BY <3>1, SameDefinitions DEF SameBlocks
  <2>2. /\ \A v \in DOMAIN subst' : subst'[v] \in Vals(DefinedIn(blocks))
        /\ \A i \in table' : i.out \in DefinedIn(blocks)
    <3>1. CASE Enter
      BY <3>1, EnterStep DEF Enter, SubstOK
    <3>2. CASE Share
      BY <3>2, ShareStep DEF Share, SubstOK
    <3>3. CASE RewriteUses
      BY <3>3 DEF RewriteUses, NoSubst
    <3>4. CASE UNCHANGED <<subst, table>>
      BY <3>4 DEF SubstOK
    <3>5. Enter \/ Share \/ RewriteUses \/ UNCHANGED <<subst, table>>
      BY <1>2 DEF Next, vars, FoldConstants, Panic, PropagateCopies, Pass, CollectRoots, Mark,
                  Marked, Retain, Swept
    <3> QED  BY <3>1, <3>2, <3>3, <3>4, <3>5
  <2>3. pass' # "share" => DOMAIN subst' = {} /\ table' = {}
    <3>1. CASE Enter \/ Share \/ Pass
      BY <3>1 DEF Enter, Share, Pass, AtInstr
    <3>2. CASE RewriteUses
      BY <3>2 DEF RewriteUses, NoSubst
    <3>3. CASE FoldConstants \/ Panic \/ PropagateCopies \/ CollectRoots \/ Mark \/ Marked
               \/ Retain \/ Swept
      <4>1. pass # "share" /\ UNCHANGED <<subst, table>>
        BY <3>3 DEF FoldConstants, Panic, PropagateCopies, CollectRoots, Mark, Marked,
                    Retain, Swept
      <4> QED  BY <4>1 DEF SubstOK
    <3>4. CASE UNCHANGED vars
      BY <3>4 DEF SubstOK, vars
    <3> QED  BY <1>2, <3>1, <3>2, <3>3, <3>4 DEF Next
  <2> QED  BY <2>1, <2>2, <2>3 DEF SubstOK
<1> QED  BY <1>1, <1>2

LEMMA TypeInit ==
  ASSUME Init
  PROVE  TypeOK /\ SubstOK
<1>1. AreBlocks(blocks)
  BY FunctionsAssumption DEF Init
<1>2. Len(blocks) \in Nat /\ Len(blocks) # 0
  <2>1. IsList(blocks) /\ blocks # <<>>
    BY <1>1 DEF AreBlocks
  <2>2. blocks \in Seq({blocks[i] : i \in DOMAIN blocks})
    BY <2>1 DEF IsList
  <2> QED  BY <2>1, <2>2
<1>3. TypeOK
  BY <1>1, <1>2 DEF Init, TypeOK, Passes
<1>4. SubstOK
  BY DEF Init, SubstOK, NoSubst
<1> QED  BY <1>3, <1>4

\* The optimizer keeps the blocks in shape, whichever it is handed: no pass
\* makes an instruction, a terminator or a position that is none.
THEOREM TypeCorrect == Spec => []TypeOK
<1>1. Init => TypeOK /\ SubstOK
  BY TypeInit
<1>2. TypeOK /\ SubstOK /\ [Next]_vars => (TypeOK /\ SubstOK)'
  BY TypeStep, SubstStep
<1> QED  BY <1>1, <1>2, PTL DEF Spec
-----------------------------------------------------------------------------

-----------------------------------------------------------------------------
(* Parameters. *)

LEMMA ParamsStep ==
  ASSUME TypeOK, SubstOK, [Next]_vars, NEW n \in DOMAIN blocks', NEW r \in RefsIn(blocks'[n]),
         r.r = "param"
  PROVE  r \in RefsIn(blocks[n])
<1>1. CASE Remove
  <2>1. CASE n = block
    <3>1. IsBlock(blocks[block]) /\ at \in DOMAIN blocks[block].instrs
      BY <1>1, Here, RemoveStep
    <3>2. RefsIn(Without(blocks[block], at)) \subseteq RefsIn(blocks[block])
      BY <3>1, WithoutFacts
    <3> QED  BY <1>1, <2>1, <3>2, RemoveStep
  <2>2. CASE n # block
    BY <1>1, <2>2, RemoveStep
  <2> QED  BY <2>1, <2>2
<1>2. CASE ~Remove
  <2>1. SameBlocks(Vals(DefinedIn(blocks)))
    BY <1>2, ShapeStep
  <2>2. n \in DOMAIN blocks /\ SameShape(blocks[n], blocks'[n], Vals(DefinedIn(blocks)))
    BY <2>1 DEF SameBlocks
  <2>3. r \in RefsIn(blocks[n]) \cup Vals(DefinedIn(blocks))
    BY <2>2 DEF SameShape
  <2>4. r \notin Vals(DefinedIn(blocks))
    BY DEF Vals, Val
  <2> QED  BY <2>3, <2>4
<1> QED  BY <1>1, <1>2

\* No pass brings a parameter into a block that did not refer to it: what a
\* parameter stands for depends on the block. copy_prop, opt.rs:312.
THEOREM ParamsAreLocal == Spec => ParamsStayLocal
<1>1. Init => TypeOK /\ SubstOK
  BY TypeInit
<1>2. TypeOK /\ SubstOK /\ [Next]_vars => (TypeOK /\ SubstOK)'
  BY TypeStep, SubstStep
<1>3. TypeOK /\ SubstOK /\ [Next]_vars =>
        \A n \in DOMAIN blocks' :
          {r \in RefsIn(blocks'[n]) : r.r = "param"} \subseteq RefsIn(blocks[n])
  BY ParamsStep
<1> QED  BY <1>1, <1>2, <1>3, PTL DEF Spec, ParamsStayLocal

-----------------------------------------------------------------------------
(* The search for what is used, and the removal of the rest. *)

OperandsIn(bs, v) == UNION {UsesInInstr(i) : i \in {j \in InstrsOf(bs) : j.out = v}}
Keeps(i, u) == MustBeKept(i) \/ i.out \in u

\* What the search has found is defined; it has or will come to the roots and
\* to the operands of what it has found.
SearchOK ==
  /\ pass \in {"fold", "copy", "share"} => used = {} /\ work = {}
  /\ pass = "roots" => /\ used = {}
                       /\ \A n \in 1..(block - 1) : Roots(blocks[n]) \subseteq work
  /\ used \cup work \subseteq DefinedIn(blocks)
  /\ pass \in {"mark", "sweep"} =>
       /\ \A n \in DOMAIN blocks : Roots(blocks[n]) \subseteq used \cup work
       /\ \A v \in used : OperandsIn(blocks, v) \subseteq used \cup work

\* The removal has work to do no more, and leaves behind it what is to stay.
SweepOK ==
  /\ pass = "roots" => at = 1
  /\ pass = "mark" => at = 1 /\ block = 1
  /\ pass = "sweep" =>
       /\ work = {}
       /\ \A n \in 1..(block - 1) :
            \A i \in DOMAIN blocks[n].instrs : Keeps(blocks[n].instrs[i], used)
       /\ \A i \in 1..(at - 1) :
            i \in DOMAIN blocks[block].instrs => Keeps(blocks[block].instrs[i], used)

\* What the operands of an instruction are used by, and the roots of a block.
LEMMA OperandsInIs ==
  ASSUME NEW bs, NEW v
  PROVE  \A w : w \in OperandsIn(bs, v) <=>
                  \E n \in DOMAIN bs : \E i \in DOMAIN bs[n].instrs :
                    /\ bs[n].instrs[i].out = v
                    /\ \E r \in RefsOf(bs[n].instrs[i].args) : r.r = "value" /\ r.n = w
BY ValuesOfIs DEF OperandsIn, InstrsOf, UsesInInstr

LEMMA RootsIs ==
  ASSUME NEW b
  PROVE  \A w : w \in Roots(b) <=>
                  \/ \E r \in RefsOf(TermRefs(b.term)) : r.r = "value" /\ r.n = w
                  \/ \E i \in DOMAIN b.instrs :
                       /\ MustBeKept(b.instrs[i])
                       /\ \E r \in RefsOf(b.instrs[i].args) : r.r = "value" /\ r.n = w
BY ValuesOfIs DEF Roots, InstrsOf, UsesInTerm, UsesInInstr

LEMMA RootsAreUsed ==
  ASSUME NEW bs, AreBlocks(bs), NEW n \in DOMAIN bs
  PROVE  Roots(bs[n]) \subseteq UsedIn(bs)
<1>1. IsBlock(bs[n])
  BY DEF AreBlocks
<1>2. RefsOf(TermRefs(bs[n].term)) \subseteq RefsIn(bs[n])
  BY DEF RefsIn
<1>3. \A i \in DOMAIN bs[n].instrs : RefsOf(bs[n].instrs[i].args) \subseteq RefsIn(bs[n])
  BY <1>1, RefsInIs
<1> QED  BY <1>2, <1>3, RootsIs, UsedInIs

LEMMA OperandsAreUsed ==
  ASSUME NEW bs, AreBlocks(bs), NEW v
  PROVE  OperandsIn(bs, v) \subseteq UsedIn(bs)
<1>1. \A n \in DOMAIN bs : \A i \in DOMAIN bs[n].instrs :
        RefsOf(bs[n].instrs[i].args) \subseteq RefsIn(bs[n])
  BY RefsInIs DEF AreBlocks
<1> QED  BY <1>1, OperandsInIs, UsedInIs
-----------------------------------------------------------------------------

IInv == TypeOK /\ SubstOK /\ UsesDefined /\ SearchOK /\ SweepOK

\* What the removal of one instruction leaves of the roots, the operands and
\* the definitions.
LEMMA RemoveFacts ==
  ASSUME TypeOK, Remove
  PROVE  /\ \A n \in DOMAIN blocks : Roots(blocks'[n]) \subseteq Roots(blocks[n])
         /\ \A v : OperandsIn(blocks', v) \subseteq OperandsIn(blocks, v)
         /\ used \cap DefinedIn(blocks) \subseteq DefinedIn(blocks')
<1> DEFINE b == blocks[block]
           c == blocks'[block]
<1>1. /\ DOMAIN blocks' = DOMAIN blocks /\ block \in DOMAIN blocks
      /\ at \in DOMAIN b.instrs /\ IsBlock(b)
      /\ c = Without(b, at)
      /\ \A m \in DOMAIN blocks : m # block => blocks'[m] = blocks[m]
  BY RemoveStep, Here
<1>2. ~MustBeKept(b.instrs[at]) /\ b.instrs[at].out \notin used
  BY DEF Remove, Stays
<1> HIDE DEF b, c
<1>3. /\ c.term = b.term
      /\ \A j \in DOMAIN c.instrs : \E i \in DOMAIN b.instrs : c.instrs[j] = b.instrs[i]
      /\ \A i \in DOMAIN b.instrs :
           i # at => \E j \in DOMAIN c.instrs : c.instrs[j] = b.instrs[i]
  BY <1>1, WithoutFacts
<1>4. Roots(c) \subseteq Roots(b)
  BY <1>3, RootsIs
<1>5. \A n \in DOMAIN blocks : \A j \in DOMAIN blocks'[n].instrs :
        \E i \in DOMAIN blocks[n].instrs : blocks'[n].instrs[j] = blocks[n].instrs[i]
  BY <1>1, <1>3 DEF b, c
<1>6. \A v : OperandsIn(blocks', v) \subseteq OperandsIn(blocks, v)
  BY <1>1, <1>5, OperandsInIs
<1>7. ASSUME NEW v \in used \cap DefinedIn(blocks) PROVE v \in DefinedIn(blocks')
  <2>1. PICK n \in DOMAIN blocks : \E i \in DOMAIN blocks[n].instrs : v = blocks[n].instrs[i].out
    BY <1>7, DefinedInIs
  <2>2. PICK i \in DOMAIN blocks[n].instrs : v = blocks[n].instrs[i].out
    BY <2>1
  <2>3. n = block => i # at
    BY <1>2, <1>7, <2>2 DEF b
  <2>4. \E j \in DOMAIN blocks'[n].instrs : blocks'[n].instrs[j] = blocks[n].instrs[i]
    BY <1>1, <1>3, <2>2, <2>3 DEF b, c
  <2> QED  BY <1>1, <2>2, <2>4, DefinedInIs
<1>8. \A n \in DOMAIN blocks : Roots(blocks'[n]) \subseteq Roots(blocks[n])
  BY <1>1, <1>4 DEF b, c
<1> QED  BY <1>6, <1>7, <1>8

LEMMA SearchStep ==
  ASSUME IInv, [Next]_vars
  PROVE  SearchOK'
<1> USE DEF IInv
<1>1. Len(blocks) \in Nat /\ DOMAIN blocks = 1..Len(blocks) /\ block \in 1..Len(blocks)
  BY ListFacts DEF TypeOK, AreBlocks
<1>2. CASE FoldConstants \/ PropagateCopies \/ Pass \/ Enter \/ Share \/ RewriteUses
  <2>1. /\ pass \in {"fold", "copy", "share"} /\ UNCHANGED <<used, work>>
        /\ pass' \in {"fold", "copy", "share", "roots"}
        /\ pass' = "roots" => block' = 1
    BY <1>2 DEF FoldConstants, PropagateCopies, Pass, Enter, Share, RewriteUses, AtInstr,
                NextBlock
  <2>2. used' = {} /\ work' = {}
    BY <2>1 DEF SearchOK
  <2>3. pass' = "roots" => 1..(block' - 1) = {}
    BY <2>1
  <2> QED  BY <2>1, <2>2, <2>3 DEF SearchOK
<1>3. CASE Panic
  BY <1>3 DEF Panic, SearchOK
<1>4. CASE CollectRoots
  <2>1. /\ pass = "roots" /\ used = {} /\ UNCHANGED <<blocks, used>>
        /\ work' = work \cup Roots(blocks[block])
        /\ \A n \in 1..(block - 1) : Roots(blocks[n]) \subseteq work
    BY <1>4 DEF CollectRoots, SearchOK
  <2>2. work' \subseteq DefinedIn(blocks)
    <3>1. Roots(blocks[block]) \subseteq UsedIn(blocks)
      BY <1>1, RootsAreUsed DEF TypeOK
    <3>2. UsedIn(blocks) \subseteq DefinedIn(blocks)
      BY <2>1 DEF UsesDefined
    <3> QED  BY <2>1, <3>1, <3>2 DEF SearchOK
  <2>3. \A n \in 1..block : Roots(blocks[n]) \subseteq work'
    <3>1. \A n \in 1..block : n \in 1..(block - 1) \/ n = block
      BY <1>1
    <3> QED  BY <2>1, <3>1
  <2>4. CASE block = Len(blocks)
    <3>1. pass' = "mark"
      BY <1>4, <2>4 DEF CollectRoots, NextBlock
    <3> QED  BY <1>1, <2>1, <2>2, <2>3, <2>4, <3>1 DEF SearchOK
  <2>5. CASE block # Len(blocks)
    <3>1. pass' = "roots" /\ block' = block + 1
      BY <1>4, <2>1, <2>5 DEF CollectRoots, NextBlock
    <3>2. block' - 1 = block
      BY <1>1, <3>1
    <3> QED  BY <2>1, <2>2, <2>3, <3>1, <3>2 DEF SearchOK
  <2> QED  BY <2>4, <2>5
<1>5. CASE Mark
  <2>1. PICK v \in work : /\ used' = used \cup {v}
                          /\ work' = (work \cup OperandsOf(v)) \ (used \cup {v})
    BY <1>5 DEF Mark
  <2>2. OperandsOf(v) = OperandsIn(blocks, v)
    BY DEF OperandsOf, OperandsIn
  <2>3. pass = "mark" /\ UNCHANGED <<blocks, pass>>
    BY <1>5 DEF Mark
  <2>4. used' \cup work' = used \cup work \cup OperandsIn(blocks, v)
    BY <2>1, <2>2
  <2>5. OperandsIn(blocks, v) \subseteq DefinedIn(blocks)
    BY <2>3, OperandsAreUsed DEF TypeOK, UsesDefined
  <2>6. used' \cup work' \subseteq DefinedIn(blocks)
    BY <2>4, <2>5 DEF SearchOK
  <2>7. \A n \in DOMAIN blocks : Roots(blocks[n]) \subseteq used' \cup work'
    BY <2>3, <2>4 DEF SearchOK
  <2>8. \A u \in used' : OperandsIn(blocks, u) \subseteq used' \cup work'
    BY <2>1, <2>3, <2>4 DEF SearchOK
  <2> QED  BY <2>3, <2>6, <2>7, <2>8 DEF SearchOK
<1>6. CASE Marked \/ Retain \/ Swept
  <2>1. /\ pass \in {"mark", "sweep"} /\ pass' \in {"sweep", "done"}
        /\ UNCHANGED <<blocks, used, work>>
    BY <1>6 DEF Marked, Retain, Swept, NextBlock
  <2> QED  BY <2>1 DEF SearchOK
<1>7. CASE Remove
  <2>1. pass = "sweep" /\ UNCHANGED <<pass, used, work>> /\ work = {}
    BY <1>7 DEF Remove, SweepOK
  <2>2. DOMAIN blocks' = DOMAIN blocks
    BY <1>7, RemoveStep
  <2>3. /\ \A n \in DOMAIN blocks : Roots(blocks'[n]) \subseteq Roots(blocks[n])
        /\ \A v : OperandsIn(blocks', v) \subseteq OperandsIn(blocks, v)
        /\ used \cap DefinedIn(blocks) \subseteq DefinedIn(blocks')
    BY <1>7, RemoveFacts
  <2>4. used' \cup work' \subseteq DefinedIn(blocks')
    BY <2>1, <2>3 DEF SearchOK
  <2>5. \A n \in DOMAIN blocks' : Roots(blocks'[n]) \subseteq used' \cup work'
    BY <2>1, <2>2, <2>3 DEF SearchOK
  <2>6. \A v \in used' : OperandsIn(blocks', v) \subseteq used' \cup work'
    BY <2>1, <2>3 DEF SearchOK
  <2> QED  BY <2>1, <2>4, <2>5, <2>6 DEF SearchOK
<1>8. CASE UNCHANGED vars
  BY <1>8 DEF vars, SearchOK
<1> QED  BY <1>2, <1>3, <1>4, <1>5, <1>6, <1>7, <1>8 DEF Next
-----------------------------------------------------------------------------

LEMMA SweepStep ==
  ASSUME IInv, [Next]_vars
  PROVE  SweepOK'
<1> USE DEF IInv
<1>1. /\ Len(blocks) \in Nat /\ DOMAIN blocks = 1..Len(blocks) /\ block \in 1..Len(blocks)
      /\ at \in Nat \ {0}
  BY ListFacts DEF TypeOK, AreBlocks
<1>2. CASE FoldConstants \/ PropagateCopies \/ Pass \/ Enter \/ Share \/ RewriteUses \/ Panic
  <2>1. pass' \in {"fold", "copy", "share", "roots", "panicked"} /\ (pass' = "roots" => at' = 1)
    BY <1>2 DEF FoldConstants, PropagateCopies, Pass, Enter, Share, RewriteUses, Panic, AtInstr,
                NextBlock
  <2> QED  BY <2>1 DEF SweepOK
<1>3. CASE CollectRoots
  <2>1. /\ pass = "roots" /\ at = 1 /\ at' = 1
        /\ pass' \in {"roots", "mark"} /\ (pass' = "mark" => block' = 1)
    BY <1>3 DEF CollectRoots, NextBlock, SweepOK
  <2> QED  BY <2>1 DEF SweepOK
<1>4. CASE Mark
  BY <1>4 DEF Mark, SweepOK
<1>5. CASE Marked
  <2>1. /\ pass' = "sweep" /\ work' = {} /\ block' = 1 /\ at' = 1
    BY <1>5 DEF Marked, SweepOK
  <2>2. 1..(block' - 1) = {} /\ 1..(at' - 1) = {}
    BY <2>1
  <2> QED  BY <2>1, <2>2 DEF SweepOK
<1>6. CASE Retain
  <2>1. /\ pass = "sweep" /\ at' = at + 1
        /\ UNCHANGED <<blocks, pass, block, used, work>>
        /\ Keeps(blocks[block].instrs[at], used)
    BY <1>6 DEF Retain, Stays, Keeps
  <2>2. \A i \in 1..(at' - 1) : i \in 1..(at - 1) \/ i = at
    BY <1>1, <2>1
  <2> QED  BY <2>1, <2>2 DEF SweepOK
<1>7. CASE Remove
  <2>1. pass = "sweep" /\ UNCHANGED <<pass, block, at, used, work>>
    BY <1>7 DEF Remove
  <2>2. /\ \A n \in 1..(block - 1) : blocks'[n] = blocks[n]
        /\ blocks'[block] = Without(blocks[block], at)
        /\ IsBlock(blocks[block]) /\ at \in DOMAIN blocks[block].instrs
        /\ DOMAIN blocks[block].instrs = 1..Len(blocks[block].instrs)
        /\ Len(blocks[block].instrs) \in Nat
    BY <1>1, <1>7, RemoveStep, Here
  <2>3. ASSUME NEW i \in 1..(at - 1), i \in DOMAIN blocks'[block].instrs
        PROVE  Keeps(blocks'[block].instrs[i], used)
    <3>1. i < at /\ i \in DOMAIN blocks[block].instrs
      BY <1>1, <2>2
    <3>2. blocks'[block].instrs[i] = blocks[block].instrs[i]
      BY <2>2, <2>3, <3>1, WithoutFacts
    <3> QED  BY <2>1, <3>1, <3>2 DEF SweepOK
  <2> QED  BY <2>1, <2>2, <2>3 DEF SweepOK
<1>8. CASE Swept
  <2>1. /\ pass = "sweep" /\ at > Len(blocks[block].instrs) /\ at' = 1
        /\ UNCHANGED <<blocks, used, work>>
    BY <1>8 DEF Swept
  <2>2. CASE block = Len(blocks)
    BY <1>8, <2>2 DEF Swept, NextBlock, SweepOK
  <2>3. CASE block # Len(blocks)
    <3>1. pass' = "sweep" /\ block' = block + 1
      BY <1>8, <2>1, <2>3 DEF Swept, NextBlock
    <3>2. \A i \in DOMAIN blocks[block].instrs : i \in 1..(at - 1)
      BY <1>1, <2>1, Here
    <3>3. \A n \in 1..(block' - 1) : n \in 1..(block - 1) \/ n = block
      BY <1>1, <3>1
    <3>4. 1..(at' - 1) = {}
      BY <2>1
    <3> QED  BY <2>1, <3>1, <3>2, <3>3, <3>4 DEF SweepOK
  <2> QED  BY <2>2, <2>3
<1>9. CASE UNCHANGED vars
  BY <1>9 DEF vars, SweepOK
<1> QED  BY <1>2, <1>3, <1>4, <1>5, <1>6, <1>7, <1>8, <1>9 DEF Next

LEMMA UsesStep ==
  ASSUME IInv, [Next]_vars
  PROVE  UsesDefined'
<1> USE DEF IInv
<1> SUFFICES ASSUME pass' # "sweep" PROVE UsedIn(blocks') \subseteq DefinedIn(blocks')
  BY DEF UsesDefined
<1>1. ~Remove
  BY DEF Remove
<1>2. CASE pass # "sweep"
  <2>1. SameBlocks(Vals(DefinedIn(blocks)))
    BY <1>1, ShapeStep
  <2>2. \A r \in Vals(DefinedIn(blocks)) : r.r = "value" => r.n \in DefinedIn(blocks)
    BY DEF Vals, Val
  <2>3. UsedIn(blocks) \subseteq DefinedIn(blocks)
    BY <1>2 DEF UsesDefined
  <2> QED  BY <2>1, <2>2, <2>3, UsesStayDefined DEF SameBlocks
<1>3. CASE pass = "sweep"
  <2>1. Swept
    BY <1>1, <1>3 DEF Next, vars, FoldConstants, Panic, PropagateCopies, Pass, Enter, Share,
                      RewriteUses, CollectRoots, Mark, Marked, Retain, AtInstr
  <2>2. /\ at > Len(blocks[block].instrs) /\ UNCHANGED blocks /\ block = Len(blocks)
        /\ work = {}
    BY <1>3, <2>1 DEF Swept, NextBlock, SweepOK
  <2>3. /\ DOMAIN blocks = 1..Len(blocks) /\ Len(blocks) \in Nat /\ at \in Nat
        /\ AreBlocks(blocks) /\ \A n \in DOMAIN blocks : IsBlock(blocks[n])
    BY ListFacts DEF TypeOK, AreBlocks
  <2>4. ASSUME NEW n \in DOMAIN blocks, NEW i \in DOMAIN blocks[n].instrs
        PROVE  Keeps(blocks[n].instrs[i], used)
    <3>1. CASE n = block
      <4>1. i \in 1..(at - 1)
        BY <2>2, <2>3, <3>1, Here
      <4> QED  BY <1>3, <3>1, <4>1 DEF SweepOK
    <3>2. CASE n # block
      <4>1. n \in 1..(block - 1)
        BY <2>2, <2>3, <3>2
      <4> QED  BY <1>3, <4>1 DEF SweepOK
    <3> QED  BY <3>1, <3>2
  <2>5. ASSUME NEW v \in UsedIn(blocks) PROVE v \in used
    <3>1. PICK n \in DOMAIN blocks : \E r \in RefsIn(blocks[n]) : r.r = "value" /\ r.n = v
      BY <2>5, UsedInIs
    <3>2. PICK r \in RefsIn(blocks[n]) : r.r = "value" /\ r.n = v
      BY <3>1
    <3>3. Roots(blocks[n]) \subseteq used
      BY <1>3, <2>2 DEF SearchOK
    <3>4. CASE r \in RefsOf(TermRefs(blocks[n].term))
      BY <3>2, <3>3, <3>4, RootsIs
    <3>5. CASE \E i \in DOMAIN blocks[n].instrs : r \in RefsOf(blocks[n].instrs[i].args)
      <4>1. PICK i \in DOMAIN blocks[n].instrs : r \in RefsOf(blocks[n].instrs[i].args)
        BY <3>5
      <4>2. CASE MustBeKept(blocks[n].instrs[i])
        BY <3>2, <3>3, <4>1, <4>2, RootsIs
      <4>3. CASE blocks[n].instrs[i].out \in used
        <5>1. v \in OperandsIn(blocks, blocks[n].instrs[i].out)
          BY <3>2, <4>1, OperandsInIs
        <5> QED  BY <1>3, <2>2, <4>3, <5>1 DEF SearchOK
      <4> QED  BY <2>4, <4>2, <4>3 DEF Keeps
    <3> QED  BY <3>2, <3>4, <3>5 DEF RefsIn
  <2>6. used \subseteq DefinedIn(blocks)
    BY DEF SearchOK
  <2> QED  BY <2>2, <2>5, <2>6
<1> QED  BY <1>2, <1>3

\* The inductive invariant holds of every function.
THEOREM InvariantHolds == Spec => []IInv
<1>1. Init => IInv
  <2> SUFFICES ASSUME Init PROVE IInv
    OBVIOUS
  <2>1. TypeOK /\ SubstOK
    BY TypeInit
  <2>2. UsesDefined
    BY FunctionsAssumption DEF Init, UsesDefined
  <2>3. SearchOK /\ SweepOK
    BY DEF Init, SearchOK, SweepOK
  <2> QED  BY <2>1, <2>2, <2>3 DEF IInv
<1>2. IInv /\ [Next]_vars => IInv'
  BY TypeStep, SubstStep, UsesStep, SearchStep, SweepStep DEF IInv
<1> QED  BY <1>1, <1>2, PTL DEF Spec

\* Sharing and the removal of dead code leave no use without its definition:
\* a worklist that lost a value, or a copy of a value of nowhere, would.
\* comm_subexpr_elimination, dead_code_elimination.
THEOREM UsesAreDefined == Spec => []UsesDefined
<1>1. IInv => UsesDefined
  BY DEF IInv
<1> QED  BY <1>1, InvariantHolds, PTL

-----------------------------------------------------------------------------
(* Effects: what must stay is neither folded nor shared. *)

\* An instruction in the place of another: if one of them must be kept, they
\* do the same.
Acts(i, j) == MustBeKept(i) \/ MustBeKept(j) => j.op = i.op /\ j.k = i.k

LEMMA NoEffects ==
  MustKeep \cap (UnaryOps \cup BinaryOps \cup Shareable \cup {"CONST", "COPY"}) = {}
BY DEF MustKeep, SideEffects, EffectfulDirectOps, UnaryOps, BinaryOps, Shareable

LEMMA RewriteActs ==
  ASSUME NEW i, IsInstr(i), NEW sub
  PROVE  Acts(i, RewriteInstr(i, sub))
<1>1. i = [out |-> i.out, op |-> i.op, k |-> i.k, args |-> i.args]
  BY DEF IsInstr
<1>2. RewriteInstr(i, sub) = [out |-> i.out, op |-> i.op, k |-> i.k,
                              args |-> RewriteAll(i.args, sub)]
  BY <1>1 DEF RewriteInstr
<1> QED  BY <1>2 DEF Acts

LEMMA FoldActs ==
  ASSUME NEW instrs, NEW i
  PROVE  Acts(i, Fold(instrs, i))
<1>1. CASE Folded(instrs, i) = {}
  BY <1>1 DEF Fold, Acts
<1>2. CASE Folded(instrs, i) # {}
  <2>1. i.op \in UnaryOps \cup BinaryOps
    BY <1>2 DEF Folded
  <2>2. Fold(instrs, i).op = "CONST"
    BY <1>2 DEF Fold, Instr
  <2> QED  BY <2>1, <2>2, NoEffects DEF Acts, MustBeKept
<1> QED  BY <1>1, <1>2

\* The instructions of the block at hand after another list took their place,
\* and those of the others.
LEMMA InstrsHere ==
  ASSUME TypeOK, NEW c, blocks' = [blocks EXCEPT ![block] = c],
         \A i \in DOMAIN blocks[block].instrs : Acts(blocks[block].instrs[i], c.instrs[i])
  PROVE  \A n \in DOMAIN blocks : \A i \in DOMAIN blocks[n].instrs :
           Acts(blocks[n].instrs[i], blocks'[n].instrs[i])
<1>1. block \in DOMAIN blocks /\ blocks'[block] = c
  BY Here
<1>2. \A n \in DOMAIN blocks : n # block => blocks'[n] = blocks[n]
  OBVIOUS
<1>3. \A i : Acts(i, i)
  BY DEF Acts
<1> QED  BY <1>1, <1>2, <1>3

\* The same for one instruction.
LEMMA InstrHere ==
  ASSUME TypeOK, at <= Len(blocks[block].instrs), NEW j, Acts(blocks[block].instrs[at], j),
         blocks' = [blocks EXCEPT ![block].instrs[at] = j]
  PROVE  \A n \in DOMAIN blocks : \A i \in DOMAIN blocks[n].instrs :
           Acts(blocks[n].instrs[i], blocks'[n].instrs[i])
<1> DEFINE b == blocks[block]
           instrs == [b.instrs EXCEPT ![at] = j]
           c == [b EXCEPT !.instrs = instrs]
<1>1. b = [params |-> b.params, instrs |-> b.instrs, term |-> b.term]
      /\ at \in DOMAIN b.instrs
  BY Here DEF IsBlock
<1>2. blocks' = [blocks EXCEPT ![block] = c]
  OBVIOUS
<1>3. c.instrs = instrs
  <2> HIDE DEF instrs, b
  <2>1. c = [params |-> b.params, instrs |-> instrs, term |-> b.term]
    BY <1>1
  <2> QED  BY <2>1
<1>4. \A i \in DOMAIN b.instrs : Acts(b.instrs[i], instrs[i])
  <2>1. instrs[at] = j /\ \A i \in DOMAIN b.instrs : i # at => instrs[i] = b.instrs[i]
    BY <1>1
  <2>2. \A i : Acts(i, i)
    BY DEF Acts
  <2> QED  BY <2>1, <2>2
<1> HIDE DEF c, instrs
<1> QED  BY <1>2, <1>3, <1>4, InstrsHere

LEMMA ActsStep ==
  ASSUME TypeOK, SubstOK, [Next]_vars, ~Remove
  PROVE  \A n \in DOMAIN blocks : \A i \in DOMAIN blocks[n].instrs :
           Acts(blocks[n].instrs[i], blocks'[n].instrs[i])
<1> DEFINE b == blocks[block]
<1>1. /\ IsBlock(b)
      /\ b = [params |-> b.params, instrs |-> b.instrs, term |-> b.term]
      /\ \A i \in DOMAIN b.instrs : IsInstr(b.instrs[i])
  BY Here DEF IsBlock
<1>2. ASSUME NEW sub, blocks' = [blocks EXCEPT ![block] = RewriteBlock(b, sub)]
      PROVE  \A n \in DOMAIN blocks : \A i \in DOMAIN blocks[n].instrs :
               Acts(blocks[n].instrs[i], blocks'[n].instrs[i])
  <2> DEFINE instrs == [i \in DOMAIN b.instrs |-> RewriteInstr(b.instrs[i], sub)]
  <2>1. RewriteBlock(b, sub).instrs = instrs
    <3> HIDE DEF instrs, b
    <3>1. [b EXCEPT !.instrs = instrs] = [params |-> b.params, instrs |-> instrs, term |-> b.term]
      BY <1>1
    <3>2. RewriteBlock(b, sub) =
            [[b EXCEPT !.instrs = instrs] EXCEPT !.term = RewriteTerm(@, sub)]
      BY DEF RewriteBlock, instrs
    <3> QED  BY <3>1, <3>2
  <2>2. \A i \in DOMAIN b.instrs : Acts(b.instrs[i], instrs[i])
    BY <1>1, RewriteActs
  <2> HIDE DEF instrs
  <2> QED  BY <1>2, <2>1, <2>2, InstrsHere
<1>3. CASE FoldConstants
  <2> DEFINE instrs == [i \in DOMAIN b.instrs |-> Fold(b.instrs, b.instrs[i])]
             c == [b EXCEPT !.instrs = instrs]
  <2>1. blocks' = [blocks EXCEPT ![block] = c]
    BY <1>3 DEF FoldConstants
  <2>2. \A i \in DOMAIN b.instrs : Acts(b.instrs[i], instrs[i])
    BY FoldActs
  <2>3. c.instrs = instrs
    <3> HIDE DEF instrs, b
    <3>1. c = [params |-> b.params, instrs |-> instrs, term |-> b.term]
      BY <1>1
    <3> QED  BY <3>1
  <2> HIDE DEF c, instrs
  <2> QED  BY <2>1, <2>2, <2>3, InstrsHere
<1>4. CASE PropagateCopies
  BY <1>2, <1>4 DEF PropagateCopies
<1>5. CASE Enter
  <2>1. /\ at <= Len(b.instrs)
        /\ blocks' = [blocks EXCEPT ![block].instrs[at] = Normalised]
    BY <1>5 DEF Enter, AtInstr
  <2>2. Acts(b.instrs[at], Normalised)
    BY <2>1, Here, RewriteActs DEF Normalised
  <2> QED  BY <2>1, <2>2, InstrHere
<1>6. CASE Share
  <2>1. at <= Len(b.instrs) /\ b.instrs[at].op \in Shareable
    BY <1>6 DEF Share, AtInstr, HasPureKey
  <2>2. PICK i \in table :
          blocks' = [blocks EXCEPT ![block].instrs[at] =
                       Instr(b.instrs[at].out, "COPY", NoK, <<Val(i.out)>>)]
    BY <1>6 DEF Share
  <2>3. Acts(b.instrs[at], Instr(b.instrs[at].out, "COPY", NoK, <<Val(i.out)>>))
    BY <2>1, NoEffects DEF Acts, MustBeKept, Instr
  <2> QED  BY <2>1, <2>2, <2>3, InstrHere
<1>7. CASE RewriteUses
  BY <1>2, <1>7 DEF RewriteUses
<1>8. CASE UNCHANGED blocks
  BY <1>8 DEF Acts
<1>9. CASE Panic \/ Pass \/ CollectRoots \/ Mark \/ Marked \/ Retain \/ Swept \/ UNCHANGED vars
  BY <1>8, <1>9 DEF Panic, Pass, CollectRoots, Mark, Marked, Retain, Swept, vars
<1> QED  BY <1>3, <1>4, <1>5, <1>6, <1>7, <1>9 DEF Next

\* Where the instructions of a block stay in their places, so do its effects.
LEMMA EffectsInPlace ==
  ASSUME NEW b, NEW c, DOMAIN c.instrs = DOMAIN b.instrs,
         \A i \in DOMAIN b.instrs : /\ c.instrs[i].out = b.instrs[i].out
                                    /\ Acts(b.instrs[i], c.instrs[i])
  PROVE  SameEffects(b, c)
<1> DEFINE f == [i \in KeptIn(b) |-> i]
<1>1. \A i \in DOMAIN b.instrs : MustBeKept(c.instrs[i]) <=> MustBeKept(b.instrs[i])
  BY DEF Acts, MustBeKept
<1>2. KeptIn(c) = KeptIn(b)
  BY <1>1 DEF KeptIn
<1>3. f \in [KeptIn(b) -> KeptIn(c)]
  BY <1>2
<1>4. \A i \in KeptIn(b) : SameEffect(b.instrs[i], c.instrs[f[i]])
  BY DEF KeptIn, Acts, SameEffect
<1> QED  BY <1>2, <1>3, <1>4 DEF SameEffects

\* Where an instruction without an effect goes, the later ones move up.
LEMMA EffectsWithout ==
  ASSUME NEW b, IsBlock(b), NEW k \in DOMAIN b.instrs, ~MustBeKept(b.instrs[k])
  PROVE  SameEffects(b, Without(b, k))
<1> DEFINE c == Without(b, k)
           f == [i \in KeptIn(b) |-> IF i < k THEN i ELSE i - 1]
<1>1. DOMAIN b.instrs = 1..Len(b.instrs) /\ Len(b.instrs) \in Nat
  BY ListFacts DEF IsBlock
<1>2. /\ DOMAIN c.instrs = 1..(Len(b.instrs) - 1)
      /\ \A j \in DOMAIN c.instrs :
           c.instrs[j] = IF j < k THEN b.instrs[j] ELSE b.instrs[j + 1]
  BY WithoutFacts
<1> HIDE DEF c
<1>3. \A i \in KeptIn(b) : i \in 1..Len(b.instrs) /\ i # k /\ MustBeKept(b.instrs[i])
  BY <1>1 DEF KeptIn
<1>4. ASSUME NEW i \in KeptIn(b)
      PROVE  f[i] \in KeptIn(c) /\ c.instrs[f[i]] = b.instrs[i]
  <2>1. f[i] \in 1..(Len(b.instrs) - 1) /\ i = IF f[i] < k THEN f[i] ELSE f[i] + 1
    BY <1>1, <1>3
  <2>2. c.instrs[f[i]] = b.instrs[i]
    BY <1>2, <2>1
  <2> QED  BY <1>2, <1>3, <2>1, <2>2 DEF KeptIn
<1>5. f \in [KeptIn(b) -> KeptIn(c)]
  BY <1>4
<1>6. ASSUME NEW j \in KeptIn(c) PROVE \E i \in KeptIn(b) : f[i] = j
  <2>1. j \in 1..(Len(b.instrs) - 1) /\ MustBeKept(c.instrs[j])
    BY <1>2 DEF KeptIn
  <2> DEFINE i == IF j < k THEN j ELSE j + 1
  <2>2. i \in 1..Len(b.instrs) /\ j = IF i < k THEN i ELSE i - 1
    BY <1>1, <2>1
  <2>3. c.instrs[j] = b.instrs[i]
    BY <1>2, <2>1
  <2> HIDE DEF i
  <2>4. i \in KeptIn(b)
    BY <1>1, <2>1, <2>2, <2>3 DEF KeptIn
  <2> QED  BY <2>2, <2>4
<1>7. \A i, j \in KeptIn(b) : i < j => f[i] < f[j]
  BY <1>1, <1>3
<1>8. \A i \in KeptIn(b) : SameEffect(b.instrs[i], c.instrs[f[i]])
  BY <1>4 DEF SameEffect
<1> HIDE DEF f
<1>9. SameEffects(b, c)
  BY <1>5, <1>6, <1>7, <1>8 DEF SameEffects
<1> QED  BY <1>9 DEF c

LEMMA EffectsStep ==
  ASSUME TypeOK, SubstOK, [Next]_vars, NEW n \in DOMAIN blocks'
  PROVE  SameEffects(blocks[n], blocks'[n])
<1>1. CASE Remove
  <2>1. CASE n = block
    <3>1. IsBlock(blocks[block]) /\ at \in DOMAIN blocks[block].instrs
      BY <1>1, Here, RemoveStep
    <3>2. ~MustBeKept(blocks[block].instrs[at])
      BY <1>1 DEF Remove, Stays
    <3>3. blocks'[n] = Without(blocks[block], at)
      BY <1>1, <2>1, RemoveStep
    <3> QED  BY <2>1, <3>1, <3>2, <3>3, EffectsWithout
  <2>2. CASE n # block
    <3>1. blocks'[n] = blocks[n]
      BY <1>1, <2>2, RemoveStep
    <3>2. \A i : Acts(i, i)
      BY DEF Acts
    <3> QED  BY <3>1, <3>2, EffectsInPlace
  <2> QED  BY <2>1, <2>2
<1>2. CASE ~Remove
  <2>1. SameBlocks(Vals(DefinedIn(blocks)))
    BY <1>2, ShapeStep
  <2>2. n \in DOMAIN blocks /\ SameShape(blocks[n], blocks'[n], Vals(DefinedIn(blocks)))
    BY <2>1 DEF SameBlocks
  <2>3. \A i \in DOMAIN blocks[n].instrs : Acts(blocks[n].instrs[i], blocks'[n].instrs[i])
    BY <1>2, <2>2, ActsStep
  <2> QED  BY <2>2, <2>3, EffectsInPlace DEF SameShape
<1> QED  BY <1>1, <1>2

\* No pass drops, doubles, reorders or replaces a call, a store, an event or
\* the making of a struct: not folding, which makes constants, not sharing,
\* which makes copies, and not the removal of what is not used, although most
\* such instructions define a value that nobody uses.
\* has_side_effects, must_keep_even_if_unused.
THEOREM EffectsAreKept == Spec => EffectsKept
<1>1. Init => TypeOK /\ SubstOK
  BY TypeInit
<1>2. TypeOK /\ SubstOK /\ [Next]_vars => (TypeOK /\ SubstOK)'
  BY TypeStep, SubstStep
<1>3. TypeOK /\ SubstOK /\ [Next]_vars =>
        \A n \in DOMAIN blocks' : SameEffects(blocks[n], blocks'[n])
  BY EffectsStep
<1> QED  BY <1>1, <1>2, <1>3, PTL DEF Spec, EffectsKept

-----------------------------------------------------------------------------
(* Termination. *)

\* A pass over instructions is never more than one past the last of its block,
\* and begins at the first.
AtOK ==
  /\ at <= Len(blocks[block].instrs) + 1
  /\ pass \notin {"share", "sweep"} => at = 1

LEMMA DefinedIsFinite ==
  ASSUME NEW bs, AreBlocks(bs)
  PROVE  IsFiniteSet(DefinedIn(bs))
<1> DEFINE Outs(n) == {bs[n].instrs[i].out : i \in DOMAIN bs[n].instrs}
           All == {Outs(n) : n \in DOMAIN bs}
<1>1. IsFiniteSet(DOMAIN bs)
  <2>1. Len(bs) \in Nat /\ DOMAIN bs = 1..Len(bs)
    BY ListFacts DEF AreBlocks
  <2> QED  BY <2>1, FS_Interval
<1>2. \A n \in DOMAIN bs : IsFiniteSet(Outs(n))
  <2> SUFFICES ASSUME NEW n \in DOMAIN bs PROVE IsFiniteSet(Outs(n))
    OBVIOUS
  <2> DEFINE is == bs[n].instrs
             f == [i \in DOMAIN is |-> is[i].out]
  <2>1. Len(is) \in Nat /\ DOMAIN is = 1..Len(is)
    BY ListFacts DEF AreBlocks, IsBlock
  <2>2. IsFiniteSet(DOMAIN is)
    BY <2>1, FS_Interval
  <2>3. f \in Surjection(DOMAIN is, Outs(n))
    BY DEF Surjection
  <2> QED  BY <2>2, <2>3, FS_Surjection
<1>3. IsFiniteSet(All)
  <2> DEFINE f == [n \in DOMAIN bs |-> Outs(n)]
  <2>1. f \in Surjection(DOMAIN bs, All)
    BY DEF Surjection
  <2> QED  BY <1>1, <2>1, FS_Surjection
<1>4. IsFiniteSet(UNION All)
  BY <1>2, <1>3, FS_UNION
<1>5. DefinedIn(bs) = UNION All
  BY DefinedInIs
<1> QED  BY <1>4, <1>5

LEMMA InstrsStay ==
  ASSUME TypeOK, SameBlocks(Vals(DefinedIn(blocks)))
  PROVE  /\ Len(blocks') = Len(blocks)
         /\ Len(blocks'[block].instrs) = Len(blocks[block].instrs)
<1>1. block \in DOMAIN blocks /\ IsBlock(blocks[block])
  BY Here
<1>2. SameShape(blocks[block], blocks'[block], Vals(DefinedIn(blocks)))
  BY <1>1 DEF SameBlocks
<1>3. /\ IsBlock(blocks'[block])
      /\ DOMAIN blocks'[block].instrs = DOMAIN blocks[block].instrs
  BY <1>2 DEF SameShape
<1>4. /\ Len(blocks[block].instrs) \in Nat /\ Len(blocks'[block].instrs) \in Nat
      /\ DOMAIN blocks[block].instrs = 1..Len(blocks[block].instrs)
      /\ DOMAIN blocks'[block].instrs = 1..Len(blocks'[block].instrs)
  BY <1>1, <1>3, ListFacts DEF IsBlock
<1>5. Len(blocks'[block].instrs) = Len(blocks[block].instrs)
  BY <1>3, <1>4
<1> QED  BY <1>5 DEF SameBlocks

LEMMA RemovedOne ==
  ASSUME TypeOK, Remove
  PROVE  /\ Len(blocks') = Len(blocks)
         /\ Len(blocks'[block].instrs) = Len(blocks[block].instrs) - 1
<1>1. IsBlock(blocks[block]) /\ Len(blocks[block].instrs) \in Nat /\ block \in DOMAIN blocks
      /\ DOMAIN blocks[block].instrs = 1..Len(blocks[block].instrs)
  BY Here
<1>2. /\ AreBlocks(blocks') /\ DOMAIN blocks' = DOMAIN blocks
      /\ Len(blocks') = Len(blocks)
      /\ at \in DOMAIN blocks[block].instrs
      /\ blocks'[block] = Without(blocks[block], at)
  BY RemoveStep
<1>3. DOMAIN blocks'[block].instrs = 1..(Len(blocks[block].instrs) - 1)
  BY <1>1, <1>2, WithoutFacts
<1>4. /\ Len(blocks'[block].instrs) \in Nat
      /\ DOMAIN blocks'[block].instrs = 1..Len(blocks'[block].instrs)
  BY <1>1, <1>2, ListFacts DEF AreBlocks, IsBlock
<1>5. Len(blocks'[block].instrs) = Len(blocks[block].instrs) - 1
  BY <1>1, <1>2, <1>3, <1>4
<1> QED  BY <1>2, <1>5

LEMMA AtStep ==
  ASSUME TypeOK, SubstOK, AtOK, [Next]_vars
  PROVE  AtOK'
<1>1. /\ at \in Nat \ {0} /\ Len(blocks[block].instrs) \in Nat
      /\ TypeOK' /\ Len(blocks'[block'].instrs) \in Nat
  <2>1. TypeOK'
    BY TypeStep
  <2>2. block' \in DOMAIN blocks' /\ IsBlock(blocks'[block'])
    BY <2>1, ListFacts DEF TypeOK, AreBlocks
  <2> QED  BY <2>1, <2>2, Here, ListFacts DEF TypeOK, IsBlock
<1>2. CASE FoldConstants \/ PropagateCopies \/ RewriteUses \/ CollectRoots \/ Swept
  <2>1. at' = 1
    BY <1>2 DEF FoldConstants, PropagateCopies, RewriteUses, CollectRoots, Swept, AtOK
  <2> QED  BY <1>1, <2>1 DEF AtOK
<1>3. CASE Pass \/ Enter \/ Share
  <2>1. /\ at <= Len(blocks[block].instrs) /\ at' = at + 1
        /\ pass = "share" /\ pass' = "share" /\ block' = block
    BY <1>3 DEF Pass, Enter, Share, AtInstr
  <2>2. ~Remove
    BY <2>1 DEF Remove
  <2>3. Len(blocks'[block].instrs) = Len(blocks[block].instrs)
    BY <2>2, ShapeStep, InstrsStay
  <2> QED  BY <1>1, <2>1, <2>3 DEF AtOK
<1>4. CASE Panic \/ Mark \/ Marked \/ UNCHANGED vars
  BY <1>4 DEF Panic, Mark, Marked, vars, AtOK
<1>5. CASE Retain
  BY <1>1, <1>5 DEF Retain, AtOK
<1>6. CASE Remove
  <2>1. Len(blocks'[block].instrs) = Len(blocks[block].instrs) - 1
    BY <1>6, RemovedOne
  <2> QED  BY <1>1, <1>6, <2>1 DEF Remove, AtOK
<1> QED  BY <1>2, <1>3, <1>4, <1>5, <1>6 DEF Next

\* For any function that lowering may hand over, no step of the optimizer is in
\* vain: with its counts never below zero, it can take only finitely many.
THEOREM EveryStepCounts ==
  Spec => /\ [](PassesLeft \in Nat /\ BlocksLeft \in Nat
                /\ InstrsLeft \in Nat /\ NotFound \in Nat)
          /\ ComesNearer
<1> DEFINE Nearer ==
      \/ PassesLeft' < PassesLeft
      \/ /\ PassesLeft' = PassesLeft
         /\ \/ BlocksLeft' < BlocksLeft
            \/ BlocksLeft' = BlocksLeft /\ InstrsLeft' < InstrsLeft
            \/ /\ BlocksLeft' = BlocksLeft /\ InstrsLeft' = InstrsLeft
               /\ NotFound' < NotFound
<1>1. Init => AtOK
  <2> SUFFICES ASSUME Init PROVE AtOK
    OBVIOUS
  <2>1. TypeOK
    BY TypeInit
  <2> QED  BY <2>1, Here DEF Init, AtOK
<1>2. IInv /\ AtOK /\ [Next]_vars => AtOK'
  BY AtStep DEF IInv
<1>3. IInv /\ AtOK => /\ PassesLeft \in Nat /\ BlocksLeft \in Nat
                      /\ InstrsLeft \in Nat /\ NotFound \in Nat
  <2> SUFFICES ASSUME IInv, AtOK
               PROVE  /\ PassesLeft \in Nat /\ BlocksLeft \in Nat
                      /\ InstrsLeft \in Nat /\ NotFound \in Nat
    OBVIOUS
  <2>1. PassesLeft \in Nat
    BY DEF PassesLeft
  <2>2. BlocksLeft \in Nat
    BY ListFacts DEF IInv, TypeOK, AreBlocks, BlocksLeft
  <2>3. InstrsLeft \in Nat
    BY Here DEF IInv, TypeOK, AtOK, InstrsLeft
  <2>4. NotFound \in Nat
    <3>1. IsFiniteSet(DefinedIn(blocks))
      BY DefinedIsFinite DEF IInv, TypeOK
    <3>2. IsFiniteSet(DefinedIn(blocks) \ used)
      BY <3>1, FS_Subset
    <3> QED  BY <3>2, FS_CardinalityType DEF NotFound
  <2> QED  BY <2>1, <2>2, <2>3, <2>4
<1> DEFINE Fresh == used \cap work = {}
<1>4. Init => Fresh
  BY DEF Init
<1>5. IInv /\ Fresh /\ [Next]_vars => Fresh'
  <2> SUFFICES ASSUME IInv, Fresh, [Next]_vars PROVE Fresh'
    OBVIOUS
  <2>1. CASE CollectRoots
    BY <2>1 DEF CollectRoots, IInv, SearchOK
  <2>2. CASE Mark
    BY <2>2 DEF Mark
  <2>3. CASE ~(CollectRoots \/ Mark)
    <3>1. used' = used /\ work' = work
      BY <2>3 DEF Next, vars, FoldConstants, Panic, PropagateCopies, Pass, Enter, Share,
                  RewriteUses, Marked, Retain, Remove, Swept
    <3> QED  BY <3>1
  <2> QED  BY <2>1, <2>2, <2>3
<1>6. IInv /\ AtOK /\ Fresh /\ [Next]_vars => [Nearer]_vars
  <2> SUFFICES ASSUME IInv, AtOK, Fresh, Next PROVE Nearer
    OBVIOUS
  <2>1. /\ at \in Nat /\ block \in Nat /\ Len(blocks) \in Nat
        /\ Len(blocks[block].instrs) \in Nat
    BY Here, ListFacts DEF IInv, TypeOK, AreBlocks
  <2>2. CASE FoldConstants \/ PropagateCopies \/ RewriteUses \/ CollectRoots \/ Swept
    <3>1. ~Remove
      BY <2>2 DEF FoldConstants, PropagateCopies, RewriteUses, CollectRoots, Swept, Remove
    <3>2. Len(blocks') = Len(blocks)
      BY <3>1, ShapeStep, InstrsStay DEF IInv
    <3>3. CASE block = Len(blocks)
      BY <2>2, <3>3 DEF FoldConstants, PropagateCopies, RewriteUses, CollectRoots, Swept,
                        NextBlock, PassesLeft
    <3>4. CASE block # Len(blocks)
      <4>1. pass' = pass /\ block' = block + 1
        BY <2>2, <3>4 DEF FoldConstants, PropagateCopies, RewriteUses, CollectRoots,
                          Swept, NextBlock
      <4> QED  BY <2>1, <3>2, <4>1 DEF PassesLeft, BlocksLeft
    <3> QED  BY <3>3, <3>4
  <2>3. CASE Pass \/ Enter \/ Share \/ Retain
    <3>1. at' = at + 1 /\ pass' = pass /\ block' = block
      BY <2>3 DEF Pass, Enter, Share, Retain
    <3>2. ~Remove
      <4>1. CASE Pass \/ Enter \/ Share
        BY <4>1 DEF Pass, Enter, Share, AtInstr, Remove
      <4>2. CASE Retain
        BY <4>2 DEF Retain, Remove
      <4> QED  BY <2>3, <4>1, <4>2
    <3>3. /\ Len(blocks') = Len(blocks)
          /\ Len(blocks'[block].instrs) = Len(blocks[block].instrs)
      BY <3>2, ShapeStep, InstrsStay DEF IInv
    <3> QED  BY <2>1, <3>1, <3>3 DEF PassesLeft, BlocksLeft, InstrsLeft
  <2>4. CASE Remove
    <3>1. /\ Len(blocks') = Len(blocks)
          /\ Len(blocks'[block].instrs) = Len(blocks[block].instrs) - 1
      BY <2>4, RemovedOne DEF IInv
    <3>2. at' = at /\ pass' = pass /\ block' = block
      BY <2>4 DEF Remove
    <3> QED  BY <2>1, <3>1, <3>2 DEF PassesLeft, BlocksLeft, InstrsLeft
  <2>5. CASE Panic \/ Marked
    BY <2>5 DEF Panic, Marked, PassesLeft
  <2>6. CASE Mark
    <3>1. PICK v \in work : used' = used \cup {v}
      BY <2>6 DEF Mark
    <3>2. /\ pass' = pass /\ block' = block /\ at' = at /\ blocks' = blocks
      BY <2>6 DEF Mark
    <3> DEFINE rest == DefinedIn(blocks) \ used
    <3>3. v \in rest
      BY DEF IInv, SearchOK
    <3>4. IsFiniteSet(rest)
      <4>1. IsFiniteSet(DefinedIn(blocks))
        BY DefinedIsFinite DEF IInv, TypeOK
      <4> QED  BY <4>1, FS_Subset
    <3>5. Cardinality(rest \ {v}) = Cardinality(rest) - 1 /\ Cardinality(rest) \in Nat
      BY <3>3, <3>4, FS_RemoveElement, FS_CardinalityType
    <3>6. NotFound = Cardinality(rest) /\ NotFound' = Cardinality(rest \ {v})
      <4>1. DefinedIn(blocks)' \ used' = rest \ {v}
        BY <3>1, <3>2 DEF DefinedIn, InstrsOf
      <4> QED  BY <4>1 DEF NotFound
    <3> HIDE DEF rest
    <3>7. NotFound' < NotFound
      BY <3>5, <3>6
    <3> QED  BY <3>2, <3>7 DEF PassesLeft, BlocksLeft, InstrsLeft
  <2> QED  BY <2>2, <2>3, <2>4, <2>5, <2>6 DEF Next
<1> QED  BY <1>1, <1>2, <1>3, <1>4, <1>5, <1>6, InvariantHolds, PTL DEF Spec, ComesNearer
=============================================================================
