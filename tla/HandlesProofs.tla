--------------------------- MODULE HandlesProofs ---------------------------
(***************************************************************************)
(* Handles, proved for every family of wrappers: whatever the program      *)
(* drops, and in whatever order, no wrapper it can still reach reads a     *)
(* native object that was freed, none is freed twice and none is lost.     *)
(*                                                                         *)
(* Three facts carry the proof.  What an open wrapper reads through is     *)
(* kept alive by what it keeps (Secure).  A native object has at most one  *)
(* destroyer besides its wrapper, which the wrapper knows of: it keeps the *)
(* context, or the engine owns it (HomeOK, EngineHas, OwnedHasHome).  And  *)
(* an engine is dropped with care (DroppedWithCare).                       *)
(***************************************************************************)
EXTENDS Handles, SequenceTheorems, TLAPS

-----------------------------------------------------------------------------
(* The inductive invariant *)

Names == Kinds \cup {"attribute", "none"}
Wrap == [kind : Kinds, item : Names, needs : SUBSET Nat, keeps : SUBSET Nat,
         native : BOOLEAN, open : BOOLEAN, owned : BOOLEAN, gone : BOOLEAN]

Typed ==
  /\ family \in Families
  /\ refs \in Seq(Wrap) /\ home \in Seq(SUBSET Nat) /\ frees \in Seq(Nat)
  /\ Len(home) = Len(refs) /\ Len(frees) = Len(refs)
  /\ held \subseteq Ids
  /\ \A w \in Ids : refs[w].needs \cup refs[w].keeps \cup home[w] \subseteq Ids

\* The kinds of wrapper that a wrapper of kind k keeps, and the kinds whose
\* native objects it reads through, apart from its own.
KeepKinds(k) ==
  CASE k = "module"                  -> {"context"}
    [] k \in Values \cup {"iterator"} -> Values \cup {"module"}
    [] k = "engine"                  -> {"module", "layout", "cache"}
    [] k = "builder"                 -> {"machine", "tuning", "timing"}
    [] k = "sections"                -> {"object", "iterator"}
    [] OTHER                         -> {}
NeedKinds(k) ==
  CASE k = "module"   -> {"context"}
    [] k \in Values   -> {"module", "context"}
    [] k = "iterator" -> {"module", "context", "object"}
    [] k = "engine"   -> {"cache"}
    [] k = "builder"  -> {"machine", "timing"}
    [] OTHER          -> {}
Borrowers == Values \cup {"type", "sections"}

KindsOK(w) ==
  /\ \A v \in refs[w].keeps : refs[v].kind \in KeepKinds(refs[w].kind)
  /\ \A n \in refs[w].needs \ {w} : refs[n].kind \in NeedKinds(refs[w].kind)
  /\ refs[w].native <=> refs[w].kind \notin Borrowers
  /\ ~refs[w].native => w \notin refs[w].needs
  /\ refs[w].owned => refs[w].kind \in {"module", "machine", "layout"}
  /\ refs[w].kind = "iterator" =>
        refs[w].item \in Values \cup {"type", "attribute", "none"}
  /\ refs[w].kind = "module" => \A g, h \in refs[w].needs \ {w} : g = h

\* What was collected is closed, and nothing refers to it.
GoneOK(w) ==
  refs[w].gone => /\ ~refs[w].open /\ refs[w].keeps = {} /\ refs[w].needs = {}
                  /\ w \notin held \cup Kept

\* A wrapper reads through its own native object, if it has one.
NeedsItself(w) == refs[w].native /\ ~refs[w].gone => w \in refs[w].needs

\* Where the native objects are that an open wrapper reads through: the wrappers
\* of these are kept by it, or by the module it keeps.  The iterator of an object
\* file is the exception: the generator that keeps it keeps the file.
Secure(w) ==
  refs[w].open => \A n \in refs[w].needs \ {w} :
     \/ n \in refs[w].keeps
     \/ \E m \in refs[w].keeps : refs[m].kind = "module" /\ n \in refs[m].keeps
     \/ /\ refs[n].kind = "object" /\ refs[w].kind = "iterator" /\ w \notin held
        /\ \A g \in Ids : w \in refs[g].keeps => n \in refs[g].keeps

\* A native object that another will destroy: a module of a private context,
\* whose wrapper keeps that of the context; or something an engine has.
HomeOK(n) ==
  /\ \A g, h \in home[n] : g = h
  /\ \A h \in home[n] :
        \/ /\ refs[h].kind = "context" /\ refs[n].kind = "module"
           /\ ~refs[n].owned
           /\ ~refs[n].gone => h \in refs[n].keeps
        \/ /\ refs[h].kind = "engine" /\ refs[n].kind \in {"module", "machine", "layout"}
           /\ refs[h].open => refs[n].owned /\ frees[n] = 0

\* An engine that is open has the modules and the data layout it keeps.
EngineHas(e) ==
  refs[e].kind = "engine" /\ refs[e].open =>
     \A v \in refs[e].keeps : refs[v].kind \in {"module", "layout"} => home[v] = {e}

\* A native object that is not its wrapper's is that of an engine that is open.
OwnedHasHome(n) ==
  refs[n].owned /\ frees[n] = 0 =>
     \E e \in home[n] : refs[e].kind = "engine" /\ refs[e].open

\* The native object of an open wrapper exists.
OwnAlive(n) == refs[n].native /\ refs[n].open => frees[n] = 0

\* The program was careful when it dropped an engine.
DroppedWithCare(e) ==
  refs[e].kind = "engine" /\ ~refs[e].gone /\ e \notin held => Careful(e)

Sound(w) ==
  /\ KindsOK(w) /\ GoneOK(w) /\ NeedsItself(w) /\ Secure(w) /\ HomeOK(w)
  /\ EngineHas(w) /\ OwnedHasHome(w) /\ OwnAlive(w) /\ DroppedWithCare(w)

Inv == /\ Typed /\ \A w \in Ids : Sound(w)
       /\ NoDangling /\ FreedOnce /\ NothingLeaked

-----------------------------------------------------------------------------
(* What the operations do to the sequences *)

(* The sequences that AddTo leaves: the wrapper that joins is the last.    *)
LEMMA AddedValues ==
  ASSUME Typed, NEW rs \in Seq(Wrap), Len(rs) = Len(refs), NEW r \in Wrap,
         NEW in \in SUBSET Nat, AddTo(rs, r, in)
  PROVE  /\ Len(refs) \in Nat /\ Next1 \in Nat /\ Next1 \notin Ids
         /\ Ids' = Ids \cup {Next1}
         /\ refs' \in Seq(Wrap) /\ home' \in Seq(SUBSET Nat) /\ frees' \in Seq(Nat)
         /\ Len(home') = Len(refs') /\ Len(frees') = Len(refs')
         /\ \A v \in Ids : refs'[v] = rs[v] /\ home'[v] = home[v] /\ frees'[v] = frees[v]
         /\ refs'[Next1] = r /\ home'[Next1] = in /\ frees'[Next1] = 0
<1>. USE DEF Typed, AddTo, Next1, Ids
<1>1. /\ home' \in Seq(SUBSET Nat) /\ Len(home') = Len(refs) + 1 /\ home'[Len(refs) + 1] = in
      /\ \A v \in 1..Len(refs) : home'[v] = home[v]
  BY AppendProperties
<1>2. /\ frees' \in Seq(Nat) /\ Len(frees') = Len(refs) + 1 /\ frees'[Len(refs) + 1] = 0
      /\ \A v \in 1..Len(refs) : frees'[v] = frees[v]
  BY AppendProperties
<1>. QED
  BY <1>1, <1>2

(* A function on the wrappers is a sequence as long as that of wrappers.   *)
LEMMA SequenceOfIds ==
  ASSUME NEW S, NEW n \in Nat, NEW f, f \in [1..n -> S]
  PROVE  f \in Seq(S) /\ Len(f) = n
<1>1. [1..n -> S] \in {[1..k -> S] : k \in Nat}
  OBVIOUS
<1>2. f \in Seq(S)
  BY <1>1, SeqDef
<1>3. DOMAIN f = 1..n
  OBVIOUS
<1>. QED
  BY <1>2, <1>3, LenProperties

-----------------------------------------------------------------------------
(* The program runs when all is collected *)

(* What is open can then be reached, and the program holds every engine.   *)
LEMMA QuietFacts ==
  ASSUME Inv, Quiet, NEW w \in Ids, ~refs[w].gone
  PROVE  /\ w \in held \cup Kept
         /\ refs[w].open => \A n \in refs[w].needs : frees[n] = 0
         /\ refs[w].kind = "engine" => w \in held
<1>1. w \in held \cup Kept
  BY DEF Quiet
<1>2. ASSUME refs[w].kind = "engine", w \in Kept PROVE FALSE
  <2>1. PICK v \in Ids : w \in refs[v].keeps
    BY <1>2 DEF Kept
  <2>2. refs[w].kind \in KeepKinds(refs[v].kind)
    BY <2>1 DEF Inv, Sound, KindsOK
  <2>. QED
    BY <1>2, <2>2 DEF KeepKinds, Values
<1>. QED
  BY <1>1, <1>2 DEF Inv, NoDangling

(* A wrapper that may join the others: what it keeps is there, and what it *)
(* reads through is kept by it, or by the module it keeps.  Only a context *)
(* that it keeps destroys its native object.                               *)
MayJoin(r, in) ==
  /\ r \in Wrap /\ r.open /\ ~r.gone /\ ~r.owned
  /\ r.kind \notin {"engine", "sections"}
  /\ r.native <=> r.kind \notin Borrowers
  /\ r.native <=> Next1 \in r.needs
  /\ r.kind = "iterator" => r.item \in Values \cup {"type", "attribute", "none"}
  /\ r.kind = "module" => \A g, h \in r.needs \ {Next1} : g = h
  /\ \A v \in r.keeps : v \in Ids /\ ~refs[v].gone /\ refs[v].kind \in KeepKinds(r.kind)
  /\ \A n \in r.needs \ {Next1} :
        /\ n \in Ids /\ frees[n] = 0 /\ refs[n].kind \in NeedKinds(r.kind)
        /\ \/ n \in r.keeps
           \/ \E m \in r.keeps : refs[m].kind = "module" /\ n \in refs[m].keeps
  /\ in \in SUBSET Nat
  /\ \A h \in in : /\ h \in r.keeps /\ refs[h].kind = "context" /\ r.kind = "module"
                   /\ \A g \in in : g = h

(* A wrapper that may join leaves the invariant: it reads only what is     *)
(* kept for it, and no other wrapper keeps or needs it yet.                *)
LEMMA JoinKeepsInv ==
  ASSUME Inv, Quiet, NEW r, NEW in, MayJoin(r, in), AddTo(refs, r, in),
         held' = held \cup {Next1}
  PROVE  Inv'
<1>1. /\ Next1 \in Nat /\ Next1 \notin Ids
      /\ Ids' = Ids \cup {Next1}
      /\ refs' \in Seq(Wrap) /\ home' \in Seq(SUBSET Nat) /\ frees' \in Seq(Nat)
      /\ Len(home') = Len(refs') /\ Len(frees') = Len(refs')
      /\ \A v \in Ids : refs'[v] = refs[v] /\ home'[v] = home[v] /\ frees'[v] = frees[v]
      /\ refs'[Next1] = r /\ home'[Next1] = in /\ frees'[Next1] = 0
  BY AddedValues DEF Inv, Typed, MayJoin
<1>2. PICK n \in Nat :
      /\ n = Next1 /\ n \notin Ids
      /\ Ids' = Ids \cup {n}
      /\ refs' \in Seq(Wrap) /\ home' \in Seq(SUBSET Nat) /\ frees' \in Seq(Nat)
      /\ Len(home') = Len(refs') /\ Len(frees') = Len(refs')
      /\ \A v \in Ids : refs'[v] = refs[v] /\ home'[v] = home[v] /\ frees'[v] = frees[v]
      /\ refs'[n] = r /\ home'[n] = in /\ frees'[n] = 0
  BY <1>1
<1>3. family' = family
  BY DEF AddTo
<1>4. /\ held \subseteq Ids
      /\ \A w \in Ids : refs[w].needs \subseteq Ids /\ refs[w].keeps \subseteq Ids
                        /\ home[w] \subseteq Ids
  BY DEF Inv, Typed
<1>5. /\ r.needs \subseteq Ids' /\ r.keeps \subseteq Ids /\ in \subseteq Ids
  BY <1>2 DEF MayJoin
<1>6. held' = held \cup {n}
  BY <1>2
<1>7. Kept' = Kept \cup r.keeps
  BY <1>2 DEF Kept
<1>8. \A w \in Ids : ~refs[w].gone => w \in held \cup Kept
                                      /\ (refs[w].kind = "engine" => w \in held)
  BY QuietFacts
<1>. USE <1>2, <1>4, <1>5, <1>6
<1>9. Typed'
  BY <1>3 DEF Inv, Typed
<1>10. \A w \in Ids' : KindsOK(w)'
  <2>1. ASSUME NEW w \in Ids PROVE KindsOK(w)'
    <3>1. KindsOK(w) /\ refs'[w] = refs[w]
      BY <2>1 DEF Inv, Sound
    <3>2. \A v \in refs[w].keeps \cup refs[w].needs : refs'[v] = refs[v]
      BY <2>1
    <3>. QED
      BY ONLY <3>1, <3>2 DEF KindsOK
  <2>2. KindsOK(n)'
    <3>1. \A v \in r.keeps \cup (r.needs \ {n}) : refs'[v] = refs[v]
      OBVIOUS
    <3>. QED
      BY ONLY <1>2, <3>1, MayJoin(r, in) DEF KindsOK, MayJoin
  <2>. QED
    BY <2>1, <2>2
<1>11. \A w \in Ids' : GoneOK(w)'
  BY <1>7 DEF Inv, Sound, GoneOK, MayJoin
<1>12. \A w \in Ids' : NeedsItself(w)'
  BY DEF Inv, Sound, NeedsItself, MayJoin
<1>13. ASSUME NEW w \in Ids PROVE Secure(w)'
  <2>. SUFFICES ASSUME refs[w].open, NEW k \in refs[w].needs \ {w}
                PROVE  \/ k \in refs[w].keeps
                       \/ \E m \in refs[w].keeps : refs[m].kind = "module" /\ k \in refs[m].keeps
                       \/ /\ refs[k].kind = "object" /\ refs[w].kind = "iterator" /\ w \notin held'
                          /\ \A g \in Ids' : w \in refs'[g].keeps => k \in refs'[g].keeps
    BY DEF Secure
  <2>1. CASE refs[w].kind = "iterator" /\ w \notin held
             /\ \A g \in Ids : w \in refs[g].keeps => k \in refs[g].keeps
    <3>1. w \notin r.keeps
      BY <2>1 DEF MayJoin, KeepKinds, Values, Wrap, Kinds
    <3>. QED
      BY <2>1, <3>1 DEF Inv, Sound, Secure
  <2>2. Secure(w)
    BY <1>13 DEF Inv, Sound
  <2>3. \/ k \in refs[w].keeps
        \/ \E m \in refs[w].keeps : refs[m].kind = "module" /\ k \in refs[m].keeps
        \/ /\ refs[w].kind = "iterator" /\ w \notin held
           /\ \A g \in Ids : w \in refs[g].keeps => k \in refs[g].keeps
    BY ONLY <2>2, refs[w].open, k \in refs[w].needs \ {w} DEF Secure
  <2>. QED
    BY ONLY <2>1, <2>3
<1>14. Secure(n)'
  <2>. SUFFICES ASSUME NEW k \in r.needs \ {n}
                PROVE  \/ k \in r.keeps
                       \/ \E m \in r.keeps : refs'[m].kind = "module" /\ k \in refs'[m].keeps
    BY DEF Secure
  <2>1. k \in r.keeps \/ \E m \in r.keeps : refs[m].kind = "module" /\ k \in refs[m].keeps
    BY ONLY <1>2, MayJoin(r, in), k \in r.needs \ {n} DEF MayJoin
  <2>2. \A m \in r.keeps : refs'[m] = refs[m]
    OBVIOUS
  <2>. QED
    BY ONLY <2>1, <2>2
<1>15. \A w \in Ids' : HomeOK(w)'
  <2>1. ASSUME NEW w \in Ids PROVE HomeOK(w)'
    <3>1. HomeOK(w) /\ home'[w] = home[w] /\ refs'[w] = refs[w] /\ frees'[w] = frees[w]
      BY <2>1 DEF Inv, Sound
    <3>2. \A h \in home[w] : refs'[h] = refs[h]
      BY <2>1
    <3>. QED
      BY ONLY <3>1, <3>2 DEF HomeOK
  <2>2. HomeOK(n)'
    <3>1. \A h \in in : refs'[h] = refs[h]
      OBVIOUS
    <3>. QED
      <4>1. \A h \in in : /\ h \in r.keeps /\ refs[h].kind = "context" /\ r.kind = "module"
                           /\ ~r.owned /\ \A g \in in : g = h
        BY ONLY MayJoin(r, in) DEF MayJoin
      <4>2. refs'[n] = r /\ home'[n] = in
        BY ONLY <1>2
      <4>. QED
        BY ONLY <3>1, <4>1, <4>2 DEF HomeOK
  <2>. QED
    BY <2>1, <2>2
<1>16. \A w \in Ids' : EngineHas(w)'
  <2>1. ASSUME NEW w \in Ids PROVE EngineHas(w)'
    BY DEF Inv, Sound, EngineHas
  <2>2. EngineHas(n)'
    BY DEF EngineHas, MayJoin
  <2>. QED
    BY <2>1, <2>2
<1>17. \A w \in Ids' : OwnedHasHome(w)'
  <2>1. ASSUME NEW w \in Ids PROVE OwnedHasHome(w)'
    <3>1. OwnedHasHome(w) /\ home'[w] = home[w] /\ refs'[w] = refs[w] /\ frees'[w] = frees[w]
      BY <2>1 DEF Inv, Sound
    <3>2. \A h \in home[w] : refs'[h] = refs[h]
      BY <2>1
    <3>. QED
      BY ONLY <3>1, <3>2 DEF OwnedHasHome
  <2>2. OwnedHasHome(n)'
    BY DEF OwnedHasHome, MayJoin
  <2>. QED
    BY <2>1, <2>2
<1>18. \A w \in Ids' : OwnAlive(w)'
  BY DEF Inv, Sound, OwnAlive
<1>19. \A w \in Ids' : DroppedWithCare(w)'
  BY <1>8 DEF Sound, DroppedWithCare, MayJoin, Careful, FreedBy, Disposes
<1>20. NoDangling'
  <2>. SUFFICES ASSUME NEW w \in (held \cup Kept)', refs'[w].open, NEW k \in refs'[w].needs
                PROVE  frees'[k] = 0
    BY DEF NoDangling
  <2>1. CASE w = n
    <3>1. k \in r.needs
      BY <2>1
    <3>2. k # n => k \in Ids /\ frees[k] = 0
      BY ONLY <1>2, <3>1, MayJoin(r, in) DEF MayJoin
    <3>. QED
      BY <3>2
  <2>2. CASE w # n
    <3>1. w \in Ids /\ ~refs[w].gone
      BY <2>2 DEF Kept, Inv, Sound, GoneOK, MayJoin
    <3>. QED
      BY <3>1, QuietFacts
  <2>. QED
    BY <2>1, <2>2
<1>21. FreedOnce'
  BY DEF Inv, FreedOnce
<1>22. NothingLeaked'
  <2>. SUFFICES ASSUME NEW k \in Ids', refs'[k].native, refs'[k].kind # "manager", frees'[k] = 0
                PROVE  Answers(k)' \/ \E h \in home'[k] : Answers(h)'
    BY DEF NothingLeaked
  <2>1. CASE k = n
    BY <2>1 DEF Answers, MayJoin
  <2>2. CASE k \in Ids
    <3>1. Answers(k) \/ \E h \in home[k] : Answers(h)
      BY <2>2 DEF Inv, NothingLeaked
    <3>2. \A v \in Ids : Answers(v)' = Answers(v)
      BY DEF Answers
    <3>. QED
      BY <2>2, <3>1, <3>2
  <2>. QED
    BY <2>1, <2>2
<1>. QED
  BY ONLY <1>2, <1>9, <1>10, <1>11, <1>12, <1>13, <1>14, <1>15, <1>16, <1>17, <1>18, <1>19, <1>20, <1>21, <1>22
     DEF Inv, Sound

-----------------------------------------------------------------------------
(* Closing *)

(* What CloseAs does to the wrappers and to the native objects.            *)
LEMMA ClosedValues ==
  ASSUME Inv, NEW w \in Ids, NEW r \in Wrap, CloseAs(w, r)
  PROVE  /\ refs' \in Seq(Wrap) /\ frees' \in Seq(Nat)
         /\ Len(refs') = Len(refs) /\ Len(frees') = Len(refs) /\ Ids' = Ids
         /\ refs'[w] = r
         /\ \A v \in Ids \ {w} :
               /\ refs'[v].kind = refs[v].kind /\ refs'[v].item = refs[v].item
               /\ refs'[v].needs = refs[v].needs /\ refs'[v].keeps = refs[v].keeps
               /\ refs'[v].native = refs[v].native /\ refs'[v].owned = refs[v].owned
               /\ refs'[v].gone = refs[v].gone
               /\ refs'[v].open <=> refs[v].open /\ v \notin DetachedBy(w)
         /\ \A n \in Ids : frees'[n] = IF n \in FreedBy(w) THEN frees[n] + 1 ELSE frees[n]
<1>1. /\ Len(refs) \in Nat /\ Len(frees) = Len(refs) /\ Ids = 1..Len(refs)
      /\ \A v \in Ids : refs[v] \in Wrap /\ frees[v] \in Nat
  BY DEF Inv, Typed, Ids
<1>2. \A v \in Ids : [refs[v] EXCEPT !.open = @ /\ v \notin DetachedBy(w)] \in Wrap
  BY <1>1 DEF Wrap
<1>3. refs' \in [1..Len(refs) -> Wrap]
  BY <1>1, <1>2 DEF CloseAs
<1>4. refs' \in Seq(Wrap) /\ Len(refs') = Len(refs)
  BY ONLY <1>1, <1>3, SequenceOfIds
<1>5. frees' \in [1..Len(refs) -> Nat]
  BY <1>1 DEF CloseAs
<1>6. frees' \in Seq(Nat) /\ Len(frees') = Len(refs)
  BY ONLY <1>1, <1>5, SequenceOfIds
<1>7. Ids' = Ids
  BY <1>4 DEF Ids
<1>8. refs'[w] = r
  BY DEF CloseAs
<1>9. ASSUME NEW v \in Ids \ {w}
      PROVE  /\ refs'[v].kind = refs[v].kind /\ refs'[v].item = refs[v].item
             /\ refs'[v].needs = refs[v].needs /\ refs'[v].keeps = refs[v].keeps
             /\ refs'[v].native = refs[v].native /\ refs'[v].owned = refs[v].owned
             /\ refs'[v].gone = refs[v].gone
             /\ refs'[v].open <=> refs[v].open /\ v \notin DetachedBy(w)
  <2>1. refs'[v] = [refs[v] EXCEPT !.open = @ /\ v \notin DetachedBy(w)]
    BY <1>9 DEF CloseAs
  <2>2. refs[v] \in Wrap
    BY <1>1
  <2>. QED
    BY ONLY <2>1, <2>2 DEF Wrap
<1>10. \A n \in Ids : frees'[n] = IF n \in FreedBy(w) THEN frees[n] + 1 ELSE frees[n]
  BY DEF CloseAs
<1>. QED
  BY ONLY <1>4, <1>6, <1>7, <1>8, <1>9, <1>10

(* What closing frees: the wrapper's own native object, and those in it.   *)
LEMMA WhatIsFreed ==
  ASSUME Inv, NEW w \in Ids, NEW n \in FreedBy(w)
  PROVE  /\ refs[w].open /\ ~refs[w].owned /\ refs[w].native /\ ~refs[w].gone
         /\ n \in Ids /\ frees[n] = 0
         /\ n = w \/ (n # w /\ w \in home[n] /\ refs[w].kind \in {"context", "engine"})
<1>1. /\ refs[w].open /\ ~refs[w].owned /\ refs[w].native
      /\ n \in Ids /\ (n = w \/ w \in home[n])
      /\ n # w /\ refs[w].kind = "context" => frees[n] = 0
  BY DEF FreedBy, Disposes, Disposable
<1>2. ~refs[w].gone
  BY <1>1 DEF Inv, Sound, GoneOK
<1>3. CASE n = w
  BY <1>1, <1>2, <1>3 DEF Inv, Sound, OwnAlive
<1>4. CASE n # w
  <2>1. w \in home[n] /\ HomeOK(n)
    BY <1>1, <1>4 DEF Inv, Sound
  <2>. QED
    BY <1>1, <1>2, <1>4, <2>1 DEF HomeOK
<1>. QED
  BY <1>3, <1>4

(* No wrapper reads what it keeps through, or what that has: only the      *)
(* modules and the layout that an engine detaches do.                      *)
LEMMA KeptReadNothing ==
  ASSUME Inv, NEW w \in Ids, NEW v \in refs[w].keeps, v # w, v \notin DetachedBy(w)
  PROVE  refs[v].needs \cap FreedBy(w) = {}
<1>. SUFFICES ASSUME NEW n \in refs[v].needs, n \in FreedBy(w) PROVE FALSE
  OBVIOUS
<1>1. v \in Ids
  BY DEF Inv, Typed
<1>2. refs[v].kind \in KeepKinds(refs[w].kind) /\ refs[w].kind \in Kinds
  <2>1. refs[w] \in Wrap
    BY DEF Inv, Typed, Ids
  <2>2. KindsOK(w)
    BY DEF Inv, Sound
  <2>. QED
    BY <2>1, <2>2 DEF KindsOK, Wrap
<1>3. n # v => refs[n].kind \in NeedKinds(refs[v].kind)
  BY <1>1 DEF Inv, Sound, KindsOK
<1>4. n = w => refs[w].kind \in NeedKinds(refs[v].kind) /\ refs[w].native
  BY <1>3, WhatIsFreed
<1>5. n = w => refs[w].kind \notin Borrowers
  BY <1>4 DEF Inv, Sound, KindsOK
<1>6. CASE n = w
  BY <1>2, <1>4, <1>5, <1>6 DEF KeepKinds, NeedKinds, Borrowers, Kinds, Values
<1>7. CASE n # w
  <2>1. w \in home[n] /\ refs[w].kind \in {"context", "engine"} /\ n \in Ids /\ Disposes(w)
    BY <1>7, WhatIsFreed DEF Disposes
  <2>2. refs[w].kind = "engine"
    BY <1>2, <2>1 DEF KeepKinds, Values
  <2>3. refs[v].kind = "cache"
    BY <1>2, <2>1, <2>2 DEF KeepKinds, Values, DetachedBy
  <2>4. refs[n].kind \in {"module", "machine", "layout"}
    BY <2>1 DEF Inv, Sound, HomeOK
  <2>. QED
    BY <1>3, <2>3, <2>4 DEF NeedKinds, Values
<1>. QED
  BY <1>6, <1>7

(* close() and the collector are allowed: the program is careful with what *)
(* it closes and with the engines it drops.  Nothing keeps what is         *)
(* collected.                                                              *)
Allowed(w) == Careful(w) \/ (refs[w].kind # "engine" /\ Collectable(w))

(* Nothing that can still be used reads what is then freed: a value keeps  *)
(* its module, and a module its context.                                   *)
LEMMA UsersAreSafe ==
  ASSUME Inv, NEW w \in Ids, Allowed(w),
         NEW v \in held \cup Kept, v # w, refs[v].open, v \notin DetachedBy(w)
  PROVE  refs[v].needs \cap FreedBy(w) = {}
<1>1. v \in Ids /\ ~refs[v].gone
  BY DEF Inv, Typed, Kept, Sound, GoneOK
<1>2. CASE v \in refs[w].keeps
  BY <1>2, KeptReadNothing
<1>3. CASE v \notin refs[w].keeps /\ Careful(w)
  BY <1>1, <1>3 DEF Careful
<1>4. CASE refs[w].kind # "engine" /\ Collectable(w)
  <2>. SUFFICES ASSUME NEW n \in refs[v].needs, n \in FreedBy(w) PROVE FALSE
    OBVIOUS
  <2>1. \A g \in Ids : w \notin refs[g].keeps
    BY <1>4 DEF Collectable, Kept
  <2>2. n # v => \/ n \in refs[v].keeps
                 \/ \E m \in refs[v].keeps : refs[m].kind = "module" /\ n \in refs[m].keeps
                 \/ /\ refs[n].kind = "object" /\ v \notin held
                    /\ \A g \in Ids : v \in refs[g].keeps => n \in refs[g].keeps
    BY <1>1 DEF Inv, Sound, Secure
  <2>3. n # v => n \in Kept
    BY <2>2 DEF Kept, Inv, Typed
  <2>4. n # w
    BY <1>4, <2>3 DEF Collectable
  <2>5. w \in home[n] /\ refs[w].kind = "context" /\ n \in Ids
    BY <1>4, <2>4, WhatIsFreed
  <2>6. ~refs[n].gone
    BY <2>3, <2>5 DEF Inv, Sound, GoneOK
  <2>7. w \in refs[n].keeps
    BY <2>5, <2>6 DEF Inv, Sound, HomeOK
  <2>. QED
    BY <2>1, <2>5, <2>7
<1>. QED
  BY <1>2, <1>3, <1>4 DEF Allowed

(* The wrapper that closing leaves: closed, with what it read and kept, or *)
(* collected, with nothing.                                                *)
LeftBy(w, r) ==
  /\ r \in Wrap /\ ~r.open
  /\ r.kind = refs[w].kind /\ r.item = refs[w].item
  /\ r.native = refs[w].native /\ r.owned = refs[w].owned
  /\ \/ r.gone = refs[w].gone /\ r.needs = refs[w].needs /\ r.keeps = KeptBy(w)
     \/ r.gone /\ r.needs = {} /\ r.keeps = {} /\ Collectable(w)

(* Closing and collecting leave the invariant.                             *)
LEMMA ClosingKeepsInv ==
  ASSUME Inv, NEW w \in Ids, Allowed(w), NEW r, LeftBy(w, r), CloseAs(w, r)
  PROVE  Inv'
<1>1. /\ refs' \in Seq(Wrap) /\ frees' \in Seq(Nat)
      /\ Len(refs') = Len(refs) /\ Len(frees') = Len(refs) /\ Ids' = Ids
      /\ refs'[w] = r
      /\ \A v \in Ids \ {w} :
            /\ refs'[v].kind = refs[v].kind /\ refs'[v].item = refs[v].item
            /\ refs'[v].needs = refs[v].needs /\ refs'[v].keeps = refs[v].keeps
            /\ refs'[v].native = refs[v].native /\ refs'[v].owned = refs[v].owned
            /\ refs'[v].gone = refs[v].gone
            /\ refs'[v].open <=> refs[v].open /\ v \notin DetachedBy(w)
      /\ \A n \in Ids : frees'[n] = IF n \in FreedBy(w) THEN frees[n] + 1 ELSE frees[n]
  BY ClosedValues DEF LeftBy
<1>2. UNCHANGED <<family, held, home>>
  BY DEF CloseAs
<1>3. /\ \A v \in Ids : /\ refs[v].needs \subseteq Ids /\ refs[v].keeps \subseteq Ids
                        /\ home[v] \subseteq Ids /\ frees[v] \in Nat
      /\ held \subseteq Ids
  BY DEF Inv, Typed, Ids
<1>4. /\ \A v \in Ids : /\ refs'[v].kind = refs[v].kind /\ refs'[v].item = refs[v].item
                        /\ refs'[v].native = refs[v].native /\ refs'[v].owned = refs[v].owned
                        /\ refs'[v].needs \subseteq refs[v].needs
                        /\ refs'[v].keeps \subseteq refs[v].keeps
                        /\ refs'[v].open => refs[v].open /\ v # w /\ v \notin DetachedBy(w)
                        /\ ~refs'[v].gone => refs'[v].needs = refs[v].needs /\ ~refs[v].gone
                        /\ refs'[v].gone => \/ refs[v].gone
                                            \/ Collectable(v) /\ refs'[v].needs = {}
                                               /\ refs'[v].keeps = {} /\ ~refs'[v].open
  BY <1>1 DEF LeftBy, KeptBy
<1>5. \A v \in Ids : \/ refs'[v].keeps = refs[v].keeps
                     \/ v = w /\ refs[v].kind = "engine"
                     \/ v = w /\ Collectable(v) /\ refs'[v].keeps = {} /\ refs'[v].gone
  BY <1>1 DEF LeftBy, KeptBy
<1>6. Kept' \subseteq Kept
  BY <1>1, <1>4 DEF Kept
<1>7. \A n \in FreedBy(w) :
         /\ refs[w].open /\ ~refs[w].owned /\ refs[w].native /\ ~refs[w].gone
         /\ n \in Ids /\ frees[n] = 0
         /\ n = w \/ (n # w /\ w \in home[n] /\ refs[w].kind \in {"context", "engine"})
  BY WhatIsFreed
<1>8. \A v \in DetachedBy(w) : v \in Ids /\ refs[v].kind \in {"module", "layout"}
                               /\ v \in FreedBy(w)
  <2>. SUFFICES ASSUME NEW v \in DetachedBy(w)
                PROVE  v \in Ids /\ refs[v].kind \in {"module", "layout"} /\ v \in FreedBy(w)
    OBVIOUS
  <2>1. /\ v \in refs[w].keeps /\ refs[v].kind \in {"module", "layout"}
        /\ refs[w].kind = "engine" /\ refs[w].open /\ ~refs[w].owned
    BY DEF DetachedBy, Disposes
  <2>2. home[v] = {w} /\ v \in Ids
    BY <1>3, <2>1 DEF Inv, Sound, EngineHas
  <2>3. refs[w].native
    BY <2>1 DEF Inv, Sound, KindsOK, Borrowers, Values
  <2>. QED
    BY <2>1, <2>2, <2>3 DEF FreedBy, Disposes, Disposable
<1>9. \A n \in Ids : frees'[n] = 0 <=> frees[n] = 0 /\ n \notin FreedBy(w)
  BY <1>1, <1>3
<1>10. \A v \in Ids : KindsOK(v) /\ GoneOK(v) /\ NeedsItself(v) /\ Secure(v) /\ HomeOK(v)
                      /\ EngineHas(v) /\ OwnedHasHome(v) /\ OwnAlive(v) /\ DroppedWithCare(v)
  BY DEF Inv, Sound
<1>11. Typed'
  BY <1>1, <1>2, <1>4 DEF Inv, Typed
<1>12. \A v \in Ids : KindsOK(v)'
  BY <1>3, <1>4, <1>10 DEF KindsOK
<1>13. \A v \in Ids : GoneOK(v)'
  BY <1>2, <1>4, <1>6, <1>10 DEF GoneOK, Collectable
<1>14. \A v \in Ids : NeedsItself(v)'
  BY <1>4, <1>10 DEF NeedsItself
<1>15. ASSUME NEW v \in Ids PROVE Secure(v)'
  <2>. SUFFICES ASSUME refs'[v].open, NEW n \in refs'[v].needs \ {v}
                PROVE  \/ n \in refs'[v].keeps
                       \/ \E m \in refs'[v].keeps : refs'[m].kind = "module" /\ n \in refs'[m].keeps
                       \/ /\ refs'[n].kind = "object" /\ refs'[v].kind = "iterator" /\ v \notin held'
                          /\ \A g \in Ids' : v \in refs'[g].keeps => n \in refs'[g].keeps
    BY DEF Secure
  <2>1. /\ v # w /\ refs[v].open /\ n \in refs[v].needs \ {v}
        /\ refs'[v].keeps = refs[v].keeps /\ n \in Ids
    BY <1>1, <1>3, <1>4, <1>15
  <2>2. CASE n \in refs[v].keeps
    BY <2>1, <2>2
  <2>3. ASSUME NEW m \in refs[v].keeps, refs[m].kind = "module", n \in refs[m].keeps
        PROVE  refs'[m].kind = "module" /\ n \in refs'[m].keeps
    <3>1. m \in Ids /\ ~Collectable(m)
      BY <1>3, <2>3 DEF Collectable, Kept
    <3>. QED
      BY <1>4, <1>5, <2>3, <3>1
  <2>4. ASSUME refs[n].kind = "object", refs[v].kind = "iterator", v \notin held,
               \A g \in Ids : v \in refs[g].keeps => n \in refs[g].keeps
        PROVE  /\ refs'[n].kind = "object" /\ refs'[v].kind = "iterator" /\ v \notin held'
               /\ \A g \in Ids' : v \in refs'[g].keeps => n \in refs'[g].keeps
    <3>1. \A g \in Ids : v \in refs[g].keeps => refs[g].kind # "engine"
      BY <1>10, <2>4 DEF KindsOK, KeepKinds
    <3>. QED
      BY <1>1, <1>2, <1>4, <1>5, <1>15, <2>1, <2>4, <3>1
  <2>. QED
    BY <1>10, <2>1, <2>2, <2>3, <2>4 DEF Secure
<1>16. ASSUME NEW n \in Ids PROVE HomeOK(n)'
  <2>1. home'[n] = home[n] /\ \A h \in home[n] : h \in Ids
    BY <1>2, <1>3, <1>16
  <2>2. HomeOK(n)
    BY <1>10, <1>16
  <2>3. ASSUME NEW h \in home[n], refs[h].kind = "context", refs[n].kind = "module"
        PROVE  ~refs'[n].gone => ~refs[n].gone /\ refs'[n].keeps = refs[n].keeps
    BY <1>4, <1>5, <1>16, <2>3
  <2>4. ASSUME NEW h \in home[n], refs[h].kind = "engine", refs'[h].open,
               refs[n].owned, frees[n] = 0
        PROVE  frees'[n] = 0
    BY <1>4, <1>7, <1>9, <1>16, <2>1, <2>2, <2>4 DEF HomeOK
  <2>. QED
    BY <1>4, <2>1, <2>2, <2>3, <2>4 DEF HomeOK
<1>17. ASSUME NEW e \in Ids PROVE EngineHas(e)'
  <2>. SUFFICES ASSUME refs'[e].kind = "engine", refs'[e].open, NEW v \in refs'[e].keeps,
                       refs'[v].kind \in {"module", "layout"}
                PROVE  home'[v] = {e}
    BY DEF EngineHas
  <2>1. refs[e].kind = "engine" /\ refs[e].open /\ v \in refs[e].keeps /\ v \in Ids
    BY <1>3, <1>4, <1>17
  <2>2. refs[v].kind \in {"module", "layout"}
    BY <1>4, <2>1
  <2>. QED
    BY <1>2, <1>10, <1>17, <2>1, <2>2 DEF EngineHas
<1>18. ASSUME NEW n \in Ids PROVE OwnedHasHome(n)'
  <2>. SUFFICES ASSUME refs'[n].owned, frees'[n] = 0
                PROVE  \E e \in home[n] : refs'[e].kind = "engine" /\ refs'[e].open
    BY <1>2 DEF OwnedHasHome
  <2>1. PICK e \in home[n] : refs[e].kind = "engine" /\ refs[e].open
    BY <1>4, <1>9, <1>10, <1>18 DEF OwnedHasHome
  <2>2. e \in Ids
    BY <1>3, <1>18
  <2>3. e \notin DetachedBy(w)
    BY <1>8, <2>1
  <2>4. e # w
    <3>1. ~refs[e].owned /\ refs[e].native
      BY <1>10, <2>1, <2>2 DEF KindsOK, Borrowers, Values
    <3>. QED
      BY <1>9, <2>1, <3>1 DEF FreedBy, Disposes, Disposable
  <2>. QED
    BY <1>1, <2>1, <2>2, <2>3, <2>4
<1>19. ASSUME NEW n \in Ids, refs'[n].native, refs'[n].open PROVE frees'[n] = 0
  <2>1. /\ n # w /\ n \notin DetachedBy(w) /\ refs[n].open /\ refs[n].native
        /\ frees[n] = 0 /\ ~refs[n].gone /\ n \in refs[n].needs
    BY <1>4, <1>10, <1>19 DEF OwnAlive, GoneOK, NeedsItself
  <2>2. SUFFICES n \in FreedBy(w) => FALSE
    BY <1>9, <1>19, <2>1
  <2>. HAVE n \in FreedBy(w)
  <2>3. /\ w \in home[n] /\ refs[w].kind \in {"context", "engine"}
        /\ refs[w].open /\ refs[w].native /\ ~refs[w].owned /\ ~refs[w].gone
    BY <1>7, <2>1
  <2>4. CASE n \in refs[w].keeps
    <3>1. refs[n].needs \cap FreedBy(w) = {}
      BY <2>1, <2>4, KeptReadNothing
    <3>. QED
      BY <2>1, <3>1
  <2>5. CASE n \notin refs[w].keeps /\ Careful(w)
    BY <2>1, <2>5 DEF Careful
  <2>6. CASE refs[w].kind = "context" /\ Collectable(w)
    BY <1>10, <2>1, <2>3, <2>6 DEF HomeOK, Collectable, Kept
  <2>. QED
    BY <2>3, <2>4, <2>5, <2>6 DEF Allowed
<1>20. ASSUME NEW e \in Ids PROVE DroppedWithCare(e)'
  <2>. SUFFICES ASSUME refs'[e].kind = "engine", ~refs'[e].gone, e \notin held'
                PROVE  Careful(e)'
    BY DEF DroppedWithCare
  <2>1. Careful(e) /\ refs[e].kind = "engine"
    BY <1>2, <1>4, <1>10, <1>20 DEF DroppedWithCare
  <2>2. FreedBy(e)' \subseteq FreedBy(e)
    BY <1>1, <1>2, <1>4, <2>1, <1>20 DEF FreedBy, Disposes, Disposable
  <2>3. CASE e = w
    BY <1>4, <2>3 DEF Careful, FreedBy, Disposes
  <2>4. CASE e # w
    BY <1>1, <1>4, <1>20, <2>1, <2>2, <2>4 DEF Careful
  <2>. QED
    BY <2>3, <2>4
<1>21. NoDangling'
  <2>. SUFFICES ASSUME NEW v \in (held \cup Kept)', refs'[v].open, NEW n \in refs'[v].needs
                PROVE  frees'[n] = 0
    BY DEF NoDangling
  <2>1. v \in held \cup Kept /\ v \in Ids
    BY <1>2, <1>3, <1>6 DEF Kept
  <2>2. v # w /\ v \notin DetachedBy(w) /\ refs[v].open /\ n \in refs[v].needs /\ n \in Ids
    BY <1>3, <1>4, <2>1
  <2>3. frees[n] = 0
    BY <2>1, <2>2 DEF Inv, NoDangling
  <2>4. refs[v].needs \cap FreedBy(w) = {}
    BY <2>1, <2>2, UsersAreSafe
  <2>. QED
    BY <1>9, <2>2, <2>3, <2>4
<1>22. FreedOnce'
  BY <1>1, <1>7 DEF Inv, FreedOnce
<1>23. NothingLeaked'
  <2>. SUFFICES ASSUME NEW n \in Ids, refs[n].native, refs[n].kind # "manager",
                       frees[n] = 0, n \notin FreedBy(w)
                PROVE  Answers(n)' \/ \E h \in home[n] : Answers(h)'
    BY <1>1, <1>2, <1>4, <1>9 DEF NothingLeaked
  <2>1. \A v \in Ids : Answers(v) /\ v # w /\ v \notin DetachedBy(w) => Answers(v)'
    BY <1>1 DEF Answers
  <2>2. CASE Answers(n) /\ n # w
    BY <1>8, <2>1, <2>2
  <2>3. CASE Answers(n) /\ n = w
    <3>1. refs[n].owned
      BY <2>3 DEF Answers, FreedBy, Disposes, Disposable
    <3>2. PICK e \in home[n] : refs[e].kind = "engine" /\ refs[e].open
      BY <1>10, <3>1 DEF OwnedHasHome
    <3>3. e \in Ids /\ Answers(e) /\ ~refs[e].owned
      BY <1>3, <1>10, <3>2 DEF Answers, GoneOK, KindsOK
    <3>. QED
      BY <1>8, <2>1, <2>3, <3>1, <3>2, <3>3
  <2>4. ASSUME NEW h \in home[n], Answers(h) PROVE Answers(h)'
    <3>1. h \in Ids /\ refs[h].kind \in {"context", "engine"}
      BY <1>3, <1>10 DEF HomeOK
    <3>2. refs[h].native /\ ~refs[h].owned
      BY <1>10, <3>1 DEF KindsOK, Borrowers, Values
    <3>3. h # w
      BY <2>4, <3>1, <3>2 DEF Answers, FreedBy, Disposes, Disposable
    <3>. QED
      BY <1>8, <2>1, <2>4, <3>1, <3>3
  <2>. QED
    BY <2>2, <2>3, <2>4 DEF Inv, NothingLeaked
<1>. QED
  BY ONLY <1>1, <1>11, <1>12, <1>13, <1>14, <1>15, <1>16, <1>17, <1>18, <1>19, <1>20, <1>21,
     <1>22, <1>23 DEF Inv, Sound, OwnAlive

(* close() of a wrapper in use.                                            *)
LEMMA CloseStep ==
  ASSUME Inv, NEW w \in Ids, Close(w)
  PROVE  Inv'
<1>. DEFINE r == [refs[w] EXCEPT !.open = FALSE, !.keeps = KeptBy(w)]
<1>1. refs[w] \in Wrap /\ KeptBy(w) \in SUBSET Nat
  <2>1. refs[w] \in Wrap
    BY DEF Inv, Typed, Ids
  <2>. QED
    BY <2>1 DEF KeptBy, Wrap
<1>2. LeftBy(w, r)
  BY <1>1 DEF LeftBy, Wrap
<1>3. Allowed(w) /\ CloseAs(w, r)
  BY DEF Close, Allowed
<1>. HIDE DEF r
<1>. QED
  BY <1>2, <1>3, ClosingKeepsInv

(* The collection of a wrapper that nothing refers to; an engine was       *)
(* dropped with care.                                                      *)
LEMMA CollectStep ==
  ASSUME Inv, NEW w \in Ids, Collect(w)
  PROVE  Inv'
<1>. DEFINE r == [refs[w] EXCEPT !.open = FALSE, !.keeps = {}, !.needs = {}, !.gone = TRUE]
<1>1. refs[w] \in Wrap
  BY DEF Inv, Typed, Ids
<1>2. LeftBy(w, r)
  BY <1>1 DEF LeftBy, Wrap, Collect
<1>3. Allowed(w) /\ CloseAs(w, r)
  BY DEF Collect, Collectable, Allowed, Inv, Sound, DroppedWithCare
<1>. HIDE DEF r
<1>. QED
  BY <1>2, <1>3, ClosingKeepsInv

(* The program drops a wrapper, an engine with care.                       *)
LEMMA DropStep ==
  ASSUME Inv, NEW w \in Ids, Drop(w)
  PROVE  Inv'
<1>. USE DEF Drop
<1>1. Ids' = Ids /\ Kept' = Kept /\ held' \subseteq held
  BY DEF Ids, Kept
<1>2. \A v \in Ids : Careful(v)' <=> Careful(v)
  BY <1>1 DEF Careful, FreedBy, Disposes, Disposable
<1>3. ASSUME NEW v \in Ids PROVE Sound(v)'
  <2>1. DroppedWithCare(v)'
    BY <1>2, <1>3 DEF Inv, Sound, DroppedWithCare
  <2>2. Secure(v)'
    BY <1>1 DEF Inv, Sound, Secure
  <2>3. GoneOK(v)'
    BY <1>1 DEF Inv, Sound, GoneOK
  <2>4. /\ KindsOK(v)' /\ NeedsItself(v)' /\ HomeOK(v)' /\ EngineHas(v)'
        /\ OwnedHasHome(v)' /\ OwnAlive(v)'
    BY DEF Inv, Sound, KindsOK, NeedsItself, HomeOK, EngineHas, OwnedHasHome,
       OwnAlive
  <2>. QED
    BY <2>1, <2>2, <2>3, <2>4 DEF Sound
<1>4. Typed'
  BY <1>1 DEF Inv, Typed
<1>5. NoDangling' /\ FreedOnce' /\ NothingLeaked'
  BY <1>1 DEF Inv, NoDangling, FreedOnce, NothingLeaked, Answers
<1>. QED
  BY <1>1, <1>3, <1>4, <1>5 DEF Inv

-----------------------------------------------------------------------------
(* Operations that add one wrapper *)

(* What is known of a wrapper that the program uses.                       *)
LEMMA HeldFacts ==
  ASSUME Inv, NEW w \in Ids, Held(w)
  PROVE  /\ refs[w] \in Wrap /\ ~refs[w].gone
         /\ refs[w].needs \subseteq Ids /\ refs[w].keeps \subseteq Ids
         /\ \A n \in refs[w].needs : frees[n] = 0
         /\ \A v \in refs[w].keeps : ~refs[v].gone
         /\ refs[w].native => w \in refs[w].needs /\ frees[w] = 0
         /\ Next1 \notin Ids
  BY DEF Inv, Typed, Ids, Held, Sound, GoneOK, NoDangling, NeedsItself, Kept,
     Next1

(* The native object of a context, machine, layout, options, manager or    *)
(* object file stands alone.                                               *)
LEMMA CreateStep ==
  ASSUME Inv, Quiet,
         NEW k \in {"context", "machine", "layout", "tuning", "manager", "object"},
         Give(Owner(Next1, k, {}, {}), {})
  PROVE  Inv'
<1>1. Next1 \in Nat
  BY DEF Typed, Next1
<1>2. MayJoin(Owner(Next1, k, {}, {}), {})
  BY <1>1 DEF MayJoin, Owner, Wrapper, Wrap, Kinds, Names, Borrowers, Values
<1>. QED
  BY <1>2, JoinKeepsInv DEF Give

(* A parsed module, of a private context or of the global one.             *)
LEMMA ParseStep ==
  ASSUME Inv, Quiet, NEW c \in {{}} \cup {{w} : w \in held}, Parse(c)
  PROVE  Inv'
<1>1. Next1 \in Nat /\ Next1 \notin Ids /\ held \subseteq Ids
  BY DEF Inv, Typed, Next1, Ids
<1>2. \A w \in c : w \in Ids /\ w \in Nat /\ Held(w) /\ refs[w].kind = "context"
  BY <1>1 DEF Parse, At, Ids
<1>3. \A w \in c : ~refs[w].gone /\ (refs[w].native => frees[w] = 0)
  BY <1>2, HeldFacts
<1>4. \A w \in c : frees[w] = 0
  BY <1>2, <1>3 DEF Inv, Sound, KindsOK, Borrowers, Values
<1>5. \A g, h \in c : g = h
  OBVIOUS
<1>. DEFINE r == Owner(Next1, "module", c, c)
<1>6. r.kind = "module" /\ r.needs = c \cup {Next1} /\ r.keeps = c /\ r.open /\ ~r.gone
      /\ ~r.owned /\ r.native
  BY DEF Owner, Wrapper
<1>7. r \in Wrap
  BY <1>1, <1>2 DEF Owner, Wrapper, Wrap, Kinds, Names
<1>8. Give(r, c)
  BY DEF Parse
<1>. HIDE DEF r
<1>9. MayJoin(r, c)
  BY <1>2, <1>3, <1>4, <1>5, <1>6, <1>7 DEF MayJoin, Borrowers, Values,
     KeepKinds, NeedKinds
<1>. QED
  BY <1>8, <1>9, JoinKeepsInv DEF Give

(* A clone keeps the context of the module.                                *)
LEMMA CloneStep ==
  ASSUME Inv, Quiet, NEW m \in Ids, Clone(m)
  PROVE  Inv'
<1>1. Held(m) /\ refs[m].kind = "module"
  BY DEF Clone, At
<1>2. /\ refs[m] \in Wrap /\ ~refs[m].gone
      /\ refs[m].needs \subseteq Ids /\ refs[m].keeps \subseteq Ids
      /\ \A n \in refs[m].needs : frees[n] = 0
      /\ \A v \in refs[m].keeps : ~refs[v].gone
      /\ Next1 \notin Ids
  BY <1>1, HeldFacts
<1>3. Next1 \in Nat /\ Ids \subseteq Nat
  BY DEF Typed, Next1, Ids
<1>4. KindsOK(m) /\ Secure(m)
  BY DEF Inv, Sound
<1>5. /\ \A v \in refs[m].keeps : refs[v].kind = "context"
      /\ \A n \in ContextOf(m) : refs[n].kind = "context"
      /\ \A g, h \in ContextOf(m) : g = h
  <2>1. KeepKinds("module") = {"context"} /\ NeedKinds("module") = {"context"}
    BY DEF KeepKinds, NeedKinds, Values
  <2>. QED
    BY <1>1, <1>4, <2>1 DEF KindsOK, ContextOf
<1>6. ContextOf(m) \subseteq refs[m].keeps
  BY <1>1, <1>4, <1>5 DEF Secure, ContextOf, Held
<1>. DEFINE r == Owner(Next1, "module", ContextOf(m), refs[m].keeps)
<1>7. r.kind = "module" /\ r.needs = ContextOf(m) \cup {Next1} /\ r.keeps = refs[m].keeps
      /\ r.open /\ ~r.gone /\ ~r.owned /\ r.native
  BY DEF Owner, Wrapper
<1>8. r \in Wrap
  BY <1>2, <1>3 DEF Owner, Wrapper, Wrap, Kinds, Names, ContextOf
<1>9. Give(r, ContextOf(m))
  BY DEF Clone
<1>10. ContextOf(m) \subseteq refs[m].needs
  BY DEF ContextOf
<1>. HIDE DEF r
<1>11. MayJoin(r, ContextOf(m))
  BY <1>2, <1>3, <1>5, <1>6, <1>7, <1>8, <1>10 DEF MayJoin, Borrowers, Values,
     KeepKinds, NeedKinds
<1>. QED
  BY <1>9, <1>11, JoinKeepsInv DEF Give

(* A function or a global of a module keeps the module, which keeps the    *)
(* context.                                                                *)
LEMMA GetNamedStep ==
  ASSUME Inv, Quiet, NEW m \in Ids, NEW k \in {"function", "global"}, GetNamed(m, k)
  PROVE  Inv'
<1>1. Held(m) /\ refs[m].kind = "module"
  BY DEF GetNamed, At
<1>2. /\ refs[m] \in Wrap /\ ~refs[m].gone
      /\ refs[m].needs \subseteq Ids /\ refs[m].keeps \subseteq Ids
      /\ \A n \in refs[m].needs : frees[n] = 0
      /\ Next1 \notin Ids
  BY <1>1, HeldFacts
<1>3. Next1 \in Nat /\ Ids \subseteq Nat
  BY DEF Typed, Next1, Ids
<1>4. KindsOK(m) /\ Secure(m)
  BY DEF Inv, Sound
<1>5. KeepKinds("module") = {"context"} /\ NeedKinds("module") = {"context"}
  BY DEF KeepKinds, NeedKinds, Values
<1>6. \A n \in refs[m].needs \ {m} : refs[n].kind = "context"
  BY <1>1, <1>4, <1>5 DEF KindsOK
<1>7. \A v \in refs[m].keeps : refs[v].kind = "context"
  BY <1>1, <1>4, <1>5 DEF KindsOK
<1>8. \A n \in refs[m].needs : n = m \/ n \in refs[m].keeps
  BY <1>1, <1>4, <1>6, <1>7 DEF Secure, Held
<1>9. KeepKinds(k) = Values \cup {"module"} /\ NeedKinds(k) = {"module", "context"}
  BY DEF KeepKinds, NeedKinds, Values
<1>. DEFINE r == Wrapper(k, refs[m].needs, {m})
<1>10. r.kind = k /\ r.needs = refs[m].needs /\ r.keeps = {m}
       /\ r.open /\ ~r.gone /\ ~r.owned /\ ~r.native
  BY DEF Wrapper
<1>11. r \in Wrap
  BY <1>2, <1>3 DEF Wrapper, Wrap, Kinds, Names, Values
<1>12. Give(r, {})
  BY DEF GetNamed
<1>. HIDE DEF r
<1>13. MayJoin(r, {})
  BY <1>1, <1>2, <1>6, <1>8, <1>9, <1>10, <1>11 DEF MayJoin, Borrowers, Values
<1>. QED
  BY <1>12, <1>13, JoinKeepsInv DEF Give

(* A type belongs to the context and its wrapper keeps nothing.            *)
LEMMA TypeJoins ==
  ASSUME Inv, Quiet, Give(Wrapper("type", {}, {}), {})
  PROVE  Inv'
<1>1. MayJoin(Wrapper("type", {}, {}), {})
  BY DEF MayJoin, Wrapper, Wrap, Kinds, Names, Borrowers, Values
<1>. QED
  BY <1>1, JoinKeepsInv DEF Give

(* What a value or a module hands on: its module and its context, which    *)
(* it keeps, or its module does.                                           *)
LEMMA HandedOn ==
  ASSUME Inv, NEW w \in Ids, Held(w), refs[w].kind \in Values \cup {"module", "iterator"}
  PROVE  /\ \A v \in refs[w].keeps : refs[v].kind \in Values \cup {"module", "context"}
         /\ refs[w].kind # "module" => \A v \in refs[w].keeps : refs[v].kind # "context"
         /\ \A n \in refs[w].needs \ {w} :
               /\ refs[n].kind \in {"module", "context"}
               /\ \/ n \in refs[w].keeps
                  \/ \E m \in refs[w].keeps : refs[m].kind = "module" /\ n \in refs[m].keeps
         /\ refs[w].kind \in Values => w \notin refs[w].needs
<1>1. KindsOK(w) /\ Secure(w)
  BY DEF Inv, Sound
<1>2. /\ KeepKinds("module") = {"context"} /\ NeedKinds("module") = {"context"}
      /\ KeepKinds("iterator") = Values \cup {"module"}
      /\ NeedKinds("iterator") = {"module", "context", "object"}
      /\ \A k \in Values : /\ KeepKinds(k) = Values \cup {"module"}
                           /\ NeedKinds(k) = {"module", "context"}
  BY DEF KeepKinds, NeedKinds, Values
<1>3. \A v \in refs[w].keeps : refs[v].kind \in Values \cup {"module", "context"}
  BY <1>1, <1>2 DEF KindsOK
<1>4. refs[w].kind # "module" => \A v \in refs[w].keeps : refs[v].kind # "context"
  BY <1>1, <1>2 DEF KindsOK, Values
<1>5. ASSUME NEW n \in refs[w].needs \ {w}
      PROVE  /\ refs[n].kind \in {"module", "context"}
             /\ \/ n \in refs[w].keeps
                \/ \E m \in refs[w].keeps : refs[m].kind = "module" /\ n \in refs[m].keeps
  <2>1. refs[n].kind \in {"module", "context", "object"}
    BY <1>1, <1>2 DEF KindsOK
  <2>2. \/ n \in refs[w].keeps
        \/ \E m \in refs[w].keeps : refs[m].kind = "module" /\ n \in refs[m].keeps
    BY <1>1 DEF Secure, Held
  <2>3. refs[n].kind # "object"
    <3>1. \A v \in Ids : refs[v].kind = "module" =>
              \A p \in refs[v].keeps : refs[p].kind = "context"
      BY <1>2 DEF Inv, Sound, KindsOK
    <3>2. refs[w].keeps \subseteq Ids
      BY HeldFacts
    <3>. QED
      BY <1>3, <2>2, <3>1, <3>2 DEF Values
  <2>. QED
    BY <2>1, <2>2, <2>3
<1>6. refs[w].kind \in Values => w \notin refs[w].needs
  BY <1>1 DEF KindsOK, Borrowers
<1>. QED
  BY <1>3, <1>4, <1>5, <1>6

(* An iterator keeps what it iterates over and its parents; one over types *)
(* or attributes keeps nothing.                                            *)
LEMMA IterateStep ==
  ASSUME Inv, Quiet, NEW w \in Ids, NEW item \in Items[refs[w].kind], Iterate(w, item)
  PROVE  Inv'
<1>1. Held(w)
  BY DEF Iterate
<1>2. /\ refs[w] \in Wrap /\ ~refs[w].gone
      /\ refs[w].needs \subseteq Ids /\ refs[w].keeps \subseteq Ids
      /\ \A n \in refs[w].needs : frees[n] = 0
      /\ \A v \in refs[w].keeps : ~refs[v].gone
      /\ Next1 \notin Ids
  BY <1>1, HeldFacts
<1>3. Next1 \in Nat /\ Ids \subseteq Nat
  BY DEF Typed, Next1, Ids
<1>4. refs[w].kind \in Kinds
  BY <1>2 DEF Wrap
<1>5. item \in Values \cup {"type", "attribute"}
  BY <1>4 DEF Items, Values, Kinds
<1>6. refs[w].kind \in Values \cup {"module", "type"}
  BY <1>4 DEF Items, Values, Kinds
<1>7. KeepKinds("iterator") = Values \cup {"module"}
      /\ NeedKinds("iterator") = {"module", "context", "object"}
  BY DEF KeepKinds, NeedKinds, Values
<1>8. CASE KeepsNothing(w, item)
  <2>. DEFINE r == [Owner(Next1, "iterator", {}, {}) EXCEPT !.item = item]
  <2>1. MayJoin(r, {})
    BY <1>3, <1>5 DEF MayJoin, Owner, Wrapper, Wrap, Kinds, Names, Borrowers,
       Values
  <2>2. Give(r, {})
    BY <1>8 DEF Iterate
  <2>. HIDE DEF r
  <2>. QED
    BY <2>1, <2>2, JoinKeepsInv DEF Give
<1>9. CASE ~KeepsNothing(w, item)
  <2>1. refs[w].kind \in Values \cup {"module"}
    BY <1>6, <1>9 DEF KeepsNothing
  <2>2. /\ \A v \in refs[w].keeps : refs[v].kind \in Values \cup {"module", "context"}
        /\ refs[w].kind # "module" => \A v \in refs[w].keeps : refs[v].kind # "context"
        /\ \A n \in refs[w].needs \ {w} :
              /\ refs[n].kind \in {"module", "context"}
              /\ \/ n \in refs[w].keeps
                 \/ \E m \in refs[w].keeps : refs[m].kind = "module" /\ n \in refs[m].keeps
        /\ refs[w].kind \in Values => w \notin refs[w].needs
    BY <1>1, <2>1, HandedOn
  <2>3. \A v \in Parents(w) : v \in Ids /\ ~refs[v].gone /\ refs[v].kind \in Values \cup {"module"}
    BY <1>2, <2>1, <2>2 DEF Parents
  <2>4. ASSUME NEW n \in refs[w].needs
        PROVE  /\ refs[n].kind \in {"module", "context"}
               /\ \/ n \in Parents(w)
                  \/ \E m \in Parents(w) : refs[m].kind = "module" /\ n \in refs[m].keeps
    <3>1. CASE refs[w].kind = "module"
      <4>1. w \in Parents(w)
        BY <3>1 DEF Parents
      <4>2. CASE n = w
        BY <3>1, <4>1, <4>2
      <4>3. CASE n # w
        <5>1. \A m \in refs[w].keeps : refs[m].kind # "module"
          BY <3>1 DEF Inv, Sound, KindsOK, KeepKinds, Values
        <5>2. n \in refs[w].keeps
          BY <2>2, <4>3, <5>1
        <5>. QED
          BY <2>2, <3>1, <4>1, <4>3, <5>2
      <4>. QED
        BY <4>2, <4>3
    <3>2. CASE refs[w].kind \in Values
      <4>1. n # w /\ refs[w].kind \notin {"module", "context"}
        BY <2>2, <3>2 DEF Values
      <4>2. \A p \in refs[w].keeps : refs[p].kind \in {"module", "context"} => p \in Parents(w)
        BY <4>1 DEF Parents
      <4>. QED
        BY <2>2, <4>1, <4>2
    <3>. QED
      BY <2>1, <3>1, <3>2
  <2>. DEFINE r == [Owner(Next1, "iterator", refs[w].needs, Parents(w)) EXCEPT !.item = item]
  <2>5. r.kind = "iterator" /\ r.needs = refs[w].needs \cup {Next1} /\ r.keeps = Parents(w)
        /\ r.open /\ ~r.gone /\ ~r.owned /\ r.native /\ r.item = item
    BY DEF Owner, Wrapper
  <2>6. r \in Wrap
    BY <1>2, <1>3, <1>5, <2>3 DEF Owner, Wrapper, Wrap, Kinds, Names, Values
  <2>7. Give(r, {})
    BY <1>9 DEF Iterate
  <2>. HIDE DEF r
  <2>8. MayJoin(r, {})
    BY <1>2, <1>5, <1>7, <2>3, <2>4, <2>5, <2>6 DEF MayJoin, Borrowers, Values
  <2>. QED
    BY <2>7, <2>8, JoinKeepsInv DEF Give
<1>. QED
  BY <1>8, <1>9

(* An item keeps the parents that its iterator keeps.                      *)
LEMMA NextItemStep ==
  ASSUME Inv, Quiet, NEW i \in Ids, NextItem(i)
  PROVE  Inv'
<1>1. Held(i) /\ refs[i].kind = "iterator"
  BY DEF NextItem, At
<1>2. /\ refs[i] \in Wrap /\ ~refs[i].gone
      /\ refs[i].needs \subseteq Ids /\ refs[i].keeps \subseteq Ids
      /\ \A n \in refs[i].needs : frees[n] = 0
      /\ \A v \in refs[i].keeps : ~refs[v].gone
      /\ Next1 \notin Ids
  BY <1>1, HeldFacts
<1>3. refs[i].item \in Values \cup {"type"}
  <2>1. refs[i].item \in Values \cup {"type", "attribute", "none"}
    BY <1>1 DEF Inv, Sound, KindsOK
  <2>2. refs[i].item \in Kinds \cup {"attribute"}
    BY HandlesAssumption DEF NextItem, Room, Inv, Typed
  <2>. QED
    BY <2>1, <2>2 DEF NextItem, Kinds, Values
<1>4. CASE refs[i].item = "type"
  BY <1>4, TypeJoins DEF NextItem
<1>5. CASE refs[i].item # "type"
  <2>. DEFINE k == refs[i].item
  <2>1. k \in Values /\ KeepKinds(k) = Values \cup {"module"} /\ NeedKinds(k) = {"module", "context"}
    BY <1>3, <1>5 DEF KeepKinds, NeedKinds, Values
  <2>2. /\ \A v \in refs[i].keeps : refs[v].kind \in Values \cup {"module", "context"}
        /\ \A v \in refs[i].keeps : refs[v].kind # "context"
        /\ \A n \in refs[i].needs \ {i} :
              /\ refs[n].kind \in {"module", "context"}
              /\ \/ n \in refs[i].keeps
                 \/ \E m \in refs[i].keeps : refs[m].kind = "module" /\ n \in refs[m].keeps
    <3>1. refs[i].kind # "module" /\ refs[i].kind \in Values \cup {"module", "iterator"}
      BY <1>1
    <3>. QED
      BY <1>1, <3>1, HandedOn
  <2>. DEFINE r == Wrapper(k, refs[i].needs \ {i}, refs[i].keeps)
  <2>3. r.kind = k /\ r.needs = refs[i].needs \ {i} /\ r.keeps = refs[i].keeps
        /\ r.open /\ ~r.gone /\ ~r.owned /\ ~r.native
    BY DEF Wrapper
  <2>4. r \in Wrap
    BY <1>2, <2>1 DEF Wrapper, Wrap, Kinds, Names
  <2>5. Give(r, {})
    BY <1>5 DEF NextItem
  <2>. HIDE DEF r, k
  <2>6. MayJoin(r, {})
    BY <1>2, <2>1, <2>2, <2>3, <2>4 DEF MayJoin, Borrowers, Values
  <2>. QED
    BY <2>5, <2>6, JoinKeepsInv DEF Give
<1>. QED
  BY <1>4, <1>5

(* A pass builder keeps the target machine and the tuning options.         *)
LEMMA CreateBuilderStep ==
  ASSUME Inv, Quiet, NEW t \in Ids, NEW p \in Ids, CreateBuilder(t, p)
  PROVE  Inv'
<1>1. Held(t) /\ refs[t].kind = "machine" /\ Held(p) /\ refs[p].kind = "tuning"
  BY DEF CreateBuilder, At
<1>2. /\ refs[t] \in Wrap /\ ~refs[t].gone /\ ~refs[p].gone
      /\ \A n \in refs[t].needs : frees[n] = 0
      /\ refs[t].needs \subseteq Ids
      /\ Next1 \notin Ids
  BY <1>1, HeldFacts
<1>3. Next1 \in Nat /\ Ids \subseteq Nat
  BY DEF Typed, Next1, Ids
<1>4. /\ NeedKinds("machine") = {} /\ NeedKinds("builder") = {"machine", "timing"}
      /\ KeepKinds("builder") = {"machine", "tuning", "timing"}
  BY DEF KeepKinds, NeedKinds, Values
<1>5. \A n \in refs[t].needs : n = t
  BY <1>1, <1>4 DEF Inv, Sound, KindsOK
<1>. DEFINE r == Owner(Next1, "builder", refs[t].needs, {t, p})
<1>6. r.kind = "builder" /\ r.needs = refs[t].needs \cup {Next1} /\ r.keeps = {t, p}
      /\ r.open /\ ~r.gone /\ ~r.owned /\ r.native
  BY DEF Owner, Wrapper
<1>7. r \in Wrap
  BY <1>2, <1>3 DEF Owner, Wrapper, Wrap, Kinds, Names
<1>8. Give(r, {})
  BY DEF CreateBuilder
<1>. HIDE DEF r
<1>9. MayJoin(r, {})
  BY <1>1, <1>2, <1>4, <1>5, <1>6, <1>7 DEF MayJoin, Borrowers, Values
<1>. QED
  BY <1>8, <1>9, JoinKeepsInv DEF Give

-----------------------------------------------------------------------------
(* Engines and their modules *)

(* Two wrappers that change places with ra and rb.                         *)
LEMMA TwoReplaced ==
  ASSUME NEW s \in Seq(Wrap), NEW a \in 1..Len(s), NEW b \in 1..Len(s), a # b,
         NEW ra \in Wrap, NEW rb \in Wrap
  PROVE  /\ [s EXCEPT ![a] = ra, ![b] = rb] \in Seq(Wrap)
         /\ Len([s EXCEPT ![a] = ra, ![b] = rb]) = Len(s)
         /\ \A v \in 1..Len(s) : [s EXCEPT ![a] = ra, ![b] = rb][v]
                                   = IF v = a THEN ra ELSE IF v = b THEN rb ELSE s[v]
<1>. DEFINE mid == [s EXCEPT ![a] = ra]
<1>1. mid \in Seq(Wrap) /\ Len(mid) = Len(s)
      /\ \A v \in 1..Len(s) : mid[v] = IF v = a THEN ra ELSE s[v]
  BY ExceptSeq
<1>2. [s EXCEPT ![a] = ra, ![b] = rb] = [mid EXCEPT ![b] = rb]
  OBVIOUS
<1>. HIDE DEF mid
<1>3. /\ [mid EXCEPT ![b] = rb] \in Seq(Wrap) /\ Len([mid EXCEPT ![b] = rb]) = Len(mid)
      /\ \A v \in 1..Len(mid) : [mid EXCEPT ![b] = rb][v] = IF v = b THEN rb ELSE mid[v]
  BY <1>1, ExceptSeq
<1>. QED
  BY <1>1, <1>2, <1>3

(* An engine that is given a module owns it and keeps its wrapper.         *)
LEMMA AddModuleStep ==
  ASSUME Inv, Quiet, NEW e \in Ids, NEW m \in Ids, AddModule(e, m)
  PROVE  Inv'
<1>1. /\ Held(e) /\ refs[e].kind = "engine" /\ Held(m) /\ refs[m].kind = "module"
      /\ e # m /\ ~refs[m].owned /\ home[m] = {} /\ refs[e].open /\ refs[m].open
  BY DEF AddModule, At, Free, Held
<1>2. /\ ~refs[e].gone /\ ~refs[m].gone
      /\ \A v \in Ids : refs[v].needs \subseteq Ids /\ refs[v].keeps \subseteq Ids
                        /\ home[v] \subseteq Ids
  BY <1>1, HeldFacts DEF Inv, Typed
<1>3. m \in Nat /\ e \in Nat
  BY DEF Ids
<1>4. /\ refs \in Seq(Wrap) /\ home \in Seq(SUBSET Nat) /\ Len(home) = Len(refs)
      /\ Ids = 1..Len(refs) /\ refs[e] \in Wrap /\ refs[m] \in Wrap
  BY DEF Inv, Typed, Ids
<1>5. /\ home'[m] = {e} /\ \A v \in Ids \ {m} : home'[v] = home[v]
      /\ home' \in Seq(SUBSET Nat) /\ Len(home') = Len(refs)
  BY <1>4, ExceptSeq DEF AddModule
<1>6. family' = family /\ held' = held /\ frees' = frees
  BY DEF AddModule
<1>7. /\ \A v \in Ids :
            /\ refs'[v].kind = refs[v].kind /\ refs'[v].item = refs[v].item
            /\ refs'[v].needs = refs[v].needs /\ refs'[v].native = refs[v].native
            /\ refs'[v].open = refs[v].open /\ refs'[v].gone = refs[v].gone
            /\ v # m => refs'[v].owned = refs[v].owned
            /\ v # e => refs'[v].keeps = refs[v].keeps
      /\ refs'[m].owned /\ refs'[e].keeps = refs[e].keeps \cup {m}
      /\ refs' \in Seq(Wrap) /\ Len(refs') = Len(refs) /\ Ids' = Ids
  <2>. DEFINE re == [refs[e] EXCEPT !.keeps = refs[e].keeps \cup {m}]
              rm == [refs[m] EXCEPT !.owned = TRUE]
  <2>1. refs' = [refs EXCEPT ![e] = re, ![m] = rm]
    BY <1>1 DEF AddModule
  <2>2. refs[e].keeps \cup {m} \in SUBSET Nat
    BY <1>2, <1>3 DEF Ids
  <2>3. /\ re \in Wrap /\ re.kind = refs[e].kind /\ re.item = refs[e].item
        /\ re.needs = refs[e].needs /\ re.native = refs[e].native /\ re.open = refs[e].open
        /\ re.owned = refs[e].owned /\ re.gone = refs[e].gone
        /\ re.keeps = refs[e].keeps \cup {m}
    BY ONLY <1>4, <2>2 DEF Wrap
  <2>4. /\ rm \in Wrap /\ rm.kind = refs[m].kind /\ rm.item = refs[m].item
        /\ rm.needs = refs[m].needs /\ rm.native = refs[m].native /\ rm.open = refs[m].open
        /\ rm.keeps = refs[m].keeps /\ rm.gone = refs[m].gone /\ rm.owned
    BY ONLY <1>4 DEF Wrap
  <2>. HIDE DEF re, rm
  <2>5. /\ refs' \in Seq(Wrap) /\ Len(refs') = Len(refs)
        /\ \A v \in Ids : refs'[v] = IF v = e THEN re ELSE IF v = m THEN rm ELSE refs[v]
    BY <1>1, <1>4, <2>1, <2>3, <2>4, TwoReplaced
  <2>. QED
    BY <1>1, <2>3, <2>4, <2>5 DEF Ids
<1>8. Kept' = Kept \cup {m}
  <2>1. \A v \in Ids : refs'[v].keeps \subseteq Kept \cup {m}
    BY <1>7 DEF Kept
  <2>2. m \in refs'[e].keeps /\ \A v \in Ids : refs[v].keeps \subseteq refs'[v].keeps
    BY <1>7
  <2>. QED
    BY <1>7, <2>1, <2>2 DEF Kept
<1>9. \A v \in Ids : KindsOK(v) /\ GoneOK(v) /\ NeedsItself(v) /\ Secure(v) /\ HomeOK(v)
                     /\ EngineHas(v) /\ OwnedHasHome(v) /\ OwnAlive(v) /\ DroppedWithCare(v)
  BY DEF Inv, Sound
<1>10. Typed'
  <2>1. \A v \in Ids : refs'[v].needs \cup refs'[v].keeps \cup home'[v] \subseteq Ids
    BY <1>2, <1>5, <1>7
  <2>2. held' \subseteq Ids' /\ Len(home') = Len(refs') /\ Len(frees') = Len(refs')
    BY <1>5, <1>6, <1>7 DEF Inv, Typed
  <2>3. family' \in Families /\ frees' \in Seq(Nat)
    BY <1>6 DEF Inv, Typed
  <2>. QED
    BY ONLY <1>5, <1>7, <2>1, <2>2, <2>3 DEF Typed
<1>11. \A v \in Ids : KindsOK(v)'
  <2>1. "module" \in KeepKinds("engine")
    BY DEF KeepKinds, Values
  <2>2. ASSUME NEW v \in Ids
        PROVE  \A k \in refs'[v].keeps : refs'[k].kind \in KeepKinds(refs'[v].kind)
    BY <1>1, <1>2, <1>7, <1>9, <2>1, <2>2 DEF KindsOK
  <2>. QED
    BY <1>1, <1>2, <1>7, <1>9, <2>2 DEF KindsOK
<1>12. \A v \in Ids : GoneOK(v)'
  BY <1>2, <1>6, <1>7, <1>8, <1>9 DEF GoneOK
<1>13. \A v \in Ids : NeedsItself(v)' /\ OwnAlive(v)'
  BY <1>6, <1>7, <1>9 DEF NeedsItself, OwnAlive
<1>14. ASSUME NEW v \in Ids PROVE Secure(v)'
  <2>. SUFFICES ASSUME refs[v].open, NEW n \in refs[v].needs \ {v}
                PROVE  \/ n \in refs'[v].keeps
                       \/ \E k \in refs'[v].keeps : refs'[k].kind = "module" /\ n \in refs'[k].keeps
                       \/ /\ refs'[n].kind = "object" /\ refs'[v].kind = "iterator" /\ v \notin held
                          /\ \A g \in Ids : v \in refs'[g].keeps => n \in refs'[g].keeps
    BY <1>6, <1>7, <1>14 DEF Secure
  <2>1. \/ n \in refs[v].keeps
        \/ \E k \in refs[v].keeps : refs[k].kind = "module" /\ n \in refs[k].keeps
        \/ /\ refs[n].kind = "object" /\ refs[v].kind = "iterator" /\ v \notin held
           /\ \A g \in Ids : v \in refs[g].keeps => n \in refs[g].keeps
    BY <1>9, <1>14 DEF Secure
  <2>2. v # m => \A g \in Ids : v \in refs'[g].keeps => v \in refs[g].keeps
    BY <1>7
  <2>. QED
    BY <1>1, <1>2, <1>7, <1>14, <2>1, <2>2
<1>15. ASSUME NEW n \in Ids PROVE HomeOK(n)'
  <2>1. CASE n = m
    <3>1. refs[m].native
      BY <1>1, <1>9 DEF KindsOK, Borrowers, Values
    <3>2. frees[m] = 0
      BY <1>1, <1>9, <3>1 DEF OwnAlive
    <3>. QED
      BY <1>1, <1>5, <1>6, <1>7, <2>1, <3>2 DEF HomeOK
  <2>2. CASE n # m
    <3>1. HomeOK(n) /\ home'[n] = home[n] /\ \A h \in home[n] : h \in Ids
      BY <1>2, <1>5, <1>9, <1>15, <2>2
    <3>2. /\ refs'[n].kind = refs[n].kind /\ refs'[n].owned = refs[n].owned
          /\ refs'[n].gone = refs[n].gone /\ refs[n].keeps \subseteq refs'[n].keeps
          /\ \A h \in Ids : refs'[h].kind = refs[h].kind /\ refs'[h].open = refs[h].open
      BY <1>7, <1>15, <2>2
    <3>. QED
      BY ONLY <1>6, <3>1, <3>2 DEF HomeOK
  <2>. QED
    BY <2>1, <2>2
<1>16. ASSUME NEW g \in Ids PROVE EngineHas(g)'
  <2>. SUFFICES ASSUME refs[g].kind = "engine", refs[g].open, NEW v \in refs'[g].keeps,
                       refs'[v].kind \in {"module", "layout"}
                PROVE  home'[v] = {g}
    BY <1>7, <1>16 DEF EngineHas
  <2>1. CASE v = m
    <3>1. m \notin refs[g].keeps
      BY <1>1, <1>9, <1>16 DEF EngineHas
    <3>. QED
      BY <1>5, <1>7, <1>16, <2>1, <3>1
  <2>2. CASE v # m
    <3>1. v \in refs[g].keeps /\ v \in Ids
      BY <1>2, <1>7, <1>16, <2>2
    <3>2. refs[v].kind \in {"module", "layout"}
      BY <1>7, <3>1
    <3>. QED
      BY <1>5, <1>9, <1>16, <2>2, <3>1, <3>2 DEF EngineHas
  <2>. QED
    BY <2>1, <2>2
<1>17. ASSUME NEW n \in Ids PROVE OwnedHasHome(n)'
  <2>1. CASE n = m
    BY <1>1, <1>5, <1>6, <1>7, <2>1 DEF OwnedHasHome
  <2>2. CASE n # m
    <3>1. OwnedHasHome(n) /\ \A h \in home[n] : h \in Ids
      BY <1>2, <1>9, <1>17
    <3>. QED
      BY <1>5, <1>6, <1>7, <1>17, <2>2, <3>1 DEF OwnedHasHome
  <2>. QED
    BY <2>1, <2>2
<1>18. \A g \in Ids : DroppedWithCare(g)'
  BY <1>6, <1>7, QuietFacts DEF DroppedWithCare
<1>19. NoDangling'
  <2>. SUFFICES ASSUME NEW v \in held \cup Kept \cup {m}, refs'[v].open
                PROVE  \A n \in refs'[v].needs : frees[n] = 0
    BY <1>6, <1>8 DEF NoDangling
  <2>1. v \in held \cup Kept /\ v \in Ids
    BY <1>1 DEF Held, Kept, Inv, Typed
  <2>. QED
    BY <1>7, <2>1 DEF Inv, NoDangling
<1>20. FreedOnce'
  BY <1>6, <1>7 DEF Inv, FreedOnce
<1>21. NothingLeaked'
  <2>. SUFFICES ASSUME NEW n \in Ids, refs[n].native, refs[n].kind # "manager", frees[n] = 0
                PROVE  Answers(n)' \/ \E h \in home'[n] : Answers(h)'
    BY <1>6, <1>7 DEF NothingLeaked
  <2>1. \A v \in Ids : Answers(v)' <=> Answers(v)
    BY <1>7 DEF Answers
  <2>2. Answers(m)
    BY <1>1, <1>2 DEF Answers
  <2>. QED
    BY <1>2, <1>5, <2>1, <2>2 DEF Inv, NothingLeaked
<1>. QED
  BY ONLY <1>7, <1>10, <1>11, <1>12, <1>13, <1>14, <1>15, <1>16, <1>17, <1>18, <1>19, <1>20, <1>21
     DEF Inv, Sound

(* A module taken from an engine is its wrapper's again.                   *)
LEMMA RemoveModuleStep ==
  ASSUME Inv, Quiet, NEW e \in Ids, NEW m \in Ids, RemoveModule(e, m)
  PROVE  Inv'
<1>1. /\ Held(e) /\ refs[e].kind = "engine" /\ Held(m) /\ refs[m].kind = "module"
      /\ e # m /\ refs[e].open /\ refs[m].open /\ m \in refs[e].keeps
  BY DEF RemoveModule, At, Held
<1>2. /\ ~refs[e].gone /\ ~refs[m].gone
      /\ \A v \in Ids : refs[v].needs \subseteq Ids /\ refs[v].keeps \subseteq Ids
                        /\ home[v] \subseteq Ids
  BY <1>1, HeldFacts DEF Inv, Typed
<1>3. m \in Nat /\ e \in Nat
  BY DEF Ids
<1>4. /\ refs \in Seq(Wrap) /\ home \in Seq(SUBSET Nat) /\ Len(home) = Len(refs)
      /\ Ids = 1..Len(refs) /\ refs[e] \in Wrap /\ refs[m] \in Wrap
  BY DEF Inv, Typed, Ids
<1>5. /\ home'[m] = {} /\ \A v \in Ids \ {m} : home'[v] = home[v]
      /\ home' \in Seq(SUBSET Nat) /\ Len(home') = Len(refs)
  BY <1>4, ExceptSeq DEF RemoveModule
<1>6. family' = family /\ held' = held /\ frees' = frees
  BY DEF RemoveModule
<1>7. /\ \A v \in Ids :
            /\ refs'[v].kind = refs[v].kind /\ refs'[v].item = refs[v].item
            /\ refs'[v].needs = refs[v].needs /\ refs'[v].native = refs[v].native
            /\ refs'[v].open = refs[v].open /\ refs'[v].gone = refs[v].gone
            /\ v # m => refs'[v].owned = refs[v].owned
            /\ v # e => refs'[v].keeps = refs[v].keeps
      /\ ~refs'[m].owned /\ refs'[e].keeps = refs[e].keeps \ {m}
      /\ refs' \in Seq(Wrap) /\ Len(refs') = Len(refs) /\ Ids' = Ids
  <2>. DEFINE re == [refs[e] EXCEPT !.keeps = refs[e].keeps \ {m}]
              rm == [refs[m] EXCEPT !.owned = FALSE]
  <2>1. refs' = [refs EXCEPT ![e] = re, ![m] = rm]
    BY <1>1 DEF RemoveModule
  <2>2. refs[e].keeps \ {m} \in SUBSET Nat
    BY <1>2, <1>3 DEF Ids
  <2>3. /\ re \in Wrap /\ re.kind = refs[e].kind /\ re.item = refs[e].item
        /\ re.needs = refs[e].needs /\ re.native = refs[e].native /\ re.open = refs[e].open
        /\ re.owned = refs[e].owned /\ re.gone = refs[e].gone
        /\ re.keeps = refs[e].keeps \ {m}
    BY ONLY <1>4, <2>2 DEF Wrap
  <2>4. /\ rm \in Wrap /\ rm.kind = refs[m].kind /\ rm.item = refs[m].item
        /\ rm.needs = refs[m].needs /\ rm.native = refs[m].native /\ rm.open = refs[m].open
        /\ rm.keeps = refs[m].keeps /\ rm.gone = refs[m].gone /\ ~rm.owned
    BY ONLY <1>4 DEF Wrap
  <2>. HIDE DEF re, rm
  <2>5. /\ refs' \in Seq(Wrap) /\ Len(refs') = Len(refs)
        /\ \A v \in Ids : refs'[v] = IF v = e THEN re ELSE IF v = m THEN rm ELSE refs[v]
    BY <1>1, <1>4, <2>1, <2>3, <2>4, TwoReplaced
  <2>. QED
    BY <1>1, <2>3, <2>4, <2>5 DEF Ids
<1>8. Kept' \subseteq Kept
  BY <1>7 DEF Kept
<1>9. \A v \in Ids : KindsOK(v) /\ GoneOK(v) /\ NeedsItself(v) /\ Secure(v) /\ HomeOK(v)
                     /\ EngineHas(v) /\ OwnedHasHome(v) /\ OwnAlive(v) /\ DroppedWithCare(v)
  BY DEF Inv, Sound
<1>10. Typed'
  <2>1. \A v \in Ids : refs'[v].needs \cup refs'[v].keeps \cup home'[v] \subseteq Ids
    BY <1>2, <1>5, <1>7
  <2>2. held' \subseteq Ids' /\ Len(home') = Len(refs') /\ Len(frees') = Len(refs')
    BY <1>5, <1>6, <1>7 DEF Inv, Typed
  <2>3. family' \in Families /\ frees' \in Seq(Nat)
    BY <1>6 DEF Inv, Typed
  <2>. QED
    BY ONLY <1>5, <1>7, <2>1, <2>2, <2>3 DEF Typed
<1>11. \A v \in Ids : KindsOK(v)'
  BY <1>2, <1>7, <1>9 DEF KindsOK
<1>12. \A v \in Ids : GoneOK(v)'
  BY <1>6, <1>7, <1>8, <1>9 DEF GoneOK
<1>13. \A v \in Ids : NeedsItself(v)' /\ OwnAlive(v)'
  BY <1>6, <1>7, <1>9 DEF NeedsItself, OwnAlive
<1>14. ASSUME NEW v \in Ids PROVE Secure(v)'
  <2>. SUFFICES ASSUME refs[v].open, NEW n \in refs[v].needs \ {v}
                PROVE  \/ n \in refs'[v].keeps
                       \/ \E k \in refs'[v].keeps : refs'[k].kind = "module" /\ n \in refs'[k].keeps
                       \/ /\ refs'[n].kind = "object" /\ refs'[v].kind = "iterator" /\ v \notin held
                          /\ \A g \in Ids : v \in refs'[g].keeps => n \in refs'[g].keeps
    BY <1>6, <1>7, <1>14 DEF Secure
  <2>1. \/ n \in refs[v].keeps
        \/ \E k \in refs[v].keeps : refs[k].kind = "module" /\ n \in refs[k].keeps
        \/ /\ refs[n].kind = "object" /\ refs[v].kind = "iterator" /\ v \notin held
           /\ \A g \in Ids : v \in refs[g].keeps => n \in refs[g].keeps
    BY <1>9, <1>14 DEF Secure
  <2>2. v = e => refs[n].kind = "cache"
    BY <1>1, <1>9, <1>14 DEF KindsOK, NeedKinds, Values
  <2>3. n \in refs[v].keeps => n \in refs'[v].keeps
    BY <1>1, <1>7, <1>14, <2>2
  <2>4. refs[v].kind = "iterator" => v \notin refs[e].keeps
    BY <1>1, <1>9, <1>14 DEF KindsOK, KeepKinds, Values
  <2>5. \A k \in refs[v].keeps : refs[k].kind = "module" /\ n \in refs[k].keeps =>
            v # e /\ k # e /\ k \in refs'[v].keeps /\ n \in refs'[k].keeps
                 /\ refs'[k].kind = "module"
    <3>1. \A k \in refs[e].keeps : refs[k].kind = "module" => \A p \in refs[k].keeps : refs[p].kind = "context"
      BY <1>2, <1>9 DEF KindsOK, KeepKinds, Values
    <3>. QED
      BY <1>1, <1>2, <1>7, <1>14, <2>2, <3>1
  <2>. QED
    BY <1>2, <1>7, <1>14, <2>1, <2>3, <2>4, <2>5
<1>15. ASSUME NEW n \in Ids PROVE HomeOK(n)'
  <2>1. CASE n = m
    BY <1>5, <2>1 DEF HomeOK
  <2>2. CASE n # m
    <3>1. HomeOK(n) /\ home'[n] = home[n] /\ \A h \in home[n] : h \in Ids
      BY <1>2, <1>5, <1>9, <1>15, <2>2
    <3>2. /\ refs'[n].kind = refs[n].kind /\ refs'[n].owned = refs[n].owned
          /\ refs'[n].gone = refs[n].gone
          /\ refs[n].kind = "module" => refs'[n].keeps = refs[n].keeps
          /\ \A h \in Ids : refs'[h].kind = refs[h].kind /\ refs'[h].open = refs[h].open
      BY <1>1, <1>7, <1>15, <2>2
    <3>. QED
      BY ONLY <1>6, <3>1, <3>2 DEF HomeOK
  <2>. QED
    BY <2>1, <2>2
<1>16. ASSUME NEW g \in Ids PROVE EngineHas(g)'
  <2>. SUFFICES ASSUME refs[g].kind = "engine", refs[g].open, NEW v \in refs'[g].keeps,
                       refs'[v].kind \in {"module", "layout"}
                PROVE  home'[v] = {g}
    BY <1>7, <1>16 DEF EngineHas
  <2>1. v \in refs[g].keeps /\ v \in Ids /\ (g = e => v # m)
    BY <1>2, <1>7, <1>16
  <2>2. home[v] = {g} /\ home[m] = {e}
    BY <1>1, <1>7, <1>9, <1>16, <2>1 DEF EngineHas
  <2>. QED
    BY <1>5, <2>1, <2>2
<1>17. ASSUME NEW n \in Ids PROVE OwnedHasHome(n)'
  <2>1. CASE n = m
    BY <1>7, <2>1 DEF OwnedHasHome
  <2>2. CASE n # m
    <3>1. OwnedHasHome(n) /\ \A h \in home[n] : h \in Ids
      BY <1>2, <1>9, <1>17
    <3>. QED
      BY <1>5, <1>6, <1>7, <1>17, <2>2, <3>1 DEF OwnedHasHome
  <2>. QED
    BY <2>1, <2>2
<1>18. \A g \in Ids : DroppedWithCare(g)'
  BY <1>6, <1>7, QuietFacts DEF DroppedWithCare
<1>19. NoDangling'
  <2>. SUFFICES ASSUME NEW v \in held \cup Kept, refs'[v].open
                PROVE  \A n \in refs'[v].needs : frees[n] = 0
    BY <1>6, <1>8 DEF NoDangling
  <2>1. v \in Ids
    BY DEF Kept, Inv, Typed
  <2>. QED
    BY <1>7, <2>1 DEF Inv, NoDangling
<1>20. FreedOnce'
  BY <1>6, <1>7 DEF Inv, FreedOnce
<1>21. NothingLeaked'
  <2>. SUFFICES ASSUME NEW n \in Ids, refs[n].native, refs[n].kind # "manager", frees[n] = 0
                PROVE  Answers(n)' \/ \E h \in home'[n] : Answers(h)'
    BY <1>6, <1>7 DEF NothingLeaked
  <2>1. \A v \in Ids : Answers(v)' <=> Answers(v)
    BY <1>7 DEF Answers
  <2>2. Answers(m)
    BY <1>1, <1>2 DEF Answers
  <2>. QED
    BY <1>2, <1>5, <2>1, <2>2 DEF Inv, NothingLeaked
<1>. QED
  BY ONLY <1>7, <1>10, <1>11, <1>12, <1>13, <1>14, <1>15, <1>16, <1>17, <1>18, <1>19, <1>20, <1>21
     DEF Inv, Sound

-----------------------------------------------------------------------------
(* What an engine or a pass builder comes to keep *)

(* A cache, a timing handler or the engine's data layout, r, joins with p, *)
(* which becomes rp: p keeps r, in the place of D, and may read through it.*)
(* The layout stays the engine's.                                          *)
MayServe(p, rp, D, r, in) ==
  /\ r \in Wrap /\ r.open /\ ~r.gone /\ r.native /\ r.needs = {Next1} /\ r.keeps = {}
  /\ r.kind \in KeepKinds(refs[p].kind) /\ refs[p].kind \in {"engine", "builder"}
  /\ \/ ~r.owned /\ in = {} /\ r.kind \in {"cache", "timing"}
     \/ r.owned /\ in = {p} /\ r.kind = "layout" /\ refs[p].kind = "engine"
  /\ rp \in Wrap
  /\ rp.kind = refs[p].kind /\ rp.item = refs[p].item /\ rp.native = refs[p].native
  /\ rp.open = refs[p].open /\ rp.owned = refs[p].owned /\ rp.gone = refs[p].gone
  /\ rp.keeps = (refs[p].keeps \ D) \cup {Next1}
  /\ p \in rp.needs /\ rp.needs \subseteq refs[p].needs \cup {Next1}
  /\ Next1 \in rp.needs => r.kind \in NeedKinds(refs[p].kind)
  /\ D \subseteq KeptOf(p, "cache") /\ rp.needs \cap D = {}

(* Such a wrapper leaves the invariant: nothing else keeps it or reads     *)
(* through it, and what it replaces stays with its own wrapper.            *)
LEMMA ServeKeepsInv ==
  ASSUME Inv, Quiet, NEW p \in Ids, NEW rp, NEW D, NEW r, NEW in,
         Held(p), MayServe(p, rp, D, r, in),
         AddTo([refs EXCEPT ![p] = rp], r, in),
         held \subseteq held', held' \subseteq held \cup {Next1}
  PROVE  Inv'
<1>1. /\ Next1 \in Nat /\ Next1 \notin Ids
      /\ Ids' = Ids \cup {Next1}
      /\ refs' \in Seq(Wrap) /\ home' \in Seq(SUBSET Nat) /\ frees' \in Seq(Nat)
      /\ Len(home') = Len(refs') /\ Len(frees') = Len(refs')
      /\ \A v \in Ids : refs'[v] = (IF v = p THEN rp ELSE refs[v])
                        /\ home'[v] = home[v] /\ frees'[v] = frees[v]
      /\ refs'[Next1] = r /\ home'[Next1] = in /\ frees'[Next1] = 0
  <2>. DEFINE rs == [refs EXCEPT ![p] = rp]
  <2>1. rp \in Wrap /\ r \in Wrap /\ refs \in Seq(Wrap) /\ Ids = 1..Len(refs)
    BY DEF MayServe, Inv, Typed, Ids
  <2>2. /\ rs \in Seq(Wrap) /\ Len(rs) = Len(refs)
        /\ \A v \in Ids : rs[v] = IF v = p THEN rp ELSE refs[v]
    BY <2>1, ExceptSeq
  <2>3. in \in SUBSET Nat
    BY DEF MayServe, Ids
  <2>4. AddTo(rs, r, in) /\ Typed
    BY DEF Inv
  <2>. HIDE DEF rs
  <2>5. /\ Next1 \in Nat /\ Next1 \notin Ids
        /\ Ids' = Ids \cup {Next1}
        /\ refs' \in Seq(Wrap) /\ home' \in Seq(SUBSET Nat) /\ frees' \in Seq(Nat)
        /\ Len(home') = Len(refs') /\ Len(frees') = Len(refs')
        /\ \A v \in Ids : refs'[v] = rs[v] /\ home'[v] = home[v] /\ frees'[v] = frees[v]
        /\ refs'[Next1] = r /\ home'[Next1] = in /\ frees'[Next1] = 0
    BY ONLY <2>1, <2>2, <2>3, <2>4, AddedValues
  <2>. QED
    BY <2>2, <2>5
<1>2. PICK n \in Nat :
      /\ n = Next1 /\ n \notin Ids
      /\ Ids' = Ids \cup {n}
      /\ refs' \in Seq(Wrap) /\ home' \in Seq(SUBSET Nat) /\ frees' \in Seq(Nat)
      /\ Len(home') = Len(refs') /\ Len(frees') = Len(refs')
      /\ \A v \in Ids : home'[v] = home[v] /\ frees'[v] = frees[v]
      /\ \A v \in Ids \ {p} : refs'[v] = refs[v]
      /\ refs'[p] = rp /\ refs'[n] = r /\ home'[n] = in /\ frees'[n] = 0
  BY <1>1
<1>3. /\ r \in Wrap /\ r.open /\ ~r.gone /\ r.native /\ r.needs = {n} /\ r.keeps = {}
      /\ r.kind \in KeepKinds(refs[p].kind) /\ refs[p].kind \in {"engine", "builder"}
      /\ \/ ~r.owned /\ in = {} /\ r.kind \in {"cache", "timing"}
         \/ r.owned /\ in = {p} /\ r.kind = "layout" /\ refs[p].kind = "engine"
      /\ rp \in Wrap
      /\ rp.kind = refs[p].kind /\ rp.item = refs[p].item /\ rp.native = refs[p].native
      /\ rp.open = refs[p].open /\ rp.owned = refs[p].owned /\ rp.gone = refs[p].gone
      /\ rp.keeps = (refs[p].keeps \ D) \cup {n}
      /\ p \in rp.needs /\ rp.needs \subseteq refs[p].needs \cup {n}
      /\ n \in rp.needs => r.kind \in NeedKinds(refs[p].kind)
      /\ \A v \in D : v \in refs[p].keeps /\ refs[v].kind = "cache"
      /\ rp.needs \cap D = {}
  BY <1>2 DEF MayServe, KeptOf
<1>4. /\ held \subseteq Ids /\ p # n /\ p \in held
      /\ \A w \in Ids : refs[w].needs \subseteq Ids /\ refs[w].keeps \subseteq Ids
                        /\ home[w] \subseteq Ids
      /\ refs[p].open /\ ~refs[p].gone
  BY <1>2, HeldFacts DEF Inv, Typed, Held
<1>5. family' = family /\ held \subseteq held' /\ held' \subseteq held \cup {n}
  BY <1>2 DEF AddTo
<1>6. Kept' \subseteq Kept \cup {n}
  <2>1. \A v \in Ids' : refs'[v].keeps \subseteq Kept \cup {n}
    BY <1>2, <1>3 DEF Kept
  <2>. QED
    BY <2>1 DEF Kept
<1>7. \A v \in Ids :
         /\ refs'[v].kind = refs[v].kind /\ refs'[v].item = refs[v].item
         /\ refs'[v].native = refs[v].native /\ refs'[v].open = refs[v].open
         /\ refs'[v].owned = refs[v].owned /\ refs'[v].gone = refs[v].gone
         /\ v # p => refs'[v].needs = refs[v].needs /\ refs'[v].keeps = refs[v].keeps
  BY <1>2, <1>3
<1>8. /\ refs'[p].needs = rp.needs /\ refs'[p].keeps = (refs[p].keeps \ D) \cup {n}
      /\ refs'[n] = r
  BY <1>2, <1>3
<1>9. \A v \in Ids : KindsOK(v) /\ GoneOK(v) /\ NeedsItself(v) /\ Secure(v) /\ HomeOK(v)
                     /\ EngineHas(v) /\ OwnedHasHome(v) /\ OwnAlive(v) /\ DroppedWithCare(v)
  BY DEF Inv, Sound
<1>10. Typed'
  <2>1. \A v \in Ids' : refs'[v].needs \cup refs'[v].keeps \cup home'[v] \subseteq Ids'
    <3>1. refs'[n].needs \cup refs'[n].keeps \cup home'[n] \subseteq Ids'
      BY <1>2, <1>3
    <3>2. \A v \in Ids : refs'[v].needs \cup refs'[v].keeps \cup home'[v] \subseteq Ids'
      BY <1>2, <1>3, <1>4, <1>7, <1>8
    <3>. QED
      BY <1>2, <3>1, <3>2
  <2>2. held' \subseteq Ids' /\ family' \in Families
    BY <1>2, <1>5 DEF Inv, Typed
  <2>. QED
    BY ONLY <1>2, <2>1, <2>2 DEF Typed
<1>11. \A v \in Ids' : KindsOK(v)'
  <2>1. KindsOK(n)'
    BY ONLY <1>2, <1>3 DEF KindsOK, Borrowers, Values
  <2>2. ASSUME NEW v \in Ids, v # p PROVE KindsOK(v)'
    <3>1. KindsOK(v) /\ refs'[v] = refs[v]
      BY <1>2, <1>9, <2>2
    <3>2. \A k \in refs[v].keeps \cup refs[v].needs : refs'[k].kind = refs[k].kind
      BY <1>4, <1>7, <2>2
    <3>. QED
      BY ONLY <3>1, <3>2 DEF KindsOK
  <2>3. KindsOK(p)'
    <3>1. KindsOK(p)
      BY <1>9
    <3>2. \A k \in refs'[p].keeps : refs'[k].kind \in KeepKinds(refs'[p].kind)
      BY <1>3, <1>4, <1>7, <1>8, <3>1 DEF KindsOK
    <3>3. \A k \in refs'[p].needs \ {p} : refs'[k].kind \in NeedKinds(refs'[p].kind)
      BY <1>3, <1>4, <1>7, <1>8, <3>1 DEF KindsOK
    <3>4. refs'[p].native /\ refs'[p].kind \notin Borrowers
      BY <1>3, <1>7, <3>1 DEF KindsOK, Borrowers, Values
    <3>. QED
      BY <1>3, <1>7, <3>1, <3>2, <3>3, <3>4 DEF KindsOK
  <2>. QED
    BY <1>2, <2>1, <2>2, <2>3
<1>12. \A v \in Ids' : GoneOK(v)'
  <2>1. GoneOK(n)'
    BY <1>3, <1>8 DEF GoneOK
  <2>2. ASSUME NEW v \in Ids PROVE GoneOK(v)'
    BY <1>2, <1>4, <1>5, <1>6, <1>7, <1>9, <2>2 DEF GoneOK
  <2>. QED
    BY <1>2, <2>1, <2>2
<1>13. \A v \in Ids' : NeedsItself(v)' /\ OwnAlive(v)'
  <2>1. NeedsItself(n)' /\ OwnAlive(n)'
    BY <1>2, <1>3 DEF NeedsItself, OwnAlive
  <2>2. ASSUME NEW v \in Ids PROVE NeedsItself(v)' /\ OwnAlive(v)'
    BY <1>2, <1>3, <1>7, <1>8, <1>9, <2>2 DEF NeedsItself, OwnAlive
  <2>. QED
    BY <1>2, <2>1, <2>2
<1>14. \A v \in Ids' : Secure(v)'
  <2>1. Secure(n)'
    BY <1>3, <1>8 DEF Secure
  <2>2. Secure(p)'
    <3>. SUFFICES ASSUME NEW k \in rp.needs \ {p}, k # n
                  PROVE  k \in refs[p].keeps \ D
      BY <1>8 DEF Secure
    <3>1. k \in refs[p].needs \ {p} /\ k \notin D
      BY <1>3
    <3>2. \A m \in refs[p].keeps : refs[m].kind = "module" => \A q \in refs[m].keeps : refs[q].kind = "context"
      BY <1>4, <1>9 DEF KindsOK, KeepKinds, Values
    <3>3. refs[k].kind \notin {"context", "object"}
      BY <1>3, <1>9, <3>1 DEF KindsOK, NeedKinds, Values
    <3>. QED
      BY <1>4, <1>9, <3>1, <3>2, <3>3 DEF Secure
  <2>3. ASSUME NEW v \in Ids, v # p PROVE Secure(v)'
    <3>. SUFFICES ASSUME refs[v].open, NEW k \in refs[v].needs \ {v}
                  PROVE  \/ k \in refs[v].keeps
                         \/ \E m \in refs[v].keeps : refs'[m].kind = "module" /\ k \in refs'[m].keeps
                         \/ /\ refs'[k].kind = "object" /\ refs'[v].kind = "iterator" /\ v \notin held'
                            /\ \A g \in Ids' : v \in refs'[g].keeps => k \in refs'[g].keeps
      BY <1>7, <2>3 DEF Secure
    <3>1. \/ k \in refs[v].keeps
          \/ \E m \in refs[v].keeps : refs[m].kind = "module" /\ k \in refs[m].keeps
          \/ /\ refs[k].kind = "object" /\ refs[v].kind = "iterator" /\ v \notin held
             /\ \A g \in Ids : v \in refs[g].keeps => k \in refs[g].keeps
      BY <1>9, <2>3 DEF Secure
    <3>2. \A m \in refs[v].keeps : refs[m].kind = "module" => m # p /\ refs'[m] = refs[m]
      BY <1>2, <1>3, <1>4, <2>3
    <3>3. refs[v].kind = "iterator" => v \notin refs'[p].keeps /\ v \notin refs'[n].keeps
      BY <1>2, <1>3, <1>8, <1>9, <2>3 DEF KindsOK, KeepKinds, Values
    <3>4. k \in Ids
      BY <1>4, <2>3
    <3>. QED
      BY <1>2, <1>5, <1>7, <2>3, <3>1, <3>2, <3>3, <3>4
  <2>. QED
    BY <1>2, <2>1, <2>2, <2>3
<1>15. \A v \in Ids' : HomeOK(v)'
  <2>1. HomeOK(n)'
    BY <1>2, <1>3, <1>7, <1>8 DEF HomeOK
  <2>2. ASSUME NEW v \in Ids PROVE HomeOK(v)'
    <3>1. HomeOK(v) /\ home'[v] = home[v] /\ frees'[v] = frees[v] /\ \A h \in home[v] : h \in Ids
      BY <1>2, <1>4, <1>9, <2>2
    <3>2. /\ refs'[v].kind = refs[v].kind /\ refs'[v].owned = refs[v].owned
          /\ refs'[v].gone = refs[v].gone
          /\ refs[v].kind = "module" => refs'[v].keeps = refs[v].keeps
          /\ \A h \in Ids : refs'[h].kind = refs[h].kind /\ refs'[h].open = refs[h].open
      BY <1>3, <1>7, <2>2
    <3>. QED
      BY ONLY <3>1, <3>2 DEF HomeOK
  <2>. QED
    BY <1>2, <2>1, <2>2
<1>16. \A v \in Ids' : EngineHas(v)'
  <2>1. EngineHas(n)'
    BY <1>3, <1>8 DEF EngineHas
  <2>2. ASSUME NEW v \in Ids, v # p PROVE EngineHas(v)'
    <3>1. \A k \in refs[v].keeps : refs'[k].kind = refs[k].kind /\ home'[k] = home[k]
      BY <1>2, <1>4, <1>7, <2>2
    <3>. QED
      BY <1>2, <1>9, <2>2, <3>1 DEF EngineHas
  <2>3. EngineHas(p)'
    <3>. SUFFICES ASSUME refs[p].kind = "engine", NEW k \in refs'[p].keeps,
                         refs'[k].kind \in {"module", "layout"}
                  PROVE  home'[k] = {p}
      BY <1>7 DEF EngineHas
    <3>1. CASE k = n
      BY <1>2, <1>3, <1>8, <3>1
    <3>2. CASE k # n
      <4>1. k \in refs[p].keeps /\ k \in Ids
        BY <1>4, <1>8, <3>2
      <4>. QED
        BY <1>2, <1>4, <1>7, <1>9, <4>1 DEF EngineHas
    <3>. QED
      BY <3>1, <3>2
  <2>. QED
    BY <1>2, <2>1, <2>2, <2>3
<1>17. \A v \in Ids' : OwnedHasHome(v)'
  <2>1. OwnedHasHome(n)'
    BY <1>2, <1>3, <1>4, <1>7, <1>8 DEF OwnedHasHome
  <2>2. ASSUME NEW v \in Ids PROVE OwnedHasHome(v)'
    <3>1. OwnedHasHome(v) /\ \A h \in home[v] : h \in Ids
      BY <1>4, <1>9, <2>2
    <3>. QED
      BY <1>2, <1>7, <2>2, <3>1 DEF OwnedHasHome
  <2>. QED
    BY <1>2, <2>1, <2>2
<1>18. \A v \in Ids' : DroppedWithCare(v)'
  <2>1. \A v \in Ids : refs[v].kind = "engine" /\ ~refs[v].gone => v \in held
    BY QuietFacts
  <2>. QED
    BY <1>2, <1>3, <1>5, <1>7, <2>1 DEF DroppedWithCare
<1>19. NoDangling'
  <2>. SUFFICES ASSUME NEW v \in held \cup Kept \cup {n}, refs'[v].open, NEW k \in refs'[v].needs
                PROVE  frees'[k] = 0
    BY <1>5, <1>6 DEF NoDangling
  <2>1. CASE v = n
    BY <1>2, <1>3, <2>1
  <2>2. CASE v # n
    <3>1. v \in held \cup Kept /\ v \in Ids
      BY <2>2 DEF Kept, Inv, Typed
    <3>2. refs[v].open /\ (k \in refs[v].needs \/ k = n)
      BY <1>2, <1>3, <1>7, <3>1
    <3>3. k \in refs[v].needs => k \in Ids /\ frees[k] = 0
      BY <1>4, <3>1, <3>2 DEF Inv, NoDangling
    <3>. QED
      BY <1>2, <3>2, <3>3
  <2>. QED
    BY <2>1, <2>2
<1>20. FreedOnce'
  BY <1>2 DEF Inv, FreedOnce
<1>21. NothingLeaked'
  <2>. SUFFICES ASSUME NEW k \in Ids', refs'[k].native, refs'[k].kind # "manager", frees'[k] = 0
                PROVE  Answers(k)' \/ \E h \in home'[k] : Answers(h)'
    BY DEF NothingLeaked
  <2>1. CASE k = n
    BY <1>3, <1>8, <2>1 DEF Answers
  <2>2. CASE k \in Ids
    <3>1. \A v \in Ids : Answers(v)' <=> Answers(v)
      BY <1>7 DEF Answers
    <3>2. Answers(k) \/ \E h \in home[k] : Answers(h)
      BY <1>2, <1>7, <2>2 DEF Inv, NothingLeaked
    <3>. QED
      BY <1>2, <1>4, <2>2, <3>1, <3>2
  <2>. QED
    BY <1>2, <2>1, <2>2
<1>. QED
  BY ONLY <1>10, <1>11, <1>12, <1>13, <1>14, <1>15, <1>16, <1>17, <1>18, <1>19, <1>20, <1>21
     DEF Inv, Sound

(* The engine's data layout: made once, kept, and the engine's.            *)
LEMMA EngineLayoutStep ==
  ASSUME Inv, Quiet, NEW e \in Ids, EngineLayout(e)
  PROVE  Inv'
<1>1. Held(e) /\ refs[e].kind = "engine"
  BY DEF EngineLayout, At
<1>2. /\ refs[e] \in Wrap /\ ~refs[e].gone /\ refs[e].needs \subseteq Ids
      /\ refs[e].keeps \subseteq Ids /\ Next1 \notin Ids
  BY <1>1, HeldFacts
<1>3. Next1 \in Nat /\ Ids \subseteq Nat
  BY DEF Typed, Next1, Ids
<1>4. CASE /\ held' = held \cup KeptOf(e, "layout")
           /\ UNCHANGED <<family, refs, home, frees>>
  <2>1. held' \subseteq Ids /\ held \subseteq held' /\ held' \subseteq held \cup Kept
    BY <1>4 DEF KeptOf, Kept, Inv, Typed
  <2>2. Ids' = Ids /\ Kept' = Kept
    BY <1>4 DEF Ids, Kept
  <2>3. \A v \in held' : refs[v].kind = "layout" \/ v \in held
    BY <1>4 DEF KeptOf
  <2>4. ASSUME NEW v \in Ids PROVE Sound(v)'
    <3>1. Sound(v)
      BY DEF Inv
    <3>2. /\ KindsOK(v)' /\ NeedsItself(v)' /\ HomeOK(v)' /\ EngineHas(v)'
          /\ OwnedHasHome(v)' /\ OwnAlive(v)'
      BY <1>4, <3>1 DEF Sound, KindsOK, NeedsItself, HomeOK, EngineHas,
         OwnedHasHome, OwnAlive
    <3>3. GoneOK(v)'
      BY <1>4, <2>1, <2>2, <3>1 DEF Sound, GoneOK
    <3>4. Secure(v)'
      BY <1>4, <2>2, <2>3, <3>1 DEF Sound, Secure
    <3>5. DroppedWithCare(v)'
      BY <1>4, <2>4, QuietFacts DEF DroppedWithCare
    <3>. QED
      BY <3>2, <3>3, <3>4, <3>5 DEF Sound
  <2>5. Typed'
    BY <1>4, <2>1, <2>2 DEF Inv, Typed
  <2>6. NoDangling' /\ FreedOnce' /\ NothingLeaked'
    BY <1>4, <2>1, <2>2 DEF Inv, NoDangling, FreedOnce, NothingLeaked, Answers
  <2>. QED
    BY <2>2, <2>4, <2>5, <2>6 DEF Inv
<1>5. CASE /\ KeptOf(e, "layout") = {} /\ Room("layout")
           /\ AddTo([refs EXCEPT ![e].keeps = @ \cup {Next1}],
                    [Owner(Next1, "layout", {}, {}) EXCEPT !.owned = TRUE], {e})
           /\ held' = held \cup {Next1}
  <2>. DEFINE rp == [refs[e] EXCEPT !.keeps = refs[e].keeps \cup {Next1}]
              r == [Owner(Next1, "layout", {}, {}) EXCEPT !.owned = TRUE]
  <2>1. AddTo([refs EXCEPT ![e] = rp], r, {e})
    BY <1>5
  <2>2. refs[e].keeps \cup {Next1} \in SUBSET Nat
    BY <1>2, <1>3
  <2>3. /\ rp \in Wrap /\ rp.kind = refs[e].kind /\ rp.item = refs[e].item
        /\ rp.needs = refs[e].needs /\ rp.native = refs[e].native /\ rp.open = refs[e].open
        /\ rp.owned = refs[e].owned /\ rp.gone = refs[e].gone
        /\ rp.keeps = refs[e].keeps \cup {Next1}
    BY ONLY <1>2, <2>2 DEF Wrap
  <2>4. /\ r \in Wrap /\ r.kind = "layout" /\ r.needs = {Next1} /\ r.keeps = {}
        /\ r.open /\ ~r.gone /\ r.owned /\ r.native
    BY <1>3 DEF Owner, Wrapper, Wrap, Kinds, Names
  <2>5. "layout" \in KeepKinds("engine")
    BY DEF KeepKinds, Values
  <2>6. e \in refs[e].needs
    BY <1>1, <1>2 DEF Inv, Sound, NeedsItself, KindsOK, Borrowers, Values
  <2>. HIDE DEF rp, r
  <2>7. MayServe(e, rp, {}, r, {e})
    BY <1>1, <1>2, <2>3, <2>4, <2>5, <2>6 DEF MayServe
  <2>. QED
    BY <1>1, <1>5, <2>1, <2>7, ServeKeepsInv
<1>. QED
  BY <1>4, <1>5 DEF EngineLayout

(* A new object cache, in the place of the old one.                        *)
LEMMA SetObjectCacheStep ==
  ASSUME Inv, Quiet, NEW e \in Ids, SetObjectCache(e)
  PROVE  Inv'
<1>1. Held(e) /\ refs[e].kind = "engine"
  BY DEF SetObjectCache, At
<1>2. /\ refs[e] \in Wrap /\ ~refs[e].gone /\ refs[e].keeps \subseteq Ids /\ Next1 \notin Ids
  BY <1>1, HeldFacts
<1>3. Next1 \in Nat /\ Ids \subseteq Nat
  BY DEF Typed, Next1, Ids
<1>. DEFINE D == KeptOf(e, "cache")
            rp == [refs[e] EXCEPT !.keeps = (refs[e].keeps \ D) \cup {Next1},
                                  !.needs = {e, Next1}]
            r == Owner(Next1, "cache", {}, {})
<1>4. AddTo([refs EXCEPT ![e] = rp], r, {}) /\ held' = held
  BY DEF SetObjectCache
<1>5. (refs[e].keeps \ D) \cup {Next1} \in SUBSET Nat /\ {e, Next1} \in SUBSET Nat
  BY <1>2, <1>3
<1>6. /\ rp \in Wrap /\ rp.kind = refs[e].kind /\ rp.item = refs[e].item
      /\ rp.needs = {e, Next1} /\ rp.native = refs[e].native /\ rp.open = refs[e].open
      /\ rp.owned = refs[e].owned /\ rp.gone = refs[e].gone
      /\ rp.keeps = (refs[e].keeps \ D) \cup {Next1}
  BY ONLY <1>2, <1>5 DEF Wrap
<1>7. /\ r \in Wrap /\ r.kind = "cache" /\ r.needs = {Next1} /\ r.keeps = {}
      /\ r.open /\ ~r.gone /\ ~r.owned /\ r.native
  BY <1>3 DEF Owner, Wrapper, Wrap, Kinds, Names
<1>8. "cache" \in KeepKinds("engine") /\ "cache" \in NeedKinds("engine")
  BY DEF KeepKinds, NeedKinds, Values
<1>9. e \in refs[e].needs
  BY <1>1, <1>2 DEF Inv, Sound, NeedsItself, KindsOK, Borrowers, Values
<1>10. e \notin D /\ Next1 \notin D
  BY <1>1, <1>2 DEF KeptOf
<1>. HIDE DEF rp, r
<1>11. MayServe(e, rp, D, r, {})
  BY <1>1, <1>6, <1>7, <1>8, <1>9, <1>10 DEF MayServe
<1>. HIDE DEF D
<1>. QED
  BY <1>1, <1>4, <1>11, ServeKeepsInv

(* The handler that times the passes of a builder.                         *)
LEMMA StartTimingStep ==
  ASSUME Inv, Quiet, NEW b \in Ids, StartTiming(b)
  PROVE  Inv'
<1>1. Held(b) /\ refs[b].kind = "builder"
  BY DEF StartTiming, At
<1>2. /\ refs[b] \in Wrap /\ ~refs[b].gone /\ refs[b].keeps \subseteq Ids
      /\ refs[b].needs \subseteq Ids /\ Next1 \notin Ids
  BY <1>1, HeldFacts
<1>3. Next1 \in Nat /\ Ids \subseteq Nat
  BY DEF Typed, Next1, Ids
<1>. DEFINE rp == [refs[b] EXCEPT !.keeps = refs[b].keeps \cup {Next1},
                                  !.needs = refs[b].needs \cup {Next1}]
            r == Owner(Next1, "timing", {}, {})
<1>4. AddTo([refs EXCEPT ![b] = rp], r, {}) /\ held' = held
  BY DEF StartTiming
<1>5. refs[b].keeps \cup {Next1} \in SUBSET Nat /\ refs[b].needs \cup {Next1} \in SUBSET Nat
  BY <1>2, <1>3
<1>6. /\ rp \in Wrap /\ rp.kind = refs[b].kind /\ rp.item = refs[b].item
      /\ rp.needs = refs[b].needs \cup {Next1} /\ rp.native = refs[b].native
      /\ rp.open = refs[b].open /\ rp.owned = refs[b].owned /\ rp.gone = refs[b].gone
      /\ rp.keeps = refs[b].keeps \cup {Next1}
  BY ONLY <1>2, <1>5 DEF Wrap
<1>7. /\ r \in Wrap /\ r.kind = "timing" /\ r.needs = {Next1} /\ r.keeps = {}
      /\ r.open /\ ~r.gone /\ ~r.owned /\ r.native
  BY <1>3 DEF Owner, Wrapper, Wrap, Kinds, Names
<1>8. "timing" \in KeepKinds("builder") /\ "timing" \in NeedKinds("builder")
  BY DEF KeepKinds, NeedKinds, Values
<1>9. b \in refs[b].needs
  BY <1>1, <1>2 DEF Inv, Sound, NeedsItself, KindsOK, Borrowers, Values
<1>. HIDE DEF rp, r
<1>10. MayServe(b, rp, {}, r, {})
  BY <1>1, <1>6, <1>7, <1>8, <1>9 DEF MayServe
<1>. QED
  BY <1>1, <1>4, <1>10, ServeKeepsInv

-----------------------------------------------------------------------------
(* Engines and sections *)

(* A new engine owns its module, whose wrapper it keeps, and the target    *)
(* machine.                                                                *)
LEMMA CreateEngineStep ==
  ASSUME Inv, Quiet, NEW m \in Ids, NEW t \in Ids, CreateEngine(m, t)
  PROVE  Inv'
<1>1. /\ Held(m) /\ refs[m].kind = "module" /\ Held(t) /\ refs[t].kind = "machine"
      /\ m # t /\ ~refs[m].owned /\ ~refs[t].owned /\ home[m] = {} /\ home[t] = {}
      /\ refs[m].open /\ refs[t].open
  BY DEF CreateEngine, At, Free, Held
<1>2. /\ ~refs[m].gone /\ ~refs[t].gone /\ Next1 \notin Ids
      /\ refs[m] \in Wrap /\ refs[t] \in Wrap
      /\ \A v \in Ids : refs[v].needs \subseteq Ids /\ refs[v].keeps \subseteq Ids
                        /\ home[v] \subseteq Ids
      /\ held \subseteq Ids
  BY <1>1, HeldFacts DEF Inv, Typed
<1>3. /\ refs \in Seq(Wrap) /\ home \in Seq(SUBSET Nat) /\ frees \in Seq(Nat)
      /\ Len(home) = Len(refs) /\ Len(frees) = Len(refs)
      /\ Ids = 1..Len(refs) /\ Len(refs) \in Nat /\ Next1 = Len(refs) + 1
      /\ m \in Nat /\ t \in Nat /\ Next1 \in Nat
  BY DEF Inv, Typed, Ids, Next1
<1>4. /\ refs' \in Seq(Wrap) /\ Len(refs') = Len(refs) + 1
      /\ refs'[Next1] = Owner(Next1, "engine", {}, {m})
      /\ \A v \in Ids \ {m, t} : refs'[v] = refs[v]
      /\ \A v \in {m, t} :
            /\ refs'[v].kind = refs[v].kind /\ refs'[v].item = refs[v].item
            /\ refs'[v].needs = refs[v].needs /\ refs'[v].keeps = refs[v].keeps
            /\ refs'[v].native = refs[v].native /\ refs'[v].open = refs[v].open
            /\ refs'[v].gone = refs[v].gone /\ refs'[v].owned
  <2>. DEFINE rm == [refs[m] EXCEPT !.owned = TRUE]
              rt == [refs[t] EXCEPT !.owned = TRUE]
              mid == [refs EXCEPT ![m] = rm, ![t] = rt]
              r == Owner(Next1, "engine", {}, {m})
  <2>1. refs' = Append(mid, r)
    BY <1>1 DEF CreateEngine
  <2>2. /\ rm \in Wrap /\ rm.kind = refs[m].kind /\ rm.item = refs[m].item
        /\ rm.needs = refs[m].needs /\ rm.native = refs[m].native /\ rm.open = refs[m].open
        /\ rm.keeps = refs[m].keeps /\ rm.gone = refs[m].gone /\ rm.owned
    BY ONLY <1>2 DEF Wrap
  <2>3. /\ rt \in Wrap /\ rt.kind = refs[t].kind /\ rt.item = refs[t].item
        /\ rt.needs = refs[t].needs /\ rt.native = refs[t].native /\ rt.open = refs[t].open
        /\ rt.keeps = refs[t].keeps /\ rt.gone = refs[t].gone /\ rt.owned
    BY ONLY <1>2 DEF Wrap
  <2>4. r \in Wrap
    BY <1>3 DEF Owner, Wrapper, Wrap, Kinds, Names
  <2>. HIDE DEF rm, rt
  <2>5. /\ mid \in Seq(Wrap) /\ Len(mid) = Len(refs)
        /\ \A v \in 1..Len(refs) : mid[v] = IF v = m THEN rm ELSE IF v = t THEN rt ELSE refs[v]
    <3>1. m \in 1..Len(refs) /\ t \in 1..Len(refs) /\ m # t /\ refs \in Seq(Wrap)
      BY <1>1, <1>3
    <3>. QED
      BY ONLY <3>1, <2>2, <2>3, TwoReplaced
  <2>. HIDE DEF mid, r
  <2>6. /\ Append(mid, r) \in Seq(Wrap) /\ Len(Append(mid, r)) = Len(mid) + 1
        /\ Append(mid, r)[Len(mid) + 1] = r
        /\ \A v \in 1..Len(mid) : Append(mid, r)[v] = mid[v]
    BY <2>4, <2>5, AppendProperties
  <2>7. /\ refs' \in Seq(Wrap) /\ Len(refs') = Len(refs) + 1 /\ refs'[Next1] = r
        /\ \A v \in Ids : refs'[v] = IF v = m THEN rm ELSE IF v = t THEN rt ELSE refs[v]
    BY <1>3, <2>1, <2>5, <2>6
  <2>. QED
    BY <2>2, <2>3, <2>7 DEF r
<1>5. /\ home' \in Seq(SUBSET Nat) /\ Len(home') = Len(refs) + 1 /\ home'[Next1] = {}
      /\ home'[m] = {Next1} /\ home'[t] = {Next1}
      /\ \A v \in Ids \ {m, t} : home'[v] = home[v]
  <2>. DEFINE one == [home EXCEPT ![m] = {Next1}]
              mid == [one EXCEPT ![t] = {Next1}]
  <2>1. home' = Append(mid, {})
    BY <1>1 DEF CreateEngine
  <2>2. {Next1} \in SUBSET Nat /\ {} \in SUBSET Nat
    BY <1>3
  <2>3. /\ one \in Seq(SUBSET Nat) /\ Len(one) = Len(refs)
        /\ \A v \in 1..Len(refs) : one[v] = IF v = m THEN {Next1} ELSE home[v]
    BY <1>3, <2>2, ExceptSeq
  <2>. HIDE DEF one
  <2>4. /\ mid \in Seq(SUBSET Nat) /\ Len(mid) = Len(refs)
        /\ \A v \in 1..Len(refs) : mid[v] = IF v = t THEN {Next1} ELSE one[v]
    BY <1>3, <2>3, ExceptSeq
  <2>. HIDE DEF mid
  <2>5. /\ Append(mid, {}) \in Seq(SUBSET Nat) /\ Len(Append(mid, {})) = Len(mid) + 1
        /\ Append(mid, {})[Len(mid) + 1] = {}
        /\ \A v \in 1..Len(mid) : Append(mid, {})[v] = mid[v]
    BY <2>2, <2>4, AppendProperties
  <2>. QED
    BY <1>3, <2>1, <2>3, <2>4, <2>5
<1>6. /\ frees' \in Seq(Nat) /\ Len(frees') = Len(refs) + 1 /\ frees'[Next1] = 0
      /\ \A v \in Ids : frees'[v] = frees[v]
  <2>1. frees' = Append(frees, 0) /\ 0 \in Nat
    BY DEF CreateEngine
  <2>2. /\ Append(frees, 0) \in Seq(Nat) /\ Len(Append(frees, 0)) = Len(frees) + 1
        /\ Append(frees, 0)[Len(frees) + 1] = 0
        /\ \A v \in 1..Len(frees) : Append(frees, 0)[v] = frees[v]
    <3>1. frees \in Seq(Nat)
      BY <1>3
    <3>. QED
      BY ONLY <2>1, <3>1, AppendProperties
  <2>. QED
    BY <1>3, <2>1, <2>2
<1>7. PICK n \in Nat :
      /\ n \notin Ids /\ Ids' = Ids \cup {n} /\ n # m /\ n # t
      /\ refs'[n] = Owner(n, "engine", {}, {m})
      /\ home'[n] = {} /\ home'[m] = {n} /\ home'[t] = {n} /\ frees'[n] = 0
      /\ held' = held \cup {n}
  <2>1. Ids' = Ids \cup {Next1}
    <3>1. Ids' = 1..Len(refs) + 1
      BY <1>4 DEF Ids
    <3>. QED
      BY <1>3, <3>1
  <2>2. Next1 \in Nat /\ held' = held \cup {Next1}
    BY <1>3 DEF CreateEngine
  <2>. QED
    BY <1>2, <1>4, <1>5, <1>6, <2>1, <2>2
<1>8. /\ refs'[n].kind = "engine" /\ refs'[n].needs = {n} /\ refs'[n].keeps = {m}
      /\ refs'[n].native /\ refs'[n].open /\ ~refs'[n].owned /\ ~refs'[n].gone
  BY <1>7 DEF Owner, Wrapper
<1>9. \A v \in Ids :
         /\ refs'[v].kind = refs[v].kind /\ refs'[v].item = refs[v].item
         /\ refs'[v].needs = refs[v].needs /\ refs'[v].keeps = refs[v].keeps
         /\ refs'[v].native = refs[v].native /\ refs'[v].open = refs[v].open
         /\ refs'[v].gone = refs[v].gone
         /\ v \notin {m, t} => refs'[v].owned = refs[v].owned /\ home'[v] = home[v]
         /\ v \in {m, t} => refs'[v].owned /\ home'[v] = {n}
         /\ frees'[v] = frees[v]
  BY <1>4, <1>5, <1>6, <1>7
<1>10. Kept' = Kept \cup {m}
  <2>1. \A v \in Ids' : refs'[v].keeps \subseteq Kept \cup {m}
    BY <1>7, <1>8, <1>9 DEF Kept
  <2>2. m \in refs'[n].keeps /\ n \in Ids' /\ \A v \in Ids : refs[v].keeps = refs'[v].keeps
    BY <1>7, <1>8, <1>9
  <2>3. Kept \subseteq Kept'
    BY <1>7, <2>2 DEF Kept
  <2>4. Kept' \subseteq Kept \cup {m}
    BY <2>1 DEF Kept
  <2>5. m \in Kept'
    BY <2>2 DEF Kept
  <2>. QED
    BY <2>3, <2>4, <2>5
<1>11. \A v \in Ids : KindsOK(v) /\ GoneOK(v) /\ NeedsItself(v) /\ Secure(v) /\ HomeOK(v)
                      /\ EngineHas(v) /\ OwnedHasHome(v) /\ OwnAlive(v) /\ DroppedWithCare(v)
  BY DEF Inv, Sound
<1>12. Typed'
  <2>1. \A v \in Ids' : refs'[v].needs \cup refs'[v].keeps \cup home'[v] \subseteq Ids'
    <3>1. \A v \in Ids : refs'[v].needs \cup refs'[v].keeps \cup home'[v] \subseteq Ids'
      BY <1>2, <1>7, <1>9
    <3>2. refs'[n].needs \cup refs'[n].keeps \cup home'[n] \subseteq Ids'
      BY <1>7, <1>8
    <3>. QED
      BY <1>7, <3>1, <3>2
  <2>2. held' \subseteq Ids' /\ family' \in Families
    BY <1>7 DEF Inv, Typed, CreateEngine
  <2>. QED
    BY ONLY <1>4, <1>5, <1>6, <2>1, <2>2 DEF Typed
<1>13. \A v \in Ids' : KindsOK(v)'
  <2>1. KindsOK(n)'
    <3>1. "module" \in KeepKinds("engine") /\ "engine" \notin Borrowers
      BY DEF KeepKinds, Borrowers, Values
    <3>. QED
      BY <1>1, <1>8, <1>9, <3>1 DEF KindsOK
  <2>2. ASSUME NEW v \in Ids PROVE KindsOK(v)'
    <3>1. KindsOK(v)
      BY <1>11, <2>2
    <3>2. \A k \in refs[v].keeps \cup refs[v].needs : refs'[k].kind = refs[k].kind
      BY <1>2, <1>9, <2>2
    <3>3. refs'[v].owned => refs[v].kind \in {"module", "machine", "layout"}
      BY <1>1, <1>9, <2>2, <3>1 DEF KindsOK
    <3>. QED
      BY <1>9, <3>1, <3>2, <3>3 DEF KindsOK
  <2>. QED
    BY <1>7, <2>1, <2>2
<1>14. \A v \in Ids' : GoneOK(v)'
  <2>1. GoneOK(n)'
    BY <1>8 DEF GoneOK
  <2>2. ASSUME NEW v \in Ids PROVE GoneOK(v)'
    BY <1>2, <1>7, <1>9, <1>10, <1>11, <2>2 DEF GoneOK
  <2>. QED
    BY <1>7, <2>1, <2>2
<1>15. \A v \in Ids' : NeedsItself(v)' /\ OwnAlive(v)'
  <2>1. NeedsItself(n)' /\ OwnAlive(n)'
    BY <1>7, <1>8 DEF NeedsItself, OwnAlive
  <2>2. ASSUME NEW v \in Ids PROVE NeedsItself(v)' /\ OwnAlive(v)'
    BY <1>9, <1>11, <2>2 DEF NeedsItself, OwnAlive
  <2>. QED
    BY <1>7, <2>1, <2>2
<1>16. \A v \in Ids' : Secure(v)'
  <2>1. Secure(n)'
    BY <1>8 DEF Secure
  <2>2. ASSUME NEW v \in Ids PROVE Secure(v)'
    <3>. SUFFICES ASSUME refs[v].open, NEW k \in refs[v].needs \ {v}
                  PROVE  \/ k \in refs[v].keeps
                         \/ \E q \in refs[v].keeps : refs'[q].kind = "module" /\ k \in refs'[q].keeps
                         \/ /\ refs'[k].kind = "object" /\ refs'[v].kind = "iterator" /\ v \notin held'
                            /\ \A g \in Ids' : v \in refs'[g].keeps => k \in refs'[g].keeps
      BY <1>9, <2>2 DEF Secure
    <3>1. \/ k \in refs[v].keeps
          \/ \E q \in refs[v].keeps : refs[q].kind = "module" /\ k \in refs[q].keeps
          \/ /\ refs[k].kind = "object" /\ refs[v].kind = "iterator" /\ v \notin held
             /\ \A g \in Ids : v \in refs[g].keeps => k \in refs[g].keeps
      BY <1>11, <2>2 DEF Secure
    <3>2. \A q \in refs[v].keeps : refs'[q].kind = refs[q].kind /\ refs'[q].keeps = refs[q].keeps
      BY <1>2, <1>9, <2>2
    <3>3. refs[v].kind = "iterator" => v # m
      BY <1>1
    <3>4. k \in Ids
      BY <1>2, <2>2
    <3>5. CASE /\ refs[k].kind = "object" /\ refs[v].kind = "iterator" /\ v \notin held
               /\ \A g \in Ids : v \in refs[g].keeps => k \in refs[g].keeps
      <4>1. v \notin held' /\ v \notin refs'[n].keeps
        BY <1>7, <1>8, <2>2, <3>3, <3>5
      <4>2. \A g \in Ids' : v \in refs'[g].keeps => k \in refs'[g].keeps
        BY <1>7, <1>9, <3>5, <4>1
      <4>. QED
        BY <1>9, <3>4, <3>5, <4>1, <4>2
    <3>. QED
      BY <3>1, <3>2, <3>5
  <2>. QED
    BY <1>7, <2>1, <2>2
<1>17. \A v \in {m, t} : frees[v] = 0
  BY <1>1, <1>11 DEF OwnAlive, KindsOK, Borrowers, Values
<1>18. \A v \in Ids' : HomeOK(v)'
  <2>1. HomeOK(n)'
    BY <1>7 DEF HomeOK
  <2>2. ASSUME NEW v \in {m, t} PROVE HomeOK(v)'
    BY <1>1, <1>8, <1>9, <1>17, <2>2 DEF HomeOK
  <2>3. ASSUME NEW v \in Ids \ {m, t} PROVE HomeOK(v)'
    <3>1. HomeOK(v) /\ home'[v] = home[v] /\ frees'[v] = frees[v] /\ \A h \in home[v] : h \in Ids
      BY <1>2, <1>9, <1>11, <2>3
    <3>2. /\ refs'[v].kind = refs[v].kind /\ refs'[v].owned = refs[v].owned
          /\ refs'[v].gone = refs[v].gone /\ refs'[v].keeps = refs[v].keeps
          /\ \A h \in Ids : refs'[h].kind = refs[h].kind /\ refs'[h].open = refs[h].open
      BY <1>9, <2>3
    <3>. QED
      BY ONLY <3>1, <3>2 DEF HomeOK
  <2>. QED
    BY <1>7, <2>1, <2>2, <2>3
<1>19. \A v \in Ids' : EngineHas(v)'
  <2>1. EngineHas(n)'
    BY <1>7, <1>8 DEF EngineHas
  <2>2. ASSUME NEW v \in Ids PROVE EngineHas(v)'
    <3>1. refs[v].kind = "engine" /\ refs[v].open => m \notin refs[v].keeps
      BY <1>1, <1>11, <2>2 DEF EngineHas
    <3>2. refs[v].kind = "engine" => t \notin refs[v].keeps
      BY <1>1, <1>11, <2>2 DEF KindsOK, KeepKinds, Values
    <3>3. \A k \in refs[v].keeps : k \in Ids /\ refs'[k].kind = refs[k].kind
      BY <1>2, <1>9, <2>2
    <3>. QED
      BY <1>9, <1>11, <2>2, <3>1, <3>2, <3>3 DEF EngineHas
  <2>. QED
    BY <1>7, <2>1, <2>2
<1>20. \A v \in Ids' : OwnedHasHome(v)'
  <2>1. OwnedHasHome(n)'
    BY <1>8 DEF OwnedHasHome
  <2>2. ASSUME NEW v \in Ids PROVE OwnedHasHome(v)'
    <3>1. CASE v \in {m, t}
      BY <1>8, <1>9, <3>1 DEF OwnedHasHome
    <3>2. CASE v \notin {m, t}
      <4>1. OwnedHasHome(v) /\ \A h \in home[v] : h \in Ids
        BY <1>2, <1>11, <2>2
      <4>. QED
        BY <1>9, <3>2, <4>1 DEF OwnedHasHome
    <3>. QED
      BY <3>1, <3>2
  <2>. QED
    BY <1>7, <2>1, <2>2
<1>21. \A v \in Ids' : DroppedWithCare(v)'
  <2>1. \A v \in Ids : refs[v].kind = "engine" /\ ~refs[v].gone => v \in held
    BY QuietFacts
  <2>. QED
    BY <1>7, <1>9, <2>1 DEF DroppedWithCare
<1>22. NoDangling'
  <2>. SUFFICES ASSUME NEW v \in held \cup Kept \cup {m, n}, refs'[v].open, NEW k \in refs'[v].needs
                PROVE  frees'[k] = 0
    BY <1>7, <1>10 DEF NoDangling
  <2>1. CASE v = n
    BY <1>7, <1>8, <2>1
  <2>2. CASE v # n
    <3>1. v \in held \cup Kept /\ v \in Ids
      BY <1>1, <2>2 DEF Held, Kept, Inv, Typed
    <3>2. k \in refs[v].needs /\ k \in Ids /\ refs[v].open
      BY <1>2, <1>9, <3>1
    <3>. QED
      BY <1>9, <3>1, <3>2 DEF Inv, NoDangling
  <2>. QED
    BY <2>1, <2>2
<1>23. FreedOnce'
  BY <1>7, <1>9 DEF Inv, FreedOnce
<1>24. NothingLeaked'
  <2>. SUFFICES ASSUME NEW k \in Ids', refs'[k].native, refs'[k].kind # "manager", frees'[k] = 0
                PROVE  Answers(k)' \/ \E h \in home'[k] : Answers(h)'
    BY DEF NothingLeaked
  <2>1. Answers(n)'
    BY <1>8 DEF Answers
  <2>2. CASE k = n
    BY <2>1, <2>2
  <2>3. CASE k \in {m, t}
    BY <1>9, <2>1, <2>3
  <2>4. CASE k \in Ids \ {m, t}
    <3>1. \A v \in Ids : Answers(v)' <=> Answers(v)
      BY <1>9 DEF Answers
    <3>2. Answers(k) \/ \E h \in home[k] : Answers(h)
      BY <1>9, <2>4 DEF Inv, NothingLeaked
    <3>. QED
      BY <1>2, <1>9, <2>4, <3>1, <3>2
  <2>. QED
    BY <1>7, <2>2, <2>3, <2>4
<1>. QED
  BY ONLY <1>12, <1>13, <1>14, <1>15, <1>16, <1>18, <1>19, <1>20, <1>21, <1>22, <1>23, <1>24
     DEF Inv, Sound

(* The sections of an object file: the generator keeps the iterator that   *)
(* it yields, and the file that the iterator reads.                        *)
LEMMA SectionsStep ==
  ASSUME Inv, Quiet, NEW o \in Ids, Sections(o)
  PROVE  Inv'
<1>1. Held(o) /\ refs[o].kind = "object"
  BY DEF Sections, At
<1>2. /\ refs[o] \in Wrap /\ ~refs[o].gone /\ refs[o].open
      /\ \A v \in Ids : refs[v].needs \subseteq Ids /\ refs[v].keeps \subseteq Ids
                        /\ home[v] \subseteq Ids
      /\ held \subseteq Ids
  BY <1>1, HeldFacts DEF Inv, Typed, Held
<1>3. /\ refs \in Seq(Wrap) /\ home \in Seq(SUBSET Nat) /\ frees \in Seq(Nat)
      /\ Len(home) = Len(refs) /\ Len(frees) = Len(refs)
      /\ Ids = 1..Len(refs) /\ Len(refs) \in Nat /\ Next1 = Len(refs) + 1
      /\ o \in Nat /\ Next1 \in Nat
  BY DEF Inv, Typed, Ids, Next1
<1>. DEFINE i == Owner(Next1, "iterator", {o}, {})
            g == Wrapper("sections", {}, {o, Next1})
<1>4. i \in Wrap /\ g \in Wrap
  BY <1>3 DEF Owner, Wrapper, Wrap, Kinds, Names
<1>5. /\ refs' \in Seq(Wrap) /\ Len(refs') = Len(refs) + 2
      /\ refs'[Next1] = i /\ refs'[Next1 + 1] = g
      /\ \A v \in Ids : refs'[v] = refs[v]
  <2>1. refs' = refs \o <<i, g>>
    BY DEF Sections
  <2>. HIDE DEF i, g
  <2>2. <<i, g>> \in Seq(Wrap) /\ Len(<<i, g>>) = 2
    BY <1>4
  <2>. DEFINE two == <<i, g>>
  <2>3. two[1] = i /\ two[2] = g
    OBVIOUS
  <2>4. refs' = refs \o two /\ two \in Seq(Wrap) /\ Len(two) = 2
    BY <2>1, <2>2
  <2>. HIDE DEF two
  <2>5. /\ refs \o two \in Seq(Wrap) /\ Len(refs \o two) = Len(refs) + Len(two)
        /\ \A k \in 1 .. Len(refs) + Len(two) :
              (refs \o two)[k] = IF k <= Len(refs) THEN refs[k] ELSE two[k - Len(refs)]
    BY <1>3, <2>4, ConcatProperties
  <2>6. /\ Len(refs) + 1 \in 1 .. Len(refs) + 2 /\ Len(refs) + 2 \in 1 .. Len(refs) + 2
        /\ ~(Len(refs) + 1 <= Len(refs)) /\ ~(Len(refs) + 2 <= Len(refs))
        /\ Len(refs) + 1 - Len(refs) = 1 /\ Len(refs) + 2 - Len(refs) = 2
        /\ Next1 + 1 = Len(refs) + 2
        /\ \A k \in Ids : k \in 1 .. Len(refs) + 2 /\ k <= Len(refs)
    BY <1>3
  <2>. QED
    BY <1>3, <2>3, <2>4, <2>5, <2>6
<1>6. /\ home' \in Seq(SUBSET Nat) /\ Len(home') = Len(refs) + 2
      /\ home'[Next1] = {} /\ home'[Next1 + 1] = {}
      /\ \A v \in Ids : home'[v] = home[v]
  <2>. DEFINE two == << {}, {} >>
  <2>1. two[1] = {} /\ two[2] = {} /\ Len(two) = 2 /\ two \in Seq(SUBSET Nat)
    OBVIOUS
  <2>2. home' = home \o two
    BY DEF Sections
  <2>. HIDE DEF two
  <2>3. /\ home \o two \in Seq(SUBSET Nat) /\ Len(home \o two) = Len(home) + Len(two)
        /\ \A k \in 1 .. Len(home) + Len(two) :
              (home \o two)[k] = IF k <= Len(home) THEN home[k] ELSE two[k - Len(home)]
    <3>1. home \in Seq(SUBSET Nat)
      BY <1>3
    <3>. QED
      BY ONLY <3>1, <2>1, ConcatProperties
  <2>4. /\ Len(refs) + 1 \in 1 .. Len(refs) + 2 /\ Len(refs) + 2 \in 1 .. Len(refs) + 2
        /\ ~(Len(refs) + 1 <= Len(refs)) /\ ~(Len(refs) + 2 <= Len(refs))
        /\ Len(refs) + 1 - Len(refs) = 1 /\ Len(refs) + 2 - Len(refs) = 2
        /\ Next1 + 1 = Len(refs) + 2
        /\ \A k \in Ids : k \in 1 .. Len(refs) + 2 /\ k <= Len(refs)
    BY <1>3
  <2>. QED
    BY <1>3, <2>1, <2>2, <2>3, <2>4
<1>7. /\ frees' \in Seq(Nat) /\ Len(frees') = Len(refs) + 2
      /\ frees'[Next1] = 0 /\ frees'[Next1 + 1] = 0
      /\ \A v \in Ids : frees'[v] = frees[v]
  <2>. DEFINE two == << 0, 0 >>
  <2>1. two[1] = 0 /\ two[2] = 0 /\ Len(two) = 2 /\ two \in Seq(Nat)
    OBVIOUS
  <2>2. frees' = frees \o two
    BY DEF Sections
  <2>. HIDE DEF two
  <2>3. /\ frees \o two \in Seq(Nat) /\ Len(frees \o two) = Len(frees) + Len(two)
        /\ \A k \in 1 .. Len(frees) + Len(two) :
              (frees \o two)[k] = IF k <= Len(frees) THEN frees[k] ELSE two[k - Len(frees)]
    BY <1>3, <2>1, ConcatProperties
  <2>4. /\ Len(refs) + 1 \in 1 .. Len(refs) + 2 /\ Len(refs) + 2 \in 1 .. Len(refs) + 2
        /\ ~(Len(refs) + 1 <= Len(refs)) /\ ~(Len(refs) + 2 <= Len(refs))
        /\ Len(refs) + 1 - Len(refs) = 1 /\ Len(refs) + 2 - Len(refs) = 2
        /\ Next1 + 1 = Len(refs) + 2
        /\ \A k \in Ids : k \in 1 .. Len(refs) + 2 /\ k <= Len(refs)
    BY <1>3
  <2>. QED
    BY <1>3, <2>1, <2>2, <2>3, <2>4
<1>8. PICK n \in Nat, s \in Nat :
      /\ n \notin Ids /\ s \notin Ids /\ n # s /\ Ids' = Ids \cup {n, s}
      /\ refs'[n] = Owner(n, "iterator", {o}, {}) /\ refs'[s] = Wrapper("sections", {}, {o, n})
      /\ home'[n] = {} /\ home'[s] = {} /\ frees'[n] = 0 /\ frees'[s] = 0
      /\ held' = held \cup {s}
  <2>1. Ids' = Ids \cup {Next1, Next1 + 1}
    <3>1. Ids' = 1..Len(refs) + 2
      BY <1>5 DEF Ids
    <3>2. Ids = 1..Len(refs) /\ Len(refs) \in Nat /\ Next1 = Len(refs) + 1
      BY <1>3
    <3>. QED
      BY ONLY <3>1, <3>2
  <2>2. /\ Next1 \in Nat /\ Next1 + 1 \in Nat /\ held' = held \cup {Next1 + 1}
        /\ Next1 \notin Ids /\ Next1 + 1 \notin Ids /\ Next1 # Next1 + 1
    BY <1>3 DEF Sections
  <2>3. /\ refs'[Next1] = Owner(Next1, "iterator", {o}, {})
        /\ refs'[Next1 + 1] = Wrapper("sections", {}, {o, Next1})
    BY <1>5
  <2>. QED
    BY <1>6, <1>7, <2>1, <2>2, <2>3
<1>. HIDE DEF i, g
<1>9. /\ refs'[n].kind = "iterator" /\ refs'[n].needs = {n, o} /\ refs'[n].keeps = {}
      /\ refs'[n].native /\ refs'[n].open /\ ~refs'[n].owned /\ ~refs'[n].gone
      /\ refs'[n].item = "none"
      /\ refs'[s].kind = "sections" /\ refs'[s].needs = {} /\ refs'[s].keeps = {o, n}
      /\ ~refs'[s].native /\ refs'[s].open /\ ~refs'[s].owned /\ ~refs'[s].gone
  BY <1>8 DEF Owner, Wrapper
<1>10. /\ o # n /\ o # s
       /\ \A v \in Ids : v # n /\ v # s /\ refs'[v] = refs[v] /\ home'[v] = home[v]
                         /\ frees'[v] = frees[v]
  BY <1>5, <1>6, <1>7, <1>8
<1>11. Kept' = Kept \cup {o, n}
  <2>1. \A v \in Ids' : refs'[v].keeps \subseteq Kept \cup {o, n}
    BY <1>8, <1>9, <1>10 DEF Kept
  <2>2. Kept \subseteq Kept'
    BY <1>8, <1>10 DEF Kept
  <2>3. o \in Kept' /\ n \in Kept'
    BY <1>8, <1>9 DEF Kept
  <2>. QED
    BY <2>1, <2>2, <2>3 DEF Kept
<1>12. \A v \in Ids : KindsOK(v) /\ GoneOK(v) /\ NeedsItself(v) /\ Secure(v) /\ HomeOK(v)
                      /\ EngineHas(v) /\ OwnedHasHome(v) /\ OwnAlive(v) /\ DroppedWithCare(v)
  BY DEF Inv, Sound
<1>13. Typed'
  <2>1. \A v \in Ids' : refs'[v].needs \cup refs'[v].keeps \cup home'[v] \subseteq Ids'
    <3>1. \A v \in Ids : refs'[v].needs \cup refs'[v].keeps \cup home'[v] \subseteq Ids'
      BY <1>2, <1>8, <1>10
    <3>2. \A v \in {n, s} : refs'[v].needs \cup refs'[v].keeps \cup home'[v] \subseteq Ids'
      BY <1>8, <1>9
    <3>. QED
      BY <1>8, <3>1, <3>2
  <2>2. held' \subseteq Ids' /\ family' \in Families
    BY <1>8 DEF Inv, Typed, Sections
  <2>. QED
    BY ONLY <1>5, <1>6, <1>7, <2>1, <2>2 DEF Typed
<1>14. \A v \in Ids' : KindsOK(v)'
  <2>1. /\ KeepKinds("sections") = {"object", "iterator"}
        /\ "object" \in NeedKinds("iterator") /\ "iterator" \notin Borrowers
        /\ "sections" \in Borrowers
    BY DEF KeepKinds, NeedKinds, Borrowers, Values
  <2>2. KindsOK(n)' /\ KindsOK(s)'
    <3>1. refs'[o].kind = "object"
      BY <1>1, <1>10
    <3>2. KindsOK(n)'
      BY ONLY <1>9, <2>1, <3>1 DEF KindsOK
    <3>3. KindsOK(s)'
      BY ONLY <1>9, <2>1, <3>1 DEF KindsOK
    <3>. QED
      BY <3>2, <3>3
  <2>3. ASSUME NEW v \in Ids PROVE KindsOK(v)'
    <3>1. KindsOK(v) /\ refs'[v] = refs[v]
      BY <1>10, <1>12, <2>3
    <3>2. \A k \in refs[v].keeps \cup refs[v].needs : refs'[k] = refs[k]
      BY <1>2, <1>10, <2>3
    <3>. QED
      BY ONLY <3>1, <3>2 DEF KindsOK
  <2>. QED
    BY <1>8, <2>2, <2>3
<1>15. \A v \in Ids' : GoneOK(v)'
  <2>1. GoneOK(n)' /\ GoneOK(s)'
    BY <1>9 DEF GoneOK
  <2>2. ASSUME NEW v \in Ids PROVE GoneOK(v)'
    BY <1>2, <1>8, <1>10, <1>11, <1>12, <2>2 DEF GoneOK
  <2>. QED
    BY <1>8, <2>1, <2>2
<1>16. \A v \in Ids' : NeedsItself(v)' /\ OwnAlive(v)'
  <2>1. NeedsItself(n)' /\ OwnAlive(n)' /\ NeedsItself(s)' /\ OwnAlive(s)'
    BY <1>8, <1>9 DEF NeedsItself, OwnAlive
  <2>2. ASSUME NEW v \in Ids PROVE NeedsItself(v)' /\ OwnAlive(v)'
    BY <1>10, <1>12, <2>2 DEF NeedsItself, OwnAlive
  <2>. QED
    BY <1>8, <2>1, <2>2
<1>17. \A v \in Ids' : Secure(v)'
  <2>1. Secure(s)'
    BY <1>9 DEF Secure
  <2>2. Secure(n)'
    <3>1. \A q \in Ids : n \notin refs'[q].keeps
      BY <1>2, <1>8, <1>10
    <3>2. n \notin held'
      BY <1>2, <1>8
    <3>3. refs'[o].kind = "object"
      BY <1>1, <1>10
    <3>. QED
      BY <1>8, <1>9, <3>1, <3>2, <3>3 DEF Secure
  <2>3. ASSUME NEW v \in Ids PROVE Secure(v)'
    <3>. SUFFICES ASSUME refs[v].open, NEW k \in refs[v].needs \ {v}
                  PROVE  \/ k \in refs[v].keeps
                         \/ \E q \in refs[v].keeps : refs'[q].kind = "module" /\ k \in refs'[q].keeps
                         \/ /\ refs'[k].kind = "object" /\ refs'[v].kind = "iterator" /\ v \notin held'
                            /\ \A q \in Ids' : v \in refs'[q].keeps => k \in refs'[q].keeps
      BY <1>10, <2>3 DEF Secure
    <3>1. \/ k \in refs[v].keeps
          \/ \E q \in refs[v].keeps : refs[q].kind = "module" /\ k \in refs[q].keeps
          \/ /\ refs[k].kind = "object" /\ refs[v].kind = "iterator" /\ v \notin held
             /\ \A q \in Ids : v \in refs[q].keeps => k \in refs[q].keeps
      BY <1>12, <2>3 DEF Secure
    <3>2. \A q \in refs[v].keeps : refs'[q] = refs[q]
      BY <1>2, <1>10, <2>3
    <3>3. refs[v].kind = "iterator" => v # o
      BY <1>1
    <3>4. k \in Ids
      BY <1>2, <2>3
    <3>. QED
      BY <1>8, <1>9, <1>10, <2>3, <3>1, <3>2, <3>3, <3>4
  <2>. QED
    BY <1>8, <2>1, <2>2, <2>3
<1>18. \A v \in Ids' : HomeOK(v)'
  <2>1. HomeOK(n)' /\ HomeOK(s)'
    BY <1>8 DEF HomeOK
  <2>2. ASSUME NEW v \in Ids PROVE HomeOK(v)'
    <3>1. HomeOK(v) /\ home'[v] = home[v] /\ frees'[v] = frees[v] /\ refs'[v] = refs[v]
      BY <1>10, <1>12, <2>2
    <3>2. \A h \in home[v] : refs'[h] = refs[h]
      BY <1>2, <1>10, <2>2
    <3>. QED
      BY ONLY <3>1, <3>2 DEF HomeOK
  <2>. QED
    BY <1>8, <2>1, <2>2
<1>19. \A v \in Ids' : EngineHas(v)'
  <2>1. EngineHas(n)' /\ EngineHas(s)'
    BY <1>9 DEF EngineHas
  <2>2. ASSUME NEW v \in Ids PROVE EngineHas(v)'
    <3>1. \A k \in refs[v].keeps : refs'[k] = refs[k] /\ home'[k] = home[k]
      BY <1>2, <1>10, <2>2
    <3>. QED
      BY <1>10, <1>12, <2>2, <3>1 DEF EngineHas
  <2>. QED
    BY <1>8, <2>1, <2>2
<1>20. \A v \in Ids' : OwnedHasHome(v)'
  <2>1. OwnedHasHome(n)' /\ OwnedHasHome(s)'
    BY <1>9 DEF OwnedHasHome
  <2>2. ASSUME NEW v \in Ids PROVE OwnedHasHome(v)'
    <3>1. OwnedHasHome(v) /\ \A h \in home[v] : refs'[h] = refs[h]
      BY <1>2, <1>10, <1>12, <2>2
    <3>. QED
      BY <1>10, <3>1 DEF OwnedHasHome
  <2>. QED
    BY <1>8, <2>1, <2>2
<1>21. \A v \in Ids' : DroppedWithCare(v)'
  <2>1. \A v \in Ids : refs[v].kind = "engine" /\ ~refs[v].gone => v \in held
    BY QuietFacts
  <2>. QED
    BY <1>8, <1>9, <1>10, <2>1 DEF DroppedWithCare
<1>22. frees[o] = 0
  BY <1>1, <1>2, <1>12 DEF OwnAlive, KindsOK, Borrowers, Values
<1>23. NoDangling'
  <2>. SUFFICES ASSUME NEW v \in held \cup Kept \cup {o, n, s}, refs'[v].open, NEW k \in refs'[v].needs
                PROVE  frees'[k] = 0
    BY <1>8, <1>11 DEF NoDangling
  <2>1. CASE v \in {n, s}
    BY <1>8, <1>9, <1>10, <1>22, <2>1
  <2>2. CASE v \notin {n, s}
    <3>1. v \in held \cup Kept /\ v \in Ids
      BY <1>1, <2>2 DEF Held, Kept, Inv, Typed
    <3>2. k \in refs[v].needs /\ k \in Ids /\ refs[v].open
      BY <1>2, <1>10, <3>1
    <3>. QED
      BY <1>10, <3>1, <3>2 DEF Inv, NoDangling
  <2>. QED
    BY <2>1, <2>2
<1>24. FreedOnce'
  BY <1>8, <1>10 DEF Inv, FreedOnce
<1>25. NothingLeaked'
  <2>. SUFFICES ASSUME NEW k \in Ids', refs'[k].native, refs'[k].kind # "manager", frees'[k] = 0
                PROVE  Answers(k)' \/ \E h \in home'[k] : Answers(h)'
    BY DEF NothingLeaked
  <2>1. CASE k \in {n, s}
    BY <1>9, <2>1 DEF Answers
  <2>2. CASE k \in Ids
    <3>1. \A v \in Ids : Answers(v)' <=> Answers(v)
      BY <1>10 DEF Answers
    <3>2. Answers(k) \/ \E h \in home[k] : Answers(h)
      BY <1>10, <2>2 DEF Inv, NothingLeaked
    <3>. QED
      BY <1>2, <1>10, <2>2, <3>1, <3>2
  <2>. QED
    BY <1>8, <2>1, <2>2
<1>. QED
  BY ONLY <1>13, <1>14, <1>15, <1>16, <1>17, <1>18, <1>19, <1>20, <1>21, <1>23, <1>24, <1>25
     DEF Inv, Sound

-----------------------------------------------------------------------------
(* Every step *)

(* What the program does when all is collected leaves the invariant.       *)
LEMMA OperationStep ==
  ASSUME Inv, Quiet, Operation
  PROVE  Inv'
<1>1. held \subseteq Ids
  BY DEF Inv, Typed
<1>2. CASE \/ CreateContext \/ CreateMachine \/ CreateLayout
           \/ CreateTuning \/ CreateManager \/ CreateObject
  BY <1>2, CreateStep DEF CreateContext, CreateMachine, CreateLayout,
     CreateTuning, CreateManager, CreateObject
<1>3. CASE Parse({})
  BY <1>3, ParseStep
<1>4. ASSUME NEW w \in held, Close(w) \/ Drop(w) PROVE Inv'
  BY <1>1, <1>4, CloseStep, DropStep
<1>5. ASSUME NEW w \in held, Parse({w}) \/ Clone(w) PROVE Inv'
  BY <1>1, <1>5, ParseStep, CloneStep
<1>6. ASSUME NEW w \in held, NEW k \in {"function", "global"}, GetNamed(w, k) PROVE Inv'
  BY <1>1, <1>6, GetNamedStep
<1>7. ASSUME NEW w \in held, NEW k \in Items[refs[w].kind], Iterate(w, k) PROVE Inv'
  BY <1>1, <1>7, IterateStep
<1>8. ASSUME NEW w \in held, NextItem(w) \/ TypeOf(w) PROVE Inv'
  BY <1>1, <1>8, NextItemStep, TypeJoins DEF TypeOf
<1>9. ASSUME NEW w \in held, EngineLayout(w) \/ SetObjectCache(w) PROVE Inv'
  BY <1>1, <1>9, EngineLayoutStep, SetObjectCacheStep
<1>10. ASSUME NEW w \in held, StartTiming(w) \/ Sections(w) PROVE Inv'
  BY <1>1, <1>10, StartTimingStep, SectionsStep
<1>11. ASSUME NEW w \in held, NEW v \in held,
              CreateEngine(w, v) \/ AddModule(w, v) \/ RemoveModule(w, v) \/ CreateBuilder(w, v)
       PROVE  Inv'
  BY <1>1, <1>11, CreateEngineStep, AddModuleStep, RemoveModuleStep,
     CreateBuilderStep
<1>. QED
  BY <1>2, <1>3, <1>4, <1>5, <1>6, <1>7, <1>8, <1>9, <1>10, <1>11 DEF Operation

(* The invariant holds at first, and every step leaves it.                 *)
THEOREM HandlesInvariant == Spec => []Inv
<1>1. Init => Inv
  BY DEF Init, Inv, Typed, Ids, NoDangling, FreedOnce, NothingLeaked, Kept
<1>2. Inv /\ [Next]_vars => Inv'
  <2>. SUFFICES ASSUME Inv, [Next]_vars PROVE Inv'
    OBVIOUS
  <2>1. ASSUME NEW w \in Ids, Collect(w) PROVE Inv'
    BY <2>1, CollectStep
  <2>2. CASE Quiet /\ Operation
    BY <2>2, OperationStep
  <2>3. CASE UNCHANGED vars
    <3>. USE <2>3 DEF vars
    <3>1. Ids' = Ids /\ Kept' = Kept
      BY DEF Ids, Kept
    <3>2. Typed' /\ NoDangling' /\ FreedOnce' /\ NothingLeaked'
      BY <3>1 DEF Inv, Typed, NoDangling, FreedOnce, NothingLeaked, Answers
    <3>3. ASSUME NEW w \in Ids PROVE Sound(w)'
      BY <3>1 DEF Inv, Sound, KindsOK, GoneOK, NeedsItself, Secure, HomeOK,
         EngineHas, OwnedHasHome, OwnAlive, DroppedWithCare, Careful, FreedBy,
         Disposes, Disposable
    <3>. QED
      BY <3>1, <3>2, <3>3 DEF Inv
  <2>. QED
    BY <2>1, <2>2, <2>3 DEF Next
<1>. QED
  BY <1>1, <1>2, PTL DEF Spec

(* The types of the wrappers' fields, TypeOK, are part of it.              *)
THEOREM HandlesTyped == Spec => []TypeOK
<1>1. Inv => TypeOK
  <2>. SUFFICES ASSUME Typed PROVE TypeOK
    BY DEF Inv
  <2>1. ASSUME NEW w \in Ids PROVE refs[w].kind \in Kinds /\ frees[w] \in Nat
    <3>1. refs[w] \in Wrap /\ frees[w] \in Nat
      BY <2>1 DEF Typed, Ids
    <3>. QED
      BY <3>1 DEF Wrap
  <2>. QED
    BY <2>1 DEF Typed, TypeOK
<1>. QED
  BY <1>1, HandlesInvariant, PTL

(* A wrapper that the program, or another wrapper, can still use reads     *)
(* only native objects that exist, whatever the program dropped.           *)
THEOREM NoWrapperDangles == Spec => []NoDangling
<1>1. Inv => NoDangling
  BY DEF Inv
<1>. QED
  BY <1>1, HandlesInvariant, PTL

(* A native object is freed at most once: by its wrapper, or by the        *)
(* context or the engine that it belongs to.                               *)
THEOREM NativesFreedOnce == Spec => []FreedOnce
<1>1. Inv => FreedOnce
  BY DEF Inv
<1>. QED
  BY <1>1, HandlesInvariant, PTL

(* Every native object but a pass manager has an open wrapper, its own or  *)
(* that of what destroys it, until it is freed.                            *)
THEOREM NoNativeLeaked == Spec => []NothingLeaked
<1>1. Inv => NothingLeaked
  BY DEF Inv
<1>. QED
  BY <1>1, HandlesInvariant, PTL
=============================================================================
