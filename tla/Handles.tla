------------------------------ MODULE Handles ------------------------------
(***************************************************************************)
(* Which Python wrapper keeps which native object alive.                    *)
(*                                                                         *)
(* A wrapper (ffi.ObjectRef) may own a native object, which its _dispose   *)
(* frees, reads through further ones, and holds references to other        *)
(* wrappers.  Python collects a wrapper that nothing refers to, and that   *)
(* closes it.  The wrappers of contexts, modules, values, iterators,       *)
(* types, target machines, data layouts, engines, object caches, pass      *)
(* builders, pass managers and object files differ only in what they own,  *)
(* need and keep.                                                          *)
(*                                                                         *)
(* The program is free to drop references in any order.  It is careful     *)
(* where llvmlite asks for it: see Careful and Global.                 *)
(***************************************************************************)
EXTENDS Naturals, Sequences, FiniteSets

(* A family bounds a behaviour: the kinds of wrapper it creates, and how    *)
(* many of each.                                                           *)
CONSTANT Families

VARIABLES
  family,  \* family[k]: how many wrappers of kind k this behaviour creates
  refs,    \* the wrappers, in order of creation; the native object a wrapper
           \* creates has the wrapper's number
  held,    \* the wrappers the program refers to
  home,    \* home[n]: the native objects that destroy native n with them
  frees    \* frees[n]: how often native n was freed

vars == <<family, refs, held, home, frees>>

Ids == 1..Len(refs)

Values == {"function", "global", "block", "argument", "instruction", "operand"}

Kinds == Values \cup {"context", "module", "iterator", "type", "machine", "layout",
                      "engine", "cache", "tuning", "builder", "timing",
                      "manager", "object", "sections"}

ASSUME HandlesAssumption ==
  \A f \in Families : DOMAIN f \subseteq Kinds \cup {"attribute"} /\ \A k \in DOMAIN f : f[k] \in Nat

(* What each kind can iterate over.                                        *)
Items == [k \in Kinds |->
  CASE k = "module"      -> {"function", "global", "type"}
    [] k = "function"    -> {"block", "argument", "attribute"}
    [] k = "global"      -> {"attribute"}
    [] k = "block"       -> {"instruction"}
    [] k = "argument"    -> {"attribute"}
    [] k = "instruction" -> {"operand", "block", "attribute"}
    [] k = "type"        -> {"type"}
    [] OTHER             -> {}]

TypeOK ==
  /\ family \in Families
  /\ Len(home) = Len(refs) /\ Len(frees) = Len(refs)
  /\ held \subseteq Ids
  /\ \A w \in Ids : /\ refs[w].kind \in Kinds
                    /\ refs[w].needs \cup refs[w].keeps \cup home[w] \subseteq Ids
                    /\ frees[w] \in Nat

Init == /\ family \in Families
        /\ refs = <<>> /\ held = {} /\ home = <<>> /\ frees = <<>>

----------------------------------------------------------------------------
(* References.                                                             *)

Kept           == UNION {refs[w].keeps : w \in Ids}
Collectable(w) == ~refs[w].gone /\ w \notin held \cup Kept
Held(w)        == w \in held /\ refs[w].open
At(w, kind)    == Held(w) /\ refs[w].kind = kind

(* Reference counting collects at once: the program runs when all is       *)
(* collected.                                                              *)
Quiet == {w \in Ids : ~refs[w].gone} \subseteq held \cup Kept

(* The wrapper n of a native object, and one that only refers to others'.  *)
Wrapper(kind, needs, keeps) ==
  [kind |-> kind, item |-> "none", needs |-> needs, keeps |-> keeps,
   native |-> FALSE, open |-> TRUE, owned |-> FALSE, gone |-> FALSE]
Owner(n, kind, needs, keeps) ==
  [Wrapper(kind, needs \cup {n}, keeps) EXCEPT !.native = TRUE]

Next1 == Len(refs) + 1

(* Room for one more wrapper of this kind.                                 *)
Room(kind) == /\ kind \in DOMAIN family
              /\ Cardinality({w \in Ids : refs[w].kind = kind}) < family[kind]

AddTo(rs, r, in) == /\ refs' = Append(rs, r)
                    /\ home' = Append(home, in)
                    /\ frees' = Append(frees, 0)
                    /\ UNCHANGED family
Give(r, in) == AddTo(refs, r, in) /\ held' = held \cup {Next1}

----------------------------------------------------------------------------
(* Closing.                                                                *)

(* A native manager has a _dispose that nothing calls: ObjectRef comes     *)
(* first in the bases of ModulePassManager and FunctionPassManager.        *)
Disposable(w) == refs[w].native /\ refs[w].kind # "manager"

Disposes(w) == refs[w].open /\ ~refs[w].owned

(* A context destroys the modules that are left in it, an engine all that  *)
(* it was given.                                                           *)
FreedBy(w) ==
  IF Disposes(w) /\ Disposable(w)
  THEN {w} \cup {n \in Ids : /\ w \in home[n]
                             /\ refs[w].kind = "context" => frees[n] = 0}
  ELSE {}

(* An engine detaches its modules and its data layout.                     *)
DetachedBy(w) ==
  IF refs[w].kind = "engine" /\ Disposes(w)
  THEN {v \in refs[w].keeps : refs[v].kind \in {"module", "layout"}}
  ELSE {}

(* ... and forgets its modules and its cache.                              *)
KeptBy(w) ==
  IF refs[w].kind = "engine" /\ Disposes(w)
  THEN {v \in refs[w].keeps : refs[v].kind = "layout"}
  ELSE refs[w].keeps

(* close(), after which the wrapper is r.                                  *)
CloseAs(w, r) ==
  /\ refs' = [v \in Ids |->
       IF v = w THEN r ELSE [refs[v] EXCEPT !.open = @ /\ v \notin DetachedBy(w)]]
  /\ frees' = [n \in Ids |-> IF n \in FreedBy(w) THEN frees[n] + 1 ELSE frees[n]]
  /\ UNCHANGED <<family, held, home>>

(* What close(), and dropping an engine, ask of the program: no value,     *)
(* iterator, module or builder it still uses reads what this frees.  The   *)
(* modules and the data layout of an engine are exempt, they are detached. *)
Careful(w) ==
  \A v \in Ids \ ({w} \cup refs[w].keeps) :
     refs[v].open => refs[v].needs \cap FreedBy(w) = {}

Close(w) ==
  /\ Held(w) /\ Careful(w)
  /\ CloseAs(w, [refs[w] EXCEPT !.open = FALSE, !.keeps = KeptBy(w)])

(* A collected wrapper is closed, and its references go with it.           *)
Collect(w) ==
  /\ Collectable(w)
  /\ CloseAs(w, [refs[w] EXCEPT !.open = FALSE, !.keeps = {}, !.needs = {}, !.gone = TRUE])

Drop(w) == /\ w \in held
           /\ refs[w].kind = "engine" => Careful(w)
           /\ held' = held \ {w}
           /\ UNCHANGED <<family, refs, home, frees>>

----------------------------------------------------------------------------
(* Contexts, modules, values, iterators and types.                         *)

CreateContext == Room("context") /\ Give(Owner(Next1, "context", {}, {}), {})

(* c is a private context, or none: the wrapper of the global context      *)
(* disposes of nothing.                                                    *)
Parse(c) == /\ Room("module")
            /\ \A n \in c : At(n, "context")
            /\ Give(Owner(Next1, "module", c, c), c)

ContextOf(m) == refs[m].needs \ {m}

(* Mutant of Clone: the clone forgets its context.                         *)
CloneForgets(m) ==
  /\ Room("module") /\ At(m, "module")
  /\ Give(Owner(Next1, "module", ContextOf(m), {}), ContextOf(m))

Clone(m) == /\ Room("module") /\ At(m, "module")
            /\ Give(Owner(Next1, "module", ContextOf(m), refs[m].keeps), ContextOf(m))

GetNamed(m, kind) ==
  /\ Room(kind) /\ At(m, "module")
  /\ Give(Wrapper(kind, refs[m].needs, {m}), {})

(* The parents an iterator over w hands to its items: those of w, with w   *)
(* in the place of the one of its kind.                                    *)
Parents(w) ==
  IF refs[w].kind = "module"
  THEN {w}
  ELSE {p \in refs[w].keeps : refs[p].kind # refs[w].kind} \cup {w}

(* Types and attributes live in the context and their wrappers keep        *)
(* nothing: the program takes them from modules of the global context.     *)
Global(w) == \A n \in refs[w].needs : refs[n].kind # "context"
KeepsNothing(w, item) == item = "attribute" \/ refs[w].kind = "type"

Iterate(w, item) ==
  /\ Room("iterator")
  /\ Held(w) /\ item \in DOMAIN family
  /\ item \in {"attribute", "type"} => Global(w)
  /\ Give([IF KeepsNothing(w, item)
           THEN Owner(Next1, "iterator", {}, {})
           ELSE Owner(Next1, "iterator", refs[w].needs, Parents(w))
           EXCEPT !.item = item], {})

NextItem(i) ==
  /\ At(i, "iterator") /\ refs[i].item # "attribute"
  /\ Room(refs[i].item)
  /\ IF refs[i].item = "type"
     THEN Give(Wrapper("type", {}, {}), {})
     ELSE Give(Wrapper(refs[i].item, refs[i].needs \ {i}, refs[i].keeps), {})

TypeOf(v) == /\ Room("type") /\ Held(v) /\ refs[v].kind \in Values /\ Global(v)
             /\ Give(Wrapper("type", {}, {}), {})

----------------------------------------------------------------------------
(* Target machines, data layouts and engines.                              *)

CreateMachine == Room("machine") /\ Give(Owner(Next1, "machine", {}, {}), {})

(* From a string, or copied from a machine's.                              *)
CreateLayout  == Room("layout") /\ Give(Owner(Next1, "layout", {}, {}), {})

(* No engine owns it, and no private context would destroy it.             *)
Free(m) == ~refs[m].owned /\ home[m] = {}

(* Mutant of CreateEngine: the target machine stays its wrapper's.         *)
CreateEngineShares(m, t) ==
  /\ Room("engine")
  /\ At(m, "module") /\ At(t, "machine") /\ Free(m) /\ Free(t)
  /\ refs' = Append([refs EXCEPT ![m].owned = TRUE], Owner(Next1, "engine", {}, {m}))
  /\ home' = Append([home EXCEPT ![m] = {Next1}, ![t] = {Next1}], {})
  /\ frees' = Append(frees, 0)
  /\ held' = held \cup {Next1}
  /\ UNCHANGED family

CreateEngine(m, t) ==
  /\ Room("engine")
  /\ At(m, "module") /\ At(t, "machine") /\ Free(m) /\ Free(t)
  /\ refs' = Append([refs EXCEPT ![m].owned = TRUE, ![t].owned = TRUE],
                    Owner(Next1, "engine", {}, {m}))
  /\ home' = Append([home EXCEPT ![m] = {Next1}, ![t] = {Next1}], {})
  /\ frees' = Append(frees, 0)
  /\ held' = held \cup {Next1}
  /\ UNCHANGED family

AddModule(e, m) ==
  /\ At(e, "engine") /\ At(m, "module") /\ Free(m)
  /\ refs' = [refs EXCEPT ![e].keeps = @ \cup {m}, ![m].owned = TRUE]
  /\ home' = [home EXCEPT ![m] = {e}]
  /\ UNCHANGED <<family, held, frees>>

(* Mutant of RemoveModule: the module stays owned.                         *)
RemoveModuleOwned(e, m) ==
  /\ At(e, "engine") /\ At(m, "module") /\ m \in refs[e].keeps
  /\ refs' = [refs EXCEPT ![e].keeps = @ \ {m}]
  /\ home' = [home EXCEPT ![m] = {}]
  /\ UNCHANGED <<family, held, frees>>

RemoveModule(e, m) ==
  /\ At(e, "engine") /\ At(m, "module") /\ m \in refs[e].keeps
  /\ refs' = [refs EXCEPT ![e].keeps = @ \ {m}, ![m].owned = FALSE]
  /\ home' = [home EXCEPT ![m] = {}]
  /\ UNCHANGED <<family, held, frees>>

KeptOf(e, kind) == {v \in refs[e].keeps : refs[v].kind = kind}

(* The engine's own layout, borrowed: made once and kept.                  *)
EngineLayout(e) ==
  /\ At(e, "engine")
  /\ \/ /\ KeptOf(e, "layout") # {}
        /\ held' = held \cup KeptOf(e, "layout")
        /\ UNCHANGED <<family, refs, home, frees>>
     \/ /\ KeptOf(e, "layout") = {} /\ Room("layout")
        /\ AddTo([refs EXCEPT ![e].keeps = @ \cup {Next1}],
                 [Owner(Next1, "layout", {}, {}) EXCEPT !.owned = TRUE], {e})
        /\ held' = held \cup {Next1}

(* The cache belongs to the engine's wrapper; the native engine calls it.  *)
SetObjectCache(e) ==
  /\ Room("cache") /\ At(e, "engine")
  /\ AddTo([refs EXCEPT ![e].keeps = (@ \ KeptOf(e, "cache")) \cup {Next1},
                        ![e].needs = {e, Next1}],
           Owner(Next1, "cache", {}, {}), {})
  /\ UNCHANGED held

----------------------------------------------------------------------------
(* Pass builders and managers.                                             *)

CreateTuning == Room("tuning") /\ Give(Owner(Next1, "tuning", {}, {}), {})

CreateBuilder(t, p) ==
  /\ Room("builder") /\ At(t, "machine") /\ At(p, "tuning")
  /\ Give(Owner(Next1, "builder", refs[t].needs, {t, p}), {})

(* An empty manager, or the pipeline of a builder: it keeps neither.       *)
CreateManager == Room("manager") /\ Give(Owner(Next1, "manager", {}, {}), {})

(* The handler is called back by the builder's passes.                     *)
StartTiming(b) ==
  /\ Room("timing") /\ At(b, "builder") /\ KeptOf(b, "timing") = {}
  /\ AddTo([refs EXCEPT ![b].keeps = @ \cup {Next1}, ![b].needs = @ \cup {Next1}],
           Owner(Next1, "timing", {}, {}), {})
  /\ UNCHANGED held

----------------------------------------------------------------------------
(* Object files.                                                           *)

CreateObject == Room("object") /\ Give(Owner(Next1, "object", {}, {}), {})

(* The generator of an object file's sections keeps the file and the one   *)
(* iterator it yields; the program uses that between two steps of the      *)
(* generator only.                                                         *)
Sections(o) ==
  /\ Room("sections") /\ At(o, "object")
  /\ refs' = refs \o << Owner(Next1, "iterator", {o}, {}),
                        Wrapper("sections", {}, {o, Next1}) >>
  /\ home' = home \o << {}, {} >>
  /\ frees' = frees \o << 0, 0 >>
  /\ held' = held \cup {Next1 + 1}
  /\ UNCHANGED family

----------------------------------------------------------------------------
Operation ==
  \/ CreateContext \/ CreateMachine \/ CreateLayout
  \/ CreateTuning \/ CreateManager \/ CreateObject
  \/ Parse({})
  \/ \E w \in held :
       \/ Close(w) \/ Drop(w)
       \/ Parse({w}) \/ Clone(w)
       \/ \E k \in {"function", "global"} : GetNamed(w, k)
       \/ \E k \in Items[refs[w].kind] : Iterate(w, k)
       \/ NextItem(w) \/ TypeOf(w)
       \/ EngineLayout(w) \/ SetObjectCache(w)
       \/ StartTiming(w) \/ Sections(w)
       \/ \E v \in held :
            CreateEngine(w, v) \/ AddModule(w, v) \/ RemoveModule(w, v) \/ CreateBuilder(w, v)

Next == (\E w \in Ids : Collect(w)) \/ (Quiet /\ Operation)

Spec == Init /\ [][Next]_vars

----------------------------------------------------------------------------
(* A wrapper that the program, or another wrapper, can still use reads     *)
(* only native objects that exist, whatever was dropped and in whatever    *)
(* order (the _parents, _context, _tm, _pto and _modules references).      *)
NoDangling ==
  \A w \in (held \cup Kept) : refs[w].open => \A n \in refs[w].needs : frees[n] = 0

(* No native object is freed twice: by its wrapper and by the context or   *)
(* the engine it belongs to (the _owned flag and detach()).                *)
FreedOnce == \A n \in Ids : frees[n] <= 1

(* Some open wrapper answers for every native object that exists: its own, *)
(* or the one of what destroys it.  Pass managers are the exception.       *)
Answers(w) == refs[w].open /\ ~refs[w].gone
NothingLeaked ==
  \A n \in Ids : refs[n].native /\ refs[n].kind # "manager" /\ frees[n] = 0
                   => Answers(n) \/ \E h \in home[n] : Answers(h)

(* "Automatically called by close(), __del__() and __exit__()": a closed   *)
(* pass manager's native manager was freed.                                *)
ManagersFreed ==
  \A n \in Ids : refs[n].kind = "manager" /\ ~refs[n].open => frees[n] = 1
=============================================================================
