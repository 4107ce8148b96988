--------------------------- MODULE OwnershipProofs --------------------------
(***************************************************************************)
(* Proofs about Ownership, for any sets of modules, contexts, target       *)
(* machines and engines, of a caller that keeps to the rules and gives an  *)
(* engine modules of one context only: nothing is freed twice but what a   *)
(* failed creation leaves dangling, no context goes before its modules,    *)
(* and ownership moves as OwnershipAbs has it.                             *)
(***************************************************************************)
EXTENDS Ownership, TLAPS

Owners == Modules \cup TargetMachines

\* Engine e is in use: neither closed, nor past the loop of its _dispose.
InUse(e) ==
    /\ e \in open
    /\ Idle \/ closing.engine # e \/ closing.step = "clear"

\* Engine e is between self._modules.clear() and LLVMPY_DisposeExecutionEngine.
Emptied(e) == ~Idle /\ closing.engine = e /\ closing.step = "dispose"

\* Only modules and target machines are given away or left dangling.
OnlyOwners == owned \subseteq Owners /\ dangling \subseteq Owners

\* What a wrapper would free is there to be freed.
WrappersStand ==
    /\ \A x \in open \ owned : x \notin Engines => x \in live \cup dangling
    /\ \A m \in open \cap owned \cap Modules : \E e \in Engines : m \in nmods[e]

\* The Python and the native side of an engine agree, but while it is closed.
EnginesAgree ==
    \A e \in Engines :
        /\ InUse(e) => mods[e] = nmods[e] /\ mods[e] \subseteq wrappers
        /\ InUse(e) \/ Emptied(e) => e \in live /\ tmOf[e] # Nil
        /\ ~InUse(e) => mods[e] = {}
        /\ ~InUse(e) /\ ~Emptied(e) =>
              e \notin live /\ nmods[e] = {} /\ tmOf[e] = Nil

\* What an engine owns exists, is owned by no other engine, and is not freed by
\* its wrapper.
EnginesOwn ==
    /\ \A e \in Engines :
          /\ nmods[e] \subseteq live
          /\ \A m \in nmods[e] : m \notin open \ owned
          /\ tmOf[e] # Nil => tmOf[e] \in live \ (open \ owned)
    /\ \A e, f \in Engines :
          e # f => nmods[e] \cap nmods[f] = {} /\ (tmOf[e] = tmOf[f] => tmOf[e] = Nil)

\* The loop variable of _dispose keeps the context of the engine's modules.
ClosingKeepsContext ==
    ~Idle =>
        /\ closing.engine \in open
        /\ closing.last # Nil => closing.last \in wrappers
        /\ closing.step # "return" =>
              /\ nmods[closing.engine] \cap open = {}
              /\ \A m \in nmods[closing.engine] :
                    closing.last # Nil /\ ctxOf[m] = ctxOf[closing.last]

\* Every native module will be freed, by its wrapper or by its engine.
ModulesAccounted ==
    \A m \in live \cap Modules :
        m \in open \ owned \/ \E e \in Engines : m \in nmods[e]

\* A module's wrapper keeps the wrapper of its context; the modules of an
\* engine have one context.
ContextsKept ==
    /\ \A m \in wrappers \cap Modules : ctxOf[m] \in wrappers \cap Contexts
    /\ \A e \in Engines : \A m, n \in nmods[e] : ctxOf[m] = ctxOf[n]

\* A native module's context exists.
ContextsLive == \A m \in live \cap Modules : ctxOf[m] \in live

Inv ==
    /\ TypeOK /\ OnlyOwners
    /\ WrappersStand
    /\ EnginesAgree /\ EnginesOwn
    /\ ClosingKeepsContext
    /\ ModulesAccounted
    /\ ContextsKept
    /\ ContextsLive
    /\ NoOtherDoubleFree

\* The sorts of objects are disjoint, and Nil is none of them.
LEMMA Sorts ==
    /\ \A m \in Modules : m \notin Contexts /\ m \notin TargetMachines
                             /\ m \notin Engines /\ m # Nil
    /\ \A c \in Contexts : c \notin TargetMachines /\ c \notin Engines /\ c # Nil
    /\ \A t \in TargetMachines : t \notin Engines /\ t # Nil
    /\ \A e \in Engines : e # Nil /\ e # Caller
    /\ GlobalContext \in Contexts /\ Nil # Caller
BY OwnershipAssumption

\* Objects are freed alone, unless one is a context with modules.
LEMMA FreeExactly ==
    ASSUME NEW S, Free(S),
           \A x \in S \cap Contexts : \A m \in live \cap Modules : ctxOf[m] # x
    PROVE  live' = live \ S
BY DEF Free, WithContents

\* A TargetData of an engine is a view, and owns nothing.
LEMMA TargetDataKeeps ==
    ASSUME Inv, NEW e \in Engines, TargetData(e), Disciplined, OneContext
    PROVE  Inv'
<1>. USE Sorts, NilAssumption DEF Inv, TargetData, py, native
<1>1. TypeOK'
  BY DEF TypeOK
<1>2. EnginesAgree' /\ EnginesOwn' /\ ClosingKeepsContext'
  BY DEF EnginesAgree, EnginesOwn, ClosingKeepsContext, InUse, Emptied, Idle
<1>. QED
  BY <1>1, <1>2 DEF OnlyOwners, WrappersStand, ModulesAccounted, ContextsKept,
     ContextsLive, NoOtherDoubleFree

\* A variable of the caller frees nothing when it goes.
LEMMA DropKeeps ==
    ASSUME Inv, NEW x \in Objects, Drop(x), Disciplined, OneContext
    PROVE  Inv'
<1>. USE Sorts, NilAssumption DEF Inv, Drop, py, native
<1>1. TypeOK'
  BY DEF TypeOK
<1>2. EnginesAgree' /\ EnginesOwn' /\ ClosingKeepsContext'
  BY DEF EnginesAgree, EnginesOwn, ClosingKeepsContext, InUse, Emptied, Idle
<1>. QED
  BY <1>1, <1>2 DEF OnlyOwners, WrappersStand, ModulesAccounted, ContextsKept,
     ContextsLive, NoOtherDoubleFree

\* A new target machine is its wrapper's to free.
LEMMA CreateTargetMachineKeeps ==
    ASSUME Inv, NEW t \in TargetMachines, CreateTargetMachine(t), Disciplined,
               OneContext
    PROVE  Inv'
<1>. USE Sorts, NilAssumption DEF Inv, CreateTargetMachine, Wrap, Fresh
<1>1. TypeOK' /\ OnlyOwners'
  BY DEF TypeOK, Objects, OnlyOwners
<1>2. WrappersStand' /\ ModulesAccounted'
  BY DEF WrappersStand, ModulesAccounted, TypeOK
<1>3. EnginesAgree' /\ EnginesOwn'
  BY DEF EnginesAgree, EnginesOwn, InUse, Emptied, Idle
<1>4. ClosingKeepsContext'
  BY DEF ClosingKeepsContext, Idle
<1>5. ContextsKept' /\ ContextsLive' /\ NoOtherDoubleFree'
  BY DEF ContextsKept, ContextsLive, NoOtherDoubleFree
<1>. QED
  BY <1>1, <1>2, <1>3, <1>4, <1>5

\* A new context is its wrapper's to free; the global context is LLVM's.
LEMMA CreateContextKeeps ==
    ASSUME Inv, NEW c \in Contexts, CreateContext(c), Disciplined, OneContext
    PROVE  Inv'
<1>. USE Sorts, NilAssumption DEF Inv, CreateContext, Wrap, Fresh
<1>1. TypeOK' /\ OnlyOwners'
  BY DEF TypeOK, Objects, OnlyOwners
<1>2. WrappersStand' /\ ModulesAccounted'
  BY DEF WrappersStand, ModulesAccounted, TypeOK
<1>3. EnginesAgree' /\ EnginesOwn'
  BY DEF EnginesAgree, EnginesOwn, InUse, Emptied, Idle, TypeOK
<1>4. ClosingKeepsContext'
  BY DEF ClosingKeepsContext, Idle
<1>5. ContextsKept' /\ ContextsLive' /\ NoOtherDoubleFree'
  BY DEF ContextsKept, ContextsLive, NoOtherDoubleFree
<1>. QED
  BY <1>1, <1>2, <1>3, <1>4, <1>5

\* A parsed module is its wrapper's to free, and keeps an existing context.
LEMMA ParseKeeps ==
    ASSUME Inv, NEW m \in Modules, NEW c \in Contexts, Parse(m, c),
               Disciplined, OneContext
    PROVE  Inv'
<1>. USE Sorts, NilAssumption DEF Inv, Parse, Wrap, Fresh, Usable
<1>1. c \in live
  BY DEF WrappersStand, OnlyOwners, Owners
<1>2. TypeOK'
  BY DEF TypeOK, Objects
<1>3. OnlyOwners'
  BY DEF OnlyOwners
<1>4. WrappersStand'
  BY DEF WrappersStand
<1>5. EnginesAgree'
  BY DEF EnginesAgree, InUse, Emptied, Idle
<1>6. EnginesOwn'
  BY DEF EnginesOwn
<1>7. ClosingKeepsContext'
  BY DEF ClosingKeepsContext, Idle
<1>8. ModulesAccounted'
  BY <1>1 DEF ModulesAccounted, TypeOK
<1>9. ContextsKept'
  BY DEF ContextsKept, EnginesOwn, TypeOK
<1>10. ContextsLive'
  BY <1>1 DEF ContextsLive, TypeOK
<1>11. NoOtherDoubleFree'
  BY <1>1 DEF NoOtherDoubleFree
<1>. QED
  BY <1>2, <1>3, <1>4, <1>5, <1>6, <1>7, <1>8, <1>9, <1>10, <1>11

\* A clone shares the context of a module that exists, so of one that is kept.
LEMMA CloneKeeps ==
    ASSUME Inv, NEW m \in Modules, NEW new \in Modules, Clone(m, new),
               Disciplined, OneContext
    PROVE  Inv'
<1>. USE Sorts, NilAssumption DEF Inv, Clone, Wrap, Fresh, Usable
<1>1. m \in live
  BY DEF WrappersStand, EnginesOwn
<1>2. TypeOK'
  BY DEF TypeOK, Objects
<1>3. OnlyOwners'
  BY DEF OnlyOwners
<1>4. WrappersStand'
  BY DEF WrappersStand
<1>5. EnginesAgree'
  BY DEF EnginesAgree, InUse, Emptied, Idle
<1>6. EnginesOwn'
  BY DEF EnginesOwn
<1>7. ClosingKeepsContext'
  BY DEF ClosingKeepsContext, Idle
<1>8. ModulesAccounted'
  BY <1>1 DEF ModulesAccounted, TypeOK
<1>9. ContextsKept'
  BY DEF ContextsKept, EnginesOwn, TypeOK
<1>10. ContextsLive'
  BY <1>1 DEF ContextsLive, TypeOK
<1>11. NoOtherDoubleFree'
  BY <1>1 DEF NoOtherDoubleFree
<1>. QED
  BY <1>2, <1>3, <1>4, <1>5, <1>6, <1>7, <1>8, <1>9, <1>10, <1>11

\* A new engine takes one module and one target machine from their wrappers.
LEMMA CreateEngineKeeps ==
    ASSUME Inv, NEW e \in Engines, NEW m \in Modules, NEW t \in TargetMachines,
               CreateEngine(e, m, t), Disciplined, OneContext
    PROVE  Inv'
<1>. USE Sorts, NilAssumption
     DEF Inv, CreateEngine, Wrap, Fresh, Usable, Unowned
<1>1. m \in live /\ t \in live /\ m \notin owned /\ t \notin owned
  BY DEF WrappersStand
<1>2. e \notin live /\ nmods[e] = {} /\ tmOf[e] = Nil
  BY DEF EnginesAgree
<1>3. TypeOK'
  BY DEF TypeOK, Objects
<1>4. OnlyOwners'
  BY DEF OnlyOwners, Owners
<1>5. WrappersStand'
  <2>1. ASSUME NEW x \in open' \ owned', x \notin Engines
        PROVE  x \in live' \cup dangling'
    BY <2>1 DEF WrappersStand
  <2>2. ASSUME NEW x \in open' \cap owned' \cap Modules
        PROVE  \E f \in Engines : x \in nmods'[f]
    <3>1. CASE x = m
      BY <3>1 DEF TypeOK
    <3>2. CASE x # m
      <4>1. x \in open \cap owned
        BY <2>2, <3>2
      <4>2. PICK f \in Engines : x \in nmods[f]
        BY <2>2, <4>1 DEF WrappersStand
      <4>. QED
        BY <1>2, <4>2 DEF TypeOK
    <3>. QED
      BY <3>1, <3>2
  <2>. QED
    BY <2>1, <2>2 DEF WrappersStand
<1>6. EnginesAgree'
  BY DEF EnginesAgree, InUse, Emptied, Idle, TypeOK
<1>7. EnginesOwn'
  <2>1. ASSUME NEW f \in Engines
        PROVE  /\ nmods'[f] \subseteq live'
               /\ \A n \in nmods'[f] : n \notin open' \ owned'
               /\ tmOf'[f] # Nil => tmOf'[f] \in live' \ (open' \ owned')
    BY <1>1 DEF EnginesOwn
  <2>2. ASSUME NEW f \in Engines, NEW h \in Engines, f # h
        PROVE  /\ nmods'[f] \cap nmods'[h] = {}
               /\ tmOf'[f] = tmOf'[h] => tmOf'[f] = Nil
    BY <2>2 DEF EnginesOwn
  <2>. QED
    BY <2>1, <2>2 DEF EnginesOwn
<1>8. ClosingKeepsContext'
  BY DEF ClosingKeepsContext, Idle
<1>9. ModulesAccounted'
  <2>1. SUFFICES ASSUME NEW x \in live \cap Modules, x # m
                 PROVE  x \in open' \ owned' \/ \E f \in Engines : x \in nmods'[f]
    BY DEF ModulesAccounted, TypeOK
  <2>2. CASE x \in open \ owned
    BY <2>1, <2>2
  <2>3. ASSUME NEW f \in Engines, x \in nmods[f]
        PROVE  \E h \in Engines : x \in nmods'[h]
    BY <1>2, <2>3 DEF TypeOK
  <2>. QED
    BY <2>2, <2>3 DEF ModulesAccounted
<1>10. ContextsKept'
  BY DEF ContextsKept
<1>11. ContextsLive'
  BY DEF ContextsLive
<1>12. NoOtherDoubleFree'
  BY DEF NoOtherDoubleFree
<1>. QED
  BY <1>3, <1>4, <1>5, <1>6, <1>7, <1>8, <1>9, <1>10, <1>11, <1>12

\* An added module passes from its wrapper to one engine.
LEMMA AddModuleKeeps ==
    ASSUME Inv, NEW e \in Engines, NEW m \in Modules, AddModule(e, m),
               Disciplined, OneContext
    PROVE  Inv'
<1>. USE Sorts, NilAssumption DEF Inv, AddModule, Usable, Unowned
<1>1. m \in live /\ m \notin owned
  BY DEF WrappersStand
<1>2. mods[e] = nmods[e] /\ InUse(e)
  BY DEF EnginesAgree, InUse, Idle
<1>3. TypeOK'
  BY DEF TypeOK
<1>4. OnlyOwners'
  BY DEF OnlyOwners, Owners
<1>5. WrappersStand'
  BY DEF WrappersStand, TypeOK
<1>6. EnginesAgree'
  BY DEF EnginesAgree, EnginesOwn, InUse, Emptied, Idle, TypeOK, Closing
<1>7. EnginesOwn'
  <2>1. ASSUME NEW f \in Engines
        PROVE  /\ nmods'[f] \subseteq live'
               /\ \A n \in nmods'[f] : n \notin open' \ owned'
               /\ tmOf'[f] # Nil => tmOf'[f] \in live' \ (open' \ owned')
    BY <1>1 DEF EnginesOwn, TypeOK
  <2>2. ASSUME NEW f \in Engines, NEW h \in Engines, f # h
        PROVE  /\ nmods'[f] \cap nmods'[h] = {}
               /\ tmOf'[f] = tmOf'[h] => tmOf'[f] = Nil
    BY <2>2 DEF EnginesOwn
  <2>. QED
    BY <2>1, <2>2 DEF EnginesOwn
<1>8. ClosingKeepsContext'
  BY DEF ClosingKeepsContext, Idle
<1>9. ModulesAccounted'
  BY DEF ModulesAccounted, TypeOK
<1>10. ContextsKept'
  <2>1. \A n \in nmods[e] : ctxOf[n] = ctxOf[m]
    BY <1>2
  <2>. QED
    BY <2>1 DEF ContextsKept, TypeOK
<1>11. ContextsLive'
  BY DEF ContextsLive
<1>12. NoOtherDoubleFree'
  BY DEF NoOtherDoubleFree
<1>. QED
  BY <1>3, <1>4, <1>5, <1>6, <1>7, <1>8, <1>9, <1>10, <1>11, <1>12

\* A removed module passes from its engine back to its wrapper.
LEMMA RemoveModuleKeeps ==
    ASSUME Inv, NEW e \in Engines, NEW m \in Modules, RemoveModule(e, m),
               Disciplined, OneContext
    PROVE  Inv'
<1>. USE Sorts, NilAssumption DEF Inv, RemoveModule, Usable
<1>1. mods[e] = nmods[e] /\ m \in live
  BY DEF EnginesAgree, EnginesOwn
<1>2. TypeOK'
  BY DEF TypeOK
<1>3. OnlyOwners'
  BY DEF OnlyOwners
<1>4. WrappersStand'
  <2>1. ASSUME NEW x \in open' \ owned', x \notin Engines
        PROVE  x \in live' \cup dangling'
    BY <1>1, <2>1 DEF WrappersStand
  <2>2. ASSUME NEW x \in open' \cap owned' \cap Modules
        PROVE  \E f \in Engines : x \in nmods'[f]
    <3>1. PICK f \in Engines : x \in nmods[f]
      BY <2>2 DEF WrappersStand
    <3>. QED
      BY <2>2, <3>1 DEF TypeOK
  <2>. QED
    BY <2>1, <2>2 DEF WrappersStand
<1>5. EnginesAgree'
  BY DEF EnginesAgree, EnginesOwn, InUse, Emptied, Idle, TypeOK, Closing
<1>6. EnginesOwn'
  BY DEF EnginesOwn, EnginesAgree, TypeOK
<1>7. ClosingKeepsContext'
  BY DEF ClosingKeepsContext, Idle
<1>8. ModulesAccounted'
  BY <1>1 DEF ModulesAccounted, TypeOK
<1>9. ContextsKept'
  BY DEF ContextsKept
<1>10. ContextsLive'
  BY <1>1 DEF ContextsLive, TypeOK
<1>11. NoOtherDoubleFree'
  BY <1>1 DEF NoOtherDoubleFree
<1>. QED
  BY <1>2, <1>3, <1>4, <1>5, <1>6, <1>7, <1>8, <1>9, <1>10, <1>11

\* self._modules.clear() lets the wrappers go, not what keeps their context.
LEMMA ClearModulesKeeps ==
    ASSUME Inv, ClearModules, Disciplined, OneContext
    PROVE  Inv'
<1>. USE Sorts, NilAssumption DEF Inv, ClearModules, py, native
<1>1. /\ closing \in Closing /\ closing' \in Closing
      /\ closing'.engine = closing.engine /\ closing'.last = closing.last
      /\ closing'.step = "dispose"
  BY DEF TypeOK, Closing, ClosingSteps, Idle
<1>2. ~Idle /\ ~Idle'
  BY <1>1 DEF Idle
<1>3. TypeOK'
  BY <1>1 DEF TypeOK, Closing
<1>4. OnlyOwners'
  BY DEF OnlyOwners
<1>5. WrappersStand'
  BY DEF WrappersStand
<1>6. EnginesAgree'
  <2>1. ASSUME NEW f \in Engines, f # closing.engine
        PROVE  (InUse(f)' <=> InUse(f)) /\ ~Emptied(f) /\ ~Emptied(f)'
    BY <2>1 DEF InUse, Emptied
  <2>2. ~InUse(closing.engine)' /\ Emptied(closing.engine)' /\ InUse(closing.engine)
    BY <1>2 DEF InUse, Emptied, ClosingKeepsContext
  <2>3. closing.engine \in Engines
    BY <1>1 DEF Closing
  <2>. QED
    BY <2>1, <2>2 DEF EnginesAgree, TypeOK
<1>7. EnginesOwn'
  BY DEF EnginesOwn
<1>8. ClosingKeepsContext'
  BY DEF ClosingKeepsContext
<1>9. ModulesAccounted'
  BY DEF ModulesAccounted
<1>10. ContextsKept'
  BY DEF ContextsKept
<1>11. ContextsLive'
  BY DEF ContextsLive
<1>12. NoOtherDoubleFree'
  BY <1>1, <1>2 DEF NoOtherDoubleFree
<1>. QED
  BY <1>3, <1>4, <1>5, <1>6, <1>7, <1>8, <1>9, <1>10, <1>11, <1>12

\* The loop of _dispose detaches the wrappers of what the engine owns.
LEMMA BeginCloseKeeps ==
    ASSUME Inv, NEW e \in Engines, BeginClose(e), Disciplined, OneContext
    PROVE  Inv'
<1>. USE Sorts, NilAssumption DEF Inv, BeginClose, Usable, native
<1>1. e \in open /\ InUse(e) /\ mods[e] = nmods[e]
  BY DEF EnginesAgree, InUse, Idle
<1>2. /\ closing' \in Closing /\ ~Idle'
      /\ closing'.engine = e /\ closing'.step = "clear"
      /\ closing'.last \in mods[e] \/ (mods[e] = {} /\ closing'.last = Nil)
  BY DEF TypeOK, Closing, ClosingSteps, Idle
<1>3. TypeOK'
  BY DEF TypeOK, Closing, ClosingSteps
<1>4. OnlyOwners'
  BY DEF OnlyOwners
<1>5. WrappersStand'
  BY DEF WrappersStand
<1>6. EnginesAgree'
  BY DEF EnginesAgree, InUse, Emptied, TypeOK
<1>7. EnginesOwn'
  BY DEF EnginesOwn
<1>8. ClosingKeepsContext'
  <2>1. closing'.last # Nil => closing'.last \in wrappers
    BY DEF EnginesAgree
  <2>2. e \in open'
    BY <1>1 DEF TypeOK
  <2>3. nmods[e] \cap open' = {}
    BY <1>1
  <2>4. ASSUME NEW m \in nmods[e]
        PROVE  closing'.last # Nil /\ ctxOf[m] = ctxOf[closing'.last]
    BY <1>1 DEF ContextsKept, TypeOK
  <2>. QED
    BY <2>1, <2>2, <2>3, <2>4 DEF ClosingKeepsContext
<1>9. ModulesAccounted'
  BY <1>1 DEF ModulesAccounted, TypeOK
<1>10. ContextsKept'
  BY DEF ContextsKept
<1>11. ContextsLive'
  BY DEF ContextsLive
<1>12. NoOtherDoubleFree'
  BY <1>1, <1>2 DEF NoOtherDoubleFree
<1>. QED
  BY <1>3, <1>4, <1>5, <1>6, <1>7, <1>8, <1>9, <1>10, <1>11, <1>12

\* When close returns, the engine owns nothing and is gone.
LEMMA EndCloseKeeps ==
    ASSUME Inv, EndClose, Disciplined, OneContext
    PROVE  Inv'
<1>. USE Sorts, NilAssumption DEF Inv, EndClose, py, native
<1>1. TypeOK'
  BY DEF TypeOK
<1>2. OnlyOwners'
  BY DEF OnlyOwners, Owners, TypeOK
<1>3. WrappersStand'
  BY DEF WrappersStand
<1>4. EnginesAgree'
  BY DEF EnginesAgree, InUse, Emptied, Idle
<1>5. EnginesOwn'
  BY DEF EnginesOwn
<1>6. ClosingKeepsContext'
  BY DEF ClosingKeepsContext, Idle
<1>7. ModulesAccounted'
  <2>1. closing.engine \in Engines
    BY DEF TypeOK, Closing, Idle
  <2>. QED
    BY <2>1 DEF ModulesAccounted, TypeOK
<1>8. ContextsKept'
  BY DEF ContextsKept, EnginesOwn, TypeOK
<1>9. ContextsLive'
  BY DEF ContextsLive, TypeOK
<1>10. NoOtherDoubleFree'
  BY DEF NoOtherDoubleFree
<1>. QED
  BY <1>1, <1>2, <1>3, <1>4, <1>5, <1>6, <1>7, <1>8, <1>9, <1>10

\* When a wrapper is collected, no native module is left in its context: what is
\* not a wrapper's is an engine's, and the engine's modules are mentioned by the
\* engine, or by the loop variable of its _dispose.
LEMMA GarbageContextIsEmpty ==
    ASSUME Inv, NEW x \in Garbage, x \in Contexts, NEW m \in live \cap Modules
    PROVE  ctxOf[m] # x
<1>1. SUFFICES ASSUME ctxOf[m] = x
               PROVE  FALSE
  OBVIOUS
<1>. USE Sorts DEF Inv
<1>2. m \notin wrappers
  BY <1>1 DEF Garbage, HeldBy
<1>3. PICK e \in Engines : m \in nmods[e]
  BY <1>2 DEF ModulesAccounted, TypeOK
<1>4. Emptied(e)
  BY <1>2, <1>3 DEF EnginesAgree
<1>5. /\ closing.last \in wrappers \cap Modules
      /\ ctxOf[m] = ctxOf[closing.last]
  BY <1>3, <1>4 DEF ClosingKeepsContext, Emptied, TypeOK, Closing, Idle
<1>. QED
  BY <1>1, <1>5 DEF Garbage, HeldBy

\* A wrapper that is closed or collected frees at most its own object, once.
LEMMA CloseWrapperFreesOne ==
    ASSUME Inv, NEW x \in Objects, x \notin Engines \cap open, CloseWrapper(x),
           x \in Contexts => \A m \in live \cap Modules : ctxOf[m] # x
    PROVE  /\ open' = open \ {x}
           /\ twice' \subseteq {"dangling"}
           /\ \/ live' = live
              \/ live' = live \ {x} /\ x \in open \ owned /\ x # GlobalContext
           /\ x \in live' \cap open => x \in owned \/ x = GlobalContext
<1>1. twice \subseteq {"dangling"}
  BY DEF Inv, TypeOK, NoOtherDoubleFree
<1>2. CASE x \in open \ (owned \cup {GlobalContext})
  <2>1. Free({x}) /\ open' = open \ {x}
    BY <1>2 DEF CloseWrapper
  <2>2. live' = live \ {x}
    BY <2>1, FreeExactly
  <2>3. x \in live \cup dangling
    BY <1>2 DEF Inv, WrappersStand
  <2>4. \A y \in {x} \ live : y \in dangling
    BY <2>3
  <2>5. twice' \subseteq {"dangling"}
    BY <1>1, <2>1, <2>4 DEF Free
  <2>. QED
    BY <1>2, <2>1, <2>2, <2>5
<1>3. CASE x \notin open \ (owned \cup {GlobalContext})
  <2>1. live' = live /\ twice' = twice /\ open' = open \ {x}
    BY <1>3 DEF CloseWrapper
  <2>. QED
    BY <1>1, <1>3, <2>1
<1>. QED
  BY <1>2, <1>3

\* A failed creation frees what it was given, and leaves its wrappers dangling.
LEMMA CreateEngineFailsKeeps ==
    ASSUME Inv, NEW m \in Modules, NEW t \in TargetMachines,
               CreateEngineFails(m, t), Disciplined, OneContext
    PROVE  Inv'
<1>. USE Sorts, NilAssumption DEF Inv, CreateEngineFails, py, Usable, Unowned
<1>1. m \in live /\ t \in live /\ m \in open \ owned /\ t \in open \ owned
  BY DEF WrappersStand
<1>2. live' = live \ {m, t} /\ twice' = twice
  <2>1. {m, t} \cap Contexts = {} /\ Free({m, t})
    OBVIOUS
  <2>2. live' = live \ {m, t}
    BY <2>1, FreeExactly
  <2>. QED
    BY <1>1, <2>2 DEF Free
<1>3. TypeOK'
  BY <1>2 DEF TypeOK
<1>4. OnlyOwners'
  BY DEF OnlyOwners, Owners
<1>5. WrappersStand'
  BY <1>2 DEF WrappersStand
<1>6. EnginesAgree'
  BY <1>2 DEF EnginesAgree, InUse, Emptied, Idle
<1>7. EnginesOwn'
  BY <1>2 DEF EnginesOwn
<1>8. ClosingKeepsContext'
  BY DEF ClosingKeepsContext, Idle
<1>9. ModulesAccounted'
  BY <1>2 DEF ModulesAccounted
<1>10. ContextsKept'
  BY DEF ContextsKept
<1>11. ContextsLive'
  BY <1>2 DEF ContextsLive, TypeOK
<1>12. NoOtherDoubleFree'
  BY <1>2 DEF NoOtherDoubleFree
<1>. QED
  BY <1>3, <1>4, <1>5, <1>6, <1>7, <1>8, <1>9, <1>10, <1>11, <1>12

\* The linker takes the source module from its wrapper.
LEMMA LinkInKeeps ==
    ASSUME Inv, NEW dst \in Modules, NEW src \in Modules, LinkIn(dst, src),
               Disciplined, OneContext
    PROVE  Inv'
<1>. USE Sorts, NilAssumption DEF Inv, LinkIn, Usable, Unowned
<1>1. src \in live /\ src \in open \ owned
  BY DEF WrappersStand
<1>2. live' = live \ {src} /\ twice' = twice
  <2>1. {src} \cap Contexts = {} /\ Free({src})
    OBVIOUS
  <2>2. live' = live \ {src}
    BY <2>1, FreeExactly
  <2>. QED
    BY <1>1, <2>2 DEF Free
<1>3. TypeOK'
  BY <1>2 DEF TypeOK
<1>4. OnlyOwners'
  BY DEF OnlyOwners
<1>5. WrappersStand'
  BY <1>2 DEF WrappersStand
<1>6. EnginesAgree'
  BY <1>2 DEF EnginesAgree, InUse, Emptied, Idle
<1>7. EnginesOwn'
  BY <1>2 DEF EnginesOwn
<1>8. ClosingKeepsContext'
  BY DEF ClosingKeepsContext, Idle
<1>9. ModulesAccounted'
  BY <1>2 DEF ModulesAccounted
<1>10. ContextsKept'
  BY DEF ContextsKept
<1>11. ContextsLive'
  BY <1>2 DEF ContextsLive, TypeOK
<1>12. NoOtherDoubleFree'
  BY <1>2 DEF NoOtherDoubleFree
<1>. QED
  BY <1>3, <1>4, <1>5, <1>6, <1>7, <1>8, <1>9, <1>10, <1>11, <1>12

\* An explicit close frees what the wrapper owns, if it owns it.
LEMMA CloseKeeps ==
    ASSUME Inv, NEW x \in Objects, Close(x), Disciplined, OneContext
    PROVE  Inv'
<1>. USE Sorts, NilAssumption DEF Inv, Close, Usable
<1>1. x \in Contexts => \A m \in live \cap Modules : ctxOf[m] # x
  OBVIOUS
<1>2. /\ open' = open \ {x}
      /\ twice' \subseteq {"dangling"}
      /\ \/ live' = live
         \/ live' = live \ {x} /\ x \in open \ owned /\ x # GlobalContext
      /\ x \in live' \cap open => x \in owned \/ x = GlobalContext
  BY <1>1, CloseWrapperFreesOne
<1>3. TypeOK'
  BY <1>2 DEF TypeOK
<1>4. OnlyOwners'
  BY DEF OnlyOwners
<1>5. WrappersStand'
  BY <1>2 DEF WrappersStand
<1>6. EnginesAgree'
  BY <1>2 DEF EnginesAgree, InUse, Emptied, Idle
<1>7. EnginesOwn'
  BY <1>2 DEF EnginesOwn
<1>8. ClosingKeepsContext'
  BY DEF ClosingKeepsContext, Idle
<1>9. ModulesAccounted'
  BY <1>2 DEF ModulesAccounted
<1>10. ContextsKept'
  BY DEF ContextsKept
<1>11. ContextsLive'
  <2>1. SUFFICES ASSUME NEW m \in live' \cap Modules
                 PROVE  ctxOf'[m] \in live'
    BY DEF ContextsLive
  <2>2. m \in live /\ ctxOf'[m] = ctxOf[m] /\ ctxOf[m] \in live
    BY <1>2, <2>1 DEF ContextsLive
  <2>3. live' = live \ {x} => ctxOf[m] # x
    BY DEF TypeOK, Objects
  <2>. QED
    BY <1>2, <2>2, <2>3
<1>12. NoOtherDoubleFree'
  BY <1>2 DEF NoOtherDoubleFree
<1>. QED
  BY <1>3, <1>4, <1>5, <1>6, <1>7, <1>8, <1>9, <1>10, <1>11, <1>12

\* A finalizer frees what the wrapper owns, and lets go of what it kept.
LEMMA CollectKeeps ==
    ASSUME Inv, NEW x \in Objects, Collect(x), Disciplined, OneContext
    PROVE  Inv'
<1>. USE Sorts, NilAssumption DEF Inv, Collect, ForgetContexts
<1>1. x \in Contexts => \A m \in live \cap Modules : ctxOf[m] # x
  BY GarbageContextIsEmpty
<1>2. /\ open' = open \ {x}
      /\ twice' \subseteq {"dangling"}
      /\ \/ live' = live
         \/ live' = live \ {x} /\ x \in open \ owned /\ x # GlobalContext
      /\ x \in live' \cap open => x \in owned \/ x = GlobalContext
  BY <1>1, CloseWrapperFreesOne
<1>3. /\ \A m \in wrappers \cap Modules : ctxOf[m] # x
      /\ \A e \in wrappers \cap Engines : x \notin mods[e]
      /\ ~Idle => x # closing.engine /\ x # closing.last
  BY DEF Garbage, HeldBy
<1>4. TypeOK'
  <2>1. wrappers' \subseteq wrappers /\ x \notin wrappers'
    OBVIOUS
  <2>2. open' \subseteq wrappers' /\ owned' \subseteq wrappers' /\ dangling' \subseteq wrappers'
    BY <1>2 DEF TypeOK
  <2>3. refs' \subseteq wrappers'
    BY DEF Garbage, TypeOK
  <2>4. ctxOf' \in [Modules -> Contexts \cup {Nil}]
    BY DEF TypeOK
  <2>. QED
    BY <1>2, <2>3 DEF TypeOK
<1>5. OnlyOwners'
  BY DEF OnlyOwners
<1>6. WrappersStand'
  BY <1>2 DEF WrappersStand
<1>7. EnginesAgree'
  BY <1>2, <1>3 DEF EnginesAgree, InUse, Emptied, Idle, TypeOK
<1>8. EnginesOwn'
  BY <1>2 DEF EnginesOwn
<1>9. ClosingKeepsContext'
  BY <1>2, <1>3 DEF ClosingKeepsContext, EnginesOwn, Idle, TypeOK, Closing
<1>10. ModulesAccounted'
  BY <1>2 DEF ModulesAccounted
<1>11. ContextsKept'
  BY <1>2, <1>3 DEF ContextsKept, EnginesOwn, TypeOK
<1>12. ContextsLive'
  <2>1. SUFFICES ASSUME NEW m \in live' \cap Modules
                 PROVE  ctxOf'[m] \in live'
    BY DEF ContextsLive
  <2>2. m \in live /\ ctxOf'[m] = ctxOf[m] /\ ctxOf[m] \in live
    BY <1>2 DEF ContextsLive
  <2>3. live' = live \ {x} => ctxOf[m] # x
    BY <1>1 DEF TypeOK, Objects
  <2>. QED
    BY <1>2, <2>2, <2>3
<1>13. NoOtherDoubleFree'
  BY <1>2 DEF NoOtherDoubleFree
<1>. QED
  BY <1>4, <1>5, <1>6, <1>7, <1>8, <1>9, <1>10, <1>11, <1>12, <1>13

\* The native engine frees what it owns: all of it exists, and is no other's.
LEMMA DisposeNativeKeeps ==
    ASSUME Inv, DisposeNative, Disciplined, OneContext
    PROVE  Inv'
<1>. USE Sorts, NilAssumption DEF Inv, DisposeNative, ForgetContexts
<1>. DEFINE e == closing.engine
<1>1. /\ closing \in Closing /\ e \in Engines /\ Emptied(e) /\ ~InUse(e)
      /\ closing' \in Closing /\ ~Idle'
      /\ closing'.engine = e /\ closing'.last = closing.last
      /\ closing'.step = "return"
  BY DEF TypeOK, Closing, ClosingSteps, Idle, InUse, Emptied
<1>2. /\ e \in live /\ nmods[e] \subseteq live \cap Modules
      /\ tmOf[e] \in live \cap TargetMachines
  BY <1>1 DEF EnginesAgree, EnginesOwn, TypeOK
<1>. DEFINE S == {e} \cup nmods[e] \cup {tmOf[e]}
<1>3. live' = live \ S /\ twice' = twice
  <2>1. S \cap Contexts = {} /\ S \subseteq live
    BY <1>1, <1>2
  <2>2. Free(S)
    BY DEF DisposeNative
  <2>. HIDE DEF S
  <2>3. live' = live \ S
    BY <2>1, <2>2, FreeExactly
  <2>. QED
    BY <2>1, <2>2, <2>3 DEF Free
<1>4. /\ \A f \in Engines : f # e =>
            /\ f \in live' <=> f \in live
            /\ nmods'[f] = nmods[f] /\ nmods[f] \cap nmods[e] = {}
            /\ tmOf'[f] = tmOf[f] /\ tmOf[f] # tmOf[e]
            /\ (InUse(f)' <=> InUse(f)) /\ ~Emptied(f) /\ ~Emptied(f)'
      /\ nmods'[e] = {} /\ tmOf'[e] = Nil /\ ~InUse(e)' /\ ~Emptied(e)'
  BY <1>1, <1>2, <1>3 DEF EnginesOwn, TypeOK, InUse, Emptied
<1>5. TypeOK'
  BY <1>1, <1>3 DEF TypeOK
<1>6. OnlyOwners'
  BY DEF OnlyOwners
<1>7. WrappersStand'
  <2>1. ASSUME NEW x \in open' \ owned', x \notin Engines
        PROVE  x \in live' \cup dangling'
    <3>1. x \in open \ owned /\ x \in live \cup dangling
      BY <2>1 DEF WrappersStand
    <3>2. x \notin S
      BY <1>1, <1>2, <2>1 DEF EnginesOwn
    <3>. QED
      BY <1>3, <3>1, <3>2
  <2>2. ASSUME NEW x \in open' \cap owned' \cap Modules
        PROVE  \E f \in Engines : x \in nmods'[f]
    <3>1. PICK f \in Engines : x \in nmods[f]
      BY <2>2 DEF WrappersStand
    <3>2. nmods[e] \cap open = {}
      BY DEF ClosingKeepsContext
    <3>. QED
      BY <3>1, <3>2
  <2>. QED
    BY <2>1, <2>2 DEF WrappersStand
<1>8. EnginesAgree'
  BY <1>3, <1>4 DEF EnginesAgree, InUse
<1>9. EnginesOwn'
  BY <1>3 DEF EnginesOwn, Idle, TypeOK, Closing
<1>10. ClosingKeepsContext'
  BY DEF ClosingKeepsContext
<1>11. ModulesAccounted'
  BY <1>3 DEF ModulesAccounted
<1>12. ContextsKept'
  BY <1>2, <1>3, <1>4 DEF ContextsKept, EnginesOwn, TypeOK
<1>13. ContextsLive'
  BY <1>2, <1>3, <1>4 DEF ContextsLive, TypeOK
<1>14. NoOtherDoubleFree'
  BY <1>3 DEF NoOtherDoubleFree
<1>. QED
  BY <1>5, <1>6, <1>7, <1>8, <1>9, <1>10, <1>11, <1>12, <1>13, <1>14

-----------------------------------------------------------------------------
\* Before the first call, only LLVM's global context exists.
LEMMA InitInv == Init => Inv
<1>. SUFFICES ASSUME Init PROVE Inv
  OBVIOUS
<1>. USE Sorts DEF Init
<1>1. TypeOK /\ OnlyOwners
  BY DEF TypeOK, Objects, OnlyOwners
<1>2. WrappersStand /\ ModulesAccounted /\ ContextsKept
  BY DEF WrappersStand, ModulesAccounted, ContextsKept
<1>3. EnginesAgree /\ EnginesOwn
  BY DEF EnginesAgree, EnginesOwn, InUse, Emptied, Idle
<1>4. ClosingKeepsContext /\ ContextsLive /\ NoOtherDoubleFree
  BY DEF ClosingKeepsContext, Idle, ContextsLive, NoOtherDoubleFree
<1>. QED
  BY <1>1, <1>2, <1>3, <1>4 DEF Inv

\* Every call, every close, every step of an engine's _dispose and every
\* finalizer keeps the invariant.
LEMMA NextInv ==
    ASSUME Disciplined, OneContext, Inv, [Next]_vars
    PROVE  Inv'
<1>1. ASSUME NEW c \in Contexts, CreateContext(c)
      PROVE  Inv'
  BY <1>1, CreateContextKeeps
<1>2. ASSUME NEW m \in Modules, NEW c \in Contexts, Parse(m, c)
      PROVE  Inv'
  BY <1>2, ParseKeeps
<1>3. ASSUME NEW m \in Modules, NEW n \in Modules, Clone(m, n) \/ LinkIn(m, n)
      PROVE  Inv'
  BY <1>3, CloneKeeps, LinkInKeeps
<1>4. ASSUME NEW t \in TargetMachines, CreateTargetMachine(t)
      PROVE  Inv'
  BY <1>4, CreateTargetMachineKeeps
<1>5. ASSUME NEW e \in Engines, NEW m \in Modules, NEW t \in TargetMachines,
             CreateEngine(e, m, t)
      PROVE  Inv'
  BY <1>5, CreateEngineKeeps
<1>6. ASSUME NEW m \in Modules, NEW t \in TargetMachines, CreateEngineFails(m,
           t)
      PROVE  Inv'
  BY <1>6, CreateEngineFailsKeeps
<1>7. ASSUME NEW e \in Engines, NEW m \in Modules,
             AddModule(e, m) \/ RemoveModule(e, m)
      PROVE  Inv'
  BY <1>7, AddModuleKeeps, RemoveModuleKeeps
<1>8. ASSUME NEW e \in Engines, TargetData(e) \/ BeginClose(e)
      PROVE  Inv'
  BY <1>8, TargetDataKeeps, BeginCloseKeeps
<1>9. ASSUME NEW x \in Objects, Close(x) \/ Drop(x) \/ Collect(x)
      PROVE  Inv'
  BY <1>9, CloseKeeps, DropKeeps, CollectKeeps
<1>10. CASE ClearModules \/ DisposeNative \/ EndClose
  BY <1>10, ClearModulesKeeps, DisposeNativeKeeps, EndCloseKeeps
<1>11. CASE UNCHANGED vars
  <2>. USE <1>11 DEF vars, Inv
  <2>1. TypeOK' /\ OnlyOwners'
    BY DEF TypeOK, OnlyOwners
  <2>2. WrappersStand' /\ ModulesAccounted' /\ ContextsKept'
    BY DEF WrappersStand, ModulesAccounted, ContextsKept
  <2>3. EnginesAgree' /\ EnginesOwn'
    BY DEF EnginesAgree, EnginesOwn, InUse, Emptied, Idle
  <2>4. ClosingKeepsContext' /\ ContextsLive' /\ NoOtherDoubleFree'
    BY DEF ClosingKeepsContext, Idle, ContextsLive, NoOtherDoubleFree
  <2>. QED
    BY <2>1, <2>2, <2>3, <2>4
<1>. QED
  BY <1>1, <1>2, <1>3, <1>4, <1>5, <1>6, <1>7, <1>8, <1>9, <1>10, <1>11 DEF Next

\* The inductive invariant of a caller that keeps to the rules.
THEOREM OwnershipInvariant ==
    ASSUME Disciplined, OneContext
    PROVE  Spec => []Inv
<1>1. Inv /\ [Next]_vars => Inv'
  BY NextInv
<1>. QED
  BY <1>1, InitInv, PTL DEF Spec

\* In whatever order wrappers are closed, dropped and collected, and whatever
\* of it happens inside an engine's _dispose, what is freed twice is freed the
\* second time by a wrapper that a failed creation left dangling.
THEOREM FreedAtMostOnce ==
    ASSUME Disciplined, OneContext
    PROVE  Spec => []NoOtherDoubleFree
<1>1. Inv => NoOtherDoubleFree
  BY DEF Inv
<1>. QED
  BY <1>1, OwnershipInvariant, PTL

\* No context is freed under one of its modules: ModuleRef._context, and the loop
\* variable of an engine's _dispose, keep it.
THEOREM ContextsFreedLast ==
    ASSUME Disciplined, OneContext
    PROVE  Spec => ContextsGoLast
<1>. DEFINE Last == \A c \in Contexts : c \in live \ live' =>
                       \A m \in live \cap Modules : ctxOf[m] # c
<1>1. ASSUME Inv, Next
      PROVE  Last
  <2>. USE Sorts
  <2>1. CASE live \subseteq live'
    BY <2>1
  <2>2. ASSUME NEW S, Free(S), S \cap Contexts = {}
        PROVE  Last
    <3>1. live' = live \ S
      BY <2>2, FreeExactly
    <3>. QED
      BY <2>2, <3>1
  <2>3. ASSUME NEW m \in Modules, NEW t \in TargetMachines,
               CreateEngineFails(m, t)
        PROVE  Last
    <3>1. Free({m, t}) /\ {m, t} \cap Contexts = {}
      BY <2>3 DEF CreateEngineFails
    <3>. QED
      BY <2>2, <3>1
  <2>4. ASSUME NEW m \in Modules, NEW n \in Modules, LinkIn(m, n)
        PROVE  Last
    <3>1. Free({n}) /\ {n} \cap Contexts = {}
      BY <2>4 DEF LinkIn
    <3>. QED
      BY <2>2, <3>1
  <2>5. ASSUME NEW x \in Objects, Close(x) \/ Collect(x)
        PROVE  Last
    <3>1. /\ x \notin Engines \cap open /\ CloseWrapper(x)
          /\ x \in Contexts => \A m \in live \cap Modules : ctxOf[m] # x
      BY <1>1, <2>5, GarbageContextIsEmpty DEF Close, Collect
    <3>2. live' = live \/ live' = live \ {x}
      BY <1>1, <3>1, CloseWrapperFreesOne
    <3>. QED
      BY <3>1, <3>2
  <2>6. CASE DisposeNative
    <3>1. closing.engine \in Engines /\ Emptied(closing.engine)
      BY <1>1, <2>6, NilAssumption
         DEF DisposeNative, Inv, TypeOK, Closing, Idle, Emptied
    <3>2. ({closing.engine} \cup nmods[closing.engine] \cup {tmOf[closing.engine]})
              \cap Contexts = {}
      BY <1>1, <3>1 DEF Inv, EnginesAgree, TypeOK
    <3>. QED
      BY <2>2, <2>6, <3>2 DEF DisposeNative
  <2>7. CASE \/ \E c \in Contexts : CreateContext(c)
             \/ \E m \in Modules, c \in Contexts : Parse(m, c)
             \/ \E m, n \in Modules : Clone(m, n)
             \/ \E t \in TargetMachines : CreateTargetMachine(t)
             \/ \E e \in Engines, m \in Modules, t \in TargetMachines :
                   CreateEngine(e, m, t)
    <3>1. live \subseteq live'
      BY <2>7 DEF CreateContext, Parse, Clone, CreateTargetMachine, CreateEngine, Wrap
    <3>. QED
      BY <2>1, <3>1
  <2>8. CASE \/ \E e \in Engines, m \in Modules : AddModule(e, m) \/ RemoveModule(e, m)
             \/ \E e \in Engines : TargetData(e) \/ BeginClose(e)
             \/ \E x \in Objects : Drop(x)
             \/ ClearModules \/ EndClose
    <3>1. live' = live
      BY <2>8 DEF AddModule, RemoveModule, TargetData, BeginClose, Drop,
         ClearModules, EndClose, native
    <3>. QED
      BY <2>1, <3>1
  <2>. HIDE DEF Last
  <2>. QED
    BY <1>1, <2>3, <2>4, <2>5, <2>6, <2>7, <2>8 DEF Next
<1>2. Inv /\ [Next]_vars => [Last]_vars
  BY <1>1
<1>. QED
  BY <1>2, OwnershipInvariant, PTL DEF Spec, ContextsGoLast

-----------------------------------------------------------------------------
(* The refinement: Ownership implements OwnershipAbs. *)

\* What the refinement mapping says of a module.
HolderMeans ==
    /\ Holder = [m \in Modules |-> Holder[m]]
    /\ \A m \in Modules :
          /\ m \notin live => Holder[m] = Nil
          /\ \A e \in Engines : m \in nmods[e] => Holder[m] = e
          /\ m \in live /\ (\A e \in Engines : m \notin nmods[e])
                => Holder[m] = Caller

\* The mapping computes who holds a module.
LEMMA HolderValue == Inv => HolderMeans
<1>. SUFFICES ASSUME Inv, NEW m \in Modules
              PROVE  /\ m \notin live => Holder[m] = Nil
                     /\ \A e \in Engines : m \in nmods[e] => Holder[m] = e
                     /\ m \in live /\ (\A e \in Engines : m \notin nmods[e])
                           => Holder[m] = Caller
  BY DEF HolderMeans, Holder
<1>1. m \notin live => Holder[m] = Nil
  BY DEF Holder
<1>2. ASSUME NEW e \in Engines, m \in nmods[e]
      PROVE  Holder[m] = e
  <2>1. m \in live /\ \A f \in Engines : m \in nmods[f] => f = e
    BY <1>2 DEF Inv, EnginesOwn
  <2>2. (CHOOSE f \in Engines : m \in nmods[f]) = e
    BY <1>2, <2>1
  <2>. QED
    BY <1>2, <2>1 DEF Holder
<1>3. ASSUME m \in live, \A e \in Engines : m \notin nmods[e]
      PROVE  Holder[m] = Caller
  <2>1. m \in open \ owned
    BY <1>3 DEF Inv, ModulesAccounted
  <2>. QED
    BY <1>3, <2>1 DEF Holder
<1>. QED
  BY <1>1, <1>2, <1>3

\* The same in the next state.
LEMMA HolderValueNext == Inv' => HolderMeans'
BY HolderValue, PTL

\* A module that stays where it is has the holder it had.
LEMMA HolderStays ==
    ASSUME HolderMeans, HolderMeans', NEW m \in Modules,
           m \in live' <=> m \in live,
           \A e \in Engines : m \in nmods'[e] <=> m \in nmods[e]
    PROVE  Holder'[m] = Holder[m]
BY DEF HolderMeans
\* Where no module is created, freed or given away, nothing changes hands.
LEMMA NobodyMoves ==
    ASSUME HolderMeans, HolderMeans',
           live' \cap Modules = live \cap Modules, nmods' = nmods
    PROVE  Holder' = Holder
<1>1. \A m \in Modules : Holder'[m] = Holder[m]
  BY HolderStays
<1>. QED
  BY <1>1 DEF HolderMeans

\* A new module (parse_assembly, parse_bitcode, clone) is the caller's.
LEMMA NewModuleIsCallers ==
    ASSUME Inv, HolderMeans, HolderMeans', NEW m \in Modules,
           m \notin live, live' \cap Modules = (live \cap Modules) \cup {m},
           nmods' = nmods
    PROVE  Abs!Create(m)
<1>1. \A e \in Engines : m \notin nmods[e]
  BY DEF Inv, EnginesOwn
<1>2. Holder[m] = Nil /\ Holder'[m] = Caller
  BY <1>1 DEF HolderMeans
<1>. QED
  BY <1>2 DEF HolderMeans, Abs!Create

\* A module freed alone was the caller's.
LEMMA FreedModuleWasCallers ==
    ASSUME HolderMeans, HolderMeans', NEW m \in live \cap Modules,
           \A e \in Engines : m \notin nmods[e],
           live' \cap Modules = (live \cap Modules) \ {m}, nmods' = nmods
    PROVE  Abs!Destroy(m)
<1>. QED
  BY DEF HolderMeans, Abs!Destroy

\* A module given to an engine was the caller's.
LEMMA GivenModuleWasCallers ==
    ASSUME HolderMeans, HolderMeans', TypeOK,
           NEW m \in live \cap Modules, NEW e \in Engines,
           \A f \in Engines : m \notin nmods[f],
           live' \cap Modules = live \cap Modules,
           nmods' = [nmods EXCEPT ![e] = @ \cup {m}]
    PROVE  Abs!Give(m, e)
<1>1. Holder[m] = Caller /\ Holder'[m] = e
  BY DEF HolderMeans, TypeOK
<1>. QED
  BY <1>1 DEF HolderMeans, Abs!Give

\* A module that remove_module takes from an engine is the caller's again.
LEMMA RemovedModuleIsCallers ==
    ASSUME Inv, HolderMeans, HolderMeans',
           NEW m \in Modules, NEW e \in Engines, RemoveModule(e, m)
    PROVE  Abs!TakeBack(m, e)
<1>1. m \in nmods[e] /\ m \in live
  BY DEF Inv, EnginesAgree, EnginesOwn, RemoveModule
<1>2. \A f \in Engines : m \notin nmods'[f]
  BY <1>1 DEF RemoveModule, Inv, EnginesOwn, TypeOK
<1>3. Holder[m] = e /\ Holder'[m] = Caller
  BY <1>1, <1>2 DEF HolderMeans, RemoveModule
<1>4. \A n \in Modules \ {m} : Holder'[n] = Holder[n]
  BY HolderStays DEF RemoveModule
<1>. QED
  BY <1>3, <1>4 DEF HolderMeans, Abs!TakeBack

\* LLVMPY_DisposeExecutionEngine frees the modules of that engine, no others.
LEMMA EngineTakesItsModules ==
    ASSUME Inv, HolderMeans, HolderMeans', DisposeNative
    PROVE  closing.engine \in Engines /\ Abs!CloseEngine(closing.engine)
<1>. USE Sorts, NilAssumption DEF Inv
<1>. DEFINE e == closing.engine
<1>1. e \in Engines /\ Emptied(e)
  BY DEF DisposeNative, TypeOK, Closing, Idle, Emptied
<1>. DEFINE S == {e} \cup nmods[e] \cup {tmOf[e]}
<1>2. S \cap Contexts = {}
  BY <1>1 DEF EnginesAgree, TypeOK
<1>3. Free(S) /\ nmods' = [nmods EXCEPT ![e] = {}]
  BY DEF DisposeNative
<1>4. S \cap Modules = nmods[e]
  BY <1>1 DEF EnginesAgree, TypeOK
<1>. HIDE DEF e, S
<1>5. live' = live \ S
  BY <1>2, <1>3, FreeExactly
<1>6. ASSUME NEW n \in nmods[e]
      PROVE  n \in Modules /\ Holder[n] = e /\ Holder'[n] = Nil
  BY <1>1, <1>4, <1>5 DEF HolderMeans
<1>7. ASSUME NEW n \in Modules, n \notin nmods[e]
      PROVE  Holder'[n] = Holder[n] /\ Holder[n] # e
  <2>1. n \in live' <=> n \in live
    BY <1>4, <1>5, <1>7
  <2>2. \A f \in Engines : n \in nmods'[f] <=> n \in nmods[f]
    BY <1>3, <1>7
  <2>3. Holder'[n] = Holder[n]
    BY <2>1, <2>2, HolderStays
  <2>4. Holder[n] # e
    BY <1>1, <1>7 DEF HolderMeans
  <2>. QED
    BY <2>3, <2>4
<1>8. Abs!CloseEngine(e)
  BY <1>6, <1>7 DEF HolderMeans, Abs!CloseEngine
<1>. QED
  BY <1>1, <1>8 DEF e

\* Every step of Ownership is a step of OwnershipAbs, or changes no holder.
LEMMA StepRefines ==
    ASSUME Disciplined, Inv, HolderMeans, HolderMeans', [Next]_vars
    PROVE  Abs!Next \/ Holder' = Holder
<1>. USE Sorts DEF Inv
<1>1. CASE (\E c \in Contexts : CreateContext(c))
           \/ (\E t \in TargetMachines : CreateTargetMachine(t))
  <2>1. live' \cap Modules = live \cap Modules /\ nmods' = nmods
    BY <1>1 DEF CreateContext, CreateTargetMachine, Wrap
  <2>. QED
    BY <2>1, NobodyMoves
<1>2. ASSUME NEW m \in Modules, NEW c \in Contexts, Parse(m, c)
      PROVE  Abs!Create(m)
  <2>1. /\ m \notin live /\ nmods' = nmods
        /\ live' \cap Modules = (live \cap Modules) \cup {m}
    BY <1>2 DEF Parse, Fresh, Wrap
  <2>. QED
    BY <2>1, NewModuleIsCallers
<1>3. ASSUME NEW m \in Modules, NEW n \in Modules, Clone(m, n)
      PROVE  Abs!Create(n)
  <2>1. /\ n \notin live /\ nmods' = nmods
        /\ live' \cap Modules = (live \cap Modules) \cup {n}
    BY <1>3 DEF Clone, Fresh, Wrap
  <2>. QED
    BY <2>1, NewModuleIsCallers
<1>4. ASSUME NEW dst \in Modules, NEW src \in Modules, LinkIn(dst, src)
      PROVE  Abs!Destroy(src)
  <2>1. src \in open \ owned /\ src \in live
    BY <1>4 DEF LinkIn, Usable, Unowned, WrappersStand
  <2>2. \A e \in Engines : src \notin nmods[e]
    BY <2>1 DEF EnginesOwn
  <2>3. Free({src}) /\ {src} \cap Contexts = {} /\ nmods' = nmods
    BY <1>4 DEF LinkIn
  <2>4. live' = live \ {src}
    BY <2>3, FreeExactly
  <2>. QED
    BY <2>1, <2>2, <2>3, <2>4, FreedModuleWasCallers
<1>5. ASSUME NEW e \in Engines, NEW m \in Modules, NEW t \in TargetMachines,
             CreateEngine(e, m, t)
      PROVE  Abs!Give(m, e)
  <2>1. m \in open \ owned /\ m \in live
    BY <1>5 DEF CreateEngine, Usable, Unowned, WrappersStand
  <2>2. \A f \in Engines : m \notin nmods[f]
    BY <2>1 DEF EnginesOwn
  <2>3. nmods[e] = {}
    BY <1>5 DEF CreateEngine, Fresh, EnginesAgree
  <2>4. /\ live' \cap Modules = live \cap Modules
        /\ nmods' = [nmods EXCEPT ![e] = @ \cup {m}]
    BY <1>5, <2>3 DEF CreateEngine, Wrap
  <2>. QED
    BY <2>1, <2>2, <2>4, GivenModuleWasCallers
<1>6. ASSUME NEW m \in Modules, NEW t \in TargetMachines, CreateEngineFails(m,
           t)
      PROVE  Abs!Destroy(m)
  <2>1. m \in open \ owned /\ m \in live
    BY <1>6 DEF CreateEngineFails, Usable, Unowned, WrappersStand
  <2>2. \A e \in Engines : m \notin nmods[e]
    BY <2>1 DEF EnginesOwn
  <2>3. Free({m, t}) /\ {m, t} \cap Contexts = {} /\ nmods' = nmods
    BY <1>6 DEF CreateEngineFails
  <2>4. live' = live \ {m, t}
    BY <2>3, FreeExactly
  <2>. QED
    BY <2>1, <2>2, <2>3, <2>4, FreedModuleWasCallers
<1>7. ASSUME NEW e \in Engines, NEW m \in Modules, AddModule(e, m)
      PROVE  Abs!Give(m, e)
  <2>1. m \in open \ owned /\ m \in live
    BY <1>7 DEF AddModule, Usable, Unowned, WrappersStand
  <2>2. \A f \in Engines : m \notin nmods[f]
    BY <2>1 DEF EnginesOwn
  <2>. QED
    BY <1>7, <2>1, <2>2, GivenModuleWasCallers DEF AddModule
<1>8. ASSUME NEW e \in Engines, NEW m \in Modules, RemoveModule(e, m)
      PROVE  Abs!TakeBack(m, e)
  BY <1>8, RemovedModuleIsCallers
<1>9. CASE (\E e \in Engines : TargetData(e) \/ BeginClose(e))
           \/ (\E x \in Objects : Drop(x)) \/ ClearModules \/ EndClose
           \/ UNCHANGED vars
  <2>1. live' = live /\ nmods' = nmods
    BY <1>9 DEF TargetData, BeginClose, Drop, ClearModules, EndClose, native,
       vars
  <2>. QED
    BY <2>1, NobodyMoves
<1>10. ASSUME NEW x \in Objects, Close(x) \/ Collect(x)
       PROVE  (x \in Modules /\ Abs!Destroy(x)) \/ Holder' = Holder
  <2>1. /\ x \notin Engines \cap open /\ CloseWrapper(x) /\ nmods' = nmods
        /\ x \in Contexts => \A m \in live \cap Modules : ctxOf[m] # x
    BY <1>10, GarbageContextIsEmpty DEF Close, Collect
  <2>2. live' = live \/ (live' = live \ {x} /\ x \in open \ owned)
    BY <2>1, CloseWrapperFreesOne
  <2>3. CASE x \in Modules \cap live /\ live' # live
    <3>1. live' = live \ {x} /\ x \in open \ owned
      BY <2>2, <2>3
    <3>2. \A e \in Engines : x \notin nmods[e]
      BY <3>1 DEF EnginesOwn
    <3>. QED
      BY <2>1, <2>3, <3>1, <3>2, FreedModuleWasCallers
  <2>4. CASE x \notin Modules \cap live \/ live' = live
    BY <2>1, <2>2, <2>4, NobodyMoves
  <2>. QED
    BY <2>3, <2>4
<1>11. CASE DisposeNative
  BY <1>11, EngineTakesItsModules DEF Abs!Next
<1>. HIDE DEF Inv
<1>. QED
  BY <1>1, <1>2, <1>3, <1>4, <1>5, <1>6, <1>7, <1>8, <1>9, <1>10, <1>11
     DEF Next, Abs!Next

\* What the documentation promises of ownership is what the code does: modules
\* belong to the caller or to one engine, and change hands only as it says.
THEOREM OwnershipRefines ==
    ASSUME Disciplined, OneContext
    PROVE  Spec => ImplementsOwnership
<1>1. Init => Abs!Init
  BY DEF Init, Abs!Init, Holder
<1>2. Inv /\ Inv' /\ [Next]_vars => [Abs!Next]_Holder
  BY HolderValue, HolderValueNext, StepRefines
<1>. QED
  BY <1>1, <1>2, OwnershipInvariant, PTL DEF Spec, ImplementsOwnership, Abs!Spec
=============================================================================
