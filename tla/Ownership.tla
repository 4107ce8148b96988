----------------------------- MODULE Ownership ------------------------------
(***************************************************************************)
(* Who frees what in llvmlite.binding: contexts, modules, target machines  *)
(* and MCJIT execution engines.  Each native LLVM object has one Python    *)
(* wrapper (ffi.ObjectRef); the wrapper frees it when it is closed, or     *)
(* collected, unless _owned says that another object will.                 *)
(*                                                                         *)
(* The same name stands for the wrapper and for its native object.  It may *)
(* be used again once both are gone.  One thread; CPython collects a       *)
(* wrapper as soon as its last reference goes, so every operation waits    *)
(* until nothing is left to collect.                                       *)
(***************************************************************************)
EXTENDS Integers, FiniteSets

CONSTANTS
    Modules, Contexts, TargetMachines, Engines,
    GlobalContext,   \* LLVM's global context, the default of parse_assembly
    Nil,             \* no object
    Caller,          \* the owner of what no engine owns
    Disciplined,     \* does the caller keep to the rules of Usable and Unowned?
    OneContext       \* are all modules of an engine from one context?

ASSUME OwnershipAssumption ==
    /\ {Disciplined, OneContext} \subseteq BOOLEAN
    /\ GlobalContext \in Contexts
    /\ Modules \cap Contexts = {} /\ Modules \cap TargetMachines = {}
    /\ Modules \cap Engines = {} /\ Contexts \cap TargetMachines = {}
    /\ Contexts \cap Engines = {} /\ TargetMachines \cap Engines = {}
    /\ Nil # Caller /\ {Nil, Caller} \cap Engines = {}
    /\ Nil \notin Modules \cup Contexts \cup TargetMachines \cup Engines

Objects == Modules \cup Contexts \cup TargetMachines \cup Engines

VARIABLES
    wrappers,  \* the wrappers that exist
    open,      \* those whose _closed is False
    owned,     \* those whose _owned is True
    refs,      \* those a variable of the caller refers to
    ctxOf,     \* ModuleRef._context; also the context of the native module
    mods,      \* ExecutionEngine._modules
    tds,       \* the engines whose _td is open
    live,      \* the native objects that exist
    nmods,     \* the modules a native engine owns
    tmOf,      \* the target machine a native engine owns
    twice,     \* (history) the ways in which a native object has been freed when
               \* already freed: "dangling" if a failed creation freed it before
    dangling,  \* (history) the wrappers a failed creation has left dangling
    closing    \* ExecutionEngine.close in progress

py == <<wrappers, open, owned, refs, ctxOf, mods, tds>>
native == <<live, nmods, tmOf, twice, dangling>>
vars == <<wrappers, open, owned, refs, ctxOf, mods, tds,
          live, nmods, tmOf, twice, dangling, closing>>

(***************************************************************************)
(* A close of engine e is at one of the steps of ExecutionEngine._dispose. *)
(* "last" is the loop variable of "for mod in self._modules": it refers to *)
(* the last module of the loop until _dispose returns.                     *)
(***************************************************************************)
ClosingSteps == {"clear", "dispose", "return"}
Closing == [step : ClosingSteps, engine : Engines, last : Modules \cup {Nil}]
ASSUME NilAssumption == Nil \notin Closing
Idle == closing = Nil

\* Mutant: a ModuleRef without its _context attribute.
HeldByNoContext(x) ==
    \/ \E e \in wrappers \cap Engines : x \in mods[e]
    \/ ~Idle /\ x \in {closing.engine, closing.last}

\* A reference to wrapper x that is not in a variable of the caller.
HeldBy(x) ==
    \/ \E m \in wrappers \cap Modules : ctxOf[m] = x
    \/ \E e \in wrappers \cap Engines : x \in mods[e]
    \/ ~Idle /\ x \in {closing.engine, closing.last}

Garbage == {x \in wrappers \ refs : ~HeldBy(x)}
Settled == Garbage = {}

\* The caller's code runs, and can use x.  A caller that keeps to the rules has
\* no more use for what a failed creation was given.
Usable(x) ==
    /\ Idle /\ Settled
    /\ x \in refs \cap open
    /\ Disciplined => x \notin dangling
Fresh(x) == Idle /\ Settled /\ x \notin wrappers \cup live

\* A caller that keeps to the rules hands over only what it owns itself.
Unowned(x) == Disciplined => x \notin owned

\* What goes with a native object: ~LLVMContext deletes its modules.
WithContents(x) ==
    {x} \cup {m \in live \cap Modules : x \in Contexts /\ ctxOf[m] = x}

Free(S) ==
    /\ live' = live \ UNION {WithContents(x) : x \in S}
    /\ twice' = twice \cup {IF x \in dangling THEN "dangling" ELSE "other" :
                               x \in S \ live}

\* New wrapper x for a new native object, in a variable of the caller.
Wrap(x) ==
    /\ wrappers' = wrappers \cup {x}
    /\ open' = open \cup {x}
    /\ refs' = refs \cup {x}
    /\ live' = live \cup {x}

\* What has neither wrapper nor native object has no context.
ForgetContexts ==
    ctxOf' = [m \in Modules |-> IF m \in wrappers' \cup live' THEN ctxOf[m]
                                                            ELSE Nil]

-----------------------------------------------------------------------------
Init ==
    /\ wrappers = {} /\ open = {} /\ owned = {} /\ refs = {}
    /\ ctxOf = [m \in Modules |-> Nil]
    /\ mods = [e \in Engines |-> {}]
    /\ tds = {}
    /\ live = {GlobalContext}
    /\ nmods = [e \in Engines |-> {}]
    /\ tmOf = [e \in Engines |-> Nil]
    /\ twice = {}
    /\ dangling = {}
    /\ closing = Nil

\* create_context, get_global_context
CreateContext(c) ==
    /\ Fresh(c) \/ (c = GlobalContext /\ Idle /\ Settled /\ c \notin wrappers)
    /\ Wrap(c)
    /\ owned' = owned \ {c}
    /\ UNCHANGED <<ctxOf, mods, tds, nmods, tmOf, twice, dangling, closing>>

\* parse_assembly, parse_bitcode
Parse(m, c) ==
    /\ Fresh(m)
    /\ Usable(c)
    /\ Wrap(m)
    /\ owned' = owned \ {m}
    /\ ctxOf' = [ctxOf EXCEPT ![m] = c]
    /\ UNCHANGED <<mods, tds, nmods, tmOf, twice, dangling, closing>>

\* ModuleRef.clone
Clone(m, new) ==
    /\ Usable(m)
    /\ Fresh(new)
    /\ Wrap(new)
    /\ owned' = owned \ {new}
    /\ ctxOf' = [ctxOf EXCEPT ![new] = ctxOf[m]]
    /\ UNCHANGED <<mods, tds, nmods, tmOf, twice, dangling, closing>>

\* Target.create_target_machine
CreateTargetMachine(t) ==
    /\ Fresh(t)
    /\ Wrap(t)
    /\ owned' = owned \ {t}
    /\ UNCHANGED <<ctxOf, mods, tds, nmods, tmOf, twice, dangling, closing>>

\* create_mcjit_compiler
CreateEngine(e, m, t) ==
    /\ Fresh(e)
    /\ Usable(m) /\ Unowned(m)
    /\ Usable(t) /\ Unowned(t)
    /\ Wrap(e)
    /\ owned' = (owned \ {e}) \cup {m, t}
    /\ mods' = [mods EXCEPT ![e] = {m}]
    /\ nmods' = [nmods EXCEPT ![e] = {m}]
    /\ tmOf' = [tmOf EXCEPT ![e] = t]
    /\ UNCHANGED <<ctxOf, tds, twice, dangling, closing>>

\* create_mcjit_compiler raises RuntimeError.  The EngineBuilder held the module
\* in a unique_ptr, and EngineBuilder::create takes the target machine: both are
\* destroyed, and the wrappers are left as they were.
CreateEngineFails(m, t) ==
    /\ Usable(m) /\ Unowned(m)
    /\ Usable(t) /\ Unowned(t)
    /\ Free({m, t})
    /\ dangling' = dangling \cup {m, t}
    /\ UNCHANGED <<py, nmods, tmOf, closing>>

\* Mutant: add_module leaves module._owned False.
AddModuleNotOwned(e, m) ==
    /\ Usable(e)
    /\ Usable(m) /\ Unowned(m)
    /\ m \notin mods[e]
    /\ OneContext => \A n \in mods[e] : ctxOf[n] = ctxOf[m]
    /\ nmods' = [nmods EXCEPT ![e] = @ \cup {m}]
    /\ mods' = [mods EXCEPT ![e] = @ \cup {m}]
    /\ UNCHANGED <<wrappers, open, owned, refs, ctxOf, tds, live, tmOf, twice,
                   dangling, closing>>

\* ExecutionEngine.add_module
AddModule(e, m) ==
    /\ Usable(e)
    /\ Usable(m) /\ Unowned(m)
    /\ m \notin mods[e]
    /\ OneContext => \A n \in mods[e] : ctxOf[n] = ctxOf[m]
    /\ nmods' = [nmods EXCEPT ![e] = @ \cup {m}]
    /\ owned' = owned \cup {m}
    /\ mods' = [mods EXCEPT ![e] = @ \cup {m}]
    /\ UNCHANGED <<wrappers, open, refs, ctxOf, tds, live, tmOf, twice,
                   dangling, closing>>

\* Mutant: remove_module without the native call.
RemoveModulePythonOnly(e, m) ==
    /\ Usable(e)
    /\ Usable(m)
    /\ m \in mods[e]
    /\ mods' = [mods EXCEPT ![e] = @ \ {m}]
    /\ owned' = owned \ {m}
    /\ UNCHANGED <<wrappers, open, refs, ctxOf, tds, native, closing>>

\* ExecutionEngine.remove_module; set.remove raises KeyError, and the native
\* engine ignores the call, when the module is not one of the engine's.
RemoveModule(e, m) ==
    /\ Usable(e)
    /\ Usable(m)
    /\ m \in mods[e]
    /\ nmods' = [nmods EXCEPT ![e] = @ \ {m}]
    /\ mods' = [mods EXCEPT ![e] = @ \ {m}]
    /\ owned' = owned \ {m}
    /\ UNCHANGED <<wrappers, open, refs, ctxOf, tds, live, tmOf, twice,
                   dangling, closing>>

\* ExecutionEngine.target_data
TargetData(e) ==
    /\ Usable(e)
    /\ tds' = tds \cup {e}
    /\ UNCHANGED <<wrappers, open, owned, refs, ctxOf, mods, native, closing>>

\* ModuleRef.link_in: link_modules detaches the source, whose native module
\* the linker destroys, whether it links or fails.
LinkIn(dst, src) ==
    /\ dst # src
    /\ Usable(dst)
    /\ Usable(src) /\ Unowned(src)
    /\ ctxOf[dst] = ctxOf[src]
    /\ Free({src})
    /\ open' = open \ {src}
    /\ UNCHANGED <<wrappers, owned, refs, ctxOf, mods, tds, nmods, tmOf,
                   dangling, closing>>

\* ObjectRef.close of a wrapper other than an engine's.  GlobalContextRef has
\* nothing to dispose of.
CloseWrapper(x) ==
    /\ IF x \in open \ (owned \cup {GlobalContext})
       THEN Free({x})
       ELSE UNCHANGED <<live, twice>>
    /\ open' = open \ {x}

Close(x) ==
    /\ Usable(x)
    /\ x \notin Engines
    /\ Disciplined /\ x \in Contexts => \A m \in live \cap Modules : ctxOf[m] # x
    /\ CloseWrapper(x)
    /\ UNCHANGED <<wrappers, owned, refs, ctxOf, mods, tds, nmods, tmOf,
                   dangling, closing>>

\* The caller drops its variable.
Drop(x) ==
    /\ Idle /\ Settled
    /\ x \in refs
    /\ refs' = refs \ {x}
    /\ UNCHANGED <<wrappers, open, owned, ctxOf, mods, tds, native, closing>>

\* ObjectRef.__del__, then the wrapper and its references are gone.
Collect(x) ==
    /\ x \in Garbage
    /\ x \in Engines => x \notin open
    /\ CloseWrapper(x)
    /\ wrappers' = wrappers \ {x}
    /\ owned' = owned \ {x}
    /\ dangling' = dangling \ {x}
    /\ ForgetContexts
    /\ UNCHANGED <<refs, mods, tds, nmods, tmOf, closing>>

\* ExecutionEngine._dispose, up to the end of its loop over _modules: called
\* by close, or by __del__ of a wrapper nothing refers to.
BeginClose(e) ==
    /\ Idle
    /\ e \in open
    /\ Usable(e) \/ e \in Garbage
    /\ open' = open \ mods[e]
    /\ tds' = tds \ {e}
    /\ \E last \in IF mods[e] = {} THEN {Nil} ELSE mods[e] :
          closing' = [step |-> "clear", engine |-> e, last |-> last]
    /\ UNCHANGED <<wrappers, owned, refs, ctxOf, mods, native>>

\* self._modules.clear()
ClearModules ==
    /\ ~Idle /\ closing.step = "clear"
    /\ mods' = [mods EXCEPT ![closing.engine] = {}]
    /\ closing' = [closing EXCEPT !.step = "dispose"]
    /\ UNCHANGED <<wrappers, open, owned, refs, ctxOf, tds, native>>

\* LLVMPY_DisposeExecutionEngine
DisposeNative ==
    /\ ~Idle /\ closing.step = "dispose"
    /\ Settled
    /\ LET e == closing.engine
       IN  /\ Free({e} \cup nmods[e] \cup {tmOf[e]})
           /\ nmods' = [nmods EXCEPT ![e] = {}]
           /\ tmOf' = [tmOf EXCEPT ![e] = Nil]
    /\ closing' = [closing EXCEPT !.step = "return"]
    /\ UNCHANGED <<wrappers, open, owned, refs, mods, tds, dangling>>
    /\ ForgetContexts

\* _dispose returns, and close detaches the engine.
EndClose ==
    /\ ~Idle /\ closing.step = "return"
    /\ open' = open \ {closing.engine}
    /\ closing' = Nil
    /\ UNCHANGED <<wrappers, owned, refs, ctxOf, mods, tds, native>>

Next ==
    \/ \E c \in Contexts : CreateContext(c)
    \/ \E m \in Modules, c \in Contexts : Parse(m, c)
    \/ \E m, n \in Modules : Clone(m, n) \/ LinkIn(m, n)
    \/ \E t \in TargetMachines : CreateTargetMachine(t)
    \/ \E e \in Engines, m \in Modules, t \in TargetMachines :
          CreateEngine(e, m, t)
    \/ \E m \in Modules, t \in TargetMachines : CreateEngineFails(m, t)
    \/ \E e \in Engines, m \in Modules : AddModule(e, m) \/ RemoveModule(e, m)
    \/ \E e \in Engines : TargetData(e) \/ BeginClose(e)
    \/ \E x \in Objects : Close(x) \/ Drop(x) \/ Collect(x)
    \/ ClearModules \/ DisposeNative \/ EndClose

Spec == Init /\ [][Next]_vars

-----------------------------------------------------------------------------
(* Properties *)

TypeOK ==
    /\ wrappers \subseteq Objects
    /\ open \subseteq wrappers
    /\ owned \subseteq wrappers
    /\ refs \subseteq wrappers
    /\ ctxOf \in [Modules -> Contexts \cup {Nil}]
    /\ mods \in [Engines -> SUBSET Modules]
    /\ tds \subseteq Engines
    /\ live \subseteq Objects
    /\ nmods \in [Engines -> SUBSET Modules]
    /\ tmOf \in [Engines -> TargetMachines \cup {Nil}]
    /\ twice \subseteq {"dangling", "other"}
    /\ dangling \subseteq wrappers
    /\ closing \in Closing \cup {Nil}

\* No native object is freed twice, in whatever order wrappers are closed,
\* dropped and collected.  Not so after create_mcjit_compiler has raised: the
\* wrappers still own what is gone with the engine's builder.
NoDoubleFree == twice = {}

\* That is the only way: what is freed twice is freed the second time by a
\* wrapper that a failed creation left as it was.
NoOtherDoubleFree == "other" \notin twice

\* Ownership as the documentation has it (OwnershipAbs): a module belongs to the
\* caller or to one engine, changes hands only by add and remove, and goes with
\* its owner.
Holder == [m \in Modules |->
    IF m \notin live THEN Nil
    ELSE IF \E e \in Engines : m \in nmods[e]
         THEN CHOOSE e \in Engines : m \in nmods[e]
         ELSE IF m \in open \ owned THEN Caller ELSE Nil]

Abs == INSTANCE OwnershipAbs WITH holder <- Holder, Nobody <- Nil

ImplementsOwnership == Abs!Spec

\* No context is freed under one of its modules, which ~LLVMContext would delete
\* along with it, from under a wrapper or an engine that is to free it.
ContextsGoLast ==
    [][\A c \in Contexts : c \in live \ live' =>
          \A m \in live \cap Modules : ctxOf[m] # c]_vars
=============================================================================
