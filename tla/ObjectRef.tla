----------------------------- MODULE ObjectRef ------------------------------
(***************************************************************************)
(* ffi.ObjectRef used from several threads: library calls that take        *)
(* wrappers as arguments, close and detach, and the two operations by      *)
(* which an MCJIT engine takes and returns a module.                       *)
(*                                                                         *)
(* _LLVMLock makes each library call atomic, and a wrapper is converted to *)
(* its pointer inside the lock; the Python code around the calls runs      *)
(* without it.  An operation is a sequence of steps, each ending where     *)
(* another thread may run.                                                 *)
(***************************************************************************)
EXTENDS Naturals, FiniteSets

CONSTANTS
    Threads, Engines, Modules,
    None      \* no operation, no thread, no module

ASSUME ObjectRefAssumption ==
    /\ Engines \cap Modules = {}
    /\ None \notin Threads \cup Engines \cup Modules
    /\ IsFiniteSet(Modules)

Objects == Engines \cup Modules

VARIABLES
    param,   \* the wrappers with an _as_parameter_ of their own
    closed,  \* those whose _closed is True
    owned,   \* those whose _owned is True
    mods,    \* ExecutionEngine._modules
    live,    \* the native objects that exist
    nmods,   \* the modules a native engine owns
    holder,  \* the thread inside _LLVMLock
    ops,     \* ops[t]: the operation thread t is in
    used,    \* (history) native objects given to a library call when freed
    twice    \* (history) native objects freed when already freed

py == <<param, closed, owned, mods>>
native == <<live, nmods, used, twice>>
vars == <<param, closed, owned, mods, live, nmods, holder, ops, used, twice>>

(***************************************************************************)
(* name   the method; self its object; module its argument, if it has one  *)
(* at     the step the thread is about to take                             *)
(* target the wrapper being detached                                       *)
(* todo   the modules the loop of ExecutionEngine._dispose has not reached *)
(* size   how many modules there were when it began                        *)
(***************************************************************************)
Steps == {"check", "loop", "clear", "wait", "inside", "own", "add", "remove",
          "disown", "detach", "del", "set"}
Operation == [name : {"call", "close", "add", "remove"}, self : Objects,
              module : Modules \cup {None}, at : Steps, target : Objects,
              todo : SUBSET Modules, size : 0 .. Cardinality(Modules)]

ASSUME NoneAssumption == None \notin Operation

Op(name, x, m, at) ==
    [name |-> name, self |-> x, module |-> m, at |-> at, target |-> x,
     todo |-> {}, size |-> 0]

Active == {t \in Threads : ops[t] # None}
At(t, name, step) == t \in Active /\ ops[t].name = name /\ ops[t].at = step
Goto(t, step) == ops' = [ops EXCEPT ![t].at = step]
Finish(t) == ops' = [ops EXCEPT ![t] = None]

Args(op) == {op.self} \cup ({op.module} \ {None})

\* What an operation changes, and what it closes.
Changed(op) ==
    CASE op.name = "call" -> {}
      [] op.name = "close" /\ op.self \in Engines -> {op.self} \cup mods[op.self]
      [] OTHER -> Args(op)
Closes(op) == IF op.name = "close" THEN {op.self} ELSE {}

\* What is assumed of the threads: two do not change an object at the same
\* time, and none closes what another has passed to a method.  It holds of the
\* wrappers that are closed by __del__, since a call in progress refers to its
\* arguments.  A call on a module may overlap the closing of its engine.
MayStart(op) ==
    \A u \in Active :
        /\ Changed(op) \cap Changed(ops[u]) = {}
        /\ Closes(op) \cap Args(ops[u]) = {}
        /\ Closes(ops[u]) \cap Args(op) = {}

Start(t, op) ==
    /\ t \notin Active
    /\ MayStart(op)
    /\ ops' = [ops EXCEPT ![t] = op]
    /\ UNCHANGED <<py, native, holder>>

-----------------------------------------------------------------------------
\* Each engine has been created with its first module.
Init ==
    /\ param = Objects
    /\ closed = {}
    /\ mods \in {f \in [Engines -> SUBSET Modules] :
                    /\ \A e \in Engines : Cardinality(f[e]) = 1
                    /\ \A d, e \in Engines : d # e => f[d] \cap f[e] = {}}
    /\ owned = UNION {mods[e] : e \in Engines}
    /\ live = Objects
    /\ nmods = mods
    /\ holder = None
    /\ ops = [t \in Threads |-> None]
    /\ used = {}
    /\ twice = {}

\* A method that makes one library call.
StartCall(t, x) == Start(t, Op("call", x, None, "wait"))

\* ObjectRef.close: explicit, by __exit__ or by __del__.
StartClose(t, x) == Start(t, Op("close", x, None, "check"))

\* ExecutionEngine.add_module raises KeyError for a module it has; the caller
\* hands over a module that no engine owns.
StartAdd(t, e, m) ==
    /\ m \notin mods[e] \cup owned
    /\ Start(t, Op("add", e, m, "wait"))

\* ExecutionEngine.remove_module, for a module of the engine
StartRemove(t, e, m) ==
    /\ m \in mods[e]
    /\ Start(t, Op("remove", e, m, "wait"))

-----------------------------------------------------------------------------
\* Mutant: ExecutionEngine._dispose disposes first.
CloseTestNoLoop(t) ==
    /\ At(t, "close", "check")
    /\ IF ops[t].self \in closed \cup owned THEN Goto(t, "detach")
                                            ELSE Goto(t, "wait")
    /\ UNCHANGED <<py, native, holder>>

\* close: "if not self._closed and not self._owned"
CloseTest(t) ==
    /\ At(t, "close", "check")
    /\ LET x == ops[t].self
       IN  IF x \in closed \cup owned THEN Goto(t, "detach")
           ELSE IF x \notin Engines THEN Goto(t, "wait")
           ELSE ops' = [ops EXCEPT ![t].at = "loop", ![t].todo = mods[x],
                                   ![t].size = Cardinality(mods[x])]
    /\ UNCHANGED <<py, native, holder>>

\* ExecutionEngine._dispose: "for mod in self._modules: mod.detach()".  The
\* iterator raises RuntimeError when the set has changed size, and close then
\* goes to its finally clause.
LoopStep(t) ==
    /\ At(t, "close", "loop")
    /\ LET op == ops[t]
       IN  IF Cardinality(mods[op.self]) # op.size THEN Goto(t, "detach")
           ELSE IF op.todo = {} THEN Goto(t, "clear")
           ELSE \E m \in op.todo :
                   ops' = [ops EXCEPT ![t].at = "detach", ![t].target = m,
                                      ![t].todo = @ \ {m}]
    /\ UNCHANGED <<py, native, holder>>

\* self._modules.clear()
ClearModules(t) ==
    /\ At(t, "close", "clear")
    /\ mods' = [mods EXCEPT ![ops[t].self] = {}]
    /\ Goto(t, "wait")
    /\ UNCHANGED <<param, closed, owned, native, holder>>

InLoop(op) == op.target # op.self

\* detach: "if not self._closed"
DetachTest(t) ==
    /\ At(t, "close", "detach")
    /\ IF ops[t].target \notin closed THEN Goto(t, "del")
       ELSE IF InLoop(ops[t])
       THEN ops' = [ops EXCEPT ![t].at = "loop", ![t].target = ops[t].self]
       ELSE Finish(t)
    /\ UNCHANGED <<py, native, holder>>

\* "del self._as_parameter_": AttributeError if another thread was faster.
DetachDel(t) ==
    /\ At(t, "close", "del")
    /\ LET op == ops[t]
       IN  IF op.target \in param THEN Goto(t, "set")
           ELSE IF InLoop(op)
           THEN ops' = [ops EXCEPT ![t].at = "detach", ![t].target = op.self]
           ELSE Finish(t)
    /\ param' = param \ {ops[t].target}
    /\ UNCHANGED <<closed, owned, mods, native, holder>>

\* self._closed = True
DetachSet(t) ==
    /\ At(t, "close", "set")
    /\ closed' = closed \cup {ops[t].target}
    /\ IF InLoop(ops[t])
       THEN ops' = [ops EXCEPT ![t].at = "loop", ![t].target = ops[t].self]
       ELSE Finish(t)
    /\ UNCHANGED <<param, owned, mods, native, holder>>

-----------------------------------------------------------------------------
\* The body of the C function.
NativeEffect(op) ==
    LET x == op.self
        freed == IF op.name = "close" /\ x \in Engines THEN {x} \cup nmods[x]
                 ELSE IF op.name = "close" THEN {x} ELSE {}
    IN  /\ live' = live \ freed
        /\ twice' = twice \cup (freed \ live)
        /\ used' = used \cup (Args(op) \ live)
        /\ nmods' =
              CASE op.name = "add" -> [nmods EXCEPT ![x] = @ \cup {op.module}]
                [] op.name = "remove" -> [nmods EXCEPT ![x] = @ \ {op.module}]
                [] op.name = "close" /\ x \in Engines -> [nmods EXCEPT ![x] = {}]
                [] OTHER -> nmods

\* _lib_fn_wrapper.__call__: takes the lock, converts the arguments and calls.
\* A wrapper without _as_parameter_ makes ctypes raise ArgumentError.
EnterLibrary(t) ==
    /\ t \in Active /\ ops[t].at = "wait"
    /\ holder = None
    /\ IF Args(ops[t]) \subseteq param
       THEN /\ NativeEffect(ops[t])
            /\ holder' = t
            /\ Goto(t, "inside")
       ELSE /\ IF ops[t].name = "close" THEN Goto(t, "detach") ELSE Finish(t)
            /\ UNCHANGED <<native, holder>>
    /\ UNCHANGED py

\* The C function returns and the lock is released.
LeaveLibrary(t) ==
    /\ t \in Active /\ ops[t].at = "inside"
    /\ holder' = None
    /\ CASE ops[t].name = "call" -> Finish(t)
         [] ops[t].name = "close" -> Goto(t, "detach")
         [] ops[t].name = "add" -> Goto(t, "own")
         [] ops[t].name = "remove" -> Goto(t, "remove")
    /\ UNCHANGED <<py, native>>

\* Mutant: add_module without that line.
AddOwnForgotten(t) ==
    /\ At(t, "add", "own")
    /\ Goto(t, "add")
    /\ UNCHANGED <<py, native, holder>>

\* add_module: "module._owned = True"
AddOwn(t) ==
    /\ At(t, "add", "own")
    /\ owned' = owned \cup {ops[t].module}
    /\ Goto(t, "add")
    /\ UNCHANGED <<param, closed, mods, native, holder>>

\* self._modules.add(module)
AddModule(t) ==
    /\ At(t, "add", "add")
    /\ mods' = [mods EXCEPT ![ops[t].self] = @ \cup {ops[t].module}]
    /\ Finish(t)
    /\ UNCHANGED <<param, closed, owned, native, holder>>

\* remove_module: "self._modules.remove(module)", KeyError if it is not there
RemoveModule(t) ==
    /\ At(t, "remove", "remove")
    /\ LET e == ops[t].self
       IN  IF ops[t].module \in mods[e]
           THEN /\ mods' = [mods EXCEPT ![e] = @ \ {ops[t].module}]
                /\ Goto(t, "disown")
           ELSE UNCHANGED mods /\ Finish(t)
    /\ UNCHANGED <<param, closed, owned, native, holder>>

\* Mutant: remove_module without that line.
RemoveDisownForgotten(t) ==
    /\ At(t, "remove", "disown")
    /\ Finish(t)
    /\ UNCHANGED <<py, native, holder>>

\* module._owned = False
RemoveDisown(t) ==
    /\ At(t, "remove", "disown")
    /\ owned' = owned \ {ops[t].module}
    /\ Finish(t)
    /\ UNCHANGED <<param, closed, mods, native, holder>>

Step(t) ==
    \/ CloseTest(t) \/ LoopStep(t) \/ ClearModules(t)
    \/ DetachTest(t) \/ DetachDel(t) \/ DetachSet(t)
    \/ EnterLibrary(t) \/ LeaveLibrary(t)
    \/ AddOwn(t) \/ AddModule(t)
    \/ RemoveModule(t) \/ RemoveDisown(t)

Next ==
    \E t \in Threads :
        \/ Step(t)
        \/ \E x \in Objects : StartCall(t, x) \/ StartClose(t, x)
        \/ \E e \in Engines, m \in Modules :
              StartAdd(t, e, m) \/ StartRemove(t, e, m)

Spec == Init /\ [][Next]_vars

-----------------------------------------------------------------------------
(* Properties *)

TypeOK ==
    /\ param \subseteq Objects
    /\ closed \subseteq Objects \ param
    /\ owned \subseteq Modules
    /\ mods \in [Engines -> SUBSET Modules]
    /\ live \subseteq Objects
    /\ nmods \in [Engines -> SUBSET Modules]
    /\ holder \in Threads \cup {None}
    /\ ops \in [Threads -> Operation \cup {None}]
    /\ used \subseteq Objects
    /\ twice \subseteq Objects

\* No library call is given the pointer of a freed object, whatever the threads
\* do with the modules of an engine that one of them closes.
NoUseAfterFree == used = {}

\* No native object is freed twice.
NoDoubleFree == twice = {}

\* When all threads are idle each native object has an owner that will free it:
\* its wrapper, or the engine that has it.
NothingLost ==
    Active = {} =>
        \A x \in live : \/ x \in param \ owned
                        \/ \E e \in Engines \cap live : x \in nmods[e]
=============================================================================
