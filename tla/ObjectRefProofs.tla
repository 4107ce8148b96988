--------------------------- MODULE ObjectRefProofs --------------------------
(***************************************************************************)
(* Proofs about ObjectRef, for any threads, engines and modules: whatever  *)
(* the interleaving of calls, closes, and hand-overs of modules, no freed  *)
(* object is used or freed again, and none is left without an owner.       *)
(***************************************************************************)
EXTENDS ObjectRef, FiniteSetTheorems, TLAPS

-----------------------------------------------------------------------------
(* The inductive invariant *)

\* The operation of thread t is of the given kind, and at one of the steps.
Is(t, name, steps) == t \in Active /\ ops[t].name = name /\ ops[t].at \in steps

\* Which steps each operation has, and on what.
OpsWellFormedFor(t) ==
    LET op == ops[t]
    IN  /\ op.name = "call" =>
              op.module = None /\ op.at \in {"wait", "inside"}
        /\ op.name = "add" =>
              /\ op.self \in Engines /\ op.module \in Modules
              /\ op.at \in {"wait", "inside", "own", "add"}
        /\ op.name = "remove" =>
              /\ op.self \in Engines /\ op.module \in Modules
              /\ op.at \in {"wait", "inside", "remove", "disown"}
        /\ op.name = "close" =>
              /\ op.module = None
              /\ op.at \in {"check", "loop", "clear", "wait", "inside",
                            "detach", "del", "set"}
              /\ op.at \in {"loop", "clear"} => op.self \in Engines
              /\ op.target # op.self =>
                    /\ op.self \in Engines
                    /\ op.at \in {"detach", "del", "set"}
OpsWellFormed == \A t \in Active : OpsWellFormedFor(t)

\* MayStart goes on holding for the operations in progress.
Separate ==
    \A t, u \in Active :
        t # u => /\ Changed(ops[t]) \cap Changed(ops[u]) = {}
                 /\ Closes(ops[t]) \cap Args(ops[u]) = {}

\* Engine x is being closed, and has not cleared its _modules.
InDispose(op) ==
    op.name = "close" /\ (op.at \in {"loop", "clear"} \/ op.target # op.self)

\* ExecutionEngine._dispose has detached the modules that it has passed.
LoopDetachesFor(t) ==
    LET op == ops[t]  x == op.self
    IN  InDispose(op) =>
            /\ x \in live
            /\ op.size = Cardinality(mods[x])
            /\ nmods[x] = mods[x]
            /\ op.todo \subseteq mods[x]
            /\ op.at = "clear" => op.todo = {}
            /\ op.target # x => op.target \in mods[x] \ op.todo
            /\ \A m \in mods[x] \ op.todo :
                  \/ m \notin param
                  \/ m = op.target /\ op.at \in {"detach", "del"}
LoopDetaches == \A t \in Active : LoopDetachesFor(t)

\* What the close of x knows of x at each later step.
CloseProgressFor(t) ==
    LET op == ops[t]  x == op.self
    IN  op.name = "close" =>
            /\ op.at = "del" => op.target \in param
            /\ op.at = "set" => op.target \notin param
            /\ op.at = "wait" =>
                  /\ x \in live \cap param
                  /\ x \notin owned
                  /\ x \in Engines => mods[x] = {} /\ nmods[x] \cap param = {}
                  /\ \A e \in Engines : x \notin nmods[e]
            /\ op.at = "inside" => x \notin live
            /\ op.at \in {"detach", "del", "set"} /\ op.target = x =>
                  x \notin live \/ x \in owned \/ x \notin param
CloseProgress == \A t \in Active : CloseProgressFor(t)

\* What add_module(e, m) knows at each step.
AddProgressFor(t) ==
    LET op == ops[t]  e == op.self  m == op.module
    IN  op.name = "add" =>
            /\ op.at = "wait" =>
                  /\ m \notin owned \cup mods[e]
                  /\ \A f \in Engines : m \notin nmods[f]
            /\ op.at \in {"inside", "own", "add"} =>
                  nmods[e] = mods[e] \cup {m} /\ m \in nmods[e]
            /\ op.at = "add" => m \in owned
AddProgress == \A t \in Active : AddProgressFor(t)

\* What remove_module(e, m) knows at each step.
RemoveProgressFor(t) ==
    LET op == ops[t]  e == op.self  m == op.module
    IN  op.name = "remove" =>
            /\ op.at \in {"wait", "inside", "remove"} => m \in mods[e]
            /\ op.at \in {"inside", "remove"} => nmods[e] = mods[e] \ {m}
            /\ op.at \in {"inside", "remove", "disown"} =>
                  /\ m \in live \cap param
                  /\ \A f \in Engines : m \notin nmods[f]
RemoveProgress == \A t \in Active : RemoveProgressFor(t)

\* Between the native call and the Python line that follows it (and between
\* self._modules.clear() and the native call), the two sides differ.
Between(t, e) ==
    /\ t \in Active /\ ops[t].self = e
    /\ \/ Is(t, "add", {"inside", "own", "add"})
       \/ Is(t, "remove", {"inside", "remove"})
       \/ Is(t, "close", {"wait"})

SidesAgree ==
    \A e \in Engines : nmods[e] # mods[e] => \E t \in Threads : Between(t, e)

\* What an engine owns exists, and its wrapper will not free it.
EnginesOwn ==
    /\ \A e \in Engines : \A m \in nmods[e] :
          /\ e \in live /\ m \in live
          /\ \/ m \in owned
             \/ \E t \in Threads : /\ Is(t, "add", {"inside", "own"})
                                   /\ ops[t].self = e /\ ops[t].module = m
    /\ \A e, f \in Engines : e # f => nmods[e] \cap nmods[f] = {}

\* A wrapper that can be passed to the library stands for an object that
\* exists, unless a thread is closing it.
ParamsStand ==
    \A x \in param :
        \/ x \in live
        \/ \E t \in Threads : /\ Is(t, "close", {"inside", "detach", "del"})
                              /\ ops[t].self = x

\* Every native object has an owner, or an operation that is about to name one.
LiveKept ==
    /\ live \cap Engines \subseteq param
    /\ \A m \in live \cap Modules :
          \/ \E e \in Engines : m \in nmods[e]
          \/ m \in param \ owned
          \/ /\ m \in param
             /\ \E t \in Threads : /\ Is(t, "remove", {"inside", "remove", "disown"})
                                   /\ ops[t].module = m

\* A wrapper is open or closed, or a detach of it is between its two lines.
OpenOrClosed ==
    \A x \in Objects \ (param \cup closed) :
        \E t \in Threads : Is(t, "close", {"set"}) /\ ops[t].target = x

Inv ==
    /\ TypeOK /\ OpsWellFormed /\ Separate
    /\ LoopDetaches /\ CloseProgress /\ AddProgress /\ RemoveProgress
    /\ SidesAgree /\ EnginesOwn /\ ParamsStand /\ LiveKept /\ OpenOrClosed
    /\ NoUseAfterFree /\ NoDoubleFree

-----------------------------------------------------------------------------
(* Operations in progress *)

\* Nothing happens to the operations of the threads other than t.
Others(t) == \A u \in Threads :
    u # t => ops'[u] = ops[u] /\ (u \in Active' <=> u \in Active)

\* Thread t goes on to another step, of the same operation.
Moves(t, step) ==
    /\ t \in Active' /\ ops'[t].at = step
    /\ ops'[t].name = ops[t].name /\ ops'[t].self = ops[t].self
    /\ ops'[t].module = ops[t].module
    /\ Others(t)

\* Goto changes the step only.
LEMMA GotoMoves ==
    ASSUME TypeOK, NEW t \in Active, NEW step \in Steps, Goto(t, step)
    PROVE  /\ Moves(t, step)
           /\ ops'[t].target = ops[t].target /\ ops'[t].todo = ops[t].todo
           /\ ops'[t].size = ops[t].size
           /\ ops' \in [Threads -> Operation \cup {None}]
<1>1. t \in Threads /\ ops[t] \in Operation
  BY DEF Active, TypeOK
<1>. DEFINE new == [ops[t] EXCEPT !.at = step]
<1>2. new \in Operation /\ new # None
  BY <1>1, NoneAssumption DEF Operation
<1>3. ops' = [ops EXCEPT ![t] = new]
  BY DEF Goto
<1>4. /\ new.at = step /\ new.name = ops[t].name /\ new.self = ops[t].self
      /\ new.module = ops[t].module /\ new.target = ops[t].target
      /\ new.todo = ops[t].todo /\ new.size = ops[t].size
  BY <1>1 DEF Operation
<1>. HIDE DEF new
<1>. QED
  BY <1>2, <1>3, <1>4 DEF Moves, Others, Active, TypeOK

\* A finished operation is no longer there.
LEMMA FinishEnds ==
    ASSUME TypeOK, NEW t \in Active, Finish(t)
    PROVE  /\ Active' = Active \ {t} /\ t \notin Active' /\ Others(t)
           /\ ops' \in [Threads -> Operation \cup {None}]
BY DEF Finish, Others, Active, TypeOK

\* The fields of a new operation.
LEMMA StartBegins ==
    ASSUME TypeOK, NEW t \in Threads, NEW name \in {"call", "close", "add", "remove"},
           NEW x \in Objects, NEW m \in Modules \cup {None}, NEW at \in Steps,
           Start(t, Op(name, x, m, at))
    PROVE  /\ t \in Active' /\ t \notin Active /\ Others(t)
           /\ ops'[t].name = name /\ ops'[t].self = x /\ ops'[t].module = m
           /\ ops'[t].at = at /\ ops'[t].target = x /\ ops'[t].todo = {}
           /\ ops' \in [Threads -> Operation \cup {None}]
           /\ ops'[t] = Op(name, x, m, at)
<1>. DEFINE new == Op(name, x, m, at)
<1>1. 0 \in 0 .. Cardinality(Modules)
  BY FS_CardinalityType, ObjectRefAssumption
<1>2. new \in Operation /\ new # None
  BY <1>1, NoneAssumption DEF Operation, Op
<1>3. ops' = [ops EXCEPT ![t] = new] /\ t \notin Active
  BY DEF Start
<1>4. /\ new.at = at /\ new.name = name /\ new.self = x /\ new.module = m
      /\ new.target = x /\ new.todo = {}
  BY DEF Op
<1>. HIDE DEF new
<1>5. /\ t \in Active' /\ t \notin Active /\ Others(t) /\ ops'[t] = new
      /\ ops' \in [Threads -> Operation \cup {None}]
  BY <1>2, <1>3 DEF Others, Active, TypeOK
<1>. QED
  BY <1>4, <1>5 DEF new

\* The types of an operation in progress.
LEMMA OpTypes ==
    ASSUME TypeOK, NEW t \in Active
    PROVE  /\ t \in Threads /\ ops[t] \in Operation /\ ops[t] # None
           /\ ops[t].name \in {"call", "close", "add", "remove"}
           /\ ops[t].self \in Engines \cup Modules
           /\ ops[t].target \in Engines \cup Modules
           /\ ops[t].module \in Modules \cup {None}
           /\ ops[t].at \in Steps /\ ops[t].todo \subseteq Modules
BY DEF Active, TypeOK, Operation, Objects

\* What an operation changes is at least what it works on.
LEMMA ChangedIs ==
    ASSUME TypeOK, OpsWellFormed, LoopDetaches, NEW t \in Active
    PROVE  /\ ops[t].name # "call" =>
                 /\ ops[t].self \in Changed(ops[t])
                 /\ ops[t].name = "close" => ops[t].target \in Changed(ops[t])
                 /\ ops[t].name # "close" => ops[t].module \in Changed(ops[t])
           /\ ops[t].name = "close" /\ ops[t].self \in Engines =>
                 mods[ops[t].self] \subseteq Changed(ops[t])
           /\ ops[t].self \in Args(ops[t])
           /\ ops[t].module # None => ops[t].module \in Args(ops[t])
<1>1. ops[t].self \in Args(ops[t])
  BY DEF Args
<1>2. ops[t].module # None => ops[t].module \in Args(ops[t])
  BY DEF Args
<1>3. CASE ops[t].name = "call"
  BY <1>1, <1>2, <1>3
<1>4. CASE ops[t].name = "close" /\ ops[t].self \in Engines
  <2>1. Changed(ops[t]) = {ops[t].self} \cup mods[ops[t].self]
    BY <1>4 DEF Changed
  <2>2. ops[t].target # ops[t].self => ops[t].target \in mods[ops[t].self]
    BY <1>4 DEF LoopDetaches, LoopDetachesFor, InDispose
  <2>. QED
    BY <1>1, <1>2, <1>4, <2>1, <2>2
<1>5. CASE ops[t].name = "close" /\ ops[t].self \notin Engines
  <2>1. Changed(ops[t]) = Args(ops[t])
    BY <1>5 DEF Changed
  <2>2. ops[t].target = ops[t].self
    BY <1>5 DEF OpsWellFormed, OpsWellFormedFor
  <2>. QED
    BY <1>1, <1>2, <1>5, <2>1, <2>2
<1>6. CASE ops[t].name \in {"add", "remove"}
  <2>1. Changed(ops[t]) = Args(ops[t])
    BY <1>6 DEF Changed
  <2>2. ops[t].module \in Args(ops[t])
    BY <1>6, <1>2, ObjectRefAssumption DEF OpsWellFormed, OpsWellFormedFor
  <2>. QED
    BY <1>1, <1>6, <2>1, <2>2
<1>. QED
  BY <1>3, <1>4, <1>5, <1>6, OpTypes

\* Two operations in progress work on different objects.
ApartFrom(t, u) ==
    /\ ops[t].name # "call" /\ ops[u].name # "call" =>
          /\ ops[t].self # ops[u].self
          /\ ops[t].name = "close" =>
                /\ ops[t].target # ops[u].self
                /\ ops[u].name = "close" => ops[t].target # ops[u].target
                /\ ops[u].name # "close" => ops[t].target # ops[u].module
          /\ ops[t].name # "close" =>
                /\ ops[t].module # ops[u].self
                /\ ops[u].name = "close" => ops[t].module # ops[u].target
                /\ ops[u].name # "close" => ops[t].module # ops[u].module
    /\ ops[t].name = "close" =>
          /\ ops[t].self # ops[u].self
          /\ ops[u].module # None => ops[t].self # ops[u].module
    /\ ops[t].name = "close" /\ ops[t].self \in Engines /\ ops[u].name # "call" =>
          /\ ops[u].self \notin mods[ops[t].self]
          /\ ops[u].name = "close" => ops[u].target \notin mods[ops[t].self]
          /\ ops[u].name # "close" => ops[u].module \notin mods[ops[t].self]

\* Of two threads inside an operation neither touches what the other holds.
LEMMA Apart ==
    ASSUME TypeOK, OpsWellFormed, LoopDetaches, Separate, NEW t \in Active
    PROVE  \A u \in Active : u # t => ApartFrom(t, u) /\ ApartFrom(u, t)
<1>. SUFFICES ASSUME NEW v \in Active, NEW u \in Active, u # v
              PROVE  ApartFrom(v, u)
  OBVIOUS
<1>1. /\ Changed(ops[v]) \cap Changed(ops[u]) = {}
      /\ Closes(ops[v]) \cap Args(ops[u]) = {}
  BY DEF Separate
<1>2. ops[v].name = "close" => ops[v].self \in Closes(ops[v])
  BY DEF Closes
<1>. QED
  BY <1>1, <1>2, ChangedIs DEF ApartFrom

\* Operations stay apart while they go on, if no engine that is being closed
\* gets another module.
LEMMA SeparateStays ==
    ASSUME TypeOK, Separate, Active' \subseteq Active,
           \A u \in Active' :
              /\ ops'[u].name = ops[u].name /\ ops'[u].self = ops[u].self
              /\ ops'[u].module = ops[u].module
              /\ ops[u].name = "close" /\ ops[u].self \in Engines =>
                    mods'[ops[u].self] \subseteq mods[ops[u].self]
    PROVE  Separate'
<1>1. ASSUME NEW u \in Active'
      PROVE  /\ Changed(ops[u])' \subseteq Changed(ops[u])
             /\ Args(ops[u])' = Args(ops[u])
             /\ Closes(ops[u])' = Closes(ops[u])
  BY DEF Changed, Args, Closes
<1>. QED
  BY <1>1 DEF Separate

\* An operation that may start is apart from those in progress.
LEMMA SeparateStarts ==
    ASSUME Separate, NEW t \in Threads, NEW op, ops'[t] = op, t \notin Active,
           Others(t), MayStart(op), mods' = mods
    PROVE  Separate'
<1>1. ASSUME NEW u \in Active
      PROVE  /\ Changed(ops[u])' = Changed(ops[u])
             /\ Args(ops[u])' = Args(ops[u])
             /\ Closes(ops[u])' = Closes(ops[u])
  <2>1. ops'[u] = ops[u]
    BY <1>1 DEF Others, Active
  <2>. QED
    BY <2>1 DEF Changed
<1>2. /\ Changed(ops[t])' = Changed(op)
      /\ Args(ops[t])' = Args(op)
      /\ Closes(ops[t])' = Closes(op)
  BY DEF Changed, Args, Closes
<1>3. ASSUME NEW u \in Active', NEW v \in Active', u # v
      PROVE  /\ Changed(ops[u])' \cap Changed(ops[v])' = {}
             /\ Closes(ops[u])' \cap Args(ops[v])' = {}
  <2>1. CASE u = t
    <3>1. v \in Active
      BY <1>3, <2>1 DEF Others, Active
    <3>. QED
      BY <1>1, <1>2, <2>1, <3>1 DEF MayStart
  <2>2. CASE v = t
    <3>1. u \in Active
      BY <1>3, <2>2 DEF Others, Active
    <3>. QED
      BY <1>1, <1>2, <2>2, <3>1 DEF MayStart
  <2>3. CASE u # t /\ v # t
    <3>1. u \in Active /\ v \in Active
      BY <2>3 DEF Others, Active
    <3>. QED
      BY <1>1, <1>3, <3>1 DEF Separate
  <2>. QED
    BY <2>1, <2>2, <2>3
<1>. QED
  BY <1>3 DEF Separate

\* The close of an engine begins its loop.
LEMMA DisposeBegins ==
    ASSUME TypeOK, NEW t \in Active, ops[t].name = "close", ops[t].self \in Engines,
           ops' = [ops EXCEPT ![t].at = "loop", ![t].todo = mods[ops[t].self],
                              ![t].size = Cardinality(mods[ops[t].self])]
    PROVE  /\ t \in Active' /\ Others(t) /\ ops'[t].at = "loop"
           /\ ops'[t].name = "close" /\ ops'[t].self = ops[t].self
           /\ ops'[t].module = ops[t].module /\ ops'[t].target = ops[t].target
           /\ ops'[t].todo = mods[ops[t].self]
           /\ ops'[t].size = Cardinality(mods[ops[t].self])
           /\ ops' \in [Threads -> Operation \cup {None}]
<1>1. t \in Threads /\ ops[t] \in Operation
  BY DEF Active, TypeOK
<1>. DEFINE x == ops[t].self
            new == [ops[t] EXCEPT !.at = "loop", !.todo = mods[x],
                                  !.size = Cardinality(mods[x])]
<1>2. mods[x] \in SUBSET Modules
  BY DEF TypeOK
<1>3. Cardinality(mods[x]) \in 0 .. Cardinality(Modules)
  BY <1>2, FS_Subset, FS_CardinalityType, ObjectRefAssumption
<1>4. ops' = [ops EXCEPT ![t] = new]
  BY <1>1 DEF TypeOK
<1>. HIDE DEF x
<1>5. new \in Operation /\ new # None
  BY <1>1, <1>2, <1>3, NoneAssumption DEF Operation, Steps
<1>6. /\ new.at = "loop" /\ new.name = ops[t].name /\ new.self = ops[t].self
      /\ new.module = ops[t].module /\ new.target = ops[t].target
      /\ new.todo = mods[x] /\ new.size = Cardinality(mods[x])
  BY <1>1 DEF Operation
<1>. HIDE DEF new
<1>. QED
  BY <1>1, <1>4, <1>5, <1>6 DEF Others, Active, TypeOK, x

\* The loop of _dispose comes to a module.
LEMMA LoopPicks ==
    ASSUME TypeOK, NEW t \in Active, ops[t].name = "close", LoopStep(t),
           ops[t].todo # {}, Cardinality(mods[ops[t].self]) = ops[t].size
    PROVE  \E m \in ops[t].todo :
              /\ t \in Active' /\ Others(t) /\ ops'[t].at = "detach"
              /\ ops'[t].name = "close" /\ ops'[t].self = ops[t].self
              /\ ops'[t].module = ops[t].module /\ ops'[t].target = m
              /\ ops'[t].todo = ops[t].todo \ {m} /\ ops'[t].size = ops[t].size
              /\ ops' \in [Threads -> Operation \cup {None}]
<1>1. t \in Threads /\ ops[t] \in Operation
  BY DEF Active, TypeOK
<1>2. PICK m \in ops[t].todo :
         ops' = [ops EXCEPT ![t].at = "detach", ![t].target = m, ![t].todo = @ \ {m}]
  BY DEF LoopStep
<1>. DEFINE new == [ops[t] EXCEPT !.at = "detach", !.target = m, !.todo = @ \ {m}]
<1>3. m \in Objects
  BY <1>1 DEF Operation, Objects
<1>4. new \in Operation /\ new # None
  BY <1>1, <1>3, NoneAssumption DEF Operation, Steps
<1>5. ops' = [ops EXCEPT ![t] = new]
  BY <1>1, <1>2 DEF TypeOK
<1>6. /\ new.at = "detach" /\ new.name = ops[t].name /\ new.self = ops[t].self
      /\ new.module = ops[t].module /\ new.target = m
      /\ new.todo = ops[t].todo \ {m} /\ new.size = ops[t].size
  BY <1>1 DEF Operation
<1>. HIDE DEF new
<1>. QED
  BY <1>4, <1>5, <1>6 DEF Others, Active, TypeOK

\* A detach in the loop of _dispose returns to the loop.
LEMMA LoopReturns ==
    ASSUME TypeOK, NEW t \in Active, ops[t].name = "close", NEW step \in Steps,
           ops' = [ops EXCEPT ![t].at = step, ![t].target = ops[t].self]
    PROVE  /\ t \in Active' /\ Others(t) /\ ops'[t].at = step
           /\ ops'[t].name = "close" /\ ops'[t].self = ops[t].self
           /\ ops'[t].module = ops[t].module /\ ops'[t].target = ops[t].self
           /\ ops'[t].todo = ops[t].todo /\ ops'[t].size = ops[t].size
           /\ ops' \in [Threads -> Operation \cup {None}]
<1>1. t \in Threads /\ ops[t] \in Operation
  BY DEF Active, TypeOK
<1>. DEFINE new == [ops[t] EXCEPT !.at = step, !.target = ops[t].self]
<1>2. new \in Operation /\ new # None
  BY <1>1, NoneAssumption DEF Operation
<1>3. ops' = [ops EXCEPT ![t] = new]
  BY <1>1 DEF TypeOK
<1>4. /\ new.at = step /\ new.name = ops[t].name /\ new.self = ops[t].self
      /\ new.module = ops[t].module /\ new.target = ops[t].self
      /\ new.todo = ops[t].todo /\ new.size = ops[t].size
  BY <1>1 DEF Operation
<1>. HIDE DEF new
<1>. QED
  BY <1>1, <1>2, <1>3, <1>4 DEF Others, Active, TypeOK

\* When thread t takes a step, the others stay where they are.
LEMMA ActiveNext ==
    ASSUME NEW t \in Threads, Others(t), NEW u \in Active', u # t
    PROVE  u \in Active
BY DEF Others, Active

\* Operations stay apart when thread t takes a step and adds no module.
LEMMA ThreadMoves ==
    ASSUME TypeOK, Separate, NEW t \in Threads, Others(t),
           t \in Active' =>
              /\ t \in Active /\ ops'[t].name = ops[t].name
              /\ ops'[t].self = ops[t].self /\ ops'[t].module = ops[t].module,
           \A e \in Engines : mods'[e] \subseteq mods[e]
    PROVE  Separate'
<1>1. Active' \subseteq Active
  BY DEF Others, Active
<1>2. ASSUME NEW u \in Active'
      PROVE  /\ ops'[u].name = ops[u].name /\ ops'[u].self = ops[u].self
             /\ ops'[u].module = ops[u].module
  <2>1. CASE u = t
    BY <1>2, <2>1
  <2>2. CASE u # t
    BY DEF Others, Active
  <2>. QED
    BY <2>1, <2>2
<1>. QED
  BY <1>1, <1>2, SeparateStays

-----------------------------------------------------------------------------
(* The steps *)

\* A call begins.
LEMMA StartCallKeeps ==
    ASSUME Inv, NEW t \in Threads, NEW x \in Objects, StartCall(t, x)
    PROVE  Inv'
<1>. USE ObjectRefAssumption DEF Inv, StartCall, Start, py, native
<1>1. /\ t \in Active' /\ t \notin Active /\ Others(t)
      /\ ops'[t].name = "call" /\ ops'[t].self = x /\ ops'[t].module = None
      /\ ops'[t].at = "wait" /\ ops'[t].target = x /\ ops'[t].todo = {}
      /\ ops' \in [Threads -> Operation \cup {None}]
      /\ ops'[t] = Op("call", x, None, "wait")
  BY StartBegins DEF Steps, Objects
<1>2. TypeOK'
  BY <1>1 DEF TypeOK
<1>3. OpsWellFormed'
  BY <1>1, ActiveNext DEF OpsWellFormed, OpsWellFormedFor
<1>4. Separate'
  BY <1>1, SeparateStarts
<1>5. LoopDetaches'
  BY <1>1, ActiveNext DEF LoopDetaches, LoopDetachesFor, InDispose
<1>6. CloseProgress'
  BY <1>1, ActiveNext DEF CloseProgress, CloseProgressFor
<1>7. AddProgress'
  BY <1>1, ActiveNext DEF AddProgress, AddProgressFor
<1>8. RemoveProgress'
  BY <1>1, ActiveNext DEF RemoveProgress, RemoveProgressFor
<1>9. SidesAgree'
  BY <1>1 DEF Others, SidesAgree, Between, Is
<1>10. EnginesOwn'
  BY <1>1 DEF Others, EnginesOwn, Is
<1>11. ParamsStand'
  BY <1>1 DEF Others, ParamsStand, Is
<1>12. LiveKept'
  BY <1>1 DEF Others, LiveKept, Is
<1>13. OpenOrClosed'
  BY <1>1 DEF Others, OpenOrClosed, Is
<1>14. NoUseAfterFree'
  BY DEF NoUseAfterFree
<1>15. NoDoubleFree'
  BY DEF NoDoubleFree
<1>. QED
  BY <1>2, <1>3, <1>4, <1>5, <1>6, <1>7, <1>8, <1>9, <1>10, <1>11, <1>12,
     <1>13, <1>14, <1>15

\* A close begins: explicit, or of a collected wrapper.
LEMMA StartCloseKeeps ==
    ASSUME Inv, NEW t \in Threads, NEW x \in Objects, StartClose(t, x)
    PROVE  Inv'
<1>. USE ObjectRefAssumption DEF Inv, StartClose, Start, py, native
<1>1. /\ t \in Active' /\ t \notin Active /\ Others(t)
      /\ ops'[t].name = "close" /\ ops'[t].self = x /\ ops'[t].module = None
      /\ ops'[t].at = "check" /\ ops'[t].target = x /\ ops'[t].todo = {}
      /\ ops' \in [Threads -> Operation \cup {None}]
      /\ ops'[t] = Op("close", x, None, "check")
  BY StartBegins DEF Steps, Objects
<1>2. TypeOK'
  BY <1>1 DEF TypeOK
<1>3. OpsWellFormed'
  BY <1>1, ActiveNext DEF OpsWellFormed, OpsWellFormedFor
<1>4. Separate'
  BY <1>1, SeparateStarts
<1>5. LoopDetaches'
  BY <1>1, ActiveNext DEF LoopDetaches, LoopDetachesFor, InDispose
<1>6. CloseProgress'
  BY <1>1, ActiveNext DEF CloseProgress, CloseProgressFor
<1>7. AddProgress'
  BY <1>1, OpTypes, ActiveNext DEF AddProgress, AddProgressFor
<1>8. RemoveProgress'
  BY <1>1, ActiveNext DEF RemoveProgress, RemoveProgressFor
<1>9. SidesAgree'
  BY <1>1 DEF Others, SidesAgree, Between, Is
<1>10. EnginesOwn'
  BY <1>1 DEF Others, EnginesOwn, Is
<1>11. ParamsStand'
  BY <1>1 DEF Others, ParamsStand, Is
<1>12. LiveKept'
  BY <1>1 DEF Others, LiveKept, Is
<1>13. OpenOrClosed'
  BY <1>1 DEF Others, OpenOrClosed, Is
<1>14. NoUseAfterFree'
  BY DEF NoUseAfterFree
<1>15. NoDoubleFree'
  BY DEF NoDoubleFree
<1>. QED
  BY <1>2, <1>3, <1>4, <1>5, <1>6, <1>7, <1>8, <1>9, <1>10, <1>11, <1>12,
     <1>13, <1>14, <1>15

\* add_module begins: neither an engine nor another thread has the module.
LEMMA StartAddKeeps ==
    ASSUME Inv, NEW t \in Threads, NEW e \in Engines, NEW m \in Modules, StartAdd(t, e, m)
    PROVE  Inv'
<1>. USE ObjectRefAssumption DEF Inv, StartAdd, Start, py, native
<1>1. /\ t \in Active' /\ t \notin Active /\ Others(t)
      /\ ops'[t].name = "add" /\ ops'[t].self = e /\ ops'[t].module = m
      /\ ops'[t].at = "wait" /\ ops'[t].target = e /\ ops'[t].todo = {}
      /\ ops' \in [Threads -> Operation \cup {None}]
      /\ ops'[t] = Op("add", e, m, "wait")
  BY StartBegins DEF Steps, Objects
<1>2. \A u \in Active : ops[u].name = "add" => ops[u].module # m
  <2>1. ASSUME NEW u \in Active, ops[u].name = "add", ops[u].module = m
        PROVE  FALSE
    <3>1. m \in Changed(ops[u]) /\ m \in Changed(Op("add", e, m, "wait"))
      BY <2>1 DEF Changed, Args, Op
    <3>. QED
      BY <3>1 DEF MayStart
  <2>. QED
    BY <2>1
<1>3. \A f \in Engines : m \notin nmods[f]
  BY <1>2 DEF EnginesOwn, Is
<1>4. TypeOK'
  BY <1>1 DEF TypeOK
<1>5. OpsWellFormed'
  BY <1>1, ActiveNext DEF OpsWellFormed, OpsWellFormedFor
<1>6. Separate'
  BY <1>1, SeparateStarts
<1>7. LoopDetaches'
  BY <1>1, ActiveNext DEF LoopDetaches, LoopDetachesFor, InDispose
<1>8. CloseProgress'
  BY <1>1, ActiveNext DEF CloseProgress, CloseProgressFor
<1>9. AddProgress'
  BY <1>1, <1>3, ActiveNext DEF AddProgress, AddProgressFor
<1>10. RemoveProgress'
  BY <1>1, ActiveNext DEF RemoveProgress, RemoveProgressFor
<1>11. SidesAgree'
  BY <1>1 DEF Others, SidesAgree, Between, Is
<1>12. EnginesOwn'
  BY <1>1 DEF Others, EnginesOwn, Is
<1>13. ParamsStand'
  BY <1>1 DEF Others, ParamsStand, Is
<1>14. LiveKept'
  BY <1>1 DEF Others, LiveKept, Is
<1>15. OpenOrClosed'
  BY <1>1 DEF Others, OpenOrClosed, Is
<1>16. NoUseAfterFree'
  BY DEF NoUseAfterFree
<1>17. NoDoubleFree'
  BY DEF NoDoubleFree
<1>. QED
  BY <1>4, <1>5, <1>6, <1>7, <1>8, <1>9, <1>10, <1>11, <1>12, <1>13, <1>14,
     <1>15, <1>16, <1>17

\* remove_module begins.
LEMMA StartRemoveKeeps ==
    ASSUME Inv, NEW t \in Threads, NEW e \in Engines, NEW m \in Modules, StartRemove(t, e, m)
    PROVE  Inv'
<1>. USE ObjectRefAssumption DEF Inv, StartRemove, Start, py, native
<1>1. /\ t \in Active' /\ t \notin Active /\ Others(t)
      /\ ops'[t].name = "remove" /\ ops'[t].self = e /\ ops'[t].module = m
      /\ ops'[t].at = "wait" /\ ops'[t].target = e /\ ops'[t].todo = {}
      /\ ops' \in [Threads -> Operation \cup {None}]
      /\ ops'[t] = Op("remove", e, m, "wait")
  BY StartBegins DEF Steps, Objects
<1>2. TypeOK'
  BY <1>1 DEF TypeOK
<1>3. OpsWellFormed'
  BY <1>1, ActiveNext DEF OpsWellFormed, OpsWellFormedFor
<1>4. Separate'
  BY <1>1, SeparateStarts
<1>5. LoopDetaches'
  BY <1>1, ActiveNext DEF LoopDetaches, LoopDetachesFor, InDispose
<1>6. CloseProgress'
  BY <1>1, ActiveNext DEF CloseProgress, CloseProgressFor
<1>7. AddProgress'
  BY <1>1, ActiveNext DEF AddProgress, AddProgressFor
<1>8. RemoveProgress'
  BY <1>1, ActiveNext DEF RemoveProgress, RemoveProgressFor
<1>9. SidesAgree'
  BY <1>1 DEF Others, SidesAgree, Between, Is
<1>10. EnginesOwn'
  BY <1>1 DEF Others, EnginesOwn, Is
<1>11. ParamsStand'
  BY <1>1 DEF Others, ParamsStand, Is
<1>12. LiveKept'
  BY <1>1 DEF Others, LiveKept, Is
<1>13. OpenOrClosed'
  BY <1>1 DEF Others, OpenOrClosed, Is
<1>14. NoUseAfterFree'
  BY DEF NoUseAfterFree
<1>15. NoDoubleFree'
  BY DEF NoDoubleFree
<1>. QED
  BY <1>2, <1>3, <1>4, <1>5, <1>6, <1>7, <1>8, <1>9, <1>10, <1>11, <1>12,
     <1>13, <1>14, <1>15

\* module._owned = True: the engine has the module already.
LEMMA AddOwnKeeps ==
    ASSUME Inv, NEW t \in Threads, AddOwn(t)
    PROVE  Inv'
<1>. USE ObjectRefAssumption DEF Inv, AddOwn, At, native
<1>1. t \in Active /\ ops[t].name = "add" /\ ops[t].at = "own"
  OBVIOUS
<1>2. /\ Moves(t, "add")
      /\ ops'[t].target = ops[t].target /\ ops'[t].todo = ops[t].todo
      /\ ops'[t].size = ops[t].size
      /\ ops' \in [Threads -> Operation \cup {None}]
  BY <1>1, GotoMoves DEF Steps
<1>3. ops[t].self \in Engines /\ ops[t].module \in Modules
      /\ ops[t].module \in nmods[ops[t].self]
  BY DEF OpsWellFormed, OpsWellFormedFor, AddProgress, AddProgressFor
<1>4. TypeOK'
  BY <1>2, <1>3 DEF TypeOK
<1>5. OpsWellFormed'
  BY <1>2, OpTypes, ActiveNext DEF Moves, Others, OpsWellFormed,
     OpsWellFormedFor
<1>6. Separate'
  BY <1>2, ThreadMoves DEF Moves
<1>7. LoopDetaches'
  BY <1>2, OpTypes, ActiveNext DEF Moves, Others, LoopDetaches, LoopDetachesFor,
     InDispose
<1>8. CloseProgress'
  BY <1>2, <1>3, OpTypes, ActiveNext DEF Moves, Others, CloseProgress,
     CloseProgressFor
<1>9. AddProgress'
  BY <1>2, <1>3, OpTypes, ActiveNext DEF Moves, Others, AddProgress,
     AddProgressFor
<1>10. RemoveProgress'
  BY <1>2, OpTypes, ActiveNext DEF Moves, Others, RemoveProgress,
     RemoveProgressFor
<1>11. SidesAgree'
  BY <1>2 DEF Moves, Others, SidesAgree, Between, Is
<1>12. EnginesOwn'
  BY <1>2 DEF Moves, Others, EnginesOwn, Is
<1>13. ParamsStand'
  BY <1>2 DEF Moves, Others, ParamsStand, Is
<1>14. LiveKept'
  BY <1>2, <1>3 DEF Moves, Others, LiveKept, Is
<1>15. OpenOrClosed'
  BY <1>2 DEF Moves, Others, OpenOrClosed, Is
<1>16. NoUseAfterFree'
  BY DEF NoUseAfterFree
<1>17. NoDoubleFree'
  BY DEF NoDoubleFree
<1>. QED
  BY <1>4, <1>5, <1>6, <1>7, <1>8, <1>9, <1>10, <1>11, <1>12, <1>13, <1>14,
     <1>15, <1>16, <1>17

\* self._modules.add(module): the two sides agree again.
LEMMA AddModuleKeeps ==
    ASSUME Inv, NEW t \in Threads, AddModule(t)
    PROVE  Inv'
<1>. USE ObjectRefAssumption DEF Inv, AddModule, At, native
<1>1. t \in Active /\ ops[t].name = "add" /\ ops[t].at = "add"
  OBVIOUS
<1>2. /\ Active' = Active \ {t} /\ t \notin Active' /\ Others(t)
      /\ ops' \in [Threads -> Operation \cup {None}]
  BY <1>1, FinishEnds
<1>3. \A u \in Active : u # t => ApartFrom(t, u) /\ ApartFrom(u, t)
  BY Apart
<1>4. /\ mods' = [mods EXCEPT ![ops[t].self] = nmods[ops[t].self]]
      /\ ops[t].self \in Engines
  BY <1>1, OpTypes DEF AddProgress, AddProgressFor, OpsWellFormed,
     OpsWellFormedFor
<1>5. TypeOK'
  BY <1>2, <1>4 DEF TypeOK
<1>6. OpsWellFormed'
  BY <1>2, OpTypes DEF Others, OpsWellFormed, OpsWellFormedFor
<1>7. Separate'
  <2>1. ASSUME NEW u \in Active'
        PROVE  u \in Active /\ u # t /\ ops'[u] = ops[u]
    BY <1>2 DEF Others, Active
  <2>2. ASSUME NEW u \in Active', ops[u].name = "close"
        PROVE  ops[u].self # ops[t].self
    BY <1>3, <2>1, <2>2 DEF ApartFrom
  <2>. QED
    BY <2>1, <2>2, SeparateStays
<1>8. LoopDetaches'
  BY <1>2, <1>3, OpTypes DEF Others, ApartFrom, LoopDetaches, LoopDetachesFor,
     InDispose
<1>9. CloseProgress'
  BY <1>2, <1>3, OpTypes DEF Others, ApartFrom, CloseProgress, CloseProgressFor
<1>10. AddProgress'
  BY <1>2, OpTypes DEF Others, AddProgress, AddProgressFor
<1>11. RemoveProgress'
  BY <1>2, <1>4, OpTypes DEF Others, RemoveProgress, RemoveProgressFor
<1>12. SidesAgree'
  <2>1. SUFFICES ASSUME NEW e \in Engines, nmods'[e] # mods'[e]
                 PROVE  \E u \in Threads : Between(u, e)'
    BY DEF SidesAgree
  <2>2. e # ops[t].self /\ nmods[e] # mods[e]
    BY <1>4, <2>1 DEF TypeOK
  <2>3. PICK u \in Threads : Between(u, e)
    BY <2>2 DEF SidesAgree
  <2>4. u # t
    BY <2>2, <2>3 DEF Between
  <2>. QED
    BY <1>2, <2>3, <2>4 DEF Between, Is, Others
<1>13. EnginesOwn'
  BY <1>2 DEF Others, EnginesOwn, Is
<1>14. ParamsStand'
  BY <1>2 DEF Others, ParamsStand, Is
<1>15. LiveKept'
  BY <1>2 DEF Others, LiveKept, Is
<1>16. OpenOrClosed'
  BY <1>2 DEF Others, OpenOrClosed, Is
<1>17. NoUseAfterFree'
  BY DEF NoUseAfterFree
<1>18. NoDoubleFree'
  BY DEF NoDoubleFree
<1>. QED
  BY <1>5, <1>6, <1>7, <1>8, <1>9, <1>10, <1>11, <1>12, <1>13, <1>14, <1>15,
     <1>16, <1>17, <1>18

\* self._modules.remove(module): the module is still there.
LEMMA RemoveModuleKeeps ==
    ASSUME Inv, NEW t \in Threads, RemoveModule(t)
    PROVE  Inv'
<1>. USE ObjectRefAssumption DEF Inv, RemoveModule, At, native
<1>1. t \in Active /\ ops[t].name = "remove" /\ ops[t].at = "remove"
  OBVIOUS
<1>2. /\ ops[t].module \in mods[ops[t].self] /\ ops[t].self \in Engines
      /\ mods' = [mods EXCEPT ![ops[t].self] = nmods[ops[t].self]]
      /\ Goto(t, "disown")
  BY <1>1 DEF RemoveProgress, RemoveProgressFor, OpsWellFormed, OpsWellFormedFor
<1>3. /\ Moves(t, "disown")
      /\ ops'[t].target = ops[t].target /\ ops'[t].todo = ops[t].todo
      /\ ops'[t].size = ops[t].size
      /\ ops' \in [Threads -> Operation \cup {None}]
  BY <1>2, GotoMoves DEF Steps
<1>4. \A u \in Active : u # t => ApartFrom(t, u) /\ ApartFrom(u, t)
  BY Apart
<1>5. TypeOK'
  BY <1>3 DEF TypeOK
<1>6. OpsWellFormed'
  BY <1>3, OpTypes, ActiveNext DEF Moves, Others, OpsWellFormed,
     OpsWellFormedFor
<1>7. Separate'
  BY <1>2, <1>3, ThreadMoves DEF Moves
<1>8. LoopDetaches'
  BY <1>2, <1>3, OpTypes, ActiveNext DEF Moves, Others, LoopDetaches,
     LoopDetachesFor, InDispose
<1>9. CloseProgress'
  BY <1>2, <1>3, OpTypes, ActiveNext DEF Moves, Others, CloseProgress,
     CloseProgressFor
<1>10. AddProgress'
  BY <1>2, <1>3, OpTypes, ActiveNext DEF Moves, Others, AddProgress,
     AddProgressFor
<1>11. RemoveProgress'
  BY <1>2, <1>3, <1>4, OpTypes, ActiveNext DEF Moves, Others, ApartFrom,
     RemoveProgress, RemoveProgressFor
<1>12. SidesAgree'
  <2>1. SUFFICES ASSUME NEW e \in Engines, nmods'[e] # mods'[e]
                 PROVE  \E u \in Threads : Between(u, e)'
    BY DEF SidesAgree
  <2>2. e # ops[t].self /\ nmods[e] # mods[e]
    BY <1>2, <2>1 DEF TypeOK
  <2>3. PICK u \in Threads : Between(u, e)
    BY <2>2 DEF SidesAgree
  <2>4. u # t
    BY <2>2, <2>3 DEF Between
  <2>. QED
    BY <1>3, <2>3, <2>4 DEF Between, Is, Moves, Others
<1>13. EnginesOwn'
  BY <1>3 DEF Moves, Others, EnginesOwn, Is
<1>14. ParamsStand'
  BY <1>3 DEF Moves, Others, ParamsStand, Is
<1>15. LiveKept'
  BY <1>3 DEF Moves, Others, LiveKept, Is
<1>16. OpenOrClosed'
  BY <1>3 DEF Moves, Others, OpenOrClosed, Is
<1>17. NoUseAfterFree'
  BY DEF NoUseAfterFree
<1>18. NoDoubleFree'
  BY DEF NoDoubleFree
<1>. QED
  BY <1>5, <1>6, <1>7, <1>8, <1>9, <1>10, <1>11, <1>12, <1>13, <1>14, <1>15,
     <1>16, <1>17, <1>18

\* module._owned = False: no engine has the module any more.
LEMMA RemoveDisownKeeps ==
    ASSUME Inv, NEW t \in Threads, RemoveDisown(t)
    PROVE  Inv'
<1>. USE ObjectRefAssumption DEF Inv, RemoveDisown, At, native
<1>1. t \in Active /\ ops[t].name = "remove" /\ ops[t].at = "disown"
  OBVIOUS
<1>2. /\ Active' = Active \ {t} /\ t \notin Active' /\ Others(t)
      /\ ops' \in [Threads -> Operation \cup {None}]
  BY <1>1, FinishEnds
<1>3. \A u \in Active : u # t => ApartFrom(t, u) /\ ApartFrom(u, t)
  BY Apart
<1>4. \A f \in Engines : ops[t].module \notin nmods[f]
  BY <1>1 DEF RemoveProgress, RemoveProgressFor
<1>5. TypeOK'
  BY <1>2 DEF TypeOK
<1>6. OpsWellFormed'
  BY <1>2, OpTypes DEF Others, OpsWellFormed, OpsWellFormedFor
<1>7. Separate'
  BY <1>2, ThreadMoves
<1>8. LoopDetaches'
  BY <1>2, OpTypes DEF Others, LoopDetaches, LoopDetachesFor
<1>9. CloseProgress'
  BY <1>2, <1>3, OpTypes DEF Others, ApartFrom, CloseProgress, CloseProgressFor
<1>10. AddProgress'
  BY <1>2, <1>3, OpTypes DEF Others, ApartFrom, AddProgress, AddProgressFor
<1>11. RemoveProgress'
  BY <1>2, OpTypes DEF Others, RemoveProgress, RemoveProgressFor
<1>12. SidesAgree'
  BY <1>2 DEF Others, SidesAgree, Between, Is
<1>13. EnginesOwn'
  BY <1>2, <1>4 DEF Others, EnginesOwn, Is
<1>14. ParamsStand'
  BY <1>2 DEF Others, ParamsStand, Is
<1>15. LiveKept'
  BY <1>2 DEF Others, LiveKept, Is
<1>16. OpenOrClosed'
  BY <1>2 DEF Others, OpenOrClosed, Is
<1>17. NoUseAfterFree'
  BY DEF NoUseAfterFree
<1>18. NoDoubleFree'
  BY DEF NoDoubleFree
<1>. QED
  BY <1>5, <1>6, <1>7, <1>8, <1>9, <1>10, <1>11, <1>12, <1>13, <1>14, <1>15,
     <1>16, <1>17, <1>18

\* self._modules.clear(): by then every module is detached.
LEMMA ClearModulesKeeps ==
    ASSUME Inv, NEW t \in Threads, ClearModules(t)
    PROVE  Inv'
<1>. USE ObjectRefAssumption DEF Inv, ClearModules, At, native
<1>1. t \in Active /\ ops[t].name = "close" /\ ops[t].at = "clear"
  OBVIOUS
<1>2. /\ Moves(t, "wait")
      /\ ops'[t].target = ops[t].target /\ ops'[t].todo = ops[t].todo
      /\ ops'[t].size = ops[t].size
      /\ ops' \in [Threads -> Operation \cup {None}]
  BY <1>1, GotoMoves DEF Steps
<1>3. \A u \in Active : u # t => ApartFrom(t, u) /\ ApartFrom(u, t)
  BY Apart
<1>4. /\ ops[t].self \in Engines /\ ops[t].target = ops[t].self /\ InDispose(ops[t])
      /\ nmods[ops[t].self] \cap param = {} /\ ops[t].self \in live
  BY DEF OpsWellFormed, OpsWellFormedFor, LoopDetaches, LoopDetachesFor,
     InDispose
<1>5. /\ ops[t].self \in param \ owned
      /\ \A e \in Engines : ops[t].self \notin nmods[e]
  BY <1>4 DEF LiveKept, TypeOK
<1>6. TypeOK'
  BY <1>2, <1>4 DEF TypeOK
<1>7. OpsWellFormed'
  BY <1>2, OpTypes, ActiveNext DEF Moves, Others, OpsWellFormed,
     OpsWellFormedFor
<1>8. Separate'
  BY <1>2, ThreadMoves DEF Moves
<1>9. LoopDetaches'
  BY <1>2, <1>3, <1>4, OpTypes, ActiveNext DEF Moves, Others, ApartFrom,
     LoopDetaches, LoopDetachesFor, InDispose
<1>10. CloseProgress'
  <2>. SUFFICES ASSUME NEW u \in Active'
              PROVE  CloseProgressFor(u)'
    BY DEF CloseProgress
  <2>1. CASE u # t
    <3>1. u \in Active
      BY <1>2, ActiveNext DEF Moves
    <3>. QED
      BY <1>2, <2>1, <3>1, OpTypes DEF Moves, Others, CloseProgress,
         CloseProgressFor
  <2>2. CASE u = t
    <3>1. mods'[ops[t].self] = {}
      BY <1>4 DEF TypeOK
    <3>2. /\ ops'[t].at = "wait" /\ ops'[t].self = ops[t].self
      BY <1>2 DEF Moves
    <3>. QED
      BY <1>4, <1>5, <2>2, <3>1, <3>2 DEF CloseProgressFor
  <2>. QED
    BY <2>1, <2>2
<1>11. AddProgress'
  BY <1>2, <1>3, OpTypes, ActiveNext DEF Moves, Others, ApartFrom, AddProgress,
     AddProgressFor
<1>12. RemoveProgress'
  BY <1>2, <1>3, OpTypes, ActiveNext DEF Moves, Others, ApartFrom,
     RemoveProgress, RemoveProgressFor
<1>13. SidesAgree'
  BY <1>2 DEF Moves, Others, SidesAgree, Between, Is
<1>14. EnginesOwn'
  BY <1>2 DEF Moves, Others, EnginesOwn, Is
<1>15. ParamsStand'
  BY <1>2 DEF Moves, Others, ParamsStand, Is
<1>16. LiveKept'
  BY <1>2 DEF Moves, Others, LiveKept, Is
<1>17. OpenOrClosed'
  BY <1>2 DEF Moves, Others, OpenOrClosed, Is
<1>18. NoUseAfterFree'
  BY DEF NoUseAfterFree
<1>19. NoDoubleFree'
  BY DEF NoDoubleFree
<1>. QED
  BY <1>6, <1>7, <1>8, <1>9, <1>10, <1>11, <1>12, <1>13, <1>14, <1>15, <1>16,
     <1>17, <1>18, <1>19

\* A wrapper that is closed, or owned, is only detached.
LEMMA CloseTestDetachKeeps ==
    ASSUME Inv, NEW t \in Threads, CloseTest(t), ops[t].self \in closed \cup owned
    PROVE  Inv'
<1>. USE ObjectRefAssumption DEF Inv, CloseTest, At, py, native
<1>1. t \in Active /\ ops[t].name = "close" /\ ops[t].at = "check"
  OBVIOUS
<1>2. /\ Moves(t, "detach")
      /\ ops'[t].target = ops[t].target /\ ops'[t].todo = ops[t].todo
      /\ ops'[t].size = ops[t].size
      /\ ops' \in [Threads -> Operation \cup {None}]
  BY <1>1, GotoMoves DEF Steps
<1>3. ops[t].self \in owned \/ ops[t].self \notin param
  BY DEF TypeOK
<1>4. TypeOK'
  BY <1>2 DEF TypeOK
<1>5. OpsWellFormed'
  BY <1>2, OpTypes, ActiveNext DEF Moves, Others, OpsWellFormed,
     OpsWellFormedFor
<1>6. Separate'
  BY <1>2, ThreadMoves DEF Moves
<1>7. LoopDetaches'
  BY <1>2, OpTypes, ActiveNext DEF Moves, Others, LoopDetaches, LoopDetachesFor,
     InDispose
<1>8. CloseProgress'
  BY <1>2, <1>3, OpTypes, ActiveNext DEF Moves, Others, CloseProgress,
     CloseProgressFor
<1>9. AddProgress'
  BY <1>2, OpTypes, ActiveNext DEF Moves, Others, AddProgress, AddProgressFor
<1>10. RemoveProgress'
  BY <1>2, OpTypes, ActiveNext DEF Moves, Others, RemoveProgress,
     RemoveProgressFor
<1>11. SidesAgree'
  BY <1>2 DEF Moves, Others, SidesAgree, Between, Is
<1>12. EnginesOwn'
  BY <1>2 DEF Moves, Others, EnginesOwn, Is
<1>13. ParamsStand'
  BY <1>2 DEF Moves, Others, ParamsStand, Is
<1>14. LiveKept'
  BY <1>2 DEF Moves, Others, LiveKept, Is
<1>15. OpenOrClosed'
  BY <1>2 DEF Moves, Others, OpenOrClosed, Is
<1>16. NoUseAfterFree'
  BY DEF NoUseAfterFree
<1>17. NoDoubleFree'
  BY DEF NoDoubleFree
<1>. QED
  BY <1>4, <1>5, <1>6, <1>7, <1>8, <1>9, <1>10, <1>11, <1>12, <1>13, <1>14,
     <1>15, <1>16, <1>17

\* A module that its wrapper owns is about to be freed.
LEMMA CloseTestModuleKeeps ==
    ASSUME Inv, NEW t \in Threads, CloseTest(t), ops[t].self \notin closed \cup owned \cup Engines
    PROVE  Inv'
<1>. USE ObjectRefAssumption DEF Inv, CloseTest, At, py, native
<1>1. t \in Active /\ ops[t].name = "close" /\ ops[t].at = "check"
  OBVIOUS
<1>2. /\ Moves(t, "wait")
      /\ ops'[t].target = ops[t].target /\ ops'[t].todo = ops[t].todo
      /\ ops'[t].size = ops[t].size
      /\ ops' \in [Threads -> Operation \cup {None}]
  BY <1>1, GotoMoves DEF Steps
<1>3. \A u \in Active : u # t => ApartFrom(t, u) /\ ApartFrom(u, t)
  BY Apart
<1>4. ops[t].self \in param
  BY <1>3, OpTypes DEF OpenOrClosed, Is, ApartFrom, Objects
<1>5. ops[t].self \in live
  BY <1>3, <1>4 DEF ParamsStand, Is, ApartFrom
<1>6. \A e \in Engines : ops[t].self \notin nmods[e]
  <2>1. SUFFICES ASSUME NEW e \in Engines, ops[t].self \in nmods[e]
                 PROVE  FALSE
    OBVIOUS
  <2>2. PICK u \in Threads : Is(u, "add", {"inside", "own"}) /\ ops[u].module = ops[t].self
    BY <2>1 DEF EnginesOwn
  <2>. QED
    BY <1>3, <2>2 DEF Is, ApartFrom
<1>7. TypeOK'
  BY <1>2 DEF TypeOK
<1>8. OpsWellFormed'
  BY <1>2, OpTypes, ActiveNext DEF Moves, Others, OpsWellFormed,
     OpsWellFormedFor
<1>9. Separate'
  BY <1>2, ThreadMoves DEF Moves
<1>10. LoopDetaches'
  BY <1>2, OpTypes, ActiveNext DEF Moves, Others, LoopDetaches, LoopDetachesFor,
     InDispose
<1>11. CloseProgress'
  BY <1>1, <1>2, <1>3, <1>4, <1>5, <1>6, OpTypes, ActiveNext DEF Moves, Others,
     CloseProgress, CloseProgressFor
<1>12. AddProgress'
  BY <1>1, <1>2, <1>3, <1>4, <1>5, OpTypes, ActiveNext DEF Moves, Others,
     ApartFrom, AddProgress, AddProgressFor
<1>13. RemoveProgress'
  BY <1>1, <1>2, <1>4, <1>5, <1>6, OpTypes, ActiveNext DEF Moves, Others,
     RemoveProgress, RemoveProgressFor
<1>14. SidesAgree'
  BY <1>2 DEF Moves, Others, SidesAgree, Between, Is
<1>15. EnginesOwn'
  BY <1>2 DEF Moves, Others, EnginesOwn, Is
<1>16. ParamsStand'
  BY <1>2 DEF Moves, Others, ParamsStand, Is
<1>17. LiveKept'
  BY <1>2 DEF Moves, Others, LiveKept, Is
<1>18. OpenOrClosed'
  BY <1>2 DEF Moves, Others, OpenOrClosed, Is
<1>19. NoUseAfterFree'
  BY DEF NoUseAfterFree
<1>20. NoDoubleFree'
  BY DEF NoDoubleFree
<1>. QED
  BY <1>7, <1>8, <1>9, <1>10, <1>11, <1>12, <1>13, <1>14, <1>15, <1>16, <1>17,
     <1>18, <1>19, <1>20

\* The close of an engine enters the loop of _dispose.
LEMMA CloseTestEngineKeeps ==
    ASSUME Inv, NEW t \in Threads, CloseTest(t), ops[t].self \in Engines \ (closed \cup owned)
    PROVE  Inv'
<1>. USE ObjectRefAssumption DEF Inv, CloseTest, At, py, native
<1>1. t \in Active /\ ops[t].name = "close" /\ ops[t].at = "check"
  OBVIOUS
<1>2. /\ t \in Active' /\ Others(t) /\ ops'[t].at = "loop"
      /\ ops'[t].name = "close" /\ ops'[t].self = ops[t].self
      /\ ops'[t].module = ops[t].module /\ ops'[t].target = ops[t].target
      /\ ops'[t].todo = mods[ops[t].self]
      /\ ops'[t].size = Cardinality(mods[ops[t].self])
      /\ ops' \in [Threads -> Operation \cup {None}]
  BY <1>1, DisposeBegins
<1>3. \A u \in Active : u # t => ApartFrom(t, u) /\ ApartFrom(u, t)
  BY Apart
<1>4. ops[t].self \in param
  BY <1>3 DEF OpenOrClosed, Is, ApartFrom, Objects
<1>5. ops[t].self \in live
  BY <1>3, <1>4 DEF ParamsStand, Is, ApartFrom
<1>6. nmods[ops[t].self] = mods[ops[t].self]
  <2>1. SUFFICES ASSUME NEW u \in Threads, Between(u, ops[t].self)
                 PROVE  FALSE
    BY DEF SidesAgree
  <2>. QED
    BY <1>3, <2>1 DEF Between, Is, ApartFrom
<1>7. TypeOK'
  BY <1>2 DEF TypeOK
<1>8. OpsWellFormed'
  BY <1>2, OpTypes, ActiveNext DEF OpsWellFormed, OpsWellFormedFor
<1>9. Separate'
  BY <1>2, ThreadMoves
<1>10. LoopDetaches'
  <2>. SUFFICES ASSUME NEW u \in Active'
              PROVE  LoopDetachesFor(u)'
    BY DEF LoopDetaches
  <2>1. CASE u # t
    <3>1. u \in Active
      BY <1>2, ActiveNext
    <3>. QED
      BY <1>2, <2>1, <3>1, OpTypes DEF LoopDetaches, LoopDetachesFor
  <2>2. CASE u = t
    <3>1. ops[t].target = ops[t].self
      BY <1>1 DEF OpsWellFormed, OpsWellFormedFor
    <3>. QED
      BY <1>2, <1>5, <1>6, <2>2, <3>1 DEF LoopDetachesFor
  <2>. QED
    BY <2>1, <2>2
<1>11. CloseProgress'
  BY <1>1, <1>2, <1>4, <1>5, <1>6, OpTypes, ActiveNext DEF CloseProgress,
     CloseProgressFor
<1>12. AddProgress'
  BY <1>2, <1>6, OpTypes, ActiveNext DEF AddProgress, AddProgressFor
<1>13. RemoveProgress'
  BY <1>2, <1>4, <1>5, <1>6, OpTypes, ActiveNext DEF RemoveProgress,
     RemoveProgressFor
<1>14. SidesAgree'
  BY <1>2 DEF Others, SidesAgree, Between, Is
<1>15. EnginesOwn'
  BY <1>2 DEF Others, EnginesOwn, Is
<1>16. ParamsStand'
  BY <1>2 DEF Others, ParamsStand, Is
<1>17. LiveKept'
  BY <1>2 DEF Others, LiveKept, Is
<1>18. OpenOrClosed'
  BY <1>2 DEF Others, OpenOrClosed, Is
<1>19. NoUseAfterFree'
  BY DEF NoUseAfterFree
<1>20. NoDoubleFree'
  BY DEF NoDoubleFree
<1>. QED
  BY <1>7, <1>8, <1>9, <1>10, <1>11, <1>12, <1>13, <1>14, <1>15, <1>16, <1>17,
     <1>18, <1>19, <1>20

\* The loop of _dispose ends.
LEMMA LoopEndKeeps ==
    ASSUME Inv, NEW t \in Threads, LoopStep(t), ops[t].todo = {}
    PROVE  Inv'
<1>. USE ObjectRefAssumption DEF Inv, LoopStep, At, py, native
<1>1. /\ InDispose(ops[t]) /\ ops[t].self \in Engines /\ ops[t].target = ops[t].self
      /\ Cardinality(mods[ops[t].self]) = ops[t].size
  BY DEF InDispose, LoopDetaches, LoopDetachesFor, OpsWellFormed,
     OpsWellFormedFor
<1>2. /\ Moves(t, "clear")
      /\ ops'[t].target = ops[t].target /\ ops'[t].todo = ops[t].todo
      /\ ops'[t].size = ops[t].size
      /\ ops' \in [Threads -> Operation \cup {None}]
  BY <1>1, GotoMoves DEF Steps
<1>3. TypeOK'
  BY <1>2 DEF TypeOK
<1>4. OpsWellFormed'
  BY <1>2, OpTypes, ActiveNext DEF Moves, Others, OpsWellFormed,
     OpsWellFormedFor
<1>5. Separate'
  BY <1>2, ThreadMoves DEF Moves
<1>6. LoopDetaches'
  BY <1>2, OpTypes, ActiveNext DEF Moves, Others, LoopDetaches, LoopDetachesFor,
     InDispose
<1>7. CloseProgress'
  BY <1>2, OpTypes, ActiveNext DEF Moves, Others, CloseProgress,
     CloseProgressFor
<1>8. AddProgress'
  BY <1>2, OpTypes, ActiveNext DEF Moves, Others, AddProgress, AddProgressFor
<1>9. RemoveProgress'
  BY <1>2, OpTypes, ActiveNext DEF Moves, Others, RemoveProgress,
     RemoveProgressFor
<1>10. SidesAgree'
  BY <1>2 DEF Moves, Others, SidesAgree, Between, Is
<1>11. EnginesOwn'
  BY <1>2 DEF Moves, Others, EnginesOwn, Is
<1>12. ParamsStand'
  BY <1>2 DEF Moves, Others, ParamsStand, Is
<1>13. LiveKept'
  BY <1>2 DEF Moves, Others, LiveKept, Is
<1>14. OpenOrClosed'
  BY <1>2 DEF Moves, Others, OpenOrClosed, Is
<1>15. NoUseAfterFree'
  BY DEF NoUseAfterFree
<1>16. NoDoubleFree'
  BY DEF NoDoubleFree
<1>. QED
  BY <1>3, <1>4, <1>5, <1>6, <1>7, <1>8, <1>9, <1>10, <1>11, <1>12, <1>13,
     <1>14, <1>15, <1>16

\* The loop of _dispose comes to its next module.
LEMMA LoopStepKeeps ==
    ASSUME Inv, NEW t \in Threads, LoopStep(t), ops[t].todo # {}
    PROVE  Inv'
<1>. USE ObjectRefAssumption DEF Inv, At, py, native
<1>1. t \in Active /\ ops[t].name = "close" /\ ops[t].at = "loop"
  BY DEF LoopStep
<1>2. /\ InDispose(ops[t]) /\ ops[t].self \in Engines /\ ops[t].target = ops[t].self
      /\ Cardinality(mods[ops[t].self]) = ops[t].size
  BY <1>1 DEF InDispose, LoopDetaches, LoopDetachesFor, OpsWellFormed,
     OpsWellFormedFor
<1>3. PICK m \in ops[t].todo :
         /\ t \in Active' /\ Others(t) /\ ops'[t].at = "detach"
         /\ ops'[t].name = "close" /\ ops'[t].self = ops[t].self
         /\ ops'[t].module = ops[t].module /\ ops'[t].target = m
         /\ ops'[t].todo = ops[t].todo \ {m} /\ ops'[t].size = ops[t].size
         /\ ops' \in [Threads -> Operation \cup {None}]
  BY <1>1, <1>2, LoopPicks
<1>4. UNCHANGED <<param, closed, owned, mods, live, nmods, holder, used, twice>>
  BY DEF LoopStep
<1>5. m \in mods[ops[t].self] /\ m \in Modules /\ m # ops[t].self
  BY <1>1, <1>2, OpTypes DEF LoopDetaches, LoopDetachesFor
<1>6. TypeOK'
  BY <1>3, <1>4 DEF TypeOK
<1>7. OpsWellFormed'
  BY <1>1, <1>3, OpTypes, ActiveNext DEF Others, OpsWellFormed, OpsWellFormedFor
<1>8. Separate'
  BY <1>1, <1>3, <1>4, ThreadMoves
<1>9. LoopDetaches'
  BY <1>1, <1>3, <1>4, OpTypes, ActiveNext DEF Others, LoopDetaches,
     LoopDetachesFor, InDispose
<1>10. CloseProgress'
  BY <1>3, <1>4, <1>5, OpTypes, ActiveNext DEF Others, CloseProgress,
     CloseProgressFor
<1>11. AddProgress'
  BY <1>3, <1>4, OpTypes, ActiveNext DEF Others, AddProgress, AddProgressFor
<1>12. RemoveProgress'
  BY <1>3, <1>4, OpTypes, ActiveNext DEF Others, RemoveProgress,
     RemoveProgressFor
<1>13. SidesAgree'
  BY <1>1, <1>3, <1>4 DEF Others, SidesAgree, Between, Is
<1>14. EnginesOwn'
  BY <1>1, <1>3, <1>4 DEF Others, EnginesOwn, Is
<1>15. ParamsStand'
  BY <1>3, <1>4 DEF Others, ParamsStand, Is
<1>16. LiveKept'
  BY <1>1, <1>3, <1>4 DEF Others, LiveKept, Is
<1>17. OpenOrClosed'
  BY <1>1, <1>3, <1>4 DEF Others, OpenOrClosed, Is
<1>18. NoUseAfterFree'
  BY <1>4 DEF NoUseAfterFree
<1>19. NoDoubleFree'
  BY <1>4 DEF NoDoubleFree
<1>. QED
  BY <1>6, <1>7, <1>8, <1>9, <1>10, <1>11, <1>12, <1>13, <1>14, <1>15, <1>16,
     <1>17, <1>18, <1>19

\* An open wrapper is about to lose its _as_parameter_.
LEMMA DetachTestOpenKeeps ==
    ASSUME Inv, NEW t \in Threads, DetachTest(t), ops[t].target \notin closed
    PROVE  Inv'
<1>. USE ObjectRefAssumption DEF Inv, DetachTest, At, py, native
<1>1. t \in Active /\ ops[t].name = "close" /\ ops[t].at = "detach"
  OBVIOUS
<1>2. /\ Moves(t, "del")
      /\ ops'[t].target = ops[t].target /\ ops'[t].todo = ops[t].todo
      /\ ops'[t].size = ops[t].size
      /\ ops' \in [Threads -> Operation \cup {None}]
  BY <1>1, GotoMoves DEF Steps
<1>3. \A u \in Active : u # t => ApartFrom(t, u) /\ ApartFrom(u, t)
  BY Apart
<1>4. ops[t].target \in param
  BY <1>3, OpTypes DEF OpenOrClosed, Is, ApartFrom, Objects
<1>5. TypeOK'
  BY <1>2 DEF TypeOK
<1>6. OpsWellFormed'
  BY <1>2, OpTypes, ActiveNext DEF Moves, Others, OpsWellFormed,
     OpsWellFormedFor
<1>7. Separate'
  BY <1>2, ThreadMoves DEF Moves
<1>8. LoopDetaches'
  BY <1>2, OpTypes, ActiveNext DEF Moves, Others, LoopDetaches, LoopDetachesFor,
     InDispose
<1>9. CloseProgress'
  BY <1>2, <1>4, OpTypes, ActiveNext DEF Moves, Others, CloseProgress,
     CloseProgressFor
<1>10. AddProgress'
  BY <1>2, OpTypes, ActiveNext DEF Moves, Others, AddProgress, AddProgressFor
<1>11. RemoveProgress'
  BY <1>2, OpTypes, ActiveNext DEF Moves, Others, RemoveProgress,
     RemoveProgressFor
<1>12. SidesAgree'
  BY <1>2 DEF Moves, Others, SidesAgree, Between, Is
<1>13. EnginesOwn'
  BY <1>2 DEF Moves, Others, EnginesOwn, Is
<1>14. ParamsStand'
  BY <1>2 DEF Moves, Others, ParamsStand, Is
<1>15. LiveKept'
  BY <1>2 DEF Moves, Others, LiveKept, Is
<1>16. OpenOrClosed'
  BY <1>2 DEF Moves, Others, OpenOrClosed, Is
<1>17. NoUseAfterFree'
  BY DEF NoUseAfterFree
<1>18. NoDoubleFree'
  BY DEF NoDoubleFree
<1>. QED
  BY <1>5, <1>6, <1>7, <1>8, <1>9, <1>10, <1>11, <1>12, <1>13, <1>14, <1>15,
     <1>16, <1>17, <1>18

\* A module of the engine that is closed already is passed over.
LEMMA DetachTestLoopKeeps ==
    ASSUME Inv, NEW t \in Threads, DetachTest(t), ops[t].target \in closed, InLoop(ops[t])
    PROVE  Inv'
<1>. USE ObjectRefAssumption DEF Inv, DetachTest, At, py, native
<1>1. t \in Active /\ ops[t].name = "close" /\ ops[t].at = "detach"
  OBVIOUS
<1>2.
      /\ t \in Active' /\ Others(t) /\ ops'[t].at = "loop"
      /\ ops'[t].name = "close" /\ ops'[t].self = ops[t].self
      /\ ops'[t].module = ops[t].module /\ ops'[t].target = ops[t].self
      /\ ops'[t].todo = ops[t].todo /\ ops'[t].size = ops[t].size
      /\ ops' \in [Threads -> Operation \cup {None}]
  BY <1>1, LoopReturns DEF Steps
<1>3. /\ ops[t].self \in Engines /\ ops[t].target # ops[t].self
      /\ InDispose(ops[t]) /\ ops[t].self \in live
  BY DEF InLoop, InDispose, OpsWellFormed, OpsWellFormedFor, LoopDetaches,
     LoopDetachesFor
<1>4. ops[t].target \notin param
  BY DEF TypeOK
<1>5. TypeOK'
  BY <1>2 DEF TypeOK
<1>6. OpsWellFormed'
  BY <1>2, <1>3, OpTypes, ActiveNext DEF OpsWellFormed, OpsWellFormedFor
<1>7. Separate'
  BY <1>2, ThreadMoves
<1>8. LoopDetaches'
  BY <1>2, <1>3, <1>4, OpTypes, ActiveNext DEF LoopDetaches, LoopDetachesFor
<1>9. CloseProgress'
  BY <1>2, OpTypes, ActiveNext DEF CloseProgress, CloseProgressFor
<1>10. AddProgress'
  BY <1>2, OpTypes, ActiveNext DEF AddProgress, AddProgressFor
<1>11. RemoveProgress'
  BY <1>2, OpTypes, ActiveNext DEF RemoveProgress, RemoveProgressFor
<1>12. SidesAgree'
  BY <1>2 DEF Others, SidesAgree, Between, Is
<1>13. EnginesOwn'
  BY <1>2 DEF Others, EnginesOwn, Is
<1>14. ParamsStand'
  BY <1>2, <1>3 DEF Others, ParamsStand, Is
<1>15. LiveKept'
  BY <1>2 DEF Others, LiveKept, Is
<1>16. OpenOrClosed'
  BY <1>2 DEF Others, OpenOrClosed, Is
<1>17. NoUseAfterFree'
  BY DEF NoUseAfterFree
<1>18. NoDoubleFree'
  BY DEF NoDoubleFree
<1>. QED
  BY <1>5, <1>6, <1>7, <1>8, <1>9, <1>10, <1>11, <1>12, <1>13, <1>14, <1>15,
     <1>16, <1>17, <1>18

\* The close of a closed wrapper ends.
LEMMA DetachTestEndKeeps ==
    ASSUME Inv, NEW t \in Threads, DetachTest(t), ops[t].target \in closed, ~InLoop(ops[t])
    PROVE  Inv'
<1>. USE ObjectRefAssumption DEF Inv, DetachTest, At, InLoop, py, native
<1>1. t \in Active /\ ops[t].name = "close" /\ ops[t].at = "detach"
  OBVIOUS
<1>2. /\ Active' = Active \ {t} /\ t \notin Active' /\ Others(t)
      /\ ops' \in [Threads -> Operation \cup {None}]
  BY <1>1, FinishEnds
<1>3. ops[t].target \notin param
  BY DEF TypeOK
<1>4. TypeOK'
  BY <1>2 DEF TypeOK
<1>5. OpsWellFormed'
  BY <1>2, OpTypes DEF Others, OpsWellFormed, OpsWellFormedFor
<1>6. Separate'
  BY <1>2, ThreadMoves
<1>7. LoopDetaches'
  BY <1>2, OpTypes DEF Others, LoopDetaches, LoopDetachesFor
<1>8. CloseProgress'
  BY <1>2, OpTypes DEF Others, CloseProgress, CloseProgressFor
<1>9. AddProgress'
  BY <1>2, OpTypes DEF Others, AddProgress, AddProgressFor
<1>10. RemoveProgress'
  BY <1>2, OpTypes DEF Others, RemoveProgress, RemoveProgressFor
<1>11. SidesAgree'
  BY <1>2 DEF Others, SidesAgree, Between, Is
<1>12. EnginesOwn'
  BY <1>2 DEF Others, EnginesOwn, Is
<1>13. ParamsStand'
  BY <1>2, <1>3 DEF Others, ParamsStand, Is
<1>14. LiveKept'
  BY <1>2 DEF Others, LiveKept, Is
<1>15. OpenOrClosed'
  BY <1>2 DEF Others, OpenOrClosed, Is
<1>16. NoUseAfterFree'
  BY DEF NoUseAfterFree
<1>17. NoDoubleFree'
  BY DEF NoDoubleFree
<1>. QED
  BY <1>4, <1>5, <1>6, <1>7, <1>8, <1>9, <1>10, <1>11, <1>12, <1>13, <1>14,
     <1>15, <1>16, <1>17

\* del self._as_parameter_: no other thread is faster.
LEMMA DetachDelKeeps ==
    ASSUME Inv, NEW t \in Threads, DetachDel(t)
    PROVE  Inv'
<1>. USE ObjectRefAssumption DEF Inv, At, native
<1>1. t \in Active /\ ops[t].name = "close" /\ ops[t].at = "del"
  BY DEF DetachDel
<1>2. /\ ops[t].target \in param /\ param' = param \ {ops[t].target}
      /\ Goto(t, "set")
      /\ UNCHANGED <<closed, owned, mods, live, nmods, holder, used, twice>>
  BY DEF DetachDel, CloseProgress, CloseProgressFor
<1>3. /\ Moves(t, "set")
      /\ ops'[t].target = ops[t].target /\ ops'[t].todo = ops[t].todo
      /\ ops'[t].size = ops[t].size
      /\ ops' \in [Threads -> Operation \cup {None}]
  BY <1>1, <1>2, GotoMoves DEF Steps
<1>4. \A u \in Active : u # t => ApartFrom(t, u) /\ ApartFrom(u, t)
  BY <1>1, Apart
<1>5. ops[t].target # ops[t].self =>
          /\ ops[t].self \in live \cap Engines
          /\ ops[t].target \in nmods[ops[t].self]
  BY <1>1 DEF LoopDetaches, LoopDetachesFor, InDispose, OpsWellFormed,
     OpsWellFormedFor
<1>6. ops[t].target \in live => ops[t].target \in Modules /\
          \E e \in Engines : ops[t].target \in nmods[e]
  <2>1. CASE ops[t].target # ops[t].self
    BY <1>5, <2>1 DEF TypeOK
  <2>2. CASE ops[t].target = ops[t].self /\ ops[t].target \in live
    <3>1. ops[t].target \in owned /\ ops[t].target \in Modules
      BY <1>1, <2>2 DEF CloseProgress, CloseProgressFor, TypeOK
    <3>. QED
      BY <1>1, <1>4, <3>1 DEF LiveKept, Is, ApartFrom
  <2>. QED
    BY <2>1, <2>2
<1>7. TypeOK'
  BY <1>2, <1>3 DEF TypeOK
<1>8. OpsWellFormed'
  BY <1>1, <1>3, OpTypes, ActiveNext DEF Moves, Others, OpsWellFormed,
     OpsWellFormedFor
<1>9. Separate'
  BY <1>1, <1>2, <1>3, ThreadMoves DEF Moves
<1>10. LoopDetaches'
  BY <1>1, <1>2, <1>3, OpTypes, ActiveNext DEF Moves, Others, LoopDetaches,
     LoopDetachesFor, InDispose
<1>11. CloseProgress'
  BY <1>1, <1>2, <1>3, <1>4, OpTypes, ActiveNext DEF Moves, Others, ApartFrom,
     CloseProgress, CloseProgressFor
<1>12. AddProgress'
  BY <1>2, <1>3, OpTypes, ActiveNext DEF Moves, Others, AddProgress,
     AddProgressFor
<1>13. RemoveProgress'
  BY <1>2, <1>3, <1>6, OpTypes, ActiveNext DEF Moves, Others, RemoveProgress,
     RemoveProgressFor
<1>14. SidesAgree'
  BY <1>1, <1>2, <1>3 DEF Moves, Others, SidesAgree, Between, Is
<1>15. EnginesOwn'
  BY <1>1, <1>2, <1>3 DEF Moves, Others, EnginesOwn, Is
<1>16. ParamsStand'
  BY <1>2, <1>3, <1>5 DEF Moves, Others, ParamsStand, Is
<1>17. LiveKept'
  BY <1>1, <1>2, <1>3, <1>6 DEF Moves, Others, LiveKept, Is
<1>18. OpenOrClosed'
  BY <1>1, <1>2, <1>3 DEF Moves, Others, OpenOrClosed, Is
<1>19. NoUseAfterFree'
  BY <1>2 DEF NoUseAfterFree
<1>20. NoDoubleFree'
  BY <1>2 DEF NoDoubleFree
<1>. QED
  BY <1>7, <1>8, <1>9, <1>10, <1>11, <1>12, <1>13, <1>14, <1>15, <1>16, <1>17,
     <1>18, <1>19, <1>20

\* self._closed = True, of a module of the engine.
LEMMA DetachSetLoopKeeps ==
    ASSUME Inv, NEW t \in Threads, DetachSet(t), InLoop(ops[t])
    PROVE  Inv'
<1>. USE ObjectRefAssumption DEF Inv, DetachSet, At, native
<1>1. t \in Active /\ ops[t].name = "close" /\ ops[t].at = "set"
  OBVIOUS
<1>2.
      /\ t \in Active' /\ Others(t) /\ ops'[t].at = "loop"
      /\ ops'[t].name = "close" /\ ops'[t].self = ops[t].self
      /\ ops'[t].module = ops[t].module /\ ops'[t].target = ops[t].self
      /\ ops'[t].todo = ops[t].todo /\ ops'[t].size = ops[t].size
      /\ ops' \in [Threads -> Operation \cup {None}]
  BY <1>1, LoopReturns DEF Steps
<1>3. /\ ops[t].self \in Engines /\ ops[t].target # ops[t].self
      /\ InDispose(ops[t]) /\ ops[t].self \in live
  BY DEF InLoop, InDispose, OpsWellFormed, OpsWellFormedFor, LoopDetaches,
     LoopDetachesFor
<1>4. ops[t].target \in Objects \ param
  BY OpTypes DEF CloseProgress, CloseProgressFor, Objects
<1>5. TypeOK'
  BY <1>2, <1>4 DEF TypeOK
<1>6. OpsWellFormed'
  BY <1>2, <1>3, OpTypes, ActiveNext DEF OpsWellFormed, OpsWellFormedFor
<1>7. Separate'
  BY <1>2, ThreadMoves
<1>8. LoopDetaches'
  BY <1>2, <1>3, OpTypes, ActiveNext DEF LoopDetaches, LoopDetachesFor
<1>9. CloseProgress'
  BY <1>2, OpTypes, ActiveNext DEF CloseProgress, CloseProgressFor
<1>10. AddProgress'
  BY <1>2, OpTypes, ActiveNext DEF AddProgress, AddProgressFor
<1>11. RemoveProgress'
  BY <1>2, OpTypes, ActiveNext DEF RemoveProgress, RemoveProgressFor
<1>12. SidesAgree'
  BY <1>2 DEF Others, SidesAgree, Between, Is
<1>13. EnginesOwn'
  BY <1>2 DEF Others, EnginesOwn, Is
<1>14. ParamsStand'
  BY <1>2 DEF Others, ParamsStand, Is
<1>15. LiveKept'
  BY <1>2 DEF Others, LiveKept, Is
<1>16. OpenOrClosed'
  BY <1>2 DEF Others, OpenOrClosed, Is
<1>17. NoUseAfterFree'
  BY DEF NoUseAfterFree
<1>18. NoDoubleFree'
  BY DEF NoDoubleFree
<1>. QED
  BY <1>5, <1>6, <1>7, <1>8, <1>9, <1>10, <1>11, <1>12, <1>13, <1>14, <1>15,
     <1>16, <1>17, <1>18

\* self._closed = True, and close ends.
LEMMA DetachSetEndKeeps ==
    ASSUME Inv, NEW t \in Threads, DetachSet(t), ~InLoop(ops[t])
    PROVE  Inv'
<1>. USE ObjectRefAssumption DEF Inv, DetachSet, At, InLoop, native
<1>1. t \in Active /\ ops[t].name = "close" /\ ops[t].at = "set"
  OBVIOUS
<1>2. /\ Active' = Active \ {t} /\ t \notin Active' /\ Others(t)
      /\ ops' \in [Threads -> Operation \cup {None}]
  BY <1>1, FinishEnds
<1>3. ops[t].target \in Objects \ param
  BY OpTypes DEF CloseProgress, CloseProgressFor, Objects
<1>4. TypeOK'
  BY <1>2, <1>3 DEF TypeOK
<1>5. OpsWellFormed'
  BY <1>2, OpTypes DEF Others, OpsWellFormed, OpsWellFormedFor
<1>6. Separate'
  BY <1>2, ThreadMoves
<1>7. LoopDetaches'
  BY <1>2, OpTypes DEF Others, LoopDetaches, LoopDetachesFor
<1>8. CloseProgress'
  BY <1>2, OpTypes DEF Others, CloseProgress, CloseProgressFor
<1>9. AddProgress'
  BY <1>2, OpTypes DEF Others, AddProgress, AddProgressFor
<1>10. RemoveProgress'
  BY <1>2, OpTypes DEF Others, RemoveProgress, RemoveProgressFor
<1>11. SidesAgree'
  BY <1>2 DEF Others, SidesAgree, Between, Is
<1>12. EnginesOwn'
  BY <1>2 DEF Others, EnginesOwn, Is
<1>13. ParamsStand'
  BY <1>2 DEF Others, ParamsStand, Is
<1>14. LiveKept'
  BY <1>2 DEF Others, LiveKept, Is
<1>15. OpenOrClosed'
  BY <1>2 DEF Others, OpenOrClosed, Is
<1>16. NoUseAfterFree'
  BY DEF NoUseAfterFree
<1>17. NoDoubleFree'
  BY DEF NoDoubleFree
<1>. QED
  BY <1>4, <1>5, <1>6, <1>7, <1>8, <1>9, <1>10, <1>11, <1>12, <1>13, <1>14,
     <1>15, <1>16, <1>17

\* A wrapper without its pointer makes the call fail; a close has it.
LEMMA EnterRefusedKeeps ==
    ASSUME Inv, NEW t \in Threads, EnterLibrary(t), ~(Args(ops[t]) \subseteq param)
    PROVE  Inv'
<1>. USE ObjectRefAssumption DEF Inv, EnterLibrary, py, native
<1>1. t \in Active /\ ops[t].at = "wait" /\ ops[t].name # "close"
  <2>1. t \in Active /\ ops[t].at = "wait"
    OBVIOUS
  <2>. SUFFICES ASSUME ops[t].name = "close"
                PROVE  FALSE
    BY <2>1
  <2>2. ops[t].self \in param /\ ops[t].module = None
    BY DEF CloseProgress, CloseProgressFor, OpsWellFormed, OpsWellFormedFor
  <2>. QED
    BY <2>2 DEF Args
<1>2. /\ Active' = Active \ {t} /\ t \notin Active' /\ Others(t)
      /\ ops' \in [Threads -> Operation \cup {None}]
  BY <1>1, FinishEnds
<1>3. TypeOK'
  BY <1>2 DEF TypeOK
<1>4. OpsWellFormed'
  BY <1>2, OpTypes DEF Others, OpsWellFormed, OpsWellFormedFor
<1>5. Separate'
  BY <1>2, ThreadMoves
<1>6. LoopDetaches'
  BY <1>2, OpTypes DEF Others, LoopDetaches, LoopDetachesFor
<1>7. CloseProgress'
  BY <1>2, OpTypes DEF Others, CloseProgress, CloseProgressFor
<1>8. AddProgress'
  BY <1>2, OpTypes DEF Others, AddProgress, AddProgressFor
<1>9. RemoveProgress'
  BY <1>2, OpTypes DEF Others, RemoveProgress, RemoveProgressFor
<1>10. SidesAgree'
  BY <1>1, <1>2 DEF Others, SidesAgree, Between, Is
<1>11. EnginesOwn'
  BY <1>2 DEF Others, EnginesOwn, Is
<1>12. ParamsStand'
  BY <1>2 DEF Others, ParamsStand, Is
<1>13. LiveKept'
  BY <1>2 DEF Others, LiveKept, Is
<1>14. OpenOrClosed'
  BY <1>2 DEF Others, OpenOrClosed, Is
<1>15. NoUseAfterFree'
  BY DEF NoUseAfterFree
<1>16. NoDoubleFree'
  BY DEF NoDoubleFree
<1>. QED
  BY <1>3, <1>4, <1>5, <1>6, <1>7, <1>8, <1>9, <1>10, <1>11, <1>12, <1>13,
     <1>14, <1>15, <1>16

\* A call uses objects that exist.
LEMMA EnterCallKeeps ==
    ASSUME Inv, NEW t \in Threads, EnterLibrary(t), Args(ops[t]) \subseteq param, ops[t].name = "call"
    PROVE  Inv'
<1>. USE ObjectRefAssumption DEF Inv, EnterLibrary, py
<1>1. t \in Active /\ ops[t].name = "call" /\ ops[t].at = "wait"
  OBVIOUS
<1>2. /\ Moves(t, "inside")
      /\ ops'[t].target = ops[t].target /\ ops'[t].todo = ops[t].todo
      /\ ops'[t].size = ops[t].size
      /\ ops' \in [Threads -> Operation \cup {None}]
  BY <1>1, GotoMoves DEF Steps
<1>3. \A u \in Active : u # t => ApartFrom(t, u) /\ ApartFrom(u, t)
  BY Apart
<1>4. Args(ops[t]) \subseteq live
  <2>1. ASSUME NEW x \in Args(ops[t]), x \notin live
        PROVE  FALSE
    <3>1. x \in param /\ (x = ops[t].self \/ (x = ops[t].module /\ x # None))
      BY <2>1 DEF Args
    <3>2. PICK u \in Threads : Is(u, "close", {"inside", "detach", "del"}) /\ ops[u].self = x
      BY <2>1, <3>1 DEF ParamsStand
    <3>. QED
      BY <1>3, <3>1, <3>2 DEF Is, ApartFrom
  <2>. QED
    BY <2>1
<1>5. /\ live' = live /\ twice' = twice /\ used' = used /\ nmods' = nmods
  BY <1>1, <1>4 DEF NativeEffect
<1>6. TypeOK'
  BY <1>2, <1>5 DEF TypeOK
<1>7. OpsWellFormed'
  BY <1>2, OpTypes, ActiveNext DEF Moves, Others, OpsWellFormed,
     OpsWellFormedFor
<1>8. Separate'
  BY <1>2, ThreadMoves DEF Moves
<1>9. LoopDetaches'
  BY <1>2, <1>5, OpTypes, ActiveNext DEF Moves, Others, LoopDetaches,
     LoopDetachesFor, InDispose
<1>10. CloseProgress'
  BY <1>2, <1>5, OpTypes, ActiveNext DEF Moves, Others, CloseProgress,
     CloseProgressFor
<1>11. AddProgress'
  BY <1>2, <1>5, OpTypes, ActiveNext DEF Moves, Others, AddProgress,
     AddProgressFor
<1>12. RemoveProgress'
  BY <1>2, <1>5, OpTypes, ActiveNext DEF Moves, Others, RemoveProgress,
     RemoveProgressFor
<1>13. SidesAgree'
  BY <1>2, <1>5 DEF Moves, Others, SidesAgree, Between, Is
<1>14. EnginesOwn'
  BY <1>2, <1>5 DEF Moves, Others, EnginesOwn, Is
<1>15. ParamsStand'
  BY <1>2, <1>5 DEF Moves, Others, ParamsStand, Is
<1>16. LiveKept'
  BY <1>2, <1>5 DEF Moves, Others, LiveKept, Is
<1>17. OpenOrClosed'
  BY <1>2 DEF Moves, Others, OpenOrClosed, Is
<1>18. NoUseAfterFree'
  BY <1>5 DEF NoUseAfterFree
<1>19. NoDoubleFree'
  BY <1>5 DEF NoDoubleFree
<1>. QED
  BY <1>6, <1>7, <1>8, <1>9, <1>10, <1>11, <1>12, <1>13, <1>14, <1>15, <1>16,
     <1>17, <1>18, <1>19

\* LLVMPY_AddModule: the engine has no other operation under way.
LEMMA EnterAddKeeps ==
    ASSUME Inv, NEW t \in Threads, EnterLibrary(t), Args(ops[t]) \subseteq param, ops[t].name = "add"
    PROVE  Inv'
<1>. USE ObjectRefAssumption DEF Inv, EnterLibrary, py
<1>1. t \in Active /\ ops[t].name = "add" /\ ops[t].at = "wait"
  OBVIOUS
<1>2. /\ Moves(t, "inside")
      /\ ops'[t].target = ops[t].target /\ ops'[t].todo = ops[t].todo
      /\ ops'[t].size = ops[t].size
      /\ ops' \in [Threads -> Operation \cup {None}]
  BY <1>1, GotoMoves DEF Steps
<1>3. \A u \in Active : u # t => ApartFrom(t, u) /\ ApartFrom(u, t)
  BY Apart
<1>4. Args(ops[t]) \subseteq live
  <2>1. ASSUME NEW x \in Args(ops[t]), x \notin live
        PROVE  FALSE
    <3>1. x \in param /\ (x = ops[t].self \/ (x = ops[t].module /\ x # None))
      BY <2>1 DEF Args
    <3>2. PICK u \in Threads : Is(u, "close", {"inside", "detach", "del"}) /\ ops[u].self = x
      BY <2>1, <3>1 DEF ParamsStand
    <3>. QED
      BY <1>3, <3>1, <3>2 DEF Is, ApartFrom
  <2>. QED
    BY <2>1
<1>5. ops[t].self \in Engines /\ ops[t].module \in Modules
  BY <1>1 DEF OpsWellFormed, OpsWellFormedFor
<1>6. /\ live' = live /\ twice' = twice /\ used' = used
      /\ nmods' = [nmods EXCEPT ![ops[t].self] = @ \cup {ops[t].module}]
  BY <1>1, <1>4 DEF NativeEffect
<1>7. /\ ops[t].self \in live /\ ops[t].module \in live
      /\ \A e \in Engines : ops[t].module \notin nmods[e]
  BY <1>4, <1>5 DEF Args, AddProgress, AddProgressFor
<1>8. nmods[ops[t].self] = mods[ops[t].self]
  <2>1. SUFFICES ASSUME NEW u \in Threads, Between(u, ops[t].self)
                 PROVE  FALSE
    BY <1>5 DEF SidesAgree
  <2>. QED
    BY <1>3, <2>1 DEF Between, Is, ApartFrom
<1>9. TypeOK'
  BY <1>2, <1>5, <1>6 DEF TypeOK
<1>10. OpsWellFormed'
  BY <1>2, OpTypes, ActiveNext DEF Moves, Others, OpsWellFormed,
     OpsWellFormedFor
<1>11. Separate'
  BY <1>2, ThreadMoves DEF Moves
<1>12. LoopDetaches'
  BY <1>2, <1>3, <1>6, OpTypes, ActiveNext DEF Moves, Others, ApartFrom,
     LoopDetaches, LoopDetachesFor, InDispose
<1>13. CloseProgress'
  BY <1>2, <1>3, <1>6, OpTypes, ActiveNext DEF Moves, Others, ApartFrom,
     CloseProgress, CloseProgressFor
<1>14. AddProgress'
  <2>. SUFFICES ASSUME NEW u \in Active'
              PROVE  AddProgressFor(u)'
    BY DEF AddProgress
  <2>1. CASE u # t
    <3>1. u \in Active
      BY <1>2, ActiveNext DEF Moves
    <3>. QED
      BY <1>2, <1>3, <1>6, <2>1, <3>1, OpTypes DEF Moves, Others, ApartFrom,
         AddProgress, AddProgressFor
  <2>2. CASE u = t
    <3>1. nmods'[ops[t].self] = mods[ops[t].self] \cup {ops[t].module}
      BY <1>5, <1>6, <1>8 DEF TypeOK
    <3>2. /\ ops'[t].self = ops[t].self /\ ops'[t].module = ops[t].module
          /\ ops'[t].at = "inside"
      BY <1>2 DEF Moves
    <3>. QED
      BY <2>2, <3>1, <3>2 DEF AddProgressFor
  <2>. QED
    BY <2>1, <2>2
<1>15. RemoveProgress'
  BY <1>2, <1>3, <1>6, OpTypes, ActiveNext DEF Moves, Others, ApartFrom,
     RemoveProgress, RemoveProgressFor
<1>16. SidesAgree'
  BY <1>2, <1>6 DEF Moves, Others, SidesAgree, Between, Is
<1>17. EnginesOwn'
  BY <1>2, <1>6, <1>7 DEF Moves, Others, EnginesOwn, Is
<1>18. ParamsStand'
  BY <1>2, <1>6 DEF Moves, Others, ParamsStand, Is
<1>19. LiveKept'
  BY <1>2, <1>6 DEF Moves, Others, LiveKept, Is
<1>20. OpenOrClosed'
  BY <1>2 DEF Moves, Others, OpenOrClosed, Is
<1>21. NoUseAfterFree'
  BY <1>6 DEF NoUseAfterFree
<1>22. NoDoubleFree'
  BY <1>6 DEF NoDoubleFree
<1>. QED
  BY <1>9, <1>10, <1>11, <1>12, <1>13, <1>14, <1>15, <1>16, <1>17, <1>18, <1>19,
     <1>20, <1>21, <1>22

\* LLVMPY_RemoveModule: no engine has the module after it.
LEMMA EnterRemoveKeeps ==
    ASSUME Inv, NEW t \in Threads, EnterLibrary(t), Args(ops[t]) \subseteq param, ops[t].name = "remove"
    PROVE  Inv'
<1>. USE ObjectRefAssumption DEF Inv, EnterLibrary, py
<1>1. t \in Active /\ ops[t].name = "remove" /\ ops[t].at = "wait"
  OBVIOUS
<1>2. /\ Moves(t, "inside")
      /\ ops'[t].target = ops[t].target /\ ops'[t].todo = ops[t].todo
      /\ ops'[t].size = ops[t].size
      /\ ops' \in [Threads -> Operation \cup {None}]
  BY <1>1, GotoMoves DEF Steps
<1>3. \A u \in Active : u # t => ApartFrom(t, u) /\ ApartFrom(u, t)
  BY Apart
<1>4. Args(ops[t]) \subseteq live
  <2>1. ASSUME NEW x \in Args(ops[t]), x \notin live
        PROVE  FALSE
    <3>1. x \in param /\ (x = ops[t].self \/ (x = ops[t].module /\ x # None))
      BY <2>1 DEF Args
    <3>2. PICK u \in Threads : Is(u, "close", {"inside", "detach", "del"}) /\ ops[u].self = x
      BY <2>1, <3>1 DEF ParamsStand
    <3>. QED
      BY <1>3, <3>1, <3>2 DEF Is, ApartFrom
  <2>. QED
    BY <2>1
<1>5. ops[t].self \in Engines /\ ops[t].module \in Modules
  BY <1>1 DEF OpsWellFormed, OpsWellFormedFor
<1>6. /\ live' = live /\ twice' = twice /\ used' = used
      /\ nmods' = [nmods EXCEPT ![ops[t].self] = @ \ {ops[t].module}]
  BY <1>1, <1>4 DEF NativeEffect
<1>7. nmods[ops[t].self] = mods[ops[t].self]
  <2>1. SUFFICES ASSUME NEW u \in Threads, Between(u, ops[t].self)
                 PROVE  FALSE
    BY <1>5 DEF SidesAgree
  <2>. QED
    BY <1>3, <2>1 DEF Between, Is, ApartFrom
<1>8. /\ ops[t].module \in live \cap param
      /\ ops[t].module \in nmods[ops[t].self]
  BY <1>4, <1>5, <1>7 DEF Args, RemoveProgress, RemoveProgressFor
<1>9. \A e \in Engines : ops[t].module \notin nmods'[e]
  BY <1>5, <1>6, <1>8 DEF EnginesOwn, TypeOK
<1>10. TypeOK'
  BY <1>2, <1>5, <1>6 DEF TypeOK
<1>11. OpsWellFormed'
  BY <1>2, OpTypes, ActiveNext DEF Moves, Others, OpsWellFormed,
     OpsWellFormedFor
<1>12. Separate'
  BY <1>2, ThreadMoves DEF Moves
<1>13. LoopDetaches'
  BY <1>2, <1>3, <1>6, OpTypes, ActiveNext DEF Moves, Others, ApartFrom,
     LoopDetaches, LoopDetachesFor, InDispose
<1>14. CloseProgress'
  BY <1>2, <1>6, OpTypes, ActiveNext DEF Moves, Others, CloseProgress,
     CloseProgressFor
<1>15. AddProgress'
  BY <1>2, <1>3, <1>6, OpTypes, ActiveNext DEF Moves, Others, ApartFrom,
     AddProgress, AddProgressFor
<1>16. RemoveProgress'
  BY <1>2, <1>5, <1>6, <1>7, <1>8, <1>9, OpTypes, ActiveNext DEF Moves, Others,
     RemoveProgress, RemoveProgressFor
<1>17. SidesAgree'
  BY <1>2, <1>6 DEF Moves, Others, SidesAgree, Between, Is
<1>18. EnginesOwn'
  BY <1>2, <1>6 DEF Moves, Others, EnginesOwn, Is
<1>19. ParamsStand'
  BY <1>2, <1>6 DEF Moves, Others, ParamsStand, Is
<1>20. LiveKept'
  BY <1>2, <1>6, <1>8 DEF Moves, Others, LiveKept, Is
<1>21. OpenOrClosed'
  BY <1>2 DEF Moves, Others, OpenOrClosed, Is
<1>22. NoUseAfterFree'
  BY <1>6 DEF NoUseAfterFree
<1>23. NoDoubleFree'
  BY <1>6 DEF NoDoubleFree
<1>. QED
  BY <1>10, <1>11, <1>12, <1>13, <1>14, <1>15, <1>16, <1>17, <1>18, <1>19,
     <1>20, <1>21, <1>22, <1>23

\* LLVMPY_DisposeExecutionEngine: the modules it frees have no wrapper to free them.
LEMMA EnterCloseEngineKeeps ==
    ASSUME Inv, NEW t \in Threads, EnterLibrary(t), Args(ops[t]) \subseteq param, ops[t].name = "close", ops[t].self \in Engines
    PROVE  Inv'
<1>. USE ObjectRefAssumption DEF Inv, EnterLibrary, py
<1>1. t \in Active /\ ops[t].name = "close" /\ ops[t].at = "wait" /\ ops[t].self \in Engines
  OBVIOUS
<1>2. /\ Moves(t, "inside")
      /\ ops'[t].target = ops[t].target /\ ops'[t].todo = ops[t].todo
      /\ ops'[t].size = ops[t].size
      /\ ops' \in [Threads -> Operation \cup {None}]
  BY <1>1, GotoMoves DEF Steps
<1>3. \A u \in Active : u # t => ApartFrom(t, u) /\ ApartFrom(u, t)
  BY Apart
<1>4. Args(ops[t]) \subseteq live
  <2>1. ASSUME NEW x \in Args(ops[t]), x \notin live
        PROVE  FALSE
    <3>1. x \in param /\ (x = ops[t].self \/ (x = ops[t].module /\ x # None))
      BY <2>1 DEF Args
    <3>2. PICK u \in Threads : Is(u, "close", {"inside", "detach", "del"}) /\ ops[u].self = x
      BY <2>1, <3>1 DEF ParamsStand
    <3>. QED
      BY <1>3, <3>1, <3>2 DEF Is, ApartFrom
  <2>. QED
    BY <2>1
<1>5. /\ ops[t].self \in live \cap param /\ ops[t].self \notin Modules
      /\ mods[ops[t].self] = {} /\ nmods[ops[t].self] \cap param = {}
      /\ ops[t].target = ops[t].self
  BY DEF CloseProgress, CloseProgressFor, OpsWellFormed, OpsWellFormedFor
<1>6. nmods[ops[t].self] \subseteq live /\ nmods[ops[t].self] \subseteq Modules
  BY <1>1 DEF EnginesOwn, TypeOK
<1>7. /\ live' = live \ ({ops[t].self} \cup nmods[ops[t].self])
      /\ twice' = twice /\ used' = used
      /\ nmods' = [nmods EXCEPT ![ops[t].self] = {}]
  BY <1>1, <1>4, <1>5, <1>6 DEF NativeEffect
<1>8. \A f \in Engines \ {ops[t].self} :
         nmods'[f] = nmods[f] /\ nmods[f] \cap nmods[ops[t].self] = {}
  BY <1>7 DEF EnginesOwn
<1>9. nmods'[ops[t].self] = {}
  BY <1>1, <1>7 DEF TypeOK
<1>10. TypeOK'
  BY <1>2, <1>7 DEF TypeOK
<1>11. OpsWellFormed'
  BY <1>2, OpTypes, ActiveNext DEF Moves, Others, OpsWellFormed,
     OpsWellFormedFor
<1>12. Separate'
  BY <1>2, ThreadMoves DEF Moves
<1>13. LoopDetaches'
  <2>. SUFFICES ASSUME NEW u \in Active'
              PROVE  LoopDetachesFor(u)'
    BY DEF LoopDetaches
  <2>1. CASE u # t
    <3>1. u \in Active
      BY <1>2, ActiveNext DEF Moves
    <3>. QED
      <4>1. /\ ops'[u] = ops[u] /\ (ops[u].name = "close" => ops[u].self # ops[t].self)
        BY <1>2, <1>3, <2>1, <3>1, OpTypes DEF Moves, Others, ApartFrom
      <4>2. LoopDetachesFor(u)
        BY <3>1 DEF LoopDetaches
      <4>3. ASSUME InDispose(ops[u])
            PROVE  /\ ops[u].self \in live' /\ ops[u].self \in Engines
                   /\ nmods'[ops[u].self] = nmods[ops[u].self]
        <5>1. ops[u].name = "close" /\ ops[u].self \in Engines /\ ops[u].self \in live
          BY <3>1, <4>2, <4>3 DEF InDispose, OpsWellFormed, OpsWellFormedFor,
             LoopDetachesFor
        <5>. QED
          BY <1>6, <1>7, <4>1, <5>1
      <4>. QED
        BY <4>1, <4>2, <4>3 DEF LoopDetachesFor
  <2>2. CASE u = t
    BY <1>2, <1>5, <2>2 DEF Moves, LoopDetachesFor, InDispose
  <2>. QED
    BY <2>1, <2>2
<1>14. CloseProgress'
  BY <1>2, <1>3, <1>7, OpTypes, ActiveNext DEF Moves, Others, ApartFrom,
     CloseProgress, CloseProgressFor
<1>15. AddProgress'
  BY <1>2, <1>3, <1>7, OpTypes, ActiveNext DEF Moves, Others, ApartFrom,
     AddProgress, AddProgressFor
<1>16. RemoveProgress'
  BY <1>2, <1>5, <1>7, OpTypes, ActiveNext DEF Moves, Others, RemoveProgress,
     RemoveProgressFor
<1>17. SidesAgree'
  <2>1. SUFFICES ASSUME NEW f \in Engines, nmods'[f] # mods[f]
                 PROVE  \E u \in Threads : Between(u, f)'
    BY DEF SidesAgree
  <2>2. f # ops[t].self /\ nmods[f] # mods[f]
    BY <1>5, <1>8, <1>9, <2>1
  <2>3. PICK u \in Threads : Between(u, f)
    BY <2>2 DEF SidesAgree
  <2>4. u # t
    BY <2>2, <2>3 DEF Between
  <2>. QED
    BY <1>2, <2>3, <2>4 DEF Between, Is, Moves, Others
<1>18. EnginesOwn'
  <2>1. ASSUME NEW f \in Engines, NEW m \in nmods'[f]
        PROVE  /\ f \in live' /\ m \in live'
               /\ \/ m \in owned
                  \/ \E u \in Threads : /\ Is(u, "add", {"inside", "own"})'
                                        /\ ops'[u].self = f /\ ops'[u].module = m
    <3>1. f # ops[t].self /\ m \in nmods[f]
      BY <1>8, <1>9, <2>1
    <3>2. m \notin nmods[ops[t].self] /\ m \in Modules
      BY <1>8, <3>1 DEF TypeOK
    <3>3. f \in live' /\ m \in live'
      BY <1>6, <1>7, <3>2 DEF EnginesOwn
    <3>4. ASSUME m \notin owned
          PROVE  \E u \in Threads : /\ Is(u, "add", {"inside", "own"})'
                                    /\ ops'[u].self = f /\ ops'[u].module = m
      <4>1. PICK u \in Threads : /\ Is(u, "add", {"inside", "own"})
                                 /\ ops[u].self = f /\ ops[u].module = m
        BY <3>1, <3>4 DEF EnginesOwn
      <4>. QED
        BY <1>2, <4>1 DEF Is, Moves, Others
    <3>. QED
      BY <3>3, <3>4
  <2>2. \A e, f \in Engines : e # f => nmods'[e] \cap nmods'[f] = {}
    BY <1>8, <1>9 DEF EnginesOwn
  <2>. QED
    BY <2>1, <2>2 DEF EnginesOwn
<1>19. ParamsStand'
  BY <1>2, <1>5, <1>7 DEF Moves, Others, ParamsStand, Is
<1>20. LiveKept'
  BY <1>2, <1>7 DEF Moves, Others, LiveKept, Is
<1>21. OpenOrClosed'
  BY <1>2 DEF Moves, Others, OpenOrClosed, Is
<1>22. NoUseAfterFree'
  BY <1>7 DEF NoUseAfterFree
<1>23. NoDoubleFree'
  BY <1>7 DEF NoDoubleFree
<1>. QED
  BY <1>10, <1>11, <1>12, <1>13, <1>14, <1>15, <1>16, <1>17, <1>18, <1>19,
     <1>20, <1>21, <1>22, <1>23

\* LLVMPY_DisposeModule: no engine has the module.
LEMMA EnterCloseModuleKeeps ==
    ASSUME Inv, NEW t \in Threads, EnterLibrary(t), Args(ops[t]) \subseteq param, ops[t].name = "close", ops[t].self \notin Engines
    PROVE  Inv'
<1>. USE ObjectRefAssumption DEF Inv, EnterLibrary, py
<1>1. t \in Active /\ ops[t].name = "close" /\ ops[t].at = "wait" /\ ops[t].self \notin Engines
  OBVIOUS
<1>2. /\ Moves(t, "inside")
      /\ ops'[t].target = ops[t].target /\ ops'[t].todo = ops[t].todo
      /\ ops'[t].size = ops[t].size
      /\ ops' \in [Threads -> Operation \cup {None}]
  BY <1>1, GotoMoves DEF Steps
<1>3. \A u \in Active : u # t => ApartFrom(t, u) /\ ApartFrom(u, t)
  BY Apart
<1>4. Args(ops[t]) \subseteq live
  <2>1. ASSUME NEW x \in Args(ops[t]), x \notin live
        PROVE  FALSE
    <3>1. x \in param /\ (x = ops[t].self \/ (x = ops[t].module /\ x # None))
      BY <2>1 DEF Args
    <3>2. PICK u \in Threads : Is(u, "close", {"inside", "detach", "del"}) /\ ops[u].self = x
      BY <2>1, <3>1 DEF ParamsStand
    <3>. QED
      BY <1>3, <3>1, <3>2 DEF Is, ApartFrom
  <2>. QED
    BY <2>1
<1>5. /\ ops[t].self \in live \cap param /\ ops[t].self \in Modules
      /\ ops[t].target = ops[t].self
      /\ \A e \in Engines : ops[t].self \notin nmods[e]
  BY OpTypes DEF CloseProgress, CloseProgressFor, OpsWellFormed,
     OpsWellFormedFor
<1>6. /\ live' = live \ {ops[t].self}
      /\ twice' = twice /\ used' = used /\ nmods' = nmods
  BY <1>1, <1>4, <1>5 DEF NativeEffect
<1>7. TypeOK'
  BY <1>2, <1>6 DEF TypeOK
<1>8. OpsWellFormed'
  BY <1>2, OpTypes, ActiveNext DEF Moves, Others, OpsWellFormed,
     OpsWellFormedFor
<1>9. Separate'
  BY <1>2, ThreadMoves DEF Moves
<1>10. LoopDetaches'
  BY <1>2, <1>3, <1>5, <1>6, OpTypes, ActiveNext DEF Moves, Others, ApartFrom,
     LoopDetaches, LoopDetachesFor, InDispose
<1>11. CloseProgress'
  BY <1>2, <1>3, <1>6, OpTypes, ActiveNext DEF Moves, Others, ApartFrom,
     CloseProgress, CloseProgressFor
<1>12. AddProgress'
  BY <1>2, <1>6, OpTypes, ActiveNext DEF Moves, Others, AddProgress,
     AddProgressFor
<1>13. RemoveProgress'
  BY <1>2, <1>3, <1>6, OpTypes, ActiveNext DEF Moves, Others, ApartFrom,
     RemoveProgress, RemoveProgressFor
<1>14. SidesAgree'
  BY <1>2, <1>6 DEF Moves, Others, SidesAgree, Between, Is
<1>15. EnginesOwn'
  BY <1>2, <1>5, <1>6 DEF Moves, Others, EnginesOwn, Is
<1>16. ParamsStand'
  BY <1>2, <1>6 DEF Moves, Others, ParamsStand, Is
<1>17. LiveKept'
  BY <1>2, <1>6 DEF Moves, Others, LiveKept, Is
<1>18. OpenOrClosed'
  BY <1>2 DEF Moves, Others, OpenOrClosed, Is
<1>19. NoUseAfterFree'
  BY <1>6 DEF NoUseAfterFree
<1>20. NoDoubleFree'
  BY <1>6 DEF NoDoubleFree
<1>. QED
  BY <1>7, <1>8, <1>9, <1>10, <1>11, <1>12, <1>13, <1>14, <1>15, <1>16, <1>17,
     <1>18, <1>19, <1>20

\* A call ends.
LEMMA LeaveCallKeeps ==
    ASSUME Inv, NEW t \in Threads, LeaveLibrary(t), ops[t].name = "call"
    PROVE  Inv'
<1>. USE ObjectRefAssumption DEF Inv, LeaveLibrary, py, native
<1>1. t \in Active /\ ops[t].name = "call" /\ ops[t].at = "inside"
  OBVIOUS
<1>2. /\ Active' = Active \ {t} /\ t \notin Active' /\ Others(t)
      /\ ops' \in [Threads -> Operation \cup {None}]
  BY <1>1, FinishEnds
<1>3. TypeOK'
  BY <1>2 DEF TypeOK
<1>4. OpsWellFormed'
  BY <1>2, OpTypes DEF Others, OpsWellFormed, OpsWellFormedFor
<1>5. Separate'
  BY <1>2, ThreadMoves
<1>6. LoopDetaches'
  BY <1>2, OpTypes DEF Others, LoopDetaches, LoopDetachesFor
<1>7. CloseProgress'
  BY <1>2, OpTypes DEF Others, CloseProgress, CloseProgressFor
<1>8. AddProgress'
  BY <1>2, OpTypes DEF Others, AddProgress, AddProgressFor
<1>9. RemoveProgress'
  BY <1>2, OpTypes DEF Others, RemoveProgress, RemoveProgressFor
<1>10. SidesAgree'
  BY <1>2 DEF Others, SidesAgree, Between, Is
<1>11. EnginesOwn'
  BY <1>2 DEF Others, EnginesOwn, Is
<1>12. ParamsStand'
  BY <1>2 DEF Others, ParamsStand, Is
<1>13. LiveKept'
  BY <1>2 DEF Others, LiveKept, Is
<1>14. OpenOrClosed'
  BY <1>2 DEF Others, OpenOrClosed, Is
<1>15. NoUseAfterFree'
  BY DEF NoUseAfterFree
<1>16. NoDoubleFree'
  BY DEF NoDoubleFree
<1>. QED
  BY <1>3, <1>4, <1>5, <1>6, <1>7, <1>8, <1>9, <1>10, <1>11, <1>12, <1>13,
     <1>14, <1>15, <1>16

\* The object is freed; its wrapper is still to be detached.
LEMMA LeaveCloseKeeps ==
    ASSUME Inv, NEW t \in Threads, LeaveLibrary(t), ops[t].name = "close"
    PROVE  Inv'
<1>. USE ObjectRefAssumption DEF Inv, LeaveLibrary, py, native
<1>1. t \in Active /\ ops[t].name = "close" /\ ops[t].at = "inside"
  OBVIOUS
<1>2. /\ Moves(t, "detach")
      /\ ops'[t].target = ops[t].target /\ ops'[t].todo = ops[t].todo
      /\ ops'[t].size = ops[t].size
      /\ ops' \in [Threads -> Operation \cup {None}]
  BY <1>1, GotoMoves DEF Steps
<1>3. TypeOK'
  BY <1>2 DEF TypeOK
<1>4. OpsWellFormed'
  BY <1>2, OpTypes, ActiveNext DEF Moves, Others, OpsWellFormed,
     OpsWellFormedFor
<1>5. Separate'
  BY <1>2, ThreadMoves DEF Moves
<1>6. LoopDetaches'
  BY <1>2, OpTypes, ActiveNext DEF Moves, Others, LoopDetaches, LoopDetachesFor,
     InDispose
<1>7. CloseProgress'
  BY <1>2, OpTypes, ActiveNext DEF Moves, Others, CloseProgress,
     CloseProgressFor
<1>8. AddProgress'
  BY <1>2, OpTypes, ActiveNext DEF Moves, Others, AddProgress, AddProgressFor
<1>9. RemoveProgress'
  BY <1>2, OpTypes, ActiveNext DEF Moves, Others, RemoveProgress,
     RemoveProgressFor
<1>10. SidesAgree'
  BY <1>2 DEF Moves, Others, SidesAgree, Between, Is
<1>11. EnginesOwn'
  BY <1>2 DEF Moves, Others, EnginesOwn, Is
<1>12. ParamsStand'
  BY <1>2 DEF Moves, Others, ParamsStand, Is
<1>13. LiveKept'
  BY <1>2 DEF Moves, Others, LiveKept, Is
<1>14. OpenOrClosed'
  BY <1>2 DEF Moves, Others, OpenOrClosed, Is
<1>15. NoUseAfterFree'
  BY DEF NoUseAfterFree
<1>16. NoDoubleFree'
  BY DEF NoDoubleFree
<1>. QED
  BY <1>3, <1>4, <1>5, <1>6, <1>7, <1>8, <1>9, <1>10, <1>11, <1>12, <1>13,
     <1>14, <1>15, <1>16

\* The engine has the module; its wrapper does not know it yet.
LEMMA LeaveAddKeeps ==
    ASSUME Inv, NEW t \in Threads, LeaveLibrary(t), ops[t].name = "add"
    PROVE  Inv'
<1>. USE ObjectRefAssumption DEF Inv, LeaveLibrary, py, native
<1>1. t \in Active /\ ops[t].name = "add" /\ ops[t].at = "inside"
  OBVIOUS
<1>2. /\ Moves(t, "own")
      /\ ops'[t].target = ops[t].target /\ ops'[t].todo = ops[t].todo
      /\ ops'[t].size = ops[t].size
      /\ ops' \in [Threads -> Operation \cup {None}]
  BY <1>1, GotoMoves DEF Steps
<1>3. TypeOK'
  BY <1>2 DEF TypeOK
<1>4. OpsWellFormed'
  BY <1>2, OpTypes, ActiveNext DEF Moves, Others, OpsWellFormed,
     OpsWellFormedFor
<1>5. Separate'
  BY <1>2, ThreadMoves DEF Moves
<1>6. LoopDetaches'
  BY <1>2, OpTypes, ActiveNext DEF Moves, Others, LoopDetaches, LoopDetachesFor,
     InDispose
<1>7. CloseProgress'
  BY <1>2, OpTypes, ActiveNext DEF Moves, Others, CloseProgress,
     CloseProgressFor
<1>8. AddProgress'
  BY <1>2, OpTypes, ActiveNext DEF Moves, Others, AddProgress, AddProgressFor
<1>9. RemoveProgress'
  BY <1>2, OpTypes, ActiveNext DEF Moves, Others, RemoveProgress,
     RemoveProgressFor
<1>10. SidesAgree'
  BY <1>2 DEF Moves, Others, SidesAgree, Between, Is
<1>11. EnginesOwn'
  BY <1>2 DEF Moves, Others, EnginesOwn, Is
<1>12. ParamsStand'
  BY <1>2 DEF Moves, Others, ParamsStand, Is
<1>13. LiveKept'
  BY <1>2 DEF Moves, Others, LiveKept, Is
<1>14. OpenOrClosed'
  BY <1>2 DEF Moves, Others, OpenOrClosed, Is
<1>15. NoUseAfterFree'
  BY DEF NoUseAfterFree
<1>16. NoDoubleFree'
  BY DEF NoDoubleFree
<1>. QED
  BY <1>3, <1>4, <1>5, <1>6, <1>7, <1>8, <1>9, <1>10, <1>11, <1>12, <1>13,
     <1>14, <1>15, <1>16

\* The engine has given the module back; its wrapper does not know it yet.
LEMMA LeaveRemoveKeeps ==
    ASSUME Inv, NEW t \in Threads, LeaveLibrary(t), ops[t].name = "remove"
    PROVE  Inv'
<1>. USE ObjectRefAssumption DEF Inv, LeaveLibrary, py, native
<1>1. t \in Active /\ ops[t].name = "remove" /\ ops[t].at = "inside"
  OBVIOUS
<1>2. /\ Moves(t, "remove")
      /\ ops'[t].target = ops[t].target /\ ops'[t].todo = ops[t].todo
      /\ ops'[t].size = ops[t].size
      /\ ops' \in [Threads -> Operation \cup {None}]
  BY <1>1, GotoMoves DEF Steps
<1>3. TypeOK'
  BY <1>2 DEF TypeOK
<1>4. OpsWellFormed'
  BY <1>2, OpTypes, ActiveNext DEF Moves, Others, OpsWellFormed,
     OpsWellFormedFor
<1>5. Separate'
  BY <1>2, ThreadMoves DEF Moves
<1>6. LoopDetaches'
  BY <1>2, OpTypes, ActiveNext DEF Moves, Others, LoopDetaches, LoopDetachesFor,
     InDispose
<1>7. CloseProgress'
  BY <1>2, OpTypes, ActiveNext DEF Moves, Others, CloseProgress,
     CloseProgressFor
<1>8. AddProgress'
  BY <1>2, OpTypes, ActiveNext DEF Moves, Others, AddProgress, AddProgressFor
<1>9. RemoveProgress'
  BY <1>2, OpTypes, ActiveNext DEF Moves, Others, RemoveProgress,
     RemoveProgressFor
<1>10. SidesAgree'
  BY <1>2 DEF Moves, Others, SidesAgree, Between, Is
<1>11. EnginesOwn'
  BY <1>2 DEF Moves, Others, EnginesOwn, Is
<1>12. ParamsStand'
  BY <1>2 DEF Moves, Others, ParamsStand, Is
<1>13. LiveKept'
  BY <1>2 DEF Moves, Others, LiveKept, Is
<1>14. OpenOrClosed'
  BY <1>2 DEF Moves, Others, OpenOrClosed, Is
<1>15. NoUseAfterFree'
  BY DEF NoUseAfterFree
<1>16. NoDoubleFree'
  BY DEF NoDoubleFree
<1>. QED
  BY <1>3, <1>4, <1>5, <1>6, <1>7, <1>8, <1>9, <1>10, <1>11, <1>12, <1>13,
     <1>14, <1>15, <1>16

-----------------------------------------------------------------------------
(* The invariant *)

\* Every step of a thread preserves the invariant.
LEMMA StepKeeps ==
    ASSUME Inv, NEW t \in Threads, Step(t)
    PROVE  Inv'
<1>1. CASE CloseTest(t)
  <2>1. ops[t].self \in Objects
    BY <1>1, OpTypes DEF CloseTest, At, Inv, Objects
  <2>. QED
    BY <1>1, CloseTestDetachKeeps, CloseTestModuleKeeps, CloseTestEngineKeeps
<1>2. CASE LoopStep(t)
  BY <1>2, LoopEndKeeps, LoopStepKeeps
<1>3. CASE ClearModules(t)
  BY <1>3, ClearModulesKeeps
<1>4. CASE DetachTest(t)
  BY <1>4, DetachTestOpenKeeps, DetachTestLoopKeeps, DetachTestEndKeeps
<1>5. CASE DetachDel(t)
  BY <1>5, DetachDelKeeps
<1>6. CASE DetachSet(t)
  BY <1>6, DetachSetLoopKeeps, DetachSetEndKeeps
<1>7. CASE EnterLibrary(t)
  <2>1. ops[t].name \in {"call", "close", "add", "remove"}
    BY <1>7, OpTypes DEF EnterLibrary, Inv
  <2>. QED
    BY <1>7, <2>1, EnterRefusedKeeps, EnterCallKeeps, EnterAddKeeps,
       EnterRemoveKeeps, EnterCloseEngineKeeps, EnterCloseModuleKeeps
<1>8. CASE LeaveLibrary(t)
  <2>1. ops[t].name \in {"call", "close", "add", "remove"}
    BY <1>8, OpTypes DEF LeaveLibrary, Inv
  <2>. QED
    BY <1>8, <2>1, LeaveCallKeeps, LeaveCloseKeeps, LeaveAddKeeps,
       LeaveRemoveKeeps
<1>9. CASE AddOwn(t)
  BY <1>9, AddOwnKeeps
<1>10. CASE AddModule(t)
  BY <1>10, AddModuleKeeps
<1>11. CASE RemoveModule(t)
  BY <1>11, RemoveModuleKeeps
<1>12. CASE RemoveDisown(t)
  BY <1>12, RemoveDisownKeeps
<1>. QED
  BY <1>1, <1>2, <1>3, <1>4, <1>5, <1>6, <1>7, <1>8, <1>9, <1>10, <1>11, <1>12
     DEF Step

\* The program begins with engines that have a module each, and no operation.
LEMMA InitInv == Init => Inv
<1>. SUFFICES ASSUME Init
              PROVE  Inv
  OBVIOUS
<1>. USE DEF Init
<1>1. Active = {}
  BY DEF Active
<1>2. /\ mods \in [Engines -> SUBSET Modules]
      /\ \A d, e \in Engines : d # e => mods[d] \cap mods[e] = {}
  OBVIOUS
<1>3. owned \subseteq Modules
  BY <1>2
<1>4. \A m \in owned : \E e \in Engines : m \in nmods[e]
  OBVIOUS
<1>5. TypeOK
  BY <1>2, <1>3 DEF TypeOK
<1>6. /\ OpsWellFormed /\ Separate /\ LoopDetaches /\ CloseProgress
      /\ AddProgress /\ RemoveProgress
  BY <1>1 DEF OpsWellFormed, Separate, LoopDetaches, CloseProgress, AddProgress,
     RemoveProgress
<1>7. SidesAgree /\ ParamsStand /\ OpenOrClosed
  BY DEF SidesAgree, ParamsStand, OpenOrClosed
<1>8. EnginesOwn
  BY DEF EnginesOwn, Objects
<1>9. LiveKept
  BY <1>4 DEF LiveKept, Objects
<1>. QED
  BY <1>5, <1>6, <1>7, <1>8, <1>9 DEF Inv, NoUseAfterFree, NoDoubleFree

\* A step that changes nothing preserves the invariant.
LEMMA StutterKeeps == Inv /\ UNCHANGED vars => Inv'
<1>. SUFFICES ASSUME Inv, UNCHANGED vars
              PROVE  Inv'
  OBVIOUS
<1>. USE DEF Inv, vars
<1>1. Active' = Active
  BY DEF Active
<1>2. TypeOK' /\ NoUseAfterFree' /\ NoDoubleFree'
  BY DEF TypeOK, NoUseAfterFree, NoDoubleFree
<1>3. OpsWellFormed' /\ Separate'
  BY <1>1 DEF OpsWellFormed, OpsWellFormedFor, Separate, Changed
<1>4. LoopDetaches' /\ CloseProgress'
  BY <1>1 DEF LoopDetaches, LoopDetachesFor, CloseProgress, CloseProgressFor
<1>5. AddProgress' /\ RemoveProgress'
  BY <1>1 DEF AddProgress, AddProgressFor, RemoveProgress, RemoveProgressFor
<1>6. SidesAgree' /\ EnginesOwn'
  BY <1>1 DEF SidesAgree, EnginesOwn, Between, Is
<1>7. ParamsStand' /\ LiveKept' /\ OpenOrClosed'
  BY <1>1 DEF ParamsStand, LiveKept, OpenOrClosed, Is
<1>. QED
  BY <1>2, <1>3, <1>4, <1>5, <1>6, <1>7

\* The invariant holds in every state, for any number of threads, engines and
\* modules.
THEOREM ObjectRefInvariant == Spec => []Inv
<1>1. Inv /\ [Next]_vars => Inv'
  <2>. SUFFICES ASSUME Inv, Next
                PROVE  Inv'
    BY StutterKeeps
  <2>1. PICK t \in Threads :
           \/ Step(t)
           \/ \E x \in Objects : StartCall(t, x) \/ StartClose(t, x)
           \/ \E e \in Engines, m \in Modules : StartAdd(t, e, m) \/ StartRemove(t, e, m)
    BY DEF Next
  <2>. QED
    BY <2>1, StepKeeps, StartCallKeeps, StartCloseKeeps, StartAddKeeps,
       StartRemoveKeeps
<1>. QED
  BY InitInv, <1>1, PTL DEF Spec

\* ObjectRef.close, ExecutionEngine._dispose, add_module and remove_module,
\* interleaved at every step between two library calls: no library call is
\* given the pointer of a freed object.
THEOREM NoFreedObjectUsed == Spec => []NoUseAfterFree
BY ObjectRefInvariant, PTL DEF Inv

\* And no object is freed twice, by its wrapper or by the engine that had it.
THEOREM ObjectsFreedOnce == Spec => []NoDoubleFree
BY ObjectRefInvariant, PTL DEF Inv

\* With no operation in progress each object has a wrapper that will free it, or
\* an engine that will.
THEOREM ObjectsHaveOwners == Spec => []NothingLost
<1>1. Inv => NothingLost
  <2>. SUFFICES ASSUME Inv, Active = {}, NEW x \in live
                PROVE  \/ x \in param \ owned
                       \/ \E e \in Engines \cap live : x \in nmods[e]
    BY DEF NothingLost
  <2>1. CASE x \in Engines
    BY <2>1, ObjectRefAssumption DEF Inv, LiveKept, TypeOK
  <2>2. CASE x \in Modules
    BY <2>2 DEF Inv, LiveKept, EnginesOwn, Is
  <2>. QED
    BY <2>1, <2>2 DEF Inv, TypeOK, Objects
<1>. QED
  BY ObjectRefInvariant, <1>1, PTL

=============================================================================
