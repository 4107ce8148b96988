# llvmlite in TLA+

TLA+ specifications of [llvmlite](https://github.com/numba/llvmlite), the
Python binding and IR builder for LLVM that Numba is built on: modules, TLC
configurations that check them on small instances, and proofs checked by TLAPS.

llvmlite has two halves.  `llvmlite.ir` builds the text of an LLVM module in
pure Python.  `llvmlite.binding` wraps LLVM itself: C++ glue in `ffi/` with a C
interface, called through ctypes from Python wrappers that own the native
objects.  What is hard to get right, and hard to test: in the second half, one
global lock with callbacks, native objects that change hands between Python
wrappers and LLVM, wrappers that are closed by the garbage collector at any
moment and from any thread, a JIT shared by several handles, and an
optimisation pass that removes reference counting; in the first, types that are
tracked in Python after LLVM has ceased to have them, and texts, references and
names that are cached while what they are the text of is edited.

## Reading guide

| module | models | checked by | proofs |
|---|---|---|---|
| `LLVMLock` | `ffi._LLVMLock`, `_lib_fn_wrapper.__call__` | `lock` | `LLVMLockProofs` |
| `ObjectRef` | `ffi.ObjectRef` and engine/module hand-over on several threads | `close_race_free` | `ObjectRefProofs` |
| `Ownership` | contexts, modules, target machines, MCJIT engines and who frees them, step by step | `ownership`, `ownership_contexts`; `OwnershipCreateFails.cfg` | `OwnershipProofs` |
| `OwnershipAbs` | the ownership protocol of the documentation | as `ImplementsOwnership` in `ownership` | in `OwnershipProofs` |
| `Handles` | every kind of wrapper: what it owns, reads and keeps alive | `handles`, `handles_managers` | `HandlesProofs` |
| `OrcJIT` | `LLJIT`, `JITLibraryBuilder`, `ResourceTracker` | `orc`; `OrcJITLookup.cfg`, `OrcJITLeaf.cfg` | `OrcJITProofs` |
| `MemoryManager` | `LlvmliteMemoryManager` of `ffi/memorymanager.cpp` | `memory`; `MemoryManagerAlign.cfg` | `MemoryManagerProofs` |
| `RefPrune` | `RefNormalize` and `RefPrune` of `ffi/custom_passes.cpp` | `refprune`; `RefPruneRaise.cfg` | model checking only |
| `IRBuilder` | positions, terminators, `goto_block`, `if_then`, `if_else` | `builder` | `IRBuilderProofs` |
| `IRTypes` | `ir/types.py`: types, their equality, their texts, their elements | in `typing` | model checking only |
| `IRInstructions` | checks, result types and texts of every instruction and constant operation; intrinsics | in `typing` | model checking only |
| `IRTyping` | a caller of all of these, and LLVM, which reads the text | `typing`; `IRTypingConstants.cfg`, `IRTypingVectors.cfg`, `IRTypingIntrinsics.cfg` | model checking only |
| `NameScope` | `ir/_utils.NameScope` | in `text` | in `IRTextProofs` |
| `IRMetadata` | metadata nodes of `ir.Module`: sharing and numbering | in `text` | in `IRTextProofs` |
| `IRText` | a module that is built, printed, renamed and edited | `text`; `IRTextUnique.cfg`, `IRTextTokens.cfg`, `IRTextReplace.cfg` | `IRTextProofs` |
| `MC...` | bounds, pools, graphs, symmetry of the runs of the module they are named after | | |

`IRTyping` extends `IRInstructions`, which extends `IRTypes`; `IRText` extends
`IRMetadata`, which extends `NameScope`; `Ownership` instantiates
`OwnershipAbs`.  The others describe one component each, seen at the grain its
hazards need: the life of a wrapper is one step in `Handles`, several in
`Ownership`, where collection happens between them, and more in `ObjectRef`,
where other threads do.

Run a configuration with `tlc -config X.cfg M`, a proof with `tlapm M.tla`.
`PROJECT.json` lists the components, the runs, the lines of the source each
definition stands for, the hazards and the theorems.  The configurations named
after a semicolon are not runs of `PROJECT.json`: each isolates one situation
that a run leaves out or excuses, and TLC ends it with a counterexample to its
one property.  They are described with their module below, and listed under
"Divergences found".

## Inventory

### The library lock (`binding/ffi.py`)

*State*: an `RLock`, the list `_cblist` of callback pairs.  *Operations*: every
call of a C function takes the lock, calls each `acq_fn`, converts the
arguments, calls the function, calls each `rel_fn`, releases.  `register` and
`unregister` edit the list without the lock.  *Interactions*: everything below.
Callbacks, and Python callbacks that LLVM makes (object cache hooks), call the
library again on the same thread.  *Hard*: re-entrance, exceptions in callbacks,
edits of the list between the two loops over it.  *Correct when*: one thread at
a time is in LLVM, whatever callbacks do; the count is exact; `rel_fn`s match
`acq_fn`s; the lock is freed in the end.

### Wrappers (`binding/ffi.py`: `ObjectRef`, `_lib_fn_wrapper`)

*State*: `_ptr`, `_closed`, `_owned` of each wrapper.  *Operations*: conversion
to an argument, `close`, `detach`, `__del__`.  *Hard*: the checks run outside
the lock, on any thread, and `__del__` at any time.  *Correct when*: no pointer
of a freed object reaches LLVM, nothing is freed twice, nothing is lost.

### Contexts, modules, target machines and MCJIT engines (`binding/context.py`, `module.py`, `targets.py`, `linker.py`, `executionengine.py`, `ffi/executionengine.cpp`)

*State*: Python side `_owned`, `_modules`, `_context`, `_td` and the references
that keep wrappers alive; native side which object exists and which engine owns
which modules and target machine.  *Operations*: parse, clone, link, create an
engine (and fail), `add_module`, `remove_module`, `close`, collection.  *Hard*:
two books on ownership that are changed one after the other; what CPython
collects in the middle of `close`.  *Correct when*: every native object has one
owner and is freed once, and contexts outlive their modules.

### ORC JIT (`binding/orcjit.py`, `ffi/orcjit.cpp`)

*State*: the native JIT behind a `std::shared_ptr`, one `JITDylib` per library,
the trackers Python holds.  *Operations*: create, link (and fail half-way),
look up, dispose of a tracker, close.  *Hard*: trackers outlive the `LLJIT`;
several trackers of one library; prerequisites that are unloaded.  *Correct
when*: the JIT lives as long as anything needs it, addresses and prerequisites
stay valid, names are not reused.

### IR builder (`ir/builder.py`, `Block` of `ir/values.py`)

*State*: the instruction list and terminator of each block, the builder's block
and anchor, and the `with` statements in progress.  *Operations*: insert,
position, remove, `goto_block`, `goto_entry_block`, `if_then`, `if_else`.
*Hard*: bodies that end in another block than they began in, bodies that raise,
an anchor that is an index into a list that changes.  *Correct when*: a block
says truly which terminator it has, the terminator is last, and the helpers
leave no block open.

### Reference-count pruning (`ffi/custom_passes.cpp`)

*State*: the increfs and decrefs of a function's blocks.  *Operations*: move
decrefs back, then four subpasses until nothing changes.  *Hard*: loops,
aliases, raising paths, walks that give up.  *Correct when*: on every path
through the function the counts come out as before, and no object dies early.

### JIT memory manager (`ffi/memorymanager.cpp`)

*State*: for each of three groups of sections the free blocks and the blocks
pending protection; the mappings.  *Operations*: reserve the space of an object,
allocate its sections, finalise, release.  *Interactions*: LLVM's RuntimeDyld is
the caller, on behalf of an engine made with `use_lmm`.  *Hard*: gaps between
aligned sections, pages shared by finished and new sections, memory left over
from earlier objects, a finalisation that fails half-way.  *Correct when*: sections
are disjoint, always found, writable until they are finalised and protected
afterwards, and those of an object are close together.

### Values, types, iterators, data layouts, caches, pass builders, object files (`binding/value.py`, `typeref.py`, `module.py`, `targets.py`, `newpassmanagers.py`, `object_file.py`)

*State*: of each wrapper the native object, `_owned`, and the attributes that
keep other wrappers alive (`_parents`, `_context`, `_td`, `_tm`, `_pto`,
`_modules`, `_object_cache`).  *Operations*: iterate, take the next item, look
up by name, clone, copy a data layout, set a cache, build a pass manager, and,
in any order, close and drop.  *Hard*: the chain from an operand back to its
context has up to six links, made in six places, and any of them may be all
that is left of it.  *Correct when*: what an open wrapper reads exists, nothing
is freed twice, and nothing is left that no wrapper will free.

### Types, constants and instructions (`ir/types.py`, `instructions.py`, `values.py`, `builder.py`)

*State*: the types of the values made so far, the declared intrinsics, the
bodies of structs with a name.  *Operations*: every method of `IRBuilder` and
every operation on constants: what it checks, the type of its result, the types
it prints; `declare_intrinsic` and its wrappers; conversion of types that LLVM
has read.  *Hard*: llvmlite keeps typed pointers and LLVM has none, so that the
type of a load rests on a chain of computed types that the text no longer
shows; equality of types is not transitive; constants repeat the work of
instructions with other checks, in a language that LLVM has since cut down.  *Correct when*: LLVM accepts what the builder
accepts and gives it the type llvmlite goes on with.

### Names, texts and metadata (`ir/_utils.py`, `values.py`, `instructions.py`, `module.py`, `transforms.py`)

*State*: the name scopes of module and function; each value's name, cached
reference, cached text, operands and metadata; the metadata cache and list.
*Operations*: make, name, rename, print, replace, edit, ask for metadata.
*Hard*: caches that only some edits clear, a counter shared by names of several
sorts, keys of the metadata cache that are not the contents.  *Correct when*: the
text says what the objects say, no two definitions have one name, and a node has
the contents that were asked for.

### Not modelled

* **Library loading** (`_lib_wrapper`): a lazy load that the source says is "Not
  threadsafe" (`ffi.py:148`); on one thread it has one order of steps.
* **`add_object_file` and the callbacks of the object cache**
  (`executionengine.py`): what LLVM does with them is not visible in the sources.
* **What the passes do** (`newpassmanagers.py`): some fifty `add_..._pass`
  methods, each a call into LLVM without state on this side; the life of
  builders and managers is in `Handles`, `RefPrune` is the one pass of llvmlite's
  own.
* **Passes that delete a value under its wrapper**: nothing in the code or the
  documentation promises anything of such a wrapper.
* **Garbage with cycles**: Python finalises the members of a cycle in any
  order, a context before its module for instance.  The models collect what
  reference counting collects.
* **Triples, features, sizes and alignments; attributes, linkage and flags;
  number and string formats**: read from LLVM or written to the text as they
  are, without state.
* **Linker, dylib, analysis, bitcode and assembly glue, options and
  initialisation**: one-off calls into LLVM (`link_modules` is in `Ownership`).
* **Build scripts, versioneer, continuous integration**: not part of the program.

The code generator, the optimiser and the loader are LLVM's.

## The modules

### LLVMLock

A thread is the stack of its calls in progress.  A frame is one execution of
`_lib_fn_wrapper.__call__`: `waiting` for the lock, in the `acq` loop of
`__enter__`, in the C function (`body`) or in the `rel` loop of `__exit__`, with
the position of the `for` loop and the callback being run.  `Call` pushes a
frame: by the thread's own code, from a callback, or from a Python callback of
the C function.  A callback may return or raise; if it raises, the frame goes
without releasing the RLock, as in the code, where `__enter__` and `__exit__`
have no `try`.  `Register` and `Unregister` change the list at any time from
any Python code and iterate as Python's list iterator does, by index.

*Run `lock`* (2 threads, 1 callback pair registered up to twice, nesting 2):
`MutualExclusion`, `DepthIsExact` (the RLock's count is the calls of the owner
that hold it plus those that leaked it by raising), `AcqRelPaired` (calls during
which the list did not change) and, under fairness, `LockIsFreed`.  Nesting 2
lets a callback re-enter the lock; two entries of a list of one pair already
distinguish positions from pairs.

*Fairness*: a thread in the lock's own code goes on (WF), since nothing it does
there blocks: only the holder's own re-acquisition is included, not that of
waiting threads, because `threading.RLock` has no queue.  Callbacks and C
functions end (SF, per nesting level: the step is disabled while a nested call
runs and enabled again after it).  Nothing is assumed of callers, so the
property is that the lock is freed, not that a waiter gets it.

Calls during which the list changes are outside `AcqRelPaired`: a pair registered
during a call gets its `rel_fn` without its `acq_fn`.

### Ownership and OwnershipAbs

One name stands for a wrapper and its native object.  The Python book is
`wrappers`, `open`, `owned`, `mods`, `ctxOf`, `tds`; the native book is `live`,
`nmods`, `tmOf`.  `refs` are the caller's variables; whatever is not reachable
from them is collected at once, as CPython does, also between the three steps
of `ExecutionEngine._dispose` (the loop variable `mod` still holds the last
module).  `twice` and `dangling` are history: `twice` tells
what a failed creation has left dangling from any other object freed twice.

*Run `ownership`* (2 modules, 2 contexts, 2 target machines, 2 engines; a
`Disciplined` caller closes only what it may and links only what it owns; the
modules of one engine are from one context): `NoOtherDoubleFree`,
`ContextsGoLast`, and `ImplementsOwnership`: with `Holder`
as refinement mapping every step is a step of `OwnershipAbs`, the hand-over
protocol of the user guide.  Two modules and two engines allow every exchange;
objects of a kind are symmetric.  `ContextsGoLast` speaks of steps: freeing a
context takes its modules with it, so what must not happen is that one is freed
while it has any.

*Run `ownership_contexts`*: an engine with modules of two contexts.  `_dispose`
clears `_modules` first; the collection this starts may dispose of a context and
with it of a module that the engine then frees again.

*`OwnershipCreateFails.cfg`* (module `Ownership`): when
`LLVMPY_CreateMCJITCompiler` fails, LLVM's builder has already destroyed the
module, but its wrapper still owns it and frees it again when it is closed or
collected: `NoDoubleFree` is violated.  `ownership` has such failures too, and
`NoOtherDoubleFree` says that nothing else is freed twice.

### Handles

A wrapper is a record: the native objects it `needs`, the wrappers it `keeps`
alive, whether it is open, owned, gone.  The native object a wrapper creates has
its number; `home[n]` says which native objects destroy `n` with them (a context
its modules, an engine its modules, target machine and data layout), `frees[n]`
how often that happened.  All kinds of wrapper share `Close`, `Drop` and
`Collect`; the actions that create them differ in what they need and keep.
Collection happens as soon as nothing refers to a wrapper (`Quiet`), in any
order.  What llvmlite leaves to the program is `Careful` (do not close what is
still used), and `Global` (types and attributes, "weak references", are taken
from modules of the global context).

*Run `handles`* (nine families of wrappers that refer to one another, each with
its bounds, chosen at the start; two of a kind where one could be taken for the
other): `NoDangling`, `FreedOnce`, `NothingLeaked`.  One family goes down from a
module to the operand of an instruction through three iterators, others have
clones in a private context, engines with two modules, with two data layouts
and two caches, a pass builder on the target machine of an engine.

*Run `handles_managers`*: a closed pass manager's native manager still exists.
`ObjectRef` stands before `NewPassManager` in the bases of `ModulePassManager`,
so the `_dispose` that would free it is never reached.

### ObjectRef

Several threads run operations step by step, an operation ending a step where
another thread may run: the check of `_closed`, the wait for the lock, the
call with converted arguments, the bookkeeping after it.  `MayStart` states
what threads may do: not change one object at the same time, and not close what
another has passed to a method.  Calls on a module may overlap the closing of
the engine that owns it, which is the interesting case.

*Run `close_race_free`* (2 threads, 2 engines, 3 modules): `NoUseAfterFree`,
`NoDoubleFree`, `NothingLost`.  Three modules let an engine lose one while its
`_dispose` walks over two others.  Without `MayStart`, two threads that close
one wrapper free it twice: `_closed` is tested outside the lock.

### OrcJIT

One `LLJIT`.  `shares` is the use count of the `shared_ptr`; a library is
absent, loaded, partial (a failed link) or cleared.  A tracker stands for a whole
library: disposing of any tracker clears the library.

*Run `orc`* (3 libraries, 3 trackers): `JITIsShared`, `LoadedIsTracked`,
`NamesAreSpent`, and `UnloadedByItsTracker`: a loaded library goes with the
disposal of one of its own trackers and never otherwise, not when the `LLJIT` is
closed, a link fails or the tracker of another library goes.  Three libraries
make a chain of prerequisites, three trackers give one library several of them.

*`OrcJITLookup.cfg`*: the tracker of a lookup unloads the library under the
tracker of its link, and `TrackedIsLoaded` is violated.  *`OrcJITLeaf.cfg`*: the
tracker of a prerequisite is dropped, as the documentation allows, and
`PrerequisitesLoaded` is violated.

### IRBuilder

`code[b]` is the instruction list of block `b` as "plain" and "term"; a `with`
statement is a frame of `stack`.  The rigid variable `style` is what the caller
does: "ends" builds at the ends of blocks and branches as the helpers expect,
"any" positions itself anywhere in any block, inside `with` statements too, and
inserts, branches, removes and raises there.
`IRBuilder.branch` and its like fail on a block that has a terminator; `EnterFails` is an `if_then` that has appended its blocks before it
finds that out.

*Run `builder`*: `OneTerminator` for every style; `TerminatorLast` and
`OpenBlocksArePending` for "ends".  Six blocks and three frames allow an
`if_else` inside an `if_then` inside a `goto_block`; the caller that moves
anywhere has four blocks and two frames, enough to leave a body from another
block, at another place, than it was entered in.  The bounds on blocks stop
the caller, so deadlock is not checked.

### RefPrune

The control-flow graph, the raising blocks, the aliasing of pointers and the
enabled subpasses are chosen at the start, with a function that a front end
which counts correctly could emit: the count of each object at a block is the
same on all paths, and nothing is used without a reference (`WellCounted`).
Each subpass walks its list of increfs, one per step; `Following` is the
do-while loop.  `Walk` is the recursive forward search, with its depth and size
limits, and `verifyFanoutBackward` the backward one.  Dominance is LLVM's and
is modelled by its definition.

*Run `refprune`* (all graphs of 4 blocks with an entry without predecessors,
every block reachable in order and every block reaching an exit; up to 3
non-null refops; 2 pointers, aliased or not; all subpasses, or all but the
per-block one): `CountsKept` compares the counts along every path of up to 6
edges, which goes round each loop of these graphs, until the path has raised;
`UsesStayAlive`;
`NothingLeftToPrune` at the end; `FanoutPathsEnd` at each fan-out pruned.  Four
blocks give diamonds, fan-outs, loops before, inside and after them, and shared
tails; a size limit of 4 makes searches give up.

At most one block raises, any one of the four, also one that goes on.
`FanoutPathsEnd` takes the code's notion of a raising block.
*`RefPruneRaise.cfg`* (module `MCRefPrune`) asks the same with the comment's:
the forward pass wants a raising *exit*, the code accepts any block that writes `%excinfo`, also one that
goes on to a return, and `RaisesAtExits` is violated: the incref is pruned
although that path keeps its meaning only with it.  What a path does after it
has raised is outside `CountsKept` for that reason.

Two assumptions are needed and named.  `UsesFirst`: in the block where a pair
ends no use follows a decref of an alias; without it the pruned object may die
before the use.  And references do not leave the function except by decref: an
incref in a loop for a reference that is stored away would be paired by the
diamond subpass with one decref after the loop, where the fan-out subpass
refuses back-edges to the incref.

### MemoryManager

Addresses are numbers, `perm` maps each page to its permissions, and
`FreeMem`, `PendingMem` and `AllocatedMem` are the vectors of the code.  The
caller RuntimeDyld is external: `AnnouncedSize` and `AnnouncedAlign` are what
it computes for the sections of an object, and `todo` the sections it then asks
for, the groups in any order.  `finalizeMemory` is called between objects and
picks how many blocks `protectMappedMemory` has protected when it fails, if it
does; MCJIT ignores the result and goes on.  The comment about the instruction
cache is not a property: `invalidateInstructionCache` walks over `PendingMem`
after it was cleared, and it is LLVM's `protectMappedMemory` that flushes.

*Run `memory`* (pages of 16, sections of 1 and 9 bytes aligned to 1 or 8; two
objects, each with a section in every group or with one or two in one group):
`SectionsDisjoint`, `SpaceForAll`, `WritableUntilFinalized`,
`PendingOrProtected`, `ObjectInOneMapping`.  A reservation is reused only if all
three groups have room, so an object with sections in every group must come
first; then a second object with two sections is cut from the trimmed rest of a
page, with gaps.  A third object meets no new situation: free blocks belong to
the last mapping only, one for each group.

*`MemoryManagerAlign.cfg`* (module `MCMemoryManager`): alignments of two pages,
which the start of a reserved block need not have; the second section of a group
is refused, and `SpaceForAll` is violated.

### IRTypes, IRInstructions, IRTyping

A type is a record tagged with its class.  `Same` is `__eq__`, `Text` the type as
LLVM reads it, without the pointees of typed pointers
(`ir_layer_typed_pointers_enabled` off, the default), `FromLLVM` the way back.
A value is a kind and a type; a constant to index with also has a number.  Each
method of the builder and each operation on constants is an operator that
returns {} where the code raises, and otherwise the instruction: its type, its
operands, the types shown in its text and what else the text holds.

`IRTyping` is a caller: each step makes one instruction from the value made last
and a pool, and goes on with the result.  `real` is what the caller laid out in
the memory that `cur` points at, which neither llvmlite nor LLVM knows.
`LLVMType` is external: the typing rules of LLVM for opaque pointers, and, in
`ConstantExpressions`, what is left of constant expressions in LLVM 22, which
`ffi/CMakeLists.txt` asks for.  `CallerPart` says which checks the documentation
leaves to the caller, instruction by instruction: each conjunct is a request that
the builder accepts and LLVM does not, so it has the look of LLVM's refusals.
What is not the caller's part is what the builder computes: result types,
printed types, and which constants it turns into which text.

*Run `typing`* (five styles of caller: typed pointers, opaque pointers, both,
and two that call intrinsics; a pool with a value of each class of type, two
address spaces, a struct with a name and one that holds a pointer, vectors of two
lengths; results of `Kept` types are gone on with): `LoadsReadWhatIsThere`,
`TrueStoresAccepted`, `TypesSurviveLLVM`, `WellTyped`, `WrappersAgree`.  The
state is the last value, so chains of instructions have any length; `Kept`
bounds the types, not the steps.  Two declared intrinsics let each wrapper meet
each declaration.  The run finds `WellTyped` true of all instructions and of the
constant expressions that LLVM still reads, except where an operand has no text;
three configurations beside it show the exceptions.

*`IRTypingConstants.cfg`* (module `MCIRTyping`, as the next two): `shl` of two constants, and most other operations on
constants that `values.rst` lists, are no longer expressions of LLVM
(`ConstantsParsed`).

*`IRTypingVectors.cfg`*: `FormattedConstant` passes its text to
`VectorType.wrap_constant_value`, which makes a tuple of it; an instruction that
uses the constant cannot be printed (`ConstantsHaveText`).

*`IRTypingIntrinsics.cfg`*: `declare_intrinsic('llvm.ctlz', [i32])` makes up a
type; `IRBuilder.ctlz` finds that declaration and calls it with one argument too
many (`WrappersCallable`).  Callers who leave no type out (style "calls") declare
the intrinsics of wrappers by hand as well, before and after the wrappers do, and
no clash arises: that is `WrappersAgree` in `typing`.

### NameScope, IRMetadata, IRText

A name is a sequence, `<<base>>` or `<<base, n>>`, as `deduplicate` makes them;
the text of a value is the reference it defines, those it uses, in order, and
its metadata.  `values[v]` has the name, the cached reference and text, the
operands, the copy that `GEPInstr` and `PhiInstr` print from, and whether
`replace_usage` has turned the operands into a tuple, which `replace_callee`
cannot assign to.  `Show` is `str(module)`, which fills the caches.  `IRMetadata`
has the list of nodes and the key by which a node is found again; lists among
operands hold no lists (`OperandsAssumption`).

*Run `text`* (two styles of caller: one edits a function, one the globals and
metadata of a module; 6 values, 2 or 3 edits, 2 names): `DefinitionsDistinct`,
`TextSaysWhatIs`, `DefinedBeforeUse`, `PromisedNamesFree`, `NodesAsAsked`.
Six values are the function, its argument and block and
three more, enough to replace an instruction that another one uses; two edits
are a print and what comes after it.  Both callers edit a value before they
print it and replace only what no copy was taken of (`Unprinted`, `Patchable`):
the code clears a cached text in `replace_usage` only.  `get_unique_name` is
asked for hints in use and for others; `PromisedNamesFree` is of the names it
makes up.  `NodesAsAsked` allows for the operands that share a key (`Confused`).

*`IRTextReplace.cfg`* (module `MCIRText`, as the next two): the caller without
that care; a `getelementptr` goes on naming what was replaced
(`AllUsesPatched`).  *`IRTextUnique.cfg`*: a hint that is not in use is returned
as it is, as often as one asks (`PromisedNamesUnique`).
*`IRTextTokens.cfg`*: a node with a token, or with `True`, is returned where a
string, or 1, was asked for (`NodesEquivalent`).

The bounds of `handles`, `typing` and `text` stop their callers, so deadlock is
not checked there; none of these has anything that waits.

## What is proved

Eight modules hold theorems, each about the component it extends, and each for
every value of the constants: any sets of threads, wrappers, engines, libraries,
blocks and objects, and any bounds.  In all of them the argument is one
inductive invariant, `Inv` (`IInv` and `PairInv` for the lock, `IRTextInv`), that contains the
properties and what they rest on; TLC found it to hold on small instances
before it was proved.  One lemma per action says that the action keeps it, with
a step for each conjunct the action can disturb.  The assumptions are the
`ASSUME`s of the modules, which TLC evaluates in the runs, and the hypotheses
named below.

| theorem | states | needs |
|---|---|---|
| `CountIsExact`, `OneThreadInLibrary`, `CallbacksArePaired` | `DepthIsExact`, `MutualExclusion`, `AcqRelPaired` | |
| `NoFreedObjectUsed`, `ObjectsFreedOnce`, `ObjectsHaveOwners` | `NoUseAfterFree`, `NoDoubleFree`, `NothingLost` | |
| `FreedAtMostOnce`, `ContextsFreedLast`, `OwnershipRefines` | `NoOtherDoubleFree`, `ContextsGoLast`, `ImplementsOwnership` | `Disciplined`, `OneContext` |
| `NoWrapperDangles`, `NativesFreedOnce`, `NoNativeLeaked` | `NoDangling`, `FreedOnce`, `NothingLeaked` | |
| `OwnersAreCounted`, `LibrariesOutliveOthers`, `NoLibraryAbandoned`, `NamesNeverReused` | `JITIsShared`, `UnloadedByItsTracker`, `LoadedIsTracked`, `NamesAreSpent` | |
| `TerminatorsMarked`, `TerminatorsEndBlocks`, `NoBlockLeftOpen` | `OneTerminator`, `TerminatorLast`, `OpenBlocksArePending` | |
| `NoByteGivenTwice`, `SectionsStayWritable`, `NoSectionForgotten`, `ObjectsAreNear` | `SectionsDisjoint`, `WritableUntilFinalized`, `PendingOrProtected`, `ObjectInOneMapping` | |
| `ReservationsSuffice` | `SpaceForAll` | `AlignmentsFit` |
| `NamesAreOwn`, `BlocksInOrder` | `DefinitionsDistinct`, `DefinedBeforeUse` | |
| `TextsUpToDate` | `TextSaysWhatIs` | `"free" \notin Styles` |
| `PromisesAreKept` | `PromisedNamesFree` | `NamesUnnumbered` |
| `NodesAnswer` | `NodesAsAsked` | |

`Disciplined` and `OneContext` are the constants with which the run `ownership`
is made too; without the second, `ownership_contexts` shows a double free.
`AlignmentsFit` says that the alignments of a group divide one another, as the
powers of two LLVM asks for do, and a page; `MemoryManagerAlign.cfg` shows what
happens to alignments of more than a page.  `"free" \notin Styles` says that no
caller is without the care of `Unprinted` and `Patchable`; `IRTextReplace.cfg`
shows one who is.  `NamesUnnumbered` says that no caller asks for a name that ends in a
number of its own, such as `a.1`, which `deduplicate` would make up a second
time.  The run `text` satisfies both.
The type invariants are part of the
invariants (`TypeCorrect` and `HandlesTyped` state two of them).

**The lock.** `DepthIsExact` is not inductive alone: to pop or push a frame
keeps the count only if the frames below the top hold the lock, for which `IInv`
adds `Nesting`: a frame that waits is on top of its stack.  Lemmas say what
replacing, pushing and popping the top frame does to the stacks (`SetTopHolds`,
`PushHolds`, `PopHolds`).  Mutual exclusion follows: two threads that hold the
lock are both its owner.  `AcqRelPaired` speaks of a call that is about to
release the lock; `PairInv` says what every frame has called before that: a call
in the loop of `__enter__` the pairs before its index, a call in the library all
of them, a call in the loop of `__exit__` all and those before its index.  It
holds for the threads outside `edited`: an edit of the list puts every thread in
a call into `edited`, and a thread leaves it only with an outermost call, whose
stack was empty, so that no frame that is spoken of has seen another list.

**Wrappers under threads.** What two operations in progress may touch is said
once (`Separate`, from which `Apart`): `MayStart` is evaluated when an operation
begins, and what has to be shown is that it goes on holding while others take
steps.  For each operation and each step between two library calls the invariant
then says what has happened to its objects and what has not: a `close` that
waits stands for a live object, one that has returned from the library for none
(`CloseProgress`), `add_module` and `remove_module` have changed the native
side, the Python side, or both (`AddProgress`, `RemoveProgress`, `SidesAgree`),
and the loop of `_dispose` has detached what it has passed (`LoopDetaches`).
With these, a wrapper that can be passed to the library stands for an object
that exists or that its own thread is closing (`ParamsStand`), and every native
object has an owner or an operation about to name one (`LiveKept`).

**Ownership.** The Python and the native book agree except on the engine that
is being closed (`EnginesAgree`), for which the loop variable of `_dispose`
keeps the context of its modules alive (`ClosingKeepsContext`): the one
conjunct that fails with modules of two contexts.  For the refinement,
`HolderMeans` says what the mapping computes for each module; `HolderStays` that
a step which does not move a module leaves its holder, and each action of
`Ownership` is a step of `OwnershipAbs` or leaves all holders as they are.

**Handles.** `Secure` says of each kind of wrapper where the native objects
are that it reads through: their wrappers are kept by it, or by the module
it keeps.  A native object has at most one destroyer besides its wrapper, which
the wrapper knows of: its context, which it keeps, or an engine that owns it
(`HomeOK`, `EngineHas`, `OwnedHasHome`).  A collection can then take only what
nothing open reads through.

**ORC JIT.** `JITIsShared` needs that the data layout of the JIT is gone with
its handle (`LayoutNeedsHandle`); counting is by cardinality of the trackers in
use.  `NamesNeverReused` and `LibrariesOutliveOthers` are action properties: every
step is shown to keep spent names spent, and the share that goes with a tracker
or the handle to leave the JIT alive as long as another one holds it.

**IR builder.** `Marked` counts the terminators of each block.  For the caller
that builds at the ends of blocks, `Positioned` says where the builder stands
in relation to the frame it is in, and `Covered` that a block without a
terminator is the current one or is waited for by some frame: what the helpers
do on leaving depends on what the body left behind, not on where it began.

**The memory manager.** The argument is about pages.  The pages that the
sections, the pending and the free blocks of a group touch are no other group's
(`GroupsApart`), so protecting one group leaves the others alone; within a group
what is free lies behind all that was given out (`FreeLast`), so that trimming
to a page keeps what is free off the protected pages.  A finalisation may fail
after any number of blocks (`FinalizeGives`), and `PendingOrProtected` holds all
the same; `WritableUntilFinalized` holds until it does.  For `SpaceForAll`, a
second invariant `Room`: behind the first aligned address of a free block are as
many bytes as the sections still to come take, rounded to the greatest
alignment, and one alignment more.  A reservation has that much however its
block begins (`ReservedHasRoom`), a section takes no more than its part
(`RoomTaken`).  The announced size is a recursive sum and trimming a recursive
filter; what they compute is shown by induction over `Nat` as a set: `LeastNat`,
the least-number principle, is derived from the well-foundedness of `<` without
an operator parameter, and `AllNat` from it.  Division and remainder are
reduced to multiples by lemmas (`DivMod`, `MultiplesApart`, `AlignToIs`).

**Names, texts and metadata.** Each step is one of a few kinds by what it does
to the values (`ValueStep`: make one, make a constant, print, rename, edit,
replace) and to the metadata (`MetaStep`), and each part of `IRTextInv` is kept by
every kind.  What `deduplicate` returns is new because there are more numbers
than names in use (`FreshNumberFacts`), and the counter it leaves passes it,
which is what keeps a promise (`Promised`): the number of a promised name is
spent, though the name is not registered.  `NamesInv` is needed for
`DefinitionsDistinct`: after a rename a value has two names, the one it is called
and the one of its cached reference, both are taken, and neither is another
value's.  For texts, `Settled` says that a cached text is the one that would be
written now and that the references of all it names are cached, so that no
rename can change it; `Shaped` says what must not come apart before, the copy
and the operands of a `getelementptr`, and the references of constants and
their globals.  `MetaOK` relates the cache of nodes to the nodes: a key is of the
contents of its node; that two operands with one key are printed alike or are
among those of `Confused` is `OneKey`.  The recursion over operands and lists of `add_metadata` and
`add_debug_info` is by the same induction as the memory manager's.

Only model-checked are:

* liveness (`LockIsFreed`): fairness and ENABLED are out of the prover's reach;
* `RefPrune`, `IRTypes`, `IRInstructions`, `IRTyping`: their walks over graphs,
  types and indices are RECURSIVE operators, in whose presence the prover has no
  SMT backend: of `RefPrune` `CountsKept`, `UsesStayAlive`, `NothingLeftToPrune`
  and `FanoutPathsEnd`, of `IRTyping` its five invariants;
* the two runs and eleven configurations that end with a counterexample.

## Divergences found

Two runs end with a counterexample; `PROJECT.json` quotes the line of the
repository that each contradicts.

| run | what happens |
|---|---|
| `ownership_contexts` | an engine with modules of two contexts frees a module twice (`executionengine.py:222`) |
| `handles_managers` | a closed pass manager is never freed (`newpassmanagers.py:367`) |

Eleven configurations beside the runs end in the same way:

| configuration | what happens | what the repository says |
|---|---|---|
| `OwnershipCreateFails.cfg` | after a failed `create_mcjit_compiler` the module is freed twice (`executionengine.py:28`) | "Module ownership is transferred to the EE" (`executionengine.py:58`), which marks it only after success |
| `OrcJITLookup.cfg` | any tracker unloads the whole library, under the other trackers (`orcjit.cpp:367`) | "As long as the resource tracker is referenced somewhere in Python, the exported addresses will be valid." (`orcjit.py:32`) |
| `OrcJITLeaf.cfg` | a prerequisite is unloaded under a library that was linked against it (`orcjit.cpp:367`) | 'only "leaf" libraries need to be tracked' (`orcjit.py:196`) |
| `RefPruneRaise.cfg` | a block that writes `%excinfo` and goes on counts as a raising exit (`custom_passes.cpp:826`) | "In the case of an exit, it must be a raise for it to be added to" (`custom_passes.cpp:697`), "either a decref or a raising exit" (l. 718) |
| `MemoryManagerAlign.cfg` | the space reserved does not do for alignments of more than a page (`memorymanager.cpp:169`) | the space is to "satisfy" `allocateSection` (l. 167) |
| `IRTextUnique.cfg` | `get_unique_name` returns one name twice (`module.py:159`) | "Get a unique global name with the following *name* hint." (`module.py:157`) |
| `IRTextTokens.cfg` | a node with a token, or `True`, is returned where a string, or 1, was asked for (`module.py:87`) | "a previous equivalent metadata" (`module.py:78`) |
| `IRTextReplace.cfg` | `replace_usage` leaves `GEPInstr.pointer` as it was (`instructions.py:40`) | uses of the old instruction "in the whole function are also patched" (`values.rst:278`) |
| `IRTypingConstants.cfg` | most operations on constants are not read by LLVM 22 (`values.py:93`) | all are documented, for one "Left-shift `self` by `other` bits." (`values.rst:69`) |
| `IRTypingVectors.cfg` | constant expressions of vector types cannot be printed (`values.py:521`) | "A constant with an already formatted IR representation." (`values.py:516`) |
| `IRTypingIntrinsics.cfg` | an intrinsic declared without all its types, and its wrapper, clash (`module.py:171`) | "Compute function type if omitted for common cases" (`module.py:177`) |

Seen on the way and kept out of the list, because little or nothing in the
repository says otherwise:

* a pair registered during a call gets its `rel_fn` without its `acq_fn`;
* `goto_block` comes back to the end of the block it left, not to the position;
* after a finalisation that failed, the next section may be on a protected page
  (`failed`; the code has a FIXME);
* an `acq_fn` or `rel_fn` that raises leaks one acquire of the lock (`leaked`);
* two threads that close one wrapper free it twice (`MayStart` excludes it);
* the wrapper of a target machine stays open after its engine has freed it;
* `link_modules` frees a source that an engine owns (`Disciplined` excludes it);
* `bad_blocks` is kept per block although a walk fails per pointer, so that a
  fan-out of another pointer is missed (`NothingLeftToPrune` excuses it).
* names and texts: a block that is renamed after it was printed is branched to by
  its old label; edits after printing leave stale texts (`add_incoming`,
  `set_metadata`, `initializer`, `replace_callee`); `Block.replace` does not update
  `terminator`; `replace_all_calls` stops half way at a call whose operands
  `replace_usage` has made a tuple; a global named by a number breaks the
  numbering of metadata (no name of the models is a numeral);
* types: a comparison does not compare the types of its operands; too many arguments of a call are accepted;
  `extract_value` accepts vectors and negative indices; `gep` with a source type
  keeps the type of the pointer it started from; a type read from LLVM has lost
  its address space (`types.py:152-156`); `ord` and `uno` are documented for
  constants and raise; `store_atomic` through an opaque pointer raises
  `AttributeError`; `shuffle_vector` accepts `Undefined` as its second vector
  (`instructions.py:664-667`), and the instruction cannot be printed;
* wrappers: `list(obj.sections())` yields one iterator several times, moved to the
  end; `finish_pass_timing` raises where its docstring promises an empty string;
  the instrumentation callbacks of a `PassBuilder` are never freed
  (`newpassmanagers.cpp:543`).

## Plan

Everything the code of llvmlite itself decides is modelled, but for what "Not
modelled" lists, and the components whose models the prover can reason about are
proved.  Next:

1. `RefPrune`: `CountsKept`, with `Walk` as a function of the visited set
   instead of a RECURSIVE operator.
2. `IRTyping`: `LoadsReadWhatIsThere`, by an invariant over the type of `cur`.
