------------------------------ MODULE RefPrune ------------------------------
(***************************************************************************)
(* The reference-count pruning passes of src/ffi/custom_passes.cpp over    *)
(* the control-flow graph of one function: RefNormalize, then RefPrune,    *)
(* which runs its enabled subpasses until none of them changes anything.   *)
(*                                                                         *)
(* A block is a sequence of the operations that matter here: "inc" and     *)
(* "dec" (calls of NRT_incref and NRT_decref) and "use" (anything that     *)
(* needs the object alive).  Two pointers may be aliases of one object,    *)
(* which the pass cannot see.  The function is the work of a front end     *)
(* that counts correctly: on every path to a block each object has the     *)
(* same number of references, and none is used without a reference.       *)
(***************************************************************************)
EXTENDS Integers, FiniteSets, SequencesExt

CONSTANTS
    Graphs,         \* functions from blocks to their sequences of successors
    Pointers,       \* the pointers refops are called with
    Null,           \* the NULL constant, also an argument of refops
    Objects,        \* what pointers point to
    Aliasings,      \* functions from pointers to objects
    Bodies,         \* sequences of [kind, ptr] a block may consist of
    Flags,          \* the sets of subpasses that may be enabled
    MaxRaisers,     \* bound: blocks that raise
    MaxRefOps,      \* bound: refops of the front end's function
    PathLength,     \* bound: paths on which the counts are compared
    SubgraphLimit,  \* how many nodes a fan-out search looks at
    RecurseDepth    \* FANOUT_RECURSE_DEPTH

VARIABLES
    succ,       \* the successors of each block, in the terminator's order
    raising,    \* the blocks that write %excinfo
    object,     \* the object of each pointer
    flags,      \* the enabled subpasses
    front,      \* the function as the front end emits it, one body per block
    code,       \* the function as the passes leave it
    pass,       \* "RefNormalize", a subpass, or "done"
    todo,       \* the increfs the subpass has still to look at
    bad,        \* bad_blocks: increfs in these always fail (this subpass)
    mutated     \* local_mutated: a subpass of this round changed something

vars == <<succ, raising, object, flags, front, code, pass, todo, bad, mutated>>
given == <<succ, raising, object, flags, front>>

Order == <<"PerBasicBlock", "Diamond", "Fanout", "FanoutRaise">>
Subpasses == ToSet(Order)

Blocks == DOMAIN succ
Entry == 1
Succ(b) == ToSet(succ[b])
Preds(b) == {a \in Blocks : b \in Succ(a)}
Exits == {b \in Blocks : succ[b] = <<>>}

(* The blocks on paths from start that keep out of avoid, along next. *)
Closure(start, next, avoid) ==
    LET grow[n \in 0..Cardinality(Blocks)] ==
          IF n = 0 THEN start \ avoid
          ELSE UNION {(next[b] \cup {b}) \ avoid : b \in grow[n - 1]}
    IN  grow[Cardinality(Blocks)]

Forward == [b \in Blocks |-> Succ(b)]
Backward == [b \in Blocks |-> Preds(b)]

(* What DominatorTree and PostDominatorTree answer for two blocks. *)
Dominates(a, b) == b \notin Closure({Entry}, Forward, {a})
PostDominates(b, a) == Exits \cap Closure({a}, Forward, {b}) = {}

-----------------------------------------------------------------------------
(* Refops *)

IsIncRef(op) == op.kind = "inc"
IsDecRef(op) == op.kind = "dec"
GetRefOpCall(op) == IsIncRef(op) \/ IsDecRef(op)
isRelatedDecref(ptr, op) == IsDecRef(op) /\ op.ptr = ptr

hasDecrefInNode(c, ptr, b) == \E op \in ToSet(c[b]) : isRelatedDecref(ptr, op)
hasAnyDecrefInNode(c, b) == \E op \in ToSet(c[b]) : IsDecRef(op)

(* The increfs of the function, block and operation, in order. *)
ListIncRefs(c) ==
    FlattenSeq([b \in 1..Len(c) |->
        [i \in 1..Len(SelectSeq(c[b], IsIncRef)) |->
            [block |-> b, op |-> SelectSeq(c[b], IsIncRef)[i]]]])

Without(c, b, op) == [c EXCEPT ![b] = RemoveFirst(@, op)]

(* The function without the first related decref of each block in blocks.  *)
WithoutDecrefs(c, ptr, blocks) ==
    [b \in 1..Len(c) |->
        IF b \in blocks
        THEN RemoveFirstMatch(c[b], LAMBDA op : isRelatedDecref(ptr, op))
        ELSE c[b]]

-----------------------------------------------------------------------------
(* Reference counts, the front end's view.  Net effect of a body. *)

Net(body, o) ==
    LET about(i) == body[i].ptr # Null /\ object[body[i].ptr] = o
        of(kind) == {i \in DOMAIN body : body[i].kind = kind /\ about(i)}
    IN  Cardinality(of("inc")) - Cardinality(of("dec"))

Parent(b) == CHOOSE a \in Preds(b) : \A p \in Preds(b) : a <= p

(* References to o at the entry of b in function f: the caller holds one.  *)
Count(f, o, b) ==
    LET at[n \in Blocks] ==
          IF n = Entry THEN 1 ELSE at[Parent(n)] + Net(f[Parent(n)], o)
    IN  at[b]

(* If operation i of a body is about o, o is alive before it. *)
Alive(body, i, o, count) ==
    body[i].ptr # Null /\ object[body[i].ptr] = o
        => count + Net(SubSeq(body, 1, i - 1), o) >= 1

(* In a block without incref no use of an object follows a decref through  *)
(* another pointer to it (RefNormalize orders the decrefs of the others).  *)
UsesFirst(body) ==
    \/ \E op \in ToSet(body) : IsIncRef(op)
    \/ \A i, j \in DOMAIN body :
          /\ i < j
          /\ body[i].kind = "dec" /\ body[j].kind = "use"
          /\ body[i].ptr # Null
          => \/ body[i].ptr = body[j].ptr
             \/ object[body[i].ptr] # object[body[j].ptr]

(* The last body of f finds its objects alive, and the counts of all paths *)
(* to and from its block agree.                                            *)
WellCounted(f) ==
    LET b == Len(f) IN
    \A o \in Objects :
        LET before == Count(f, o, b)
            after(a) == Count(f, o, a) + Net(f[a], o)
        IN  /\ \A i \in DOMAIN f[b] : Alive(f[b], i, o, before)
            /\ \A a \in Preds(b) : a <= b => after(a) = before
            /\ \A s \in Succ(b) : s < b => Count(f, o, s) = after(b)

RefOps(f) == Len(SelectSeq(FlattenSeq(f),
                           LAMBDA op : GetRefOpCall(op) /\ op.ptr # Null))

(* What a front end may emit; without an incref there is nothing to prune. *)
Functions ==
    LET tag(body) == [i \in DOMAIN body |->
                        [kind |-> body[i].kind, ptr |-> body[i].ptr, at |-> i]]
        bodies == {tag(body) : body \in {c \in Bodies : UsesFirst(c)}}
        upTo[n \in 0..Cardinality(Blocks)] ==
            IF n = 0 THEN {<<>>}
            ELSE {f \in {Append(g, c) : g \in upTo[n - 1], c \in bodies} :
                    RefOps(f) <= MaxRefOps /\ WellCounted(f)}
    IN  {f \in upTo[Cardinality(Blocks)] : ListIncRefs(f) # <<>>}

-----------------------------------------------------------------------------
Init ==
    /\ succ \in Graphs
    /\ object \in Aliasings
    /\ front \in Functions
    /\ raising \in {R \in SUBSET Blocks : Cardinality(R) <= MaxRaisers}
    /\ flags \in Flags
    /\ code = front
    /\ pass = "RefNormalize"
    /\ todo = <<>>
    /\ bad = {}
    /\ mutated = FALSE

(* The next enabled subpass after number i; another round after the last,  *)
(* if this one changed anything.                                           *)
Following(i, changed) ==
    LET enabled(from) == SelectSeq(SubSeq(Order, from, Len(Order)),
                                   LAMBDA s : s \in flags)
    IN  IF enabled(i + 1) # <<>> THEN Head(enabled(i + 1))
        ELSE IF changed THEN Head(enabled(1)) ELSE "done"

(* The end of a subpass, or of RefNormalize (number 0), which leaves c. *)
Leave(i, c, changed) ==
    LET next == Following(i, changed) IN
    /\ pass' = next
    /\ code' = c
    /\ todo' = IF next \in Subpasses THEN ListIncRefs(c) ELSE <<>>
    /\ bad' = {}
    /\ mutated' = IF SelectInSeq(Order, LAMBDA s : s = next) > i
                  THEN changed ELSE FALSE
    /\ UNCHANGED given

(* RefNormalize: in a block with an incref the decrefs go to the back. *)
NormalizeBody(body) ==
    IF \E op \in ToSet(body) : IsIncRef(op)
    THEN SelectSeq(body, LAMBDA op : ~IsDecRef(op)) \o SelectSeq(body, IsDecRef)
    ELSE body

Normalize ==
    /\ pass = "RefNormalize"
    /\ Leave(0, [b \in Blocks |-> NormalizeBody(code[b])], FALSE)

(* Mutant: refops on NULL stay. *)
PruneBodyKeepNull(body) ==
    LET at(kind, ptr, i, j) ==
          Cardinality({k \in i..j : body[k].kind = kind /\ body[k].ptr = ptr})
        single(i) ==
          LET op == body[i] IN
          /\ IsIncRef(op) => at("dec", op.ptr, 1, Len(body)) = 0
          /\ IsDecRef(op) => at("inc", op.ptr, 1, Len(body)) = 0
        kept == SelectSeq([i \in DOMAIN body |-> i], single)
    IN  [n \in DOMAIN kept |-> body[kept[n]]]

(* Refops on NULL go; of each pointer's refops the last increfs go with    *)
(* the first decrefs, as long as there are both.                           *)
PruneBody(body) ==
    LET at(kind, ptr, i, j) ==
          Cardinality({k \in i..j : body[k].kind = kind /\ body[k].ptr = ptr})
        pairs(ptr) == LET incs == at("inc", ptr, 1, Len(body))
                          decs == at("dec", ptr, 1, Len(body))
                      IN  IF incs < decs THEN incs ELSE decs
        stays(i) ==
          LET op == body[i] IN
          /\ GetRefOpCall(op) => op.ptr # Null
          /\ IsIncRef(op) => at("inc", op.ptr, i, Len(body)) > pairs(op.ptr)
          /\ IsDecRef(op) => at("dec", op.ptr, 1, i) > pairs(op.ptr)
        kept == SelectSeq([i \in DOMAIN body |-> i], stays)
    IN  [n \in DOMAIN kept |-> body[kept[n]]]

PerBasicBlock ==
    LET pruned == [b \in Blocks |-> PruneBody(code[b])] IN
    /\ pass = "PerBasicBlock"
    /\ Leave(1, pruned, mutated \/ pruned # code)

(* A subpass that has looked at every incref. *)
EndOfSubpass ==
    /\ pass \in Subpasses \ {"PerBasicBlock"}
    /\ todo = <<>>
    /\ Leave(SelectInSeq(Order, LAMBDA s : s = pass), code, mutated)

(* The subpass goes on to the next incref, having made c of the function. *)
Advance(c, badBlocks) ==
    /\ code' = c
    /\ todo' = Tail(todo)
    /\ bad' = badBlocks
    /\ mutated' = (mutated \/ c # code)
    /\ UNCHANGED <<given, pass>>

-----------------------------------------------------------------------------
(* Mutant: a tail may be met again. *)
verifyEntryOnly(head, tails, pruneRaise) ==
    LET skipped == IF pruneRaise THEN raising ELSE {}
        above == [b \in Blocks |-> Preds(b) \ {head}]
    IN  Entry \notin Closure(tails, above, skipped)

(* The backward walk: from the tails every path upwards ends at the head,  *)
(* before the entry and without meeting a tail again.                      *)
verifyFanoutBackward(head, tails, pruneRaise) ==
    LET skipped == IF pruneRaise THEN raising ELSE {}
        above == [b \in Blocks |-> Preds(b) \ {head}]
        visited == Closure(tails, above, skipped)
    IN  /\ Entry \notin visited
        /\ \A b \in visited : Preds(b) \cap tails = {}

(* Mutant: no decref in between is looked for. *)
NothingBetween(head, tail) == FALSE

hasDecrefBetweenGraph(head, tail) ==
    \E b \in Closure({head}, Forward, {tail}) : hasAnyDecrefInNode(code, b)

(* runDiamondPrune, for one incref: the first decref that will do. *)
DiamondTail(head, ptr, t) ==
    /\ t # head
    /\ hasDecrefInNode(code, ptr, t)
    /\ Dominates(head, t)
    /\ PostDominates(t, head)
    /\ verifyFanoutBackward(head, {t}, FALSE)
    /\ ~hasDecrefBetweenGraph(head, t)

Diamond ==
    LET head == Head(todo).block
        op == Head(todo).op
        tails == {t \in Blocks : DiamondTail(head, op.ptr, t)}
    IN  /\ pass = "Diamond"
        /\ todo # <<>>
        /\ IF tails = {} THEN Advance(code, bad)
           ELSE LET t == CHOOSE t \in tails : \A u \in tails : t <= u IN
                Advance(WithoutDecrefs(Without(code, head, op), op.ptr, {t}),
                        bad)

-----------------------------------------------------------------------------
(* walkChildForDecref: w says whether the walk still succeeds (found), how *)
(* many nodes it has seen, what it has collected and whether the head is   *)
(* bad for good.                                                           *)
RECURSIVE Walk(_, _, _, _, _)
Walk(ptr, pruneRaise, b, path, w) ==
    LET seen == [w EXCEPT !.size = @ + 1]
        fail == [seen EXCEPT !.found = FALSE]
        never == [seen EXCEPT !.found = FALSE, !.bad = TRUE]
    IN  IF Len(path) >= RecurseDepth THEN [w EXCEPT !.found = FALSE]
        ELSE IF seen.size > SubgraphLimit THEN never
        ELSE IF b = Head(path) THEN never
        ELSE IF b \in ToSet(path) THEN seen
        ELSE IF hasDecrefInNode(code, ptr, b)
             THEN [seen EXCEPT !.decrefs = @ \cup {b}]
        ELSE IF hasAnyDecrefInNode(code, b) THEN never
        ELSE IF pruneRaise /\ b \in raising
             THEN [seen EXCEPT !.raises = @ \cup {b}]
        ELSE IF succ[b] = <<>> THEN fail
        ELSE FoldLeft(LAMBDA v, child :
                        IF v.found
                        THEN Walk(ptr, pruneRaise, child, Append(path, b), v)
                        ELSE v,
                      seen, succ[b])

(* Mutant: the walk goes on after a successor that fails. *)
LastSuccessorDecides(ptr, head, pruneRaise) ==
    FoldLeft(LAMBDA v, child : Walk(ptr, pruneRaise, child, <<head>>,
                                    [v EXCEPT !.found = TRUE]),
             [found |-> FALSE, size |-> 0, bad |-> FALSE,
              decrefs |-> {}, raises |-> {}],
             succ[head])

findFanoutDecrefCandidates(ptr, head, pruneRaise) ==
    FoldLeft(LAMBDA v, child :
                IF v.found THEN Walk(ptr, pruneRaise, child, <<head>>, v)
                ELSE v,
             [found |-> succ[head] # <<>>, size |-> 0, bad |-> FALSE,
              decrefs |-> {}, raises |-> {}],
             succ[head])

findFanout(w, head, pruneRaise) ==
    /\ w.found
    /\ w.decrefs # {}
    /\ pruneRaise => w.raises # {}
    /\ verifyFanoutBackward(head, w.decrefs \cup w.raises, pruneRaise)

(* runFanoutPrune, for one incref *)
FanoutStep(pruneRaise) ==
    LET head == Head(todo).block
        op == Head(todo).op
        w == findFanoutDecrefCandidates(op.ptr, head, pruneRaise)
        skip == head \in bad \/ hasAnyDecrefInNode(code, head)
    IN  /\ todo # <<>>
        /\ \/ skip /\ Advance(code, bad)
           \/ /\ ~skip
              /\ Advance(IF findFanout(w, head, pruneRaise)
                         THEN WithoutDecrefs(Without(code, head, op),
                                             op.ptr, w.decrefs)
                         ELSE code,
                         IF w.bad THEN bad \cup {head} ELSE bad)

Fanout == pass = "Fanout" /\ FanoutStep(FALSE)
FanoutRaise == pass = "FanoutRaise" /\ FanoutStep(TRUE)

Done == pass = "done" /\ UNCHANGED vars

Next ==
    \/ Normalize
    \/ PerBasicBlock
    \/ Diamond
    \/ Fanout
    \/ FanoutRaise
    \/ EndOfSubpass
    \/ Done

Spec == Init /\ [][Next]_vars

-----------------------------------------------------------------------------
(* Types; an incref a subpass has still to look at is one the front end    *)
(* emitted in that block.                                                  *)
TypeOK ==
    /\ raising \subseteq Blocks
    /\ pass \in Subpasses \cup {"RefNormalize", "done"}
    /\ Len(code) = Cardinality(Blocks)
    /\ bad \subseteq Blocks
    /\ mutated \in BOOLEAN
    /\ \A i \in DOMAIN todo : todo[i].op \in ToSet(front[todo[i].block])

(* References to o the passes have taken away in b. *)
Lost(o, b) == Net(front[b], o) - Net(code[b], o)

(* <<b, n>>: on some path of at most PathLength edges from the entry, b is *)
(* entered with n references to o less than in the front end's function.   *)
(* What a path does after it has raised is left out.                       *)
Ways(o) ==
    LET after(w) == {<<c, w[2] + Lost(o, w[1])>> :
                        c \in IF w[1] \in raising THEN {} ELSE Succ(w[1])}
        ways[n \in 0..PathLength] ==
            IF n = 0 THEN {<<Entry, 0>>}
            ELSE UNION {after(w) \cup {w} : w \in ways[n - 1]}
    IN  ways[PathLength]

(* Property: whatever path a function takes, pruning does not change what  *)
(* it does to the counts from its entry to a return; on a path that raises *)
(* it may release more, never less, than the original did.                 *)
CountsKept ==
    \A o \in Objects : \A w \in Ways(o) :
        w[1] \in Exits =>
            LET less == w[2] + Lost(o, w[1])
            IN  IF w[1] \in raising THEN less >= 0 ELSE less = 0

(* Property: every use, incref and decref that pruning leaves behind still *)
(* finds a living object, whatever path led to its block.                  *)
UsesStayAlive ==
    \A o \in Objects : \A w \in Ways(o) :
        code[w[1]] # <<>> =>
            LET count == Count(front, o, w[1]) - w[2]
            IN  \A i \in DOMAIN code[w[1]] : Alive(code[w[1]], i, o, count)

(* A lone incref of its block that a fan-out subpass would prune. *)
LeftOver(x, pruneRaise) ==
    /\ Len(SelectSeq(code[x.block], IsIncRef)) = 1
    /\ ~hasAnyDecrefInNode(code, x.block)
    /\ findFanout(findFanoutDecrefCandidates(x.op.ptr, x.block, pruneRaise),
                  x.block, pruneRaise)

(* Property: the rounds end only when no enabled subpass finds anything:   *)
(* no refop on NULL, no pair in a block, no diamond, and no fan-out in a   *)
(* block with one incref (another one there may have made the block bad).  *)
NothingLeftToPrune ==
    pass = "done" =>
        /\ "PerBasicBlock" \in flags => \A b \in Blocks :
               \A op \in ToSet(code[b]) :
                  /\ op.ptr # Null
                  /\ IsIncRef(op) => ~hasDecrefInNode(code, op.ptr, b)
        /\ \A x \in ToSet(ListIncRefs(code)) :
               /\ "Diamond" \in flags =>
                     \A t \in Blocks : ~DiamondTail(x.block, x.op.ptr, t)
               /\ "Fanout" \in flags => ~LeftOver(x, FALSE)
               /\ "FanoutRaise" \in flags => ~LeftOver(x, TRUE)

(* The step prunes a fan-out from which an exit is reached without meeting *)
(* a decref that goes, or one of the raisers.                              *)
PrunesOpenFanout(raisers) ==
    /\ pass \in {"Fanout", "FanoutRaise"}
    /\ code' # code
    /\ LET head == Head(todo).block
           ends == {b \in Blocks \ {head} : code'[b] # code[b]} \cup raisers
       IN  Exits \cap Closure({head}, Forward, ends) # {}

(* Action property: a fan-out is pruned only when all paths from the       *)
(* incref lead to a decref that goes with it or to a block that raises.    *)
FanoutPathsEnd == [][~PrunesOpenFanout(raising)]_vars

(* "Return true iff all paths from the incref have led to either a decref  *)
(* or a raising exit" (findFanoutDecrefCandidates).                        *)
RaisesAtExits == [][~PrunesOpenFanout(raising \cap Exits)]_vars
=============================================================================
