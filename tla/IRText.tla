------------------------------- MODULE IRText -------------------------------
(***************************************************************************)
(* The text of an ir.Module while it is built, printed and edited: names   *)
(* (NameScope), references and texts that are cached when they are first   *)
(* asked for (_StringReferenceCaching, _StrCaching), replacement of values *)
(* and callees, metadata (IRMetadata).  One module with one function, one  *)
(* of whose blocks has the instructions.                                   *)
(*                                                                         *)
(* A text is what of it can be wrong: the reference it defines, those it   *)
(* uses, in order, and the metadata attached.                              *)
(***************************************************************************)
EXTENDS IRMetadata

CONSTANTS
    Styles,     \* which calls a caller makes: members of {"function", "module", "free"}
    Names,      \* the names that are asked for, <<"">> among them
    NamesOf,    \* and those for each kind of new instruction
    Contents,   \* operand lists of add_metadata
    Pairs,      \* operand sets of add_debug_info
    MaxValues,  \* values a run makes
    MaxEdits    \* edits and prints a run makes, by style

ASSUME TextAssumption ==
    /\ Styles \subseteq {"function", "module", "free"}
    /\ <<"">> \in Names
    /\ \A name \in Names : name \in Seq(ToSet(name)) /\ name # <<>>
    /\ NamesOf \in [{"plain", "gep", "phi", "call", "branch"} -> SUBSET Names]
    /\ MaxValues \in Nat /\ MaxEdits \in [{"function", "module", "free"} -> Nat]

\* Operand lists in operand lists, as FlatNode expects them.
Flat(ops) == ops \in Seq(ToSet(ops)) /\ \A k \in DOMAIN ops : ops[k].is # "list"

ASSUME OperandsAssumption ==
    /\ \A ops \in Contents : /\ ops \in Seq(ToSet(ops))
                             /\ \A k \in DOMAIN ops : ops[k].is = "list" => Flat(ops[k].of)
    /\ \A ops \in Pairs : /\ IsFiniteSet(ops)
                          /\ \A p \in ops : p[2].is = "list" => Flat(p[2].of)

VARIABLES
    style,
    values,     \* every value made, in order
    body,       \* the instructions of the block, in order
    scope,      \* the names of the function
    meta,       \* the metadata, with the names of the module
    asked,      \* the last metadata asked for, and the node it got
    promised,   \* names that get_unique_name returned and nothing has yet
    edits

vars == <<style, values, body, scope, meta, asked, promised, edits>>

NoText == [none |-> TRUE]
NoRef == <<>>

Globals == {"function", "variable"}
Instructions == {"plain", "gep", "phi", "call", "branch"}
Cached == {"plain", "gep", "phi", "call", "branch", "variable"}

NamedValue(kind, name, operands) ==
    [kind |-> kind, name |-> name, ref |-> NoRef, text |-> NoText, md |-> {},
     operands |-> operands,
     own |-> IF kind = "gep" THEN operands ELSE <<>>,   \* GEPInstr.pointer, PhiInstr.incomings
     fixed |-> FALSE]        \* operands is a tuple, after replace_usage

Kind(v) == values[v].kind
IsGlobal(v) == Kind(v) \in Globals

(***************************************************************************)
(* References and texts.  A constant expression on a global has the        *)
(* reference of the global written into it when it is made.                *)
(***************************************************************************)
\* _get_reference: the prefix of the namespace and the name.
FreshReference(v) == <<IF IsGlobal(v) THEN "@" ELSE "%">> \o values[v].name

\* get_reference
Reference(v) == IF values[v].ref = NoRef THEN FreshReference(v) ELSE values[v].ref

\* What the text of v is written from.
Reads(v) == IF Kind(v) \in {"gep", "phi"} THEN values[v].own ELSE values[v].operands

\* The operands v has, for a caller who looks at them.
Means(v) == IF Kind(v) = "phi" THEN values[v].own ELSE values[v].operands

\* descr; a branch has no type and defines nothing.
Describe(v) ==
    [defines |-> IF Kind(v) = "branch" THEN NoRef ELSE Reference(v),
     uses |-> [k \in DOMAIN Reads(v) |-> Reference(Reads(v)[k])],
     md |-> values[v].md]

\* str(v)
Text(v) == IF values[v].text = NoText THEN Describe(v) ELSE values[v].text

\* The reference a reader of the module's text finds at v's definition: the label
\* of a block is its name (Block._format_name), not its reference.
Defined(v) == CASE Kind(v) = "block" -> FreshReference(v)
                [] Kind(v) = "const" -> Reference(values[v].operands[1])
                [] OTHER -> Reference(v)

Live == {v \in DOMAIN values : Kind(v) \notin Instructions} \cup ToSet(body)

-----------------------------------------------------------------------------
(***************************************************************************)
(* Making values.                                                          *)
(***************************************************************************)
NewId == Len(values) + 1

\* A function with one argument and one block; the return value has a name too.
Init ==
    /\ style \in Styles
    /\ LET argument == Register(NewScope, <<"">>, TRUE)
           returned == Register(argument.scope, <<"">>, TRUE)
           entry == Register(returned.scope, <<"entry">>, TRUE)
       IN /\ scope = entry.scope
          /\ values = <<NamedValue("function", <<"f">>, <<>>),
                        NamedValue("arg", argument.name, <<>>),
                        NamedValue("block", entry.name, <<>>)>>
    /\ meta = [NoMetadata EXCEPT !.scope = Register(@, <<"f">>, FALSE).scope]
    /\ body = <<>>
    /\ asked = <<>>
    /\ promised = <<>>
    /\ edits = 0

\* GlobalVariable, Function: no deduplication, so a name in use raises.
MakeGlobal(kind, name) ==
    /\ CanRegister(meta.scope, name, FALSE)
    /\ meta' = [meta EXCEPT !.scope = Register(@, name, FALSE).scope]
    /\ values' = Append(values, NamedValue(kind, name, <<>>))
    /\ UNCHANGED <<style, body, scope>>

AddGlobal ==
    /\ \E name \in Names, kind \in Globals : MakeGlobal(kind, name)
    /\ UNCHANGED promised

\* get_unique_name, which registers nothing: a hint that is not in use comes back as it
\* is, each time; the number in a name it makes up is spent for good.
GetUniqueName ==
    \E hint \in Names :
        /\ LET d == Deduplicate(meta.scope, hint)
           IN /\ meta' = [meta EXCEPT !.scope = d.scope]
              /\ promised' = Append(promised, d.name)
        /\ UNCHANGED <<style, values, body, scope>>

\* A variable with a name that get_unique_name returned.
AddPromisedGlobal ==
    \E k \in DOMAIN promised :
        /\ MakeGlobal("variable", promised[k])
        /\ promised' = RemoveAt(promised, k)

\* bitcast, gep, ... of a global: FormattedConstant with the text written out.
AddConstant ==
    \E g \in DOMAIN values :
        /\ IsGlobal(g)
        /\ LET cached == [values EXCEPT ![g].ref = Reference(g)]
           IN values' = Append(cached, [NamedValue("const", <<"">>, <<g>>) EXCEPT
                                           !.ref = Reference(g)])
        /\ UNCHANGED <<style, body, scope, meta, promised>>

\* A value of the function: an instruction or a block.
Make(kind, name, operands) ==
    LET r == Register(scope, name, TRUE)
    IN /\ scope' = r.scope
       /\ values' = Append(values, NamedValue(kind, r.name, operands))

\* append_basic_block
AppendBlock ==
    /\ \E name \in Names : Make("block", name, <<>>)
    /\ UNCHANGED <<style, body, meta, promised>>

DataIn(S) == {v \in S : Kind(v) \in {"arg", "const", "plain", "gep", "call", "phi"}}
Callees == {v \in Live : Kind(v) = "function"}
Blocks == {v \in Live : Kind(v) = "block"}

\* The operands of a new instruction that may use the values of S.
Operands(kind, S) ==
    CASE kind = "plain" -> {<<v>> : v \in DataIn(S)}
      [] kind = "gep" -> {<<v>> : v \in DataIn(S)}
      [] kind = "call" -> {<<f, v>> : f \in Callees, v \in DataIn(S)}
      [] kind = "branch" -> {<<b>> : b \in Blocks}
      [] kind = "phi" -> {<<>>}

\* The builder's _insert at the end of the block.
Emit(kind) ==
    /\ \E name \in NamesOf[kind], ops \in Operands(kind, Live) :
        Make(kind, name, ops)
    /\ body' = Append(body, NewId)
    /\ UNCHANGED <<style, meta, promised>>
-----------------------------------------------------------------------------
(***************************************************************************)
(* Printing.  str(module) writes every live value; what it asks for is     *)
(* cached on the way.                                                      *)
(***************************************************************************)
\* The caches after the values of V have been written.
Written(V) ==
    LET texts == {v \in V : Kind(v) \in Cached /\ values[v].text = NoText}
        refs == (UNION {ToSet(Reads(v)) : v \in texts})
                    \cup {v \in V : Kind(v) \notin {"block", "branch"}}
    IN [v \in DOMAIN values |->
           [values[v] EXCEPT !.ref = IF v \in refs THEN Reference(v) ELSE @,
                             !.text = IF v \in texts THEN Describe(v) ELSE @]]

\* str(module)
Show ==
    /\ values' = Written(Live)
    /\ UNCHANGED <<style, body, scope, meta, promised>>

-----------------------------------------------------------------------------
(***************************************************************************)
(* Edits.  A text that has been cached does not follow every one of them:  *)
(* except under "free", a caller edits a value before it is printed, and   *)
(* replaces only what no copy was taken of.                                *)
(***************************************************************************)
Free == style = "free"
Unprinted(v) == Free \/ values[v].text = NoText

\* Mutant: the old name is given back.
RegisterAndRelease(names, old, new, dedup) ==
    LET r == Register(names, new, dedup) IN [r EXCEPT !.scope.used = @ \ {old}]

\* _set_name: the old name stays registered.
SetName(names, old, new, dedup) == Register(names, new, dedup)

Rename ==
    \E v \in DOMAIN values, name \in Names :
        /\ Kind(v) # "const"
        /\ Kind(v) = "block" => Free \/ values[v].ref = NoRef
        /\ LET names == IF IsGlobal(v) THEN meta.scope ELSE scope
               r == SetName(names, values[v].name, name, ~IsGlobal(v))
           IN /\ CanRegister(names, name, ~IsGlobal(v))
              /\ values' = [values EXCEPT ![v].name = r.name]
              /\ IF IsGlobal(v) THEN meta' = [meta EXCEPT !.scope = r.scope] /\ UNCHANGED scope
                                ELSE scope' = r.scope /\ UNCHANGED meta
        /\ UNCHANGED <<style, body, promised>>

SetInitializer ==
    \E v \in DOMAIN values, init \in DOMAIN values :
        /\ Kind(v) = "variable" /\ Kind(init) \in Globals \cup {"const"} /\ Unprinted(v)
        /\ values' = [values EXCEPT ![v].operands = <<init>>]
        /\ UNCHANGED <<style, body, scope, meta, promised>>

\* PhiInstr.add_incoming
AddIncoming ==
    \E p \in ToSet(body), v \in DataIn(Live), b \in Blocks :
        /\ Kind(p) = "phi" /\ Unprinted(p)
        /\ values' = [values EXCEPT ![p].own = @ \o <<v, b>>]
        /\ UNCHANGED <<style, body, scope, meta, promised>>

\* set_metadata(slot, module.add_metadata(ops)); PredictableInstr.set_weights does it
\* to a branch.
Attach(v, slot, ops) ==
    LET r == AddMetadata(meta, ops)
    IN /\ meta' = r.m
       /\ values' = [values EXCEPT ![v].md = {e \in @ : e[1] # slot} \cup {<<slot, r.node>>}]
       /\ asked' = <<"", ops, FALSE, r.node>>
       /\ UNCHANGED <<style, body, scope, promised>>

SetMetadata ==
    \E v \in ToSet(body) \cup {g \in DOMAIN values : IsGlobal(g)}, ops \in Contents :
        Unprinted(v) /\ Attach(v, "dbg", ops)

SetWeights ==
    \E v \in ToSet(body) :
        /\ Kind(v) = "branch" /\ Unprinted(v)
        /\ Attach(v, "prof", <<String("branch_weights"), Const("1")>>)

\* CallInstr.replace_callee; a tuple of operands cannot be assigned to.
WithCallee(r, callee) == [r EXCEPT !.operands[1] = callee]

ReplaceCallee ==
    \E c \in ToSet(body), callee \in Callees :
        /\ Kind(c) = "call" /\ ~values[c].fixed /\ Unprinted(c)
        /\ values' = [values EXCEPT ![c] = WithCallee(@, callee)]
        /\ UNCHANGED <<style, body, scope, meta, promised>>

\* replace_all_calls stops with a TypeError at the first call it cannot change, and
\* the calls before it stay changed.
ReplaceAllCalls ==
    \E orig \in Callees, repl \in Callees :
        LET calls == {k \in DOMAIN body : /\ Kind(body[k]) = "call"
                                          /\ values[body[k]].operands[1] = orig}
            changed == {k \in calls : \A j \in calls : j <= k => ~values[body[j]].fixed}
        IN /\ \A k \in changed : Unprinted(body[k])
           /\ values' = [v \in DOMAIN values |->
                             IF \E k \in changed : body[k] = v THEN WithCallee(values[v], repl)
                             ELSE values[v]]
           /\ UNCHANGED <<style, body, scope, meta, promised>>

Substituted(ops, old, new) == [k \in DOMAIN ops |-> IF ops[k] = old THEN new ELSE ops[k]]

\* Mutant: replace_usage leaves the text it has cached.
PatchedKeepsText(r, old, new) ==
    IF r.kind = "phi" THEN [r EXCEPT !.own = Substituted(@, old, new)]
    ELSE IF \E k \in DOMAIN r.operands : r.operands[k] = old
         THEN [r EXCEPT !.operands = Substituted(@, old, new), !.fixed = TRUE]
         ELSE r

\* Instruction.replace_usage, PhiInstr.replace_usage
Patched(r, old, new) ==
    IF r.kind = "phi" THEN [r EXCEPT !.own = Substituted(@, old, new)]
    ELSE IF \E k \in DOMAIN r.operands : r.operands[k] = old
         THEN [r EXCEPT !.operands = Substituted(@, old, new), !.fixed = TRUE, !.text = NoText]
         ELSE r

\* Nothing that stays behind when old is replaced.
Patchable(old) ==
    \A v \in ToSet(body) : old \in ToSet(Reads(v)) =>
        /\ Kind(v) # "gep"
        /\ Kind(v) = "phi" => values[v].text = NoText

\* Mutant: the new instruction goes to the end of the block.
PutInPlaceAtEnd(p, new) == Append(RemoveAt(body, p), new)

PutInPlace(p, new) == ReplaceAt(body, p, new)

\* Block.replace of the p-th instruction by a new one, of values defined before it.
Replace ==
    \E p \in DOMAIN body, kind \in {"plain", "call"} :
        LET old == body[p]
            before == (Live \ ToSet(body)) \cup {body[j] : j \in 1 .. p - 1}
        IN /\ Kind(old) # "branch" /\ (Free \/ Patchable(old))
           /\ \E name \in NamesOf[kind], ops \in Operands(kind, before) :
                LET r == Register(scope, name, TRUE)
                IN /\ scope' = r.scope
                   /\ body' = PutInPlace(p, NewId)
                   /\ values' = [v \in 1 .. NewId |->
                         IF v = NewId THEN NamedValue(kind, r.name, ops)
                         ELSE IF v \in ToSet(body) \ {old} THEN Patched(values[v], old, NewId)
                         ELSE values[v]]
           /\ UNCHANGED <<style, meta, promised>>

-----------------------------------------------------------------------------
(***************************************************************************)
(* Metadata on its own.                                                    *)
(***************************************************************************)
AskMetadata ==
    /\ \E ops \in Contents : LET r == AddMetadata(meta, ops)
                              IN meta' = r.m /\ asked' = <<"", ops, FALSE, r.node>>
    /\ UNCHANGED <<style, values, body, scope, promised>>

AskDebugInfo ==
    /\ \E ops \in Pairs, distinct \in BOOLEAN :
          LET r == AddDebugInfo(meta, "DI", ops, distinct)
          IN meta' = r.m /\ asked' = <<"DI", ops, distinct, r.node>>
    /\ UNCHANGED <<style, values, body, scope, promised>>

AskNamed ==
    /\ \E element \in {List(ops) : ops \in Contents} \cup {Node(n) : n \in DOMAIN meta.nodes} :
          meta' = AddNamed(meta, "named", element)
    /\ UNCHANGED <<style, values, body, scope, promised>>

-----------------------------------------------------------------------------
InModule == style \in {"module", "free"}
InFunction == style \in {"function", "free"}

Making ==
    /\ Len(values) < MaxValues
    /\ \/ AddGlobal \/ AddConstant
       \/ InModule /\ AddPromisedGlobal
       \/ InFunction /\ (AppendBlock \/ Replace \/ \E kind \in Instructions : Emit(kind))
    /\ asked' = <<>> /\ UNCHANGED edits

Asking ==
    \/ InFunction /\ (SetMetadata \/ SetWeights)
    \/ InModule /\ (AskMetadata \/ AskDebugInfo)

Editing ==
    /\ edits < MaxEdits[style]
    /\ \/ Asking
       \/ /\ \/ Show \/ Rename
             \/ InModule /\ (GetUniqueName \/ SetInitializer \/ AskNamed)
             \/ InFunction /\ (AddIncoming \/ ReplaceCallee \/ ReplaceAllCalls)
          /\ asked' = <<>>
    /\ edits' = edits + 1

Next == Making \/ Editing

Spec == Init /\ [][Next]_vars

-----------------------------------------------------------------------------
(***************************************************************************)
(* Properties.                                                             *)
(***************************************************************************)
Definitions == {v \in Live : Kind(v) \notin {"const", "branch"}}

\* No two values are defined under one name in the text, whatever was renamed after its reference was cached: a name that was given
\* out stays taken (NameScope.register, NamedValue._set_name).
DefinitionsDistinct ==
    \A v, w \in Definitions : v # w => Defined(v) # Defined(w)

\* The text of every instruction and variable says what its value holds: each operand
\* under the name it is defined with, in order, and the metadata it has now
\* (_StrCaching, _StringReferenceCaching, replace_usage, set_metadata).
TextSaysWhatIs ==
    \A v \in {w \in Live : Kind(w) \in Cached} :
        /\ Text(v).uses = [k \in DOMAIN Means(v) |-> Defined(Means(v)[k])]
        /\ Text(v).md = values[v].md
        /\ Kind(v) # "branch" => Text(v).defines = Defined(v)

\* Replacement keeps the order of the block: an instruction other than a phi comes
\* after the instructions it uses (Block.replace).
DefinedBeforeUse ==
    \A k \in DOMAIN body : Kind(body[k]) # "phi" =>
        \A o \in ToSet(Means(body[k])) : Kind(o) \in Instructions => \E j \in 1 .. k - 1 : body[j] = o

MadeUp(name) == Len(name) > 1

\* A name that get_unique_name has made up stays free, and is not made up again, until
\* it is used, whatever is registered in the scope that globals, strings and nodes
\* share: its counters remember what it did not register.
PromisedNamesFree ==
    \A k \in DOMAIN promised : MadeUp(promised[k]) =>
        /\ ~IsUsed(meta.scope, promised[k])
        /\ \A j \in DOMAIN promised : promised[j] = promised[k] => j = k

\* "Get a unique global name" (module.py:157): no name is returned twice.
PromisedNamesUnique ==
    \A j, k \in DOMAIN promised : promised[j] = promised[k] => j = k

\* What the key of a node takes for the same and its text does not: a token and the
\* string of its value under "encoding", True and 1.
Confused(key, a, b) ==
    /\ \/ {a.is, b.is} = {"bool", "int"}
       \/ key = "encoding" /\ {a.is, b.is} = {"token", "string"}
    /\ a.of = b.of

\* A node op of its own for a list, what was asked for otherwise.
Says(key, op, ask) ==
    IF ask.is = "list" THEN op.is = "node" /\ meta.nodes[op.of].operands = ask.of
    ELSE SameText(op, ask) \/ Confused(key, op, ask)

\* The node that add_metadata or add_debug_info returns, shared or new, has the
\* contents it was asked for, its kind and its distinctness; no operand but of the
\* pairs that Confused names is printed in another way.
NodesAsAsked ==
    asked # <<>> =>
        LET node == meta.nodes[asked[4]]
            ops == asked[2]
        IN /\ node.kind = asked[1] /\ node.distinct = asked[3]
           /\ IF asked[1] = "" THEN /\ Len(node.operands) = Len(ops)
                                    /\ \A k \in DOMAIN ops : Says("", node.operands[k], ops[k])
              ELSE /\ {p[1] : p \in node.operands} = {p[1] : p \in ops}
                   /\ \A p \in ops : \E q \in node.operands :
                         p[1] = q[1] /\ Says(p[1], q[2], p[2])

\* "or return a previous equivalent metadata" (module.py:77-78): the node is printed
\* with the operands that were asked for.
NodesEquivalent ==
    (asked # <<>> /\ asked[1] # "") =>
        \A p \in asked[2] : \E q \in meta.nodes[asked[4]].operands :
            p[1] = q[1] /\ (p[2].is = "list" \/ SameText(p[2], q[2]))

\* "All uses of *old* in the whole function are also patched"
\* (docs/source/user-guide/ir/values.rst:277): no text names what has been replaced.
AllUsesPatched ==
    \A v \in ToSet(body) : \A o \in DOMAIN values :
        (Kind(o) \in Instructions /\ o \notin Live) => \A k \in DOMAIN Text(v).uses :
                                                        Text(v).uses[k] # Reference(o)
=============================================================================
