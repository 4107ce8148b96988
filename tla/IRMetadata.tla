----------------------------- MODULE IRMetadata -----------------------------
(***************************************************************************)
(* The metadata of an ir.Module: nodes that add_metadata and               *)
(* add_debug_info make or find again, their names in the scope they share  *)
(* with the globals, and the named metadata.  Operands are records: "is"   *)
(* says which branch of _fix_metadata_operands or DIValue.descr they meet. *)
(* The operators take and return m = [scope, nodes, cache, named]: a call  *)
(* with lists among its operands adds several nodes.                       *)
(***************************************************************************)
EXTENDS NameScope, SequencesExt

Numeral(n) == ToString(n)

NoMetadata == [scope |-> NewScope, nodes |-> <<>>, cache |-> {}, named |-> [n \in {} |-> <<>>]]

Null == [is |-> "null", of |-> "none"]
String(s) == [is |-> "string", of |-> s]
List(ops) == [is |-> "list", of |-> ops]
Node(n) == [is |-> "node", of |-> n]
Const(c) == [is |-> "const", of |-> c]
\* A Python int, and a bool: True is 1 wherever the two are compared.
Number(n) == [is |-> "int", of |-> n]
Truth(n) == [is |-> "bool", of |-> n]
\* DIToken: compared by identity, printed by value.
Token(value, object) == [is |-> "token", of |-> value, object |-> object]

\* A new node; its name is its number, if nothing else has that name.
NewNode(m, kind, distinct, ops) ==
    LET r == Register(m.scope, <<Numeral(Len(m.nodes))>>, TRUE)
    IN [m EXCEPT !.scope = r.scope,
                 !.nodes = Append(@, [name |-> r.name, kind |-> kind,
                                      distinct |-> distinct, operands |-> ops])]

\* The node of the cache with this key, or a new one under this key.
\* Mutant: a node is found again whether or not it is to be distinct.
FindOrAddShared(m, key, kind, distinct, ops) ==
    IF \E e \in m.cache : e.key[1] = key[1] /\ e.key[2] = key[2]
    THEN [m |-> m, node |-> (CHOOSE e \in m.cache : e.key[1] = key[1] /\ e.key[2] = key[2]).node]
    ELSE [m |-> [NewNode(m, kind, distinct, ops) EXCEPT
                    !.cache = @ \cup {[key |-> key, node |-> Len(m.nodes) + 1]}],
          node |-> Len(m.nodes) + 1]

FindOrAdd(m, key, kind, distinct, ops) ==
    IF \E e \in m.cache : e.key = key
    THEN [m |-> m, node |-> (CHOOSE e \in m.cache : e.key = key).node]
    ELSE [m |-> [NewNode(m, kind, distinct, ops) EXCEPT
                    !.cache = @ \cup {[key |-> key, node |-> Len(m.nodes) + 1]}],
          node |-> Len(m.nodes) + 1]

\* MetaDataString registers an empty name in the module's scope each time.
AddString(m) == [m EXCEPT !.scope = Register(@, <<"">>, TRUE).scope]

(***************************************************************************)
(* add_metadata.  Strings become MetaDataStrings, lists nodes of their     *)
(* own (FlatNode, for lists that hold no lists), before the look-up.       *)
(***************************************************************************)
Strings(m, ops) ==
    LET after[n \in 0 .. Len(ops)] ==
            IF n = 0 THEN m
            ELSE IF ops[n].is = "string" THEN AddString(after[n - 1]) ELSE after[n - 1]
    IN after[Len(ops)]

FlatNode(m, ops) == FindOrAdd(Strings(m, ops), <<"", ops, FALSE>>, "", FALSE, ops)

FixOperand(acc, op) ==
    IF op.is = "list" THEN LET r == FlatNode(acc.m, op.of)
                           IN [m |-> r.m, ops |-> Append(acc.ops, Node(r.node))]
    ELSE [m |-> Strings(acc.m, <<op>>), ops |-> Append(acc.ops, op)]

\* The look-up, once f holds the operands that are fixed.
AddFixed(f) == FindOrAdd(f.m, <<"", f.ops, FALSE>>, "", FALSE, f.ops)

AddMetadata(m, ops) ==
    LET fixed[n \in 0 .. Len(ops)] ==
            IF n = 0 THEN [m |-> m, ops |-> <<>>] ELSE FixOperand(fixed[n - 1], ops[n])
    IN AddFixed(fixed[Len(ops)])

(***************************************************************************)
(* add_debug_info.  Operands are a set of <<key, operand>>; only lists are *)
(* fixed, and the key of the cache takes a token by its value under        *)
(* "encoding" and by identity elsewhere; it is compared as Python compares.*)
(***************************************************************************)
FixPair(acc, p) ==
    IF p[2].is = "list" THEN LET r == AddMetadata(acc.m, p[2].of)
                             IN [m |-> r.m, ops |-> acc.ops \cup {<<p[1], Node(r.node)>>}]
    ELSE [acc EXCEPT !.ops = @ \cup {p}]

\* str_ditok_operands
TokenByValue(p) == IF p[1] = "encoding" /\ p[2].is = "token" THEN <<p[1], String(p[2].of)>> ELSE p

Compared(p) == IF p[2].is = "bool" THEN <<p[1], Number(p[2].of)>> ELSE p

AddFixedPairs(kind, f, distinct) ==
    FindOrAdd(f.m, <<kind, {Compared(TokenByValue(p)) : p \in f.ops}, distinct>>, kind, distinct, f.ops)

AddDebugInfo(m, kind, ops, distinct) ==
    LET list == SetToSeq(ops)
        fixed[n \in 0 .. Len(list)] ==
            IF n = 0 THEN [m |-> m, ops |-> {}] ELSE FixPair(fixed[n - 1], list[n])
    IN AddFixedPairs(kind, fixed[Len(list)], distinct)

\* add_named_metadata, with a node or a list as the element.
AddNamed(m, name, element) ==
    LET r == IF element.is = "list" THEN AddMetadata(m, element.of) ELSE [m |-> m, node |-> element.of]
        had == IF name \in DOMAIN m.named THEN m.named[name] ELSE <<>>
    IN [r.m EXCEPT !.named = [n \in DOMAIN @ \cup {name} |->
                                 IF n = name THEN Append(had, r.node) ELSE @[n]]]

\* Operands that are printed alike: a token bare, a string in quotes, a bool in words.
SameText(a, b) == a.is = b.is /\ a.of = b.of
=============================================================================
