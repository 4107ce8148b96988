------------------------------ MODULE MCIRText ------------------------------
(* The names, metadata and bounds of the runs of IRText. *)
EXTENDS IRText

MCNames == {<<"">>, <<"a">>}

MCNamesOf == [kind \in {"plain", "gep", "phi", "call", "branch"} |->
                 IF kind = "plain" THEN {<<"a">>} ELSE {<<"">>}]

MCMaxEdits == [function |-> 2, module |-> 3, free |-> 2]

\* A leaf, a string, a list in a list, and the leaf once more under another node.
MCContents == {<<Const("1")>>, <<String("s"), List(<<Const("1")>>)>>}

\* Tokens of one value, and what their keys or Python take for the same.
MCPairs == {{<<"encoding", Token("t", 1)>>, <<"of", List(<<Null>>)>>},
            {<<"encoding", Token("t", 2)>>, <<"of", Node(1)>>},
            {<<"encoding", String("t")>>, <<"of", Truth("1")>>},
            {<<"encoding", Token("t", 1)>>, <<"of", Number("1")>>},
            {<<"of", Token("t", 1)>>}, {<<"of", Token("t", 2)>>}}
=============================================================================
