----------------------------- MODULE MCRefPrune -----------------------------
(* Every control-flow graph of NumBlocks blocks whose entry has no     *)
(* predecessor, whose blocks are reachable from the entry through blocks   *)
(* in order, and from which a return can be reached.                       *)
EXTENDS RefPrune, TLC
CONSTANTS NumBlocks, p, q

MCObjects == {"x", "y"}
Targets == {<<>>} \cup {<<a>> : a \in 2..NumBlocks}
             \cup {t \in (2..NumBlocks) \X (2..NumBlocks) : t[1] < t[2]}
Leads(g, n) == LET up[k \in 0..NumBlocks] ==
                     IF k = 0 THEN {b \in 1..NumBlocks : g[b] = <<>>}
                     ELSE up[k - 1] \cup {b \in 1..NumBlocks :
                            ToSet(g[b]) \cap up[k - 1] # {}}
               IN  n \in up[NumBlocks]
MCGraphs == {g \in [1..NumBlocks -> Targets] :
    /\ \A b \in 2..NumBlocks : \E a \in 1..(b - 1) : b \in ToSet(g[a])
    /\ \A b \in 1..NumBlocks : Leads(g, b)}
(* Block 1 branches to 2, which goes on to 4, and to 3, which returns. *)
MCRaiseGraphs == {<< <<2, 3>>, <<4>>, <<>>, <<>> >>}

Op(k, v) == [kind |-> k, ptr |-> v]
MCAliasings == {[v \in Pointers |-> "x"], (p :> "x" @@ q :> "y")}
MCBodies == { <<>>, <<Op("inc", p)>>, <<Op("dec", p)>>, <<Op("dec", q)>>,
    <<Op("use", p), Op("dec", p)>>,
    <<Op("inc", p), Op("use", p), Op("dec", p)>>,
    <<Op("dec", Null), Op("dec", q), Op("inc", p)>> }
MCFlags == {Subpasses, Subpasses \ {"PerBasicBlock"}}
=============================================================================
