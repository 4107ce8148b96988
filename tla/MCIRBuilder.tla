---------------------------- MODULE MCIRBuilder -----------------------------
(* Bounds for IRBuilder: deep nesting for callers that build at the ends of *)
(* blocks, shallow nesting for those that do as they like.                  *)
EXTENDS IRBuilder

MCMaxBlocks == [s \in Styles |-> IF s = "ends" THEN 6 ELSE 4]
MCMaxCode   == [s \in Styles |-> IF s = "ends" THEN 3 ELSE 2]
MCMaxFrames == [s \in Styles |-> IF s = "ends" THEN 3 ELSE 2]
=============================================================================
