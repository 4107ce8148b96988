----------------------------- MODULE MCHandles -----------------------------
(***************************************************************************)
(* The families of wrappers of llvmlite.binding that refer to one another, *)
(* with a second wrapper of a kind where the two can be confused.          *)
(***************************************************************************)
EXTENDS Handles, TLC

MCFamilies == {
  \* modules, and clones, of a private context
  ("context" :> 1) @@ ("module" :> 2) @@ ("function" :> 1) @@ ("iterator" :> 1)
    @@ ("block" :> 1) @@ ("attribute" :> 0),
  \* down to the operands of an instruction
  ("module" :> 1) @@ ("function" :> 1) @@ ("iterator" :> 3) @@ ("block" :> 1)
    @@ ("instruction" :> 1) @@ ("operand" :> 1),
  \* types and attributes, of the global context
  ("module" :> 1) @@ ("function" :> 1) @@ ("iterator" :> 2) @@ ("argument" :> 1)
    @@ ("type" :> 1) @@ ("attribute" :> 0),
  ("module" :> 1) @@ ("global" :> 1) @@ ("iterator" :> 1) @@ ("type" :> 2),
  \* engines
  ("module" :> 2) @@ ("machine" :> 1) @@ ("engine" :> 1) @@ ("function" :> 1),
  ("module" :> 1) @@ ("machine" :> 1) @@ ("engine" :> 1) @@ ("layout" :> 2) @@ ("cache" :> 2),
  \* pass builders, alone and on the machine of an engine
  ("machine" :> 1) @@ ("tuning" :> 1) @@ ("builder" :> 1) @@ ("manager" :> 1)
    @@ ("timing" :> 1),
  ("machine" :> 1) @@ ("tuning" :> 1) @@ ("builder" :> 1) @@ ("module" :> 1)
    @@ ("engine" :> 1),
  \* object files
  ("object" :> 1) @@ ("sections" :> 2) }
=============================================================================
