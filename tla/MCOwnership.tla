----------------------------- MODULE MCOwnership ----------------------------
(* Symmetric instances of Ownership. *)
EXTENDS Ownership, TLC

MCSymmetry ==
    Permutations(Modules) \cup Permutations(TargetMachines)
        \cup Permutations(Engines) \cup Permutations(Contexts \ {GlobalContext})
=============================================================================
