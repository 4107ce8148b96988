---------------------------- MODULE OwnershipAbs ----------------------------
(***************************************************************************)
(* What llvmlite.binding promises about the ownership of modules: "when    *)
(* add_module is called, ownership of the module is transferred to the     *)
(* execution engine", remove_module returns it, and an engine takes the    *)
(* modules it owns with it.                                                *)
(***************************************************************************)
CONSTANTS Modules, Engines, Caller, Nobody

VARIABLE holder   \* holder[m]: who will free module m

Init == holder = [m \in Modules |-> Nobody]

Create(m) == holder[m] = Nobody /\ holder' = [holder EXCEPT ![m] = Caller]

Give(m, e) == holder[m] = Caller /\ holder' = [holder EXCEPT ![m] = e]

TakeBack(m, e) == holder[m] = e /\ holder' = [holder EXCEPT ![m] = Caller]

\* The caller closes it, drops it, or links it into another module.
Destroy(m) == holder[m] = Caller /\ holder' = [holder EXCEPT ![m] = Nobody]

CloseEngine(e) ==
    holder' = [m \in Modules |-> IF holder[m] = e THEN Nobody ELSE holder[m]]

Next ==
    \/ \E m \in Modules : Create(m) \/ Destroy(m)
    \/ \E m \in Modules, e \in Engines : Give(m, e) \/ TakeBack(m, e)
    \/ \E e \in Engines : CloseEngine(e)

Spec == Init /\ [][Next]_holder
=============================================================================
