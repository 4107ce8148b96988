SPECIFICATION Spec
CONSTANTS
    Modules = {m1, m2}
    Contexts = {g, c1}
    TargetMachines = {t1, t2}
    Engines = {e1, e2}
    GlobalContext = g
    Nil = Nil
    Caller = Caller
    Disciplined = TRUE
    OneContext = TRUE
SYMMETRY MCSymmetry
INVARIANT NoOtherDoubleFree
PROPERTIES ContextsGoLast ImplementsOwnership
