SPECIFICATION Spec
CONSTANTS
    Modules = {m1, m2}
    Contexts = {g, c1, c2}
    TargetMachines = {t1}
    Engines = {e1}
    GlobalContext = g
    Nil = Nil
    Caller = Caller
    Disciplined = TRUE
    OneContext = FALSE
INVARIANT NoOtherDoubleFree
