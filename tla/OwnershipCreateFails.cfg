SPECIFICATION Spec
CONSTANTS
    Modules = {m1}
    Contexts = {g}
    TargetMachines = {t1}
    Engines = {e1}
    GlobalContext = g
    Nil = Nil
    Caller = Caller
    Disciplined = TRUE
    OneContext = TRUE
INVARIANT NoDoubleFree
