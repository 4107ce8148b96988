SPECIFICATION Spec
CONSTANTS
    Threads = {p, q}
    Engines = {e1, e2}
    Modules = {m1, m2, m3}
    None = None
INVARIANTS NoUseAfterFree NoDoubleFree NothingLost
