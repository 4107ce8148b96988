SPECIFICATION FairSpec
CONSTANTS
    NoThread = NoThread
    NoCallback = NoCallback
    Threads = {t1, t2}
    Callbacks = {c1}
    MaxNesting = 2
    MaxRegistered = 2
INVARIANTS MutualExclusion DepthIsExact AcqRelPaired
PROPERTY LockIsFreed
