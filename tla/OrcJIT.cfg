SPECIFICATION Spec
CONSTANTS
    Names = {a, b, c}
    Trackers = {r1, r2, r3}
    NoLibrary = NoLibrary
INVARIANTS JITIsShared LoadedIsTracked
PROPERTIES NamesAreSpent UnloadedByItsTracker
