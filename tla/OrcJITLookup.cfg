SPECIFICATION Spec
CONSTANTS
    Names = {a}
    Trackers = {r1, r2}
    NoLibrary = NoLibrary
INVARIANT TrackedIsLoaded
