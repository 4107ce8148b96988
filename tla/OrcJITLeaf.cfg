SPECIFICATION Spec
CONSTANTS
    Names = {a, b}
    Trackers = {r1, r2}
    NoLibrary = NoLibrary
INVARIANT PrerequisitesLoaded
