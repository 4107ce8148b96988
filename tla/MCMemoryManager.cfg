CONSTANTS
    PageSize = 16
    StubAlign = 2
    Sizes = {1, 9}
    Alignments = {1, 8}
    Requests <- MCRequests
    MaxLoads = 2

SPECIFICATION Spec
INVARIANTS
    SectionsDisjoint
    SpaceForAll
    WritableUntilFinalized
    PendingOrProtected
    ObjectInOneMapping
