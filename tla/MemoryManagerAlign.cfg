CONSTANTS
    PageSize = 16
    StubAlign = 2
    Sizes = {1, 17}
    Alignments = {1, 32}
    Requests <- MCRequests
    MaxLoads = 2

SPECIFICATION Spec
INVARIANT SpaceForAll
