SPECIFICATION Spec
CONSTANTS
    NumBlocks = 4
    p = p
    q = q
    Null = Null
    Graphs <- MCGraphs
    Pointers = {p, q}
    Objects <- MCObjects
    Aliasings <- MCAliasings
    MaxRaisers = 1
    MaxRefOps = 3
    PathLength = 6
    Bodies <- MCBodies
    Flags <- MCFlags
    SubgraphLimit = 4
    RecurseDepth = 15
INVARIANTS CountsKept UsesStayAlive NothingLeftToPrune
PROPERTY FanoutPathsEnd
