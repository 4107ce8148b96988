SPECIFICATION Spec
CONSTANTS
    Styles = {"module"}
    Names <- MCNames
    NamesOf <- MCNamesOf
    Contents <- MCContents
    Pairs <- MCPairs
    MaxValues = 6
    MaxEdits <- MCMaxEdits
INVARIANT NodesEquivalent
CHECK_DEADLOCK FALSE
