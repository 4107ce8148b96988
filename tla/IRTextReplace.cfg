SPECIFICATION Spec
CONSTANTS
    Styles = {"free"}
    Names <- MCNames
    NamesOf <- MCNamesOf
    Contents <- MCContents
    Pairs <- MCPairs
    MaxValues = 6
    MaxEdits <- MCMaxEdits
INVARIANT AllUsesPatched
CHECK_DEADLOCK FALSE
