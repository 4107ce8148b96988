SPECIFICATION Spec
CONSTANTS
    Styles = {"module"}
    Names <- MCNames
    NamesOf <- MCNamesOf
    Contents <- MCContents
    Pairs <- MCPairs
    MaxValues = 6
    MaxEdits <- MCMaxEdits
INVARIANT PromisedNamesUnique
CHECK_DEADLOCK FALSE
