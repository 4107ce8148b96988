SPECIFICATION Spec
CONSTANTS
    Styles = {"function", "module"}
    Names <- MCNames
    NamesOf <- MCNamesOf
    Contents <- MCContents
    Pairs <- MCPairs
    MaxValues = 6
    MaxEdits <- MCMaxEdits
INVARIANTS
    DefinitionsDistinct
    TextSaysWhatIs
    DefinedBeforeUse
    PromisedNamesFree
    NodesAsAsked
CHECK_DEADLOCK FALSE
