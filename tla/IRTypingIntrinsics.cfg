SPECIFICATION Spec
CONSTANTS
    Styles = {"omits"}
    Pool <- MCPool
    AllocTypes <- MCAllocTypes
    Indices <- MCIndices
    Kept <- MCKept
    MaxDeclared = 2
INVARIANTS WrappersCallable
CHECK_DEADLOCK FALSE
