SPECIFICATION Spec
CONSTANTS
    Styles = {"typed"}
    Pool <- MCPool
    AllocTypes <- MCAllocTypes
    Indices <- MCIndices
    Kept <- MCKept
    MaxDeclared = 2
INVARIANTS ConstantsHaveText
CHECK_DEADLOCK FALSE
