SPECIFICATION Spec
CONSTANTS
    Styles = {"typed"}
    Pool <- MCPool
    AllocTypes <- MCAllocTypes
    Indices <- MCIndices
    Kept <- MCKept
    MaxDeclared = 2
INVARIANTS ConstantsParsed
CHECK_DEADLOCK FALSE
