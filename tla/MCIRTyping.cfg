SPECIFICATION Spec
CONSTANTS
    Styles = {"typed", "opaque", "mixed", "calls", "omits"}
    Pool <- MCPool
    AllocTypes <- MCAllocTypes
    Indices <- MCIndices
    Kept <- MCKept
    MaxDeclared = 2
INVARIANTS LoadsReadWhatIsThere TypesSurviveLLVM WellTyped TrueStoresAccepted WrappersAgree
CHECK_DEADLOCK FALSE
