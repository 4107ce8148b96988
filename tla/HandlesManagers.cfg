SPECIFICATION Spec
CONSTANTS
  Families <- MCFamilies
INVARIANTS
  ManagersFreed
CHECK_DEADLOCK FALSE
