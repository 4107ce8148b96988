SPECIFICATION Spec
CONSTANTS
  Families <- MCFamilies
INVARIANTS
  NoDangling
  FreedOnce
  NothingLeaked
CHECK_DEADLOCK FALSE
