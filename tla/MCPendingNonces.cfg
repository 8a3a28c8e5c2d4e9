SPECIFICATION Spec
CONSTANTS
  MaxNonce = 12
  Window = 6
CHECK_DEADLOCK FALSE
INVARIANTS
  SortedAndFits
PROPERTIES
  ListIsSet
