SPECIFICATION Spec
CONSTANTS
  OApp = {o1, o2}
  Lib = {l1, l2, l3}
  MaxSlot = 2
  MaxGrace = 1
  DEFAULT = DEFAULT
  ABSENT = ABSENT
  NONE = NONE
SYMMETRY Symmetry
CHECK_DEADLOCK FALSE
INVARIANTS
  ValidLibsReceive
  DefaultHasNoTimeout
PROPERTIES
  PinnedOAppKeepsLibs
  TimeOnlyExpires
