SPECIFICATION LiveSpec
CONSTANTS
  h1 = h1
  h2 = h2
  f = f
  Dvn = {h1, h2, f}
  Honest = {h1, h2}
  MaxDvns = 3
  MaxConfirmations = 2
  Finality = 2
  NIL = NIL
  ABSENT = ABSENT
  NONE = NONE
  Packet = {p}
  Sendable = {p}
  DefaultChoices <- MCDefaultChoices
  CustomChoices <- MCCustomChoices
CHECK_DEADLOCK FALSE
INVARIANTS
  CommittedOnlyReal
  ConfigIsMeetable
PROPERTIES
  FinalGetsCommitted
  PinnedConfigStays
