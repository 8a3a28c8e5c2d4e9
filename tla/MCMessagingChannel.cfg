SPECIFICATION LiveSpec
CONSTANTS
  MaxNonce = 3
  Window = 2
  Payload = {p1, p2}
  EMPTY = EMPTY
  NIL = NIL
  ABSENT = ABSENT
  SKIPPED = SKIPPED
  BURNT = BURNT
  OApp = oapp
  Delegate = {d1}
CHECK_DEADLOCK FALSE
INVARIANTS
  AtMostOnce
  OrderedPrefix
  SkipOnlyUndecided
  PendingFits
  ExecutionViewIsTrue
PROPERTIES
  ViewNeverGoesBack
  ImplementsInbox
  ChannelDrains
  NoMessageStuck
