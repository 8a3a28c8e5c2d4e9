SPECIFICATION LiveDelivery
CONSTANTS
  MaxNonce = 2
  Window = 2
  p1 = p1
  p2 = p2
  Payload = {p1, p2}
  EMPTY = EMPTY
  NIL = NIL
  ABSENT = ABSENT
  SKIPPED = SKIPPED
  BURNT = BURNT
  OApp = oapp
  Delegate = {d1}
  Message <- MCMessage
  Worker = {k1, k2}
  Value = {0, 1}
CHECK_DEADLOCK FALSE
INVARIANTS
  RentIsKept
PROPERTIES
  ImplementsCourier
  AlertIsNotTheEnd
