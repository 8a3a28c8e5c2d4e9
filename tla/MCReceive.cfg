SPECIFICATION ReceiveSpec
CONSTANTS
  MaxNonce = 1
  Window = 1
  msg = msg
  Payload = {msg}
  EMPTY = EMPTY
  NIL = NIL
  SKIPPED = SKIPPED
  BURNT = BURNT
  Receiver = receiver
  Delegate = {d1}
  UlnLib = uln
  Lib = {uln, other}
  MaxSlot = 1
  MaxGrace = 0
  DEFAULT = DEFAULT
  honest = honest
  faulty = faulty
  Dvn = {honest, faulty}
  MaxDvns = 2
  MaxConfirmations = 1
  Honest = {honest}
  Packet <- MCPacket
  Sendable <- MCPacket
  Finality = 1
  DefaultChoices <- MCDefaultChoices
  CustomChoices <- MCCustomChoices
  ABSENT = ABSENT
  NONE = NONE
CHECK_DEADLOCK FALSE
PROPERTIES
  PinnedIsAuthentic
  OnlyReceiverUnpins
