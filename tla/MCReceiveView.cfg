SPECIFICATION ReceiveSpec
CONSTANTS
  MaxNonce = 2
  Window = 1
  msg = msg
  Payload = {msg}
  EMPTY = EMPTY
  NIL = NIL
  SKIPPED = SKIPPED
  BURNT = BURNT
  Receiver = receiver
  Delegate = {d1}
  UlnLib = uln
  Lib = {uln}
  MaxSlot = 0
  MaxGrace = 0
  DEFAULT = DEFAULT
  honest = honest
  faulty = faulty
  Dvn = {honest}
  MaxDvns = 2
  MaxConfirmations = 1
  Honest = {honest}
  Packet <- ViewPacket
  Sendable <- ViewPacket
  Finality = 1
  DefaultChoices <- ViewDefaultChoices
  CustomChoices <- ViewCustomChoices
  ABSENT = ABSENT
  NONE = NONE
CHECK_DEADLOCK FALSE
INVARIANTS
  ViewIsTrue
