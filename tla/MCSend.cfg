CONSTANTS
  NONE = NONE
  NIL = NIL
  DEFAULT = DEFAULT
  ULN = ULN
  SIMPLE = SIMPLE
  receiveLib = receiveLib
  admin = admin
  oapp = oapp
  d1 = d1
  d2 = d2
  x1 = x1
  feed = feed
  lz = lz
  oldLz = oldLz
  r1 = r1
  Key = {admin, oapp}
  Sender = oapp
  Delegate = oapp
  Lib = {ULN, SIMPLE, receiveLib}
  ReceiveOnly = {receiveLib}
  Dvn = {d1, d2}
  Executor = {x1}
  Feed = {feed}
  Mint = {lz, oldLz}
  Receiver = {r1}
  Message = {4, 8}
  MaxSends = 2
  MaxSteps = 7
  NativeFee = {9, 1800, 100000}
  LzFee = {0, 7}
  SimpleFee = {0, 9}
  Eid <- MCEid
  DstEid <- MCDstEid
  Price <- MCPrice
  DvnDst <- MCDvnDst
  ExecutorDst <- MCExecutorDst
  SendUln <- MCSendUln
  SendExecutor <- MCSendExecutor
  Treasury <- MCTreasury
  Options <- MCOptions
  SolPrice = {0, 2}
  RatioDenominator = {0, 20}
  INITIAL_DENOMINATOR = 10
  EID_MODULUS = 10
  SOL_RATE = 10
  U64_MAX = 100000000
  Multiplier = {9000}
  Quorum = {1, 2}
  MaxDvns = 2
  MaxConfirmations = 2
  ACL_MAX_LEN = 1
  MSGLIBS_MAX_LEN = 2
  ADMINS_MAX_LEN = 1
  EXECUTOR_MAX_LEN = 1
  DST_CONFIG_MAX_LEN = 2
  DVN_DST_DEFAULT_LEN = 1
  DVN_DST_MAX_LEN = 2
  UPDATERS_MAX_LEN = 1
  PRICES_DEFAULT_LEN = 2
  PRICES_MAX_LEN = 3
SPECIFICATION MCSpec
CHECK_DEADLOCK FALSE
INVARIANTS
  QuoteIsPrice
  ReceiptAddsUp
  PinnedSenderDecides
PROPERTIES
  EveryWorkerIsPaid
  ImplementsOutbox
