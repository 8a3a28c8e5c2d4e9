SPECIFICATION Spec
CONSTANTS
  h1 = h1
  h2 = h2
  f = f
  alice = alice
  bob = bob
  Key = {h1, h2, f}
  Compromised = {f}
  Account = {alice, bob}
  Digest <- Transactions
  Signatures <- HonestSignatures
  InitParams <- Genesis
  VID = 1
  MaxTime = 2
  ADMINS_MAX_LEN = 1
  SIGNERS_MAX_LEN = 2
  ACL_MAX_LEN = 2
  MSGLIBS_MAX_LEN = 1
  ABSENT = ABSENT
CHECK_DEADLOCK FALSE
INVARIANTS
  CommitteeCanSign
  DenyListIsParity
  QuorumCanReplaceAdmins
PROPERTIES
  ExecutedOnce
  QuorumDecides
