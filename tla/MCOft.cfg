SPECIFICATION Spec
CONSTANTS
  adapter = adapter
  n1 = n1
  n2 = n2
  ONE = 10
  ADAPTER = adapter
  Native = {n1, n2}
  Mintable = {n1}
  Rate <- Rates
  Fee <- Fees
  Total = 5
  MAX = 8
  MaxMessages = 3
CHECK_DEADLOCK FALSE
INVARIANTS
  Backed
  FairPrice
PROPERTY
  AuthorityStaysRemoved
