SPECIFICATION FairSpec
CONSTANTS
  r1 = r1
  r2 = r2
  k = k
  addr = addr
  NoKey = NoKey
  Requests <- OneRequest
  KeyOf <- OneKey
  Addresses = {addr}
  ToOf <- OneToOf
  MaxRetries = 2
  ReturnsID = FALSE
  MaxOutages = 1
  MaxIncidents = 2
PROPERTIES
  ImplementsDelivery
  EnqueuedSettles
CHECK_DEADLOCK FALSE
