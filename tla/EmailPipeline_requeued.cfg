SPECIFICATION Spec
CONSTANTS
  r1 = r1
  r2 = r2
  k = k
  addr = addr
  NoKey = NoKey
  Requests <- MCRequests
  KeyOf <- SameKey
  Addresses = {addr}
  ToOf <- MCToOf
  MaxRetries = 3
  ReturnsID = TRUE
  MaxOutages = 0
  MaxIncidents = 0
SYMMETRY Symmetry
PROPERTY
  SentIsNotRequeued
CHECK_DEADLOCK FALSE
