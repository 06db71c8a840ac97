SPECIFICATION FeedbackSpec
CONSTANTS
  r1 = r1
  r2 = r2
  mixed = mixed
  lower = lower
  NoKey = NoKey
  h1 = h1
  h2 = h2
  Requests <- MCRequests
  KeyOf <- NoKeys
  Addresses <- MCAddresses
  ToOf <- MCToOf
  LowerOf <- MCLowerOf
  Notices = {h1}
  MaxRetries = 1
  ReturnsID = TRUE
  MaxOutages = 0
  MaxIncidents = 0
SYMMETRY Symmetry
PROPERTY
  TerminalIsFinal
CHECK_DEADLOCK FALSE
