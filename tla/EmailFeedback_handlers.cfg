SPECIFICATION FeedbackSpec
CONSTANTS
  r1 = r1
  r2 = r2
  mixed = mixed
  lower = lower
  NoKey = NoKey
  h1 = h1
  h2 = h2
  Requests <- OneRequest
  KeyOf <- OneKey
  Addresses <- MCAddresses
  ToOf <- OneToOf
  LowerOf <- MCLowerOf
  Notices = {h1, h2}
  MaxRetries = 1
  ReturnsID = TRUE
  MaxOutages = 1
  MaxIncidents = 0
SYMMETRY TwoNotices
INVARIANTS
  FeedbackTypeOK
  ProcessedSuppresses
PROPERTIES
  IgnoredOnlyInTheWindow
  TerminalLostOnlyToLateWrites
CHECK_DEADLOCK FALSE
