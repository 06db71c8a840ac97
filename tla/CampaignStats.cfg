SPECIFICATION CampaignSpec
CONSTANTS
  r1 = r1
  a1 = a1
  NoKey = NoKey
  h1 = h1
  c1 = c1
  c2 = c2
  c3 = c3
  Requests <- OneRequest
  Campaign <- OneRequest
  KeyOf <- OneKey
  Addresses = {a1}
  ToOf <- OneTo
  LowerOf <- SameCase
  Notices = {h1}
  Readers = {c1, c2, c3}
  MaxRetries = 1
  ReturnsID = TRUE
  MaxOutages = 1
  MaxIncidents = 0
SYMMETRY AnyReader
INVARIANTS
  StatsTypeOK
  NeverAhead
  BackOnlyByOverlap
  BouncesOnRecord
  NonOpenersWereMailed
CHECK_DEADLOCK FALSE
