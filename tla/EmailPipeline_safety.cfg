SPECIFICATION Spec
CONSTANTS
  r1 = r1
  r2 = r2
  k = k
  addr = addr
  NoKey = NoKey
  Requests <- MCRequests
  KeyOf <- SameKey
  Addresses = {addr}
  ToOf <- MCToOf
  MaxRetries = 2
  ReturnsID = TRUE
  MaxOutages = 1
  MaxIncidents = 2
SYMMETRY Symmetry
INVARIANTS
  TypeOK
  OneTaskPerEmail
  AnswersAreBacked
  StrandedOnlyByFailure
  DuplicateOnlyAfterIncident
  AbandonedOnlyAfterEveryAttempt
  SentMeansAccepted
  RetryCountExplained
  CalmOutcome
PROPERTIES
  SentLostOnlyToLateWrites
CHECK_DEADLOCK FALSE
