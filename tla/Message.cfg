SPECIFICATION MessageSpec
CONSTANTS
  Width = 24
  Files <- MCFiles
  Inputs <- MCInputs
  Environments <- MCEnvironments
  Transactional = {"password_reset"}
INVARIANTS
  MessageTypeOK
  UnsubscribeExplained
  RepliesGoWhereAsked
  SenderExplained
  BrandingShown
  PlaceholderOnlyForMissing
  CountReadsBack
PROPERTIES
  ImplementsSending
  ResendAnswers
CHECK_DEADLOCK FALSE
