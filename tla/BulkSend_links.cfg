SPECIFICATION Spec
CONSTANTS
  a1 = a1
  a2 = a2
  Addresses <- MCAddresses
  MaxRecipients = 2
  BatchSize = 2
  Nil = Nil
  NoLink = NoLink
  CallersLink = CallersLink
SYMMETRY Symmetry
INVARIANT
  OwnUnsubscribeLink
CHECK_DEADLOCK FALSE
