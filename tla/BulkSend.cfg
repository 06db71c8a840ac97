SPECIFICATION Spec
CONSTANTS
  a1 = a1
  a2 = a2
  Addresses <- MCAddresses
  MaxRecipients = 4
  BatchSize = 2
  Nil = Nil
  NoLink = NoLink
  CallersLink = CallersLink
SYMMETRY Symmetry
INVARIANTS
  TypeOK
  CountExplained
  LinksExplained
  ThrottledUnlessError
CHECK_DEADLOCK FALSE
