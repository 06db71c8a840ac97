SPECIFICATION Spec
CONSTANTS
  k1 = k1
  k2 = k2
  Keys <- MCKeys
  NoAnswer = NoAnswer
  Limit = 2
  Window = 3
  Minute = 1
  MaxTime = 6
INVARIANTS
  TypeOK
  LimitHolds
  IdleKeysForgotten
PROPERTIES
  ImplementsSlidingWindow
CHECK_DEADLOCK FALSE
