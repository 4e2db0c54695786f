SPECIFICATION FairSpec
CONSTANTS
  d1 = d1
  d2 = d2
  Dials <- TwoDials
  MaxBytes = 2
  MaxReplies = 1
  MaxPendingConnects = 1
INVARIANTS
  TypeOK
  NothingBeforeHello
  WireInOrder
  NothingLostWhileUp
  RelayHasFlow
PROPERTIES
  CarriedAfterHello
CHECK_DEADLOCK FALSE
