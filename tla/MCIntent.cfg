SPECIFICATION Spec
CONSTANTS
  Bits <- Widths
  Authored <- AllIntents
  MaxLabelCount = 2
  MaxLabelBytes = 2
  MaxI32 = 2
  MaxI64 = 2
INVARIANTS
  SocketsDisjoint
  AddressesHeldOnce
CHECK_DEADLOCK FALSE
