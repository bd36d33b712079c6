SPECIFICATION Spec
CONSTANTS
  Exchanges <- MCExchanges
  MaxExchanges = 4
  Malformed = Malformed
  MaxJson = 2
  MaxCollection = 4
  Absent = Absent
INVARIANTS
  OrderIrrelevant
CHECK_DEADLOCK FALSE
