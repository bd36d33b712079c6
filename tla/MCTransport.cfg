SPECIFICATION FairSpec
CONSTANTS
  Messages <- MCMessages
  RequestLen = 2
  Allowance = 3
  Limit = 3
  IO_POLL_INTERVAL = 2
  None = None
INVARIANTS
  WholeOrNothing
  RefusedForCause
  BodyBounded
  OnTime
PROPERTIES
  Ends
CHECK_DEADLOCK FALSE
