SPECIFICATION Spec
CONSTANTS
  r1 = r1
  r2 = r2
  o1 = o1
  o2 = o2
  Refs = {r1, r2}
  Objects = {o1, o2}
  Reads = {"DaemonVersion", "ListContainers"}
  Replies = {"ok"}
  None = None
  MaxRequests = 3
  MaxSelected = 1
  MaxExpansions = 2
  MaxResponse = 2
  MaxTotal = 3
  MaxElapsed = 1
  UsizeMax = 4
SYMMETRY Interchangeable
INVARIANTS
  RequestsAccounted
  AccountingNeverFails
  LimitsHeld
  OneToOne
  BindingsAreRead
PROPERTIES
  FailureIsFinal
CHECK_DEADLOCK FALSE
