SPECIFICATION FairSpec
CONSTANTS
  Threads = {t1, t2, t3}
  MaxU64 = 4
  None = None
INVARIANTS
  ExhaustedMeansNoneLeft
PROPERTIES
  NeverReused
  CallsReturn
