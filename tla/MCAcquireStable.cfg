SPECIFICATION FairSpec
CONSTANTS
  Worlds <- MCWorlds
  NativeIds <- MCNativeIds
  Selectors <- MCSelectors
  VersionBodies <- MCVersionBodies
  BodySizes = {1, 2, 3}
  BadBodies = {}
  MaxJson = 2
  MaxCollection = 6
  MaxChanges = 0
  Malformed = Malformed
  None = None
  MaxRequests = 8
  MaxSelected = 2
  MaxExpansions = 6
  MaxResponse = 3
  MaxTotal = 8
  MaxElapsed = 1
  UsizeMax = 15
  MaxRefs = 7
INVARIANTS
  StableRefusal
PROPERTIES
  Terminates
CHECK_DEADLOCK FALSE
