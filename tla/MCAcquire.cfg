SPECIFICATION Spec
CONSTANTS
  Worlds <- MCWorlds
  NativeIds <- MCNativeIds
  Selectors <- MCSelectors
  VersionBodies <- MCVersionBodies
  BodySizes = {1}
  BadBodies = {Malformed}
  MaxJson = 10
  MaxCollection = 6
  MaxChanges = 1
  Malformed = Malformed
  None = None
  MaxRequests = 9
  MaxSelected = 2
  MaxExpansions = 5
  MaxResponse = 1
  MaxTotal = 9
  MaxElapsed = 1
  UsizeMax = 15
  MaxRefs = 7
INVARIANTS
  NoInternalError
  ExpansionsExceeded
  CaptureIsClosed
  FallbackMeansNameOnly
  CaptureIdentified
  NoAliasCaptured
  RootsMatchSelection
  CaptureDecodes
PROPERTIES
  AbandonedIsFinal
CHECK_DEADLOCK FALSE
