SPECIFICATION Spec
CONSTANTS
  Wanted <- MCWanted
  Named <- MCNamed
  Paths = {"/a", "/a:b", "/b", "/t", "/t:ro"}
  Colons = {"/a:b", "/t:ro"}
  MaxI64 = 90
  MaxI32 = 50
  MinNanos = 2
  MaxFileMode = 7
  MaxItems = 60
  U32Max = 99
  PortMax = 9000
  PortText <- MCPortText
  DigitsText <- MCDigitsText
  AssignmentText <- MCAssignmentText
  ModeText <- MCModeText
  LongTexts = {}
  CanonicalIds = {}
  MaxModeTokens = 3
  None = None
INVARIANT RenderDecodesBack
CHECK_DEADLOCK FALSE
