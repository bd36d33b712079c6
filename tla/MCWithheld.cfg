SPECIFICATION WithheldSpec
CONSTANTS
  Subjects <- MCSubjects
  Tokens = {"ro", "rw", "z", "private", "cached", "nocopy", "sticky", ""}
  MaxWithheld = 2
  MaxTokens = 4
  MaxItems = 30
  U32Max = 9
  PortMax = 9000
  PortText <- MCPortText
  DigitsText <- MCDigitsText
  AssignmentText <- MCAssignmentText
  ModeText <- MCModeText
  LongTexts = {"b"}
  CanonicalIds = {"c"}
  MaxModeTokens = 3
  None = None
INVARIANTS
  WithheldExactly
  ModeByTokens
CHECK_DEADLOCK FALSE
