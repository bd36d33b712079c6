SPECIFICATION AssessSpec
CONSTANTS
  Offered <- MCOffered
  Roots <- MCRoots
  References = {1, 2}
  Prerequisites <- MCPrerequisites
  NamedIds = {"id", "short"}
  CanonicalIds = {"id"}
  Observations = {1, 2}
  MaxItems = 2
  MaxEntries = 3
INVARIANT SelectionUnambiguous
CHECK_DEADLOCK FALSE
