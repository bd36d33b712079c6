SPECIFICATION RenderSpec
CONSTANTS
  Inputs <- MCInputs
  None = None
INVARIANTS
  CountersExact
  CycleIsReal
  PlannerNeverRefused
  NeverStuck
  EverythingRendered
PROPERTIES
  DependencyOrdered
CHECK_DEADLOCK FALSE
