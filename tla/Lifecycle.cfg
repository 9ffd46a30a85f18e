SPECIFICATION LifecycleSpec
CONSTANTS
  c1 = c1
  c2 = c2
  c3 = c3
  Criterion = {c1, c2}
  Specs <- TwoCriteria
  MaxIterations = 2
  FixLimitK = 0
  DegradedFixLimitK = 0
  RespecCap = 0
  ReplanCap = 0
  ReauthorCap = 1
  HasServices = FALSE
  MaxFaults = 1
INVARIANTS
  LifecycleTypeOK
  ShippedIsVetted
  DoneIsAboutHead
PROPERTIES
  RefineBreaksNothing
  StepsAreGraphSteps
  InterruptedBuildEnds
CHECK_DEADLOCK FALSE
