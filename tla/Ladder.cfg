SPECIFICATION Spec
CONSTANTS
  c1 = c1
  c2 = c2
  c3 = c3
  Criterion = {c1, c2}
  Specs <- ManySpecs
  MaxIterations = 2
  FixLimitK = 3
  DegradedFixLimitK = 2
  RespecCap = 1
  ReplanCap = 1
  ReauthorCap = 2
INVARIANTS
  TypeOK
  MetTestsPass
  DoneIsEarned
  ShippedIsVetted
  DescopeAccounted
PROPERTIES
  LadderDescends
  Terminates
