SPECIFICATION Spec
CONSTANTS
  c1 = c1
  c2 = c2
  c3 = c3
  Criterion = {c1, c2}
  Specs <- ManySpecs
  MaxIterations = 2
  FixLimitK = 2
  DegradedFixLimitK = 1
  RespecCap = 1
  ReplanCap = 1
  ReauthorCap = 1
INVARIANTS
  PublishedTestsPass
