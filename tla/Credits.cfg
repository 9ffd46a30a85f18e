SPECIFICATION Spec
CONSTANTS
  c1 = c1
  c2 = c2
  c3 = c3
  Criterion = {c1, c2, c3}
  Specs <- ThreeCriteria
  MaxIterations = 3
  FixLimitK = 1
  DegradedFixLimitK = 1
  RespecCap = 0
  ReplanCap = 1
  ReauthorCap = 1
INVARIANTS
  CreditsRechecked
