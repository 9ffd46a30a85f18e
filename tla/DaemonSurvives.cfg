SPECIFICATION Spec
CONSTANTS
  Build = {b1, b2}
  Box = {x1}
  KeyProxy = TRUE
  SharedCache = FALSE
  MaxCalls = 2
  MaxProvisions = 2
  MaxFaults = 1
INVARIANT DaemonSurvives
CHECK_DEADLOCK FALSE
