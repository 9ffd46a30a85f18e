SPECIFICATION Spec
CONSTANTS
  Build = {b1, b2}
  Box = {x1}
  KeyProxy = TRUE
  SharedCache = FALSE
  MaxCalls = 2
  MaxProvisions = 2
  MaxFaults = 1
INVARIANTS
  TypeOK
  NothingLeftBehind
  HandlesResolve
PROPERTIES
  ClientsEnd
CHECK_DEADLOCK FALSE
