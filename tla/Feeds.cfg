SPECIFICATION Spec

CONSTANTS
  Build = {b1}
  DemoId = demo
  NoBuild = none
  Feed = {f1, f2}
  Request = {}
  MaxReplay = 2
  MaxRuns = 2
  MaxEvents = 2

SYMMETRY Symmetric

INVARIANTS
  TypeOK
  FeedsAreExact

PROPERTIES
  ImplementsStream

CHECK_DEADLOCK FALSE
