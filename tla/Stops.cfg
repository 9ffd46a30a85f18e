SPECIFICATION FairSpec

CONSTANTS
  Build = {b1}
  DemoId = demo
  NoBuild = none
  Feed = {f1}
  Request = {s1}
  MaxReplay = 1
  MaxRuns = 2
  MaxEvents = 2

INVARIANTS
  StatusNamesTheRun

PROPERTIES
  LateStopHolds
  LastEventArrives

CHECK_DEADLOCK FALSE
