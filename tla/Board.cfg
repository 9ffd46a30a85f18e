SPECIFICATION BoardSpec
CONSTANTS
  Feed <- Connections
  Type <- Types
  Id = {b}
  MaxReplay = 4
  LogCap = 2
  MaxNodes = 1
  MaxRuns = 2
  MaxLines = 3
INVARIANTS
  BoardTypeOK
  LogIsTheTail
  BoardIsOfOneRun
CHECK_DEADLOCK FALSE
