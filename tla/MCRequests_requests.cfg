CONSTANTS
  MaxDaemons = 2
  PathLens = {107, 108}
  MaxCalls = 2
  MaxFiles = 2
  MaxSize = 2
  MaxEntries = 2
  Room = 1
  Budgets <- Rivals
SPECIFICATION Spec
INVARIANTS TypeOK Reachable NothingLeft FreedHonest SuccessMeansDone ScanWhole
PROPERTIES ShutdownEnds Answered ThreadsEnd
CHECK_DEADLOCK FALSE
