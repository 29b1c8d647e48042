CONSTANTS
  c1 = c1
  c2 = c2
  Conns = {c1, c2}
  NoConn = NoConn
  Capacity = 2
  PollRoom = 3
  Captures = {1461, 100000}
  Writes = {0, 70000}
  Patient = TRUE
SPECIFICATION Spec
INVARIANTS TypeOK LinesWhole NoStrayStream OneReader
PROPERTIES TargetResumed StopHeard ImplementsService
CHECK_DEADLOCK FALSE
