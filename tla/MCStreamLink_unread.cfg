CONSTANTS
  c1 = c1
  c2 = c2
  Conns = {c1}
  NoConn = NoConn
  Capacity = 2
  PollRoom = 3
  Captures = {0}
  Writes = {5}
  Patient = FALSE
SPECIFICATION Spec
PROPERTIES TargetResumed
CHECK_DEADLOCK FALSE
