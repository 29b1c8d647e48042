CONSTANTS
  Streams = {c1}
  NoStream = NoStream
  MaxStack = 4
  MaxCmds = 3
SPECIFICATION Spec
INVARIANT KillTyped
CHECK_DEADLOCK FALSE
