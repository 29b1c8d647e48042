CONSTANTS
  Streams = {c1}
  NoStream = NoStream
  MaxStack = 4
  MaxCmds = 3
SPECIFICATION Spec
INVARIANTS TypeOK ActsConfirmed OneTick PendingMatches
CHECK_DEADLOCK FALSE
