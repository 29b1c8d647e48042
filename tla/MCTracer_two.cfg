CONSTANTS
  t1 = t1
  t2 = t2
  t3 = t3
  Tids = {t1, t2}
  NoTid = NoTid
  LeaderOf <- Singles
  Alive = {t1, t2}
  Quits = {}
  Signals = {}
  Sessions = {s1, s2}
  NoSession = NoSession
  MaxTracked = 2
  SeizeAttempts = 2
SPECIFICATION Spec
INVARIANT NoOrphanStop
CHECK_DEADLOCK FALSE
