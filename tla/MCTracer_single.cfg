CONSTANTS
  t1 = t1
  t2 = t2
  t3 = t3
  Tids = {t1, t2, t3}
  NoTid = NoTid
  LeaderOf <- OneProcess
  Alive = {t1, t2}
  Quits = {t2, t3}
  Signals = {}
  Sessions = {s1}
  NoSession = NoSession
  MaxTracked = 3
  SeizeAttempts = 2
SPECIFICATION Spec
INVARIANTS TypeOK NoOrphanStop SteppedTracees Lockstep CaptureSync
CHECK_DEADLOCK FALSE
