CONSTANTS
  t1 = t1
  t2 = t2
  t3 = t3
  Tids = {t1, t2}
  NoTid = NoTid
  LeaderOf <- OneProcess
  Alive = {t1}
  Quits = {}
  Signals = {}
  Sessions = {s1}
  NoSession = NoSession
  MaxTracked = 2
  SeizeAttempts = 2
SPECIFICATION Spec
INVARIANT InSyscallExpects
CHECK_DEADLOCK FALSE
