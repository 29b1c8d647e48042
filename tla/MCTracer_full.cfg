CONSTANTS
  t1 = t1
  t2 = t2
  t3 = t3
  Tids = {t1, t2}
  NoTid = NoTid
  LeaderOf <- OneProcess
  Alive = {t1}
  Quits = {t2}
  Signals = {"HUP", "STOP"}
  Sessions = {s1}
  NoSession = NoSession
  MaxTracked = 1
  SeizeAttempts = 2
SPECIFICATION Spec
INVARIANTS TableBound
PROPERTIES HupKept DetachReturns DeadTargetEndsStream QuietClientGoneNoticed ImplementsService
CHECK_DEADLOCK FALSE
