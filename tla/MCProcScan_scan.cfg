CONSTANTS
  u1 = u1
  u2 = u2
  Procs = {1, 2, 3, 4}
  Owner <- OwnerDef
  Files <- FilesDef
  UidAny = UidAny
  MinSizes = {0, 2}
  UidFilters = {UidAny, u1}
  Requests = {0, 1, 3, 9}
  Cpus = 3
  MaxThreads = 2
SPECIFICATION Spec
INVARIANTS TypeOK ScanExact StatsExact NoPartialResult
PROPERTY Terminates
CHECK_DEADLOCK FALSE
