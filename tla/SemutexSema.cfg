\* t1 may unlock what it has not locked, t3 may die.
CONSTANTS
  t1 = t1
  t2 = t2
  t3 = t3
  NULL = NULL
  Threads = {t1, t2, t3}
  Rogues = {t1}
  Mortals = {t3}
  Names = {n1, n2}
  Numbers = {1, 2}
  MUTEX_SUPPORTED = 2
  MaxCount = 2
  MaxRetries = 1
SPECIFICATION Spec
SYMMETRY Symmetry
INVARIANTS UnitsConserved NoIdleUnits SignalledHasUnit
CHECK_DEADLOCK FALSE
