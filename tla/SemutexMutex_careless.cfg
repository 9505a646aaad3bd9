\* Processes may close the device while they hold a mutex or wait for one.
CONSTANTS
  t1 = t1
  t2 = t2
  t3 = t3
  p1 = p1
  p2 = p2
  NULL = NULL
  Threads <- MCThreads
  Procs <- MCProcs
  Proc <- MCProc
  Files = {f1, f2, f3}
  Names = {n1}
  MUTEX_SUPPORTED = 1
  Careless = {p1, p2}
  MaxRetries = 1
SPECIFICATION Spec
SYMMETRY Symmetry
INVARIANTS SleepersAreQueued
CHECK_DEADLOCK FALSE
