\* One mutex; every holder unlocks in the end or its process exits.
CONSTANTS
  t1 = t1
  t2 = t2
  t3 = t3
  p1 = p1
  p2 = p2
  NULL = NULL
  Threads <- MCThreads
  Procs <- MCProcs
  Proc <- MCProc
  Files = {f1, f2}
  Names = {n1}
  MUTEX_SUPPORTED = 1
  Careless = {}
  MaxRetries = 1
SPECIFICATION FairSpec
PROPERTIES ExitFrees LockServed
CHECK_DEADLOCK FALSE
