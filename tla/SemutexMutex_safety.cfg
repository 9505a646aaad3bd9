\* Clients unlock before they close(); processes may be killed at any time.
CONSTANTS
  t1 = t1
  t2 = t2
  t3 = t3
  p1 = p1
  p2 = p2
  NULL = NULL
  Threads <- MCThreads
  Procs <- MCProcs
  Proc <- MCProc
  Files = {f1, f2}
  Names = {n1, n2}
  MUTEX_SUPPORTED = 2
  Careless = {}
  MaxRetries = 1
SPECIFICATION Spec
SYMMETRY Symmetry
INVARIANTS TypeOK MutualExclusion UnitConserved HolderCanUnlock RecordTruthful NoBug UniqueNames
CHECK_DEADLOCK FALSE
