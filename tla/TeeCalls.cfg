SPECIFICATION FairSpec
CONSTANTS
  NULL = NULL
  Clients = {t1, t2, t3}
  Supplicants = {s1, s2}
  SecureThreads = 2
  MaxCalls = 1
  MaxRpc = 1
  Askers = {t2, t3}
  Lockers = {t1, t2}
  MaxFailed = 1
INVARIANTS
  AnswerIsMine WaiterIsTold WakeHitsEntry
PROPERTY CallReturns
