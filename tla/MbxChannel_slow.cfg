\* A peer that may answer late.
CONSTANTS
  p = p
  q = q
  l = l
  t1 = t1
  t2 = t2
  NULL = NULL
  Threads = {t1, t2}
  Groups = {p}
  HostGroups = {p}
  Dead = {}
  Slow = {p}
  Contents = {x}
  TIMEOUT_CHK_BUSY = 1
  U32 = 4
SPECIFICATION LiveSpec
INVARIANT MailWithdrawn
PROPERTY SendReturns
CHECK_DEADLOCK FALSE
