\* One peer that answers in time, a dead one and a dead loopback role.
CONSTANTS
  p = p
  q = q
  l = l
  t1 = t1
  t2 = t2
  NULL = NULL
  Threads = {t1, t2}
  Groups = {p, q, l}
  HostGroups = {p, q}
  Dead = {q, l}
  Slow = {}
  Contents = {x, y}
  TIMEOUT_CHK_BUSY = 2
  U32 = 8
SPECIFICATION LiveSpec
INVARIANTS OneSideAtATime GroupsReleased
PROPERTIES ReportsFate SendReturns
CHECK_DEADLOCK FALSE
