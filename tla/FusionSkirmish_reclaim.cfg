SPECIFICATION Spec
CONSTANTS
  a = a  b = b  c = c
  f1 = f1  f2 = f2  f3 = f3
  s1 = s1  s2 = s2
  NULL = NULL
  Threads = {a, b, c}
  Fusionees = {f1, f2, f3}
  Skirmishes = {s1}
  Fid <- ThreeFusionees
  Dispatcher <- OneServer
  Callers = {a, c}
  Lend = {s1}
  Cond = {}
  Killable = {}
  Interrupted = {}
  MaxDepth = 2
  MaxNotify = 1
  MaxCalls = 2
INVARIANT ReclaimFindsFree
CHECK_DEADLOCK FALSE
