SPECIFICATION Spec
CONSTANTS
  a = a  b = b  c = c
  f1 = f1  f2 = f2  f3 = f3
  s1 = s1  s2 = s2
  NULL = NULL
  Threads = {a, b, c}
  Fusionees = {f1, f2}
  Skirmishes = {s1, s2}
  Fid <- TwoFusionees
  Dispatcher <- OneServer
  Callers = {a}
  Lend = {s1}
  Cond = {s2}
  Killable = {f1, f2}
  Interrupted = {c}
  MaxDepth = 2
  MaxNotify = 1
  MaxCalls = 2
INVARIANTS
  RecordMatches NoLostWakeup AnswerOwed LentToCallee GoneHoldsNothing NoBug
CHECK_DEADLOCK FALSE
