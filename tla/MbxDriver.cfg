\* Two clients share the pool; peers send messages of both kinds.  IDs have 64
\* bits, as in the shipped configuration.
CONSTANTS
  c1 = c1
  c2 = c2
  NULL = NULL
  Files = {f1, f2}
  Classes = {c1, c2}
  Sizes = {1, 2}
  u16Slots = 2
  MBX_ASYNCNOTIFIER_MAX = 2
  Asks <- MCAsks
  Wide = TRUE
  MaxMsgs = 2
SPECIFICATION Spec
SYMMETRY Symmetry
VIEW View
INVARIANTS MessageAnnounced OwnersInUse
CHECK_DEADLOCK FALSE
