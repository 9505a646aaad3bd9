\* One client checks and removes, no class is taken over, and the tasklet adds
\* one message while it overlaps a call of n1.
CONSTANTS
  n1 = n1
  n2 = n2
  NULL = NULL
  Clients = {n1, n2}
  Classes = {c1, c2}
  Contents = {x, y}
  Sizes = {1, 2}
  u16Slots = 3
  Checkers = {n1}
  Takeover = FALSE
  Overlapped = {n1}
  Overlaps = 1
SPECIFICATION Spec
SYMMETRY Symmetry
INVARIANTS SlotsAccounted DamageBounded ListsMatchOwners
PROPERTY ImplementsQueues
CHECK_DEADLOCK FALSE
