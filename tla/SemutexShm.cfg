\* Single-threaded processes; everybody expands, allocations fail.
CONSTANTS
  t1 = t1
  t2 = t2
  p1 = p1
  p2 = p2
  NULL = NULL
  Threads = {t1, t2}
  Procs = {p1, p2}
  Proc <- Single
  Pages = {1, 2, 3, 4, 5}
  MaxLen = 3
  VmaSizes = {2, 3}
  Expanders = {t1, t2}
  MayFail = TRUE
SPECIFICATION FairSpec
INVARIANTS SamePage MappedIsListed RefcntCountsCreators OnlyAllocatorIsFirst
PROPERTY MutexIsReleased
CHECK_DEADLOCK FALSE
