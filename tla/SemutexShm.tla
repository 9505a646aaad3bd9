---------------------------- MODULE SemutexShm ----------------------------
(***************************************************************************)
(* The shared memory of /dev/semutex (drv/semutex/mdrv_semutex.c): one     *)
(* list of pages that processes create, map, expand and drop together.     *)
(*                                                                         *)
(* A process opens the device once, as the comment in Open demands, so its *)
(* procinfo is indexed by the process.  Lengths are in pages: dev->length  *)
(* is always pageCount rounded up by the same ioctl, so `len <= length'    *)
(* holds exactly when the page number asked for is at most pageCount.      *)
(* Clients map only after their own CREATE, map once, and unmap when they  *)
(* leave.                                                                  *)
(*                                                                         *)
(* CREATE and EXPAND check their argument before they take the mutex       *)
(* semutex_sharememory, so check and work are two steps.  Inside EXPAND    *)
(* every page is a step, because mmap() walks the list without the mutex.  *)
(***************************************************************************)
EXTENDS Naturals, Sequences, FiniteSets, Functions

CONSTANTS
  Threads, Procs,
  Proc,        \* thread -> its process
  Pages,       \* bound: page frames
  MaxLen,      \* shared_memorysize in pages
  VmaSizes,    \* sizes that clients map, in pages
  Expanders,   \* threads that call EXPAND
  MayFail,     \* whether allocations and vm_insert_page can fail
  NULL

ASSUME ProcAssumption == Proc \in [Threads -> Procs]
ASSUME PagesAssumption == IsFiniteSet(Pages)
ASSUME SizesAssumption == /\ MaxLen \in Nat \ {0}
                          /\ VmaSizes \subseteq 1 .. MaxLen
                          /\ Cardinality(Pages) >= MaxLen
ASSUME ExpandersAssumption == Expanders \subseteq Threads /\ MayFail \in BOOLEAN
ASSUME NullAssumption == NULL \notin Threads \cup Procs \cup Pages

VARIABLES
  refcnt,      \* refcnt_sharemem
  list,        \* share_page_list
  pageCount,
  isfirst,     \* isfirst_sharememory
  lock,        \* the thread in semutex_sharememory, or NULL
  created,     \* processes with createsharememory_filp set
  vma,         \* process -> size of its mapping, 0 when pprocinfo->vma is NULL
  pte,         \* process -> offset -> page, or NULL
  mmap_sem,    \* process -> the thread that holds it for writing, or NULL
  pc,          \* thread -> where it is in the driver
  req,         \* thread -> page_num of its call
  next,        \* thread -> offset of the page EXPAND inserts next
  allocator,   \* the process whose CREATE allocated the list
  told         \* processes that were told that they are the first

vars == <<refcnt, list, pageCount, isfirst, lock, created, vma, pte,
          mmap_sem, pc, req, next, allocator, told>>
shm == <<refcnt, list, pageCount, isfirst, created, allocator, told>>
mm == <<vma, pte, mmap_sem>>

Offsets == 0 .. MaxLen - 1
Unmapped == [o \in Offsets |-> NULL]

Init ==
  /\ refcnt = 0
  /\ list = <<>>
  /\ pageCount = 0
  /\ isfirst = FALSE
  /\ lock = NULL
  /\ created = {}
  /\ vma = [p \in Procs |-> 0]
  /\ pte = [p \in Procs |-> Unmapped]
  /\ mmap_sem = [p \in Procs |-> NULL]
  /\ pc = [t \in Threads |-> "user"]
  /\ req = [t \in Threads |-> 0]
  /\ next = [t \in Threads |-> 0]
  /\ allocator = NULL
  /\ told = {}

-----------------------------------------------------------------------------
(***************************************************************************)
(* The page allocator hands out pages that are neither on the list nor     *)
(* mapped: a mapping holds a reference of its own.  Which of them it picks *)
(* does not matter, so it is a function of the free ones.                  *)
(***************************************************************************)
InUse == Range(list) \cup UNION {Range(pte[p]) : p \in Procs}
Free == Pages \ InUse
NewPage == CHOOSE x \in Free : TRUE
NewPages(n) == CHOOSE new \in [1 .. n -> Free] : IsInjective(new)

\* CREATE up to mutex_lock(): a file creates once.
CreateCheck(t, n) ==
  /\ pc[t] = "user"
  /\ Proc[t] \notin created
  /\ pc' = [pc EXCEPT ![t] = "create"]
  /\ req' = [req EXCEPT ![t] = n]
  /\ UNCHANGED <<shm, mm, lock, next>>

\* Mutant: a process that joins is told that it is the first, too.
CreateAllFirst(t) ==
  /\ pc[t] = "create"
  /\ lock = NULL
  /\ IF refcnt = 0
     THEN /\ list' = NewPages(req[t])
          /\ pageCount' = req[t]
          /\ allocator' = Proc[t]
     ELSE UNCHANGED <<list, pageCount, allocator>>
  /\ isfirst' = TRUE
  /\ refcnt' = refcnt + 1
  /\ created' = created \cup {Proc[t]}
  /\ pc' = [pc EXCEPT ![t] = "user"]
  /\ UNCHANGED <<mm, lock, req, next, told>>

\* The rest of CREATE, under semutex_sharememory.
Create(t) ==
  /\ pc[t] = "create"
  /\ lock = NULL
  /\ IF refcnt = 0
     THEN /\ list' = NewPages(req[t])
          /\ pageCount' = req[t]
          /\ isfirst' = TRUE
          /\ allocator' = Proc[t]
     ELSE /\ isfirst' = FALSE
          /\ UNCHANGED <<list, pageCount, allocator>>
  /\ refcnt' = refcnt + 1
  /\ created' = created \cup {Proc[t]}
  /\ pc' = [pc EXCEPT ![t] = "user"]
  /\ UNCHANGED <<mm, lock, req, next, told>>

\* alloc_sharepage() runs out of memory and frees what it got.
CreateFails(t) ==
  /\ MayFail
  /\ pc[t] = "create"
  /\ lock = NULL
  /\ refcnt = 0
  /\ list' = <<>>
  /\ pc' = [pc EXCEPT ![t] = "user"]
  /\ UNCHANGED <<refcnt, pageCount, isfirst, created, allocator, told, mm, lock, req, next>>

QueryIsFirst(t) ==
  /\ pc[t] = "user"
  /\ Proc[t] \in created
  /\ told' = IF isfirst THEN told \cup {Proc[t]} ELSE told
  /\ UNCHANGED <<refcnt, list, pageCount, isfirst, created, allocator, mm, lock, pc, req, next>>

\* As many pages of the list as there are, or as fit.
semutex_update_page_range(size) ==
  [o \in Offsets |-> IF o < size /\ o < Len(list) THEN list[o + 1] ELSE NULL]

\* mmap() reads the list without semutex_sharememory.
MMap(t, size) ==
  LET p == Proc[t] IN
  /\ pc[t] = "user"
  /\ p \in created
  /\ vma[p] = 0
  /\ mmap_sem[p] = NULL
  /\ vma' = [vma EXCEPT ![p] = size]
  /\ pte' = [pte EXCEPT ![p] = semutex_update_page_range(size)]
  /\ UNCHANGED <<shm, lock, mmap_sem, pc, req, next>>

-----------------------------------------------------------------------------
\* EXPAND up to mutex_lock(): only a longer length is accepted.
ExpandCheck(t, n) ==
  /\ pc[t] = "user"
  /\ t \in Expanders
  /\ n > pageCount
  /\ pc' = [pc EXCEPT ![t] = "expand"]
  /\ req' = [req EXCEPT ![t] = n]
  /\ UNCHANGED <<shm, mm, lock, next>>

\* Under the mutex: there is memory to expand, and the caller has mapped it.
\* Pages bounds how often it fails later on and leaves pages on the list.
ExpandLock(t) ==
  /\ pc[t] = "expand"
  /\ lock = NULL
  /\ req[t] <= pageCount + Cardinality(Free)
  /\ IF refcnt = 0 \/ vma[Proc[t]] = 0
     THEN /\ pc' = [pc EXCEPT ![t] = "user"]
          /\ UNCHANGED lock
     ELSE /\ pc' = [pc EXCEPT ![t] = "down_write"]
          /\ lock' = t
  /\ UNCHANGED <<shm, mm, req, next>>

\* Mutant: mutex_unlock() is forgotten.
ExpandReturnLocked(t, keep) ==
  /\ pc' = [pc EXCEPT ![t] = "user"]
  /\ mmap_sem' = [mmap_sem EXCEPT ![Proc[t]] = IF keep THEN t ELSE NULL]
  /\ UNCHANGED lock

\* EXPAND returns; keep says that mmap_sem stays locked.
ExpandReturn(t, keep) ==
  /\ pc' = [pc EXCEPT ![t] = "user"]
  /\ lock' = NULL
  /\ mmap_sem' = [mmap_sem EXCEPT ![Proc[t]] = IF keep THEN t ELSE NULL]

\* down_write(), and the check for address space that returns without up_write().
ExpandDownWrite(t) ==
  /\ pc[t] = "down_write"
  /\ mmap_sem[Proc[t]] = NULL
  /\ IF vma[Proc[t]] < req[t]
     THEN ExpandReturn(t, TRUE) /\ UNCHANGED next
     ELSE /\ mmap_sem' = [mmap_sem EXCEPT ![Proc[t]] = t]
          /\ pc' = [pc EXCEPT ![t] = "append"]
          /\ next' = [next EXCEPT ![t] = pageCount]
          /\ UNCHANGED lock
  /\ UNCHANGED <<shm, vma, pte, req>>

Appending(t) == pc[t] = "append" /\ next[t] < req[t]

\* Mutant: list_add() in place of list_add_tail().
ExpandAppendLast(t) ==
  LET p == Proc[t] IN
  /\ Appending(t)
  /\ list' = <<NewPage>> \o list
  /\ pte[p][next[t]] = NULL
  /\ pte' = [pte EXCEPT ![p][next[t]] = NewPage]
  /\ next' = [next EXCEPT ![t] = @ + 1]
  /\ UNCHANGED <<refcnt, pageCount, isfirst, created, allocator, told, vma, mmap_sem, lock, pc, req>>

\* append_onePage() and vm_insert_page().
ExpandAppend(t) ==
  LET p == Proc[t] IN
  /\ Appending(t)
  /\ list' = Append(list, NewPage)
  /\ pte[p][next[t]] = NULL
  /\ pte' = [pte EXCEPT ![p][next[t]] = NewPage]
  /\ next' = [next EXCEPT ![t] = @ + 1]
  /\ UNCHANGED <<refcnt, pageCount, isfirst, created, allocator, told, vma, mmap_sem, lock, pc, req>>

\* The page is appended but not inserted: the offset is taken (-EBUSY), or the
\* page table cannot be allocated.  The page stays on the list.
ExpandInsertFails(t) ==
  /\ Appending(t)
  /\ MayFail \/ pte[Proc[t]][next[t]] # NULL
  /\ list' = Append(list, NewPage)
  /\ ExpandReturn(t, FALSE)
  /\ UNCHANGED <<refcnt, pageCount, isfirst, created, allocator, told, vma, pte, req, next>>

\* append_onePage() fails: EXPAND returns without up_write().
ExpandNoMemory(t) ==
  /\ Appending(t)
  /\ MayFail
  /\ ExpandReturn(t, TRUE)
  /\ UNCHANGED <<shm, vma, pte, req, next>>

ExpandDone(t) ==
  /\ pc[t] = "append"
  /\ next[t] >= req[t]
  /\ pageCount' = req[t]
  /\ ExpandReturn(t, FALSE)
  /\ UNCHANGED <<refcnt, list, isfirst, created, allocator, told, vma, pte, req, next>>

-----------------------------------------------------------------------------
\* The process is not in the driver and its mmap_sem is free, which munmap() and
\* exit_mm() wait for.
CanLeave(p) ==
  /\ p \in created
  /\ \A t \in Threads : Proc[t] = p => pc[t] = "user"
  /\ mmap_sem[p] = NULL

\* The mapping goes, and its references to the pages.
semutex_vma_close(p) ==
  /\ vma' = [vma EXCEPT ![p] = 0]
  /\ pte' = [pte EXCEPT ![p] = Unmapped]

\* free_sharemem() with the last reference.
free_sharemem(left) == IF left = 0 THEN <<>> ELSE list

\* Mutant: the reference of a process that never mapped is not dropped.
ReleaseMappedOnly(p) ==
  /\ CanLeave(p)
  /\ lock = NULL
  /\ refcnt' = IF vma[p] > 0 THEN refcnt - 1 ELSE refcnt
  /\ list' = free_sharemem(refcnt')
  /\ created' = created \ {p}
  /\ told' = told \ {p}
  /\ semutex_vma_close(p)
  /\ UNCHANGED <<pageCount, isfirst, allocator, mmap_sem, lock, pc, req, next>>

\* Mutant: the list is freed by whoever leaves first.
ReleaseFrees(p) ==
  /\ CanLeave(p)
  /\ lock = NULL
  /\ refcnt' = refcnt - 1
  /\ list' = <<>>
  /\ created' = created \ {p}
  /\ told' = told \ {p}
  /\ semutex_vma_close(p)
  /\ UNCHANGED <<pageCount, isfirst, allocator, mmap_sem, lock, pc, req, next>>

\* A process unmaps and closes the device, or exits.
Release(p) ==
  /\ CanLeave(p)
  /\ lock = NULL
  /\ refcnt' = refcnt - 1
  /\ list' = free_sharemem(refcnt - 1)
  /\ created' = created \ {p}
  /\ told' = told \ {p}
  /\ semutex_vma_close(p)
  /\ UNCHANGED <<pageCount, isfirst, allocator, mmap_sem, lock, pc, req, next>>

Call(t) ==
  \/ \E n \in 1 .. MaxLen : CreateCheck(t, n) \/ ExpandCheck(t, n)
  \/ QueryIsFirst(t)
  \/ \E size \in VmaSizes : MMap(t, size)

Proceed(t) ==
  \/ Create(t) \/ CreateFails(t)
  \/ ExpandLock(t) \/ ExpandDownWrite(t)
  \/ ExpandAppend(t) \/ ExpandInsertFails(t) \/ ExpandNoMemory(t)
  \/ ExpandDone(t)

Next == \/ \E t \in Threads : Call(t) \/ Proceed(t)
        \/ \E p \in Procs : Release(p)

Spec == Init /\ [][Next]_vars

\* Calls that are not blocked go on.
FairSpec == Spec /\ \A t \in Threads : WF_vars(Proceed(t))

-----------------------------------------------------------------------------
\* Every variable has its type; in particular refcnt never becomes negative,
\* against the first BUG_ON of Release.
TypeOK ==
  /\ refcnt \in Nat
  /\ list \in Seq(Pages)
  /\ pageCount \in 0 .. MaxLen
  /\ isfirst \in BOOLEAN
  /\ lock \in Threads \cup {NULL}
  /\ created \subseteq Procs
  /\ vma \in [Procs -> 0 .. MaxLen]
  /\ pte \in [Procs -> [Offsets -> Pages \cup {NULL}]]
  /\ mmap_sem \in [Procs -> Threads \cup {NULL}]
  /\ pc \in [Threads -> {"user", "create", "expand", "down_write", "append"}]
  /\ req \in [Threads -> 0 .. MaxLen]
  /\ next \in [Threads -> 0 .. MaxLen]
  /\ allocator \in Procs \cup {NULL}
  /\ told \subseteq Procs

\* The pages on the list are the ones that were counted: no EXPAND has failed
\* half-way and left some behind, none has set the count back.
NoOrphans ==
  Len(list) = IF lock # NULL /\ pc[lock] = "append" THEN next[lock] ELSE pageCount

\* Shared memory is shared: what two processes have mapped at one offset is one
\* page, also when mmap() ran in the middle of an EXPAND.
SamePage ==
  NoOrphans => \A p, q \in Procs, o \in Offsets :
    pte[p][o] # NULL /\ pte[q][o] # NULL => pte[p][o] = pte[q][o]

\* A page that is mapped is still on the list, so a process that maps later gets
\* it, too: the list is not freed under a mapping.
MappedIsListed == \A p \in Procs : Range(pte[p]) \ {NULL} \subseteq Range(list)

\* refcnt_sharemem counts the processes that have created the shared memory.
RefcntCountsCreators == refcnt = Cardinality(created)

\* Whoever asks after its CREATE and is told to be the first has allocated the
\* pages that are there now, and nobody else is told so.
OnlyAllocatorIsFirst == told \subseteq {allocator}

\* The mutex semutex_sharememory does not stay locked, so that the CREATE, EXPAND
\* and Release of others can go on, unless an EXPAND that is over has left the
\* mmap_sem locked that the next one waits for.
MutexIsReleased ==
  lock # NULL ~> \/ lock = NULL
                 \/ \E p \in Procs : mmap_sem[p] # NULL /\ pc[mmap_sem[p]] # "append"
=============================================================================
