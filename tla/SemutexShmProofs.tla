------------------------- MODULE SemutexShmProofs -------------------------
(***************************************************************************)
(* Proofs about SemutexShm, for any processes, pages, lengths and sizes of *)
(* mappings, with or without failures, however many threads a process has. *)
(* Only that the reference count is exact needs single-threaded processes: *)
(* two threads of one process can both pass the check of CREATE before     *)
(* either of them takes the mutex.                                         *)
(***************************************************************************)
EXTENDS SemutexShm, FiniteSetTheorems, SequenceTheorems, TLAPS

-----------------------------------------------------------------------------
(* The inductive invariant.                                                *)

InExpand(t) == pc[t] \in {"down_write", "append"}

\* semutex_sharememory is held exactly inside expend_sharemem(), by a process
\* that has created the shared memory.
Locked ==
  /\ \A t \in Threads : InExpand(t) <=> lock = t
  /\ \A t \in Threads : InExpand(t) => Proc[t] \in created

\* Every creator has a reference, and without references there is no page.
Counted ==
  /\ IsFiniteSet(created)
  /\ Cardinality(created) <= refcnt
  /\ refcnt = 0 => list = <<>>

\* As long as isfirst_sharememory is set nobody but the allocator has joined.
First ==
  /\ told \subseteq created
  /\ told \subseteq {allocator}
  /\ isfirst => created \subseteq {allocator}

\* Only creators have mappings, and these hold pages of the list.
Backed ==
  /\ \A p \in Procs : vma[p] # 0 => p \in created
  /\ \A p \in Procs, o \in Offsets :
       pte[p][o] # NULL => p \in created /\ pte[p][o] \in Range(list)

\* How many pages of the list are counted: EXPAND counts its own when it is done.
Base == IF lock # NULL /\ pc[lock] = "append" THEN next[lock] ELSE pageCount

\* There are at least as many pages as are counted.  As long as there are no
\* more, offset o maps the page at position o of the list.
Ordered ==
  /\ refcnt # 0 => Base <= Len(list)
  /\ Len(list) = Base => \A p \in Procs, o \in Offsets :
       pte[p][o] # NULL => o < Len(list) /\ pte[p][o] = list[o + 1]

\* EXPAND has the pages it still needs, and never starts below the count.
Supplied ==
  \A t \in Threads :
    /\ InExpand(t) => req[t] <= Base + Cardinality(Pages \ Range(list))
    /\ pc[t] = "append" => pageCount <= next[t]

IInv == TypeOK /\ Locked /\ Counted /\ First /\ Backed /\ Ordered /\ Supplied

-----------------------------------------------------------------------------
(* The page allocator.                                                     *)

\* Mapped pages are listed, so the free ones are the ones not on the list.
LEMMA FreeIsUnlisted ==
  ASSUME TypeOK, Backed
  PROVE  Free = Pages \ Range(list)
<1>1. ASSUME NEW x \in Pages, NEW p \in Procs, x \in Range(pte[p])
      PROVE  x \in Range(list)
  <2>1. DOMAIN pte[p] = Offsets
    BY DEF TypeOK
  <2>2. PICK o \in Offsets : x = pte[p][o]
    BY <1>1, <2>1 DEF Range
  <2>3. x # NULL
    BY NullAssumption
  <2> QED
    BY <2>2, <2>3 DEF Backed
<1> QED
  BY <1>1 DEF Free, InUse

LEMMA NewPageIsFree ==
  ASSUME Free # {}
  PROVE  NewPage \in Free
BY DEF NewPage

LEMMA NewPagesAreFree ==
  ASSUME NEW n \in Nat, n <= Cardinality(Free)
  PROVE  NewPages(n) \in [1 .. n -> Free]
<1> DEFINE F == Free
<1>1. IsFiniteSet(F)
  BY FS_Subset, PagesAssumption DEF Free
<1>2. Cardinality(F) \in Nat /\ ExistsBijection(1 .. Cardinality(F), F)
  BY <1>1, FS_CardinalityType
<1>3. PICK f : f \in Bijection(1 .. Cardinality(F), F)
  BY <1>2 DEF ExistsBijection
<1>4. /\ f \in [1 .. Cardinality(F) -> F]
      /\ \A a, b \in 1 .. Cardinality(F) : f[a] = f[b] => a = b
  BY <1>3 DEF Bijection, Injection, IsInjective
<1> DEFINE g == [i \in 1 .. n |-> f[i]]
<1>5. g \in [1 .. n -> F]
  BY <1>2, <1>4
<1>6. IsInjective(g)
  BY <1>2, <1>4 DEF IsInjective
<1> QED
  BY <1>5, <1>6 DEF NewPages

-----------------------------------------------------------------------------
(* Lists and counts.                                                       *)

LEMMA BaseType ==
  ASSUME TypeOK
  PROVE  Base \in 0 .. MaxLen /\ pageCount \in 0 .. MaxLen /\ MaxLen \in Nat /\ Len(list) \in Nat
BY SizesAssumption DEF TypeOK, Base

LEMMA RangeOfAppend ==
  ASSUME NEW S, NEW s \in Seq(S), NEW x \in S
  PROVE  /\ Range(s) \subseteq Range(Append(s, x))
         /\ x \in Range(Append(s, x))
         /\ Range(Append(s, x)) \subseteq Range(s) \cup {x}
<1>1. /\ DOMAIN s = 1 .. Len(s) /\ Len(s) \in Nat
      /\ DOMAIN Append(s, x) = 1 .. Len(s) + 1
      /\ \A i \in 1 .. Len(s) : Append(s, x)[i] = s[i]
      /\ Append(s, x)[Len(s) + 1] = x
  OBVIOUS
<1>2. Range(s) \subseteq Range(Append(s, x))
  BY <1>1 DEF Range
<1>3. x \in Range(Append(s, x))
  BY <1>1 DEF Range
<1>4. ASSUME NEW i \in 1 .. Len(s) + 1
      PROVE  Append(s, x)[i] \in Range(s) \cup {x}
  <2>1. CASE i = Len(s) + 1
    BY <1>1, <2>1
  <2>2. CASE i # Len(s) + 1
    BY <1>1, <2>2 DEF Range
  <2> QED
    BY <2>1, <2>2
<1> QED
  BY <1>1, <1>2, <1>3, <1>4 DEF Range

\* Without a lock holder in EXPAND nobody is in EXPAND.
LEMMA NobodyExpands ==
  ASSUME Locked, lock = NULL
  PROVE  \A t \in Threads : ~InExpand(t)
BY NullAssumption DEF Locked

\* Whoever appends holds the lock, so the count stands where it is.
LEMMA AppenderBase ==
  ASSUME Locked, NEW t \in Threads, pc[t] = "append"
  PROVE  lock = t /\ Base = next[t]
BY NullAssumption DEF Locked, InExpand, Base

LEMMA UncountedBase ==
  ASSUME lock = NULL \/ pc[lock] # "append"
  PROVE  Base = pageCount
BY DEF Base

\* The process of a lock holder, like every creator, has a reference.
LEMMA CreatorHasReference ==
  ASSUME TypeOK, Counted
  PROVE  /\ refcnt \in Nat /\ Cardinality(created) \in Nat
         /\ \A p \in created : refcnt # 0 /\ Cardinality(created) > 0
<1>1. Cardinality(created) \in Nat /\ (Cardinality(created) = 0 <=> created = {})
  BY FS_CardinalityType, FS_EmptySet DEF Counted
<1> QED
  BY <1>1 DEF Counted, TypeOK

\* A step that leaves the list and the mappings alone and the count in place.
LEMMA SamePages ==
  ASSUME Backed, Ordered, UNCHANGED <<list, pte, vma, created, refcnt>>, Base' = Base
  PROVE  Backed' /\ Ordered'
BY DEF Backed, Ordered

-----------------------------------------------------------------------------
(* The inductive invariant holds initially and every action preserves it.  *)

LEMMA InvInit == Init => IInv
<1> SUFFICES ASSUME Init PROVE IInv
  OBVIOUS
<1>1. TypeOK
  <2>1. isfirst \in BOOLEAN
    BY DEF Init
  <2>2. list \in Seq(Pages)
    BY DEF Init
  <2>3. pte \in [Procs -> [Offsets -> Pages \cup {NULL}]]
    BY DEF Init, Unmapped
  <2> QED
    BY <2>1, <2>2, <2>3, SizesAssumption DEF Init, TypeOK
<1>2. Locked
  BY NullAssumption DEF Init, Locked, InExpand
<1>3. Counted
  BY FS_EmptySet DEF Init, Counted
<1>4. First
  BY DEF Init, First
<1>5. Backed
  BY DEF Init, Backed, Unmapped
<1>6. Ordered
  BY DEF Init, Ordered, Unmapped
<1>7. Supplied
  BY DEF Init, Supplied, InExpand
<1> QED
  BY <1>1, <1>2, <1>3, <1>4, <1>5, <1>6, <1>7 DEF IInv

\* A thread that is not in EXPAND starts another call.
LEMMA CheckStep ==
  ASSUME IInv, NEW t \in Threads, pc[t] = "user",
         NEW l \in {"create", "expand"}, pc' = [pc EXCEPT ![t] = l],
         NEW n \in 1 .. MaxLen, req' = [req EXCEPT ![t] = n],
         UNCHANGED <<shm, mm, lock, next>>
  PROVE  IInv'
<1> USE DEF IInv, shm, mm
<1>1. TypeOK'
  BY SizesAssumption DEF TypeOK
<1>2. \A u \in Threads : InExpand(u)' <=> InExpand(u)
  BY DEF TypeOK, InExpand
<1>3. Locked'
  BY <1>2 DEF Locked, TypeOK
<1>4. lock = NULL \/ lock # t
  BY DEF Locked, InExpand
<1>5. Base' = Base
  BY <1>4 DEF Base, TypeOK
<1>6. Backed' /\ Ordered'
  BY <1>5, SamePages
<1>7. Supplied'
  <2>1. ASSUME NEW u \in Threads, InExpand(u)'
        PROVE  u # t /\ req'[u] = req[u] /\ InExpand(u)
    BY <1>2, <2>1 DEF InExpand, TypeOK
  <2>2. ASSUME NEW u \in Threads, InExpand(u)'
        PROVE  (req[u] <= Base + Cardinality(Pages \ Range(list)))'
    BY <1>5, <2>1, <2>2 DEF Supplied
  <2>3. ASSUME NEW u \in Threads, pc'[u] = "append"
        PROVE  (pageCount <= next[u])'
    BY <2>1, <2>3 DEF Supplied, TypeOK
  <2> QED
    BY <2>2, <2>3 DEF Supplied
<1>8. Counted' /\ First'
  BY DEF Counted, First
<1> QED
  BY <1>1, <1>3, <1>6, <1>7, <1>8

LEMMA CreateCheckStep ==
  ASSUME IInv, NEW t \in Threads, NEW n \in 1 .. MaxLen, CreateCheck(t, n)
  PROVE  IInv'
BY CheckStep DEF CreateCheck

LEMMA ExpandCheckStep ==
  ASSUME IInv, NEW t \in Threads, NEW n \in 1 .. MaxLen, ExpandCheck(t, n)
  PROVE  IInv'
BY CheckStep DEF ExpandCheck

LEMMA QueryIsFirstStep ==
  ASSUME IInv, NEW t \in Threads, QueryIsFirst(t)
  PROVE  IInv'
<1> USE DEF IInv, mm
<1>1. First'
  <2>1. Proc[t] \in created /\ UNCHANGED <<created, allocator, isfirst>>
    BY DEF QueryIsFirst
  <2>2. CASE isfirst
    BY <2>1, <2>2 DEF QueryIsFirst, First
  <2>3. CASE ~isfirst
    BY <2>1, <2>3 DEF QueryIsFirst, First
  <2> QED
    BY <2>2, <2>3
<1>2. TypeOK'
  <2>1. told' \subseteq Procs
    BY <1>1 DEF First, QueryIsFirst, TypeOK
  <2> QED
    BY <2>1 DEF QueryIsFirst, TypeOK
<1>3. Base' = Base
  BY DEF QueryIsFirst, Base
<1>4. Backed' /\ Ordered'
  BY <1>3, SamePages DEF QueryIsFirst
<1>5. Locked' /\ Counted'
  BY DEF QueryIsFirst, Locked, Counted, InExpand
<1>6. Supplied'
  BY <1>3 DEF QueryIsFirst, Supplied, InExpand
<1> QED
  BY <1>1, <1>2, <1>4, <1>5, <1>6

\* mmap() takes the pages as they are on the list at that time.
LEMMA MMapStep ==
  ASSUME IInv, NEW t \in Threads, NEW size \in VmaSizes, MMap(t, size)
  PROVE  IInv'
<1> USE DEF IInv, shm
<1> DEFINE p == Proc[t]
           m == semutex_update_page_range(size)
<1>1. /\ p \in Procs /\ p \in created
      /\ vma' = [vma EXCEPT ![p] = size]
      /\ pte' = [pte EXCEPT ![p] = m]
      /\ UNCHANGED <<shm, lock, mmap_sem, pc, req, next>>
  BY ProcAssumption DEF MMap
<1>2. /\ list \in Seq(Pages) /\ Len(list) \in Nat /\ DOMAIN list = 1 .. Len(list)
      /\ Offsets \subseteq Nat
  BY SizesAssumption DEF TypeOK, Offsets
<1>3. ASSUME NEW o \in Offsets
      PROVE  \/ m[o] = NULL
             \/ /\ o < Len(list) /\ m[o] = list[o + 1]
                /\ m[o] \in Pages /\ m[o] \in Range(list)
  <2>1. CASE o < size /\ o < Len(list)
    <3>1. o + 1 \in 1 .. Len(list) /\ m[o] = list[o + 1]
      BY <1>2, <2>1 DEF semutex_update_page_range
    <3> QED
      BY <1>2, <2>1, <3>1 DEF Range
  <2>2. CASE ~(o < size /\ o < Len(list))
    BY <2>2 DEF semutex_update_page_range
  <2> QED
    BY <2>1, <2>2
<1>4. m \in [Offsets -> Pages \cup {NULL}]
  <2>1. m = [o \in Offsets |-> m[o]]
    BY DEF semutex_update_page_range
  <2> HIDE DEF m
  <2> QED
    BY <1>3, <2>1
<1> HIDE DEF m
<1>5. pte' \in [Procs -> [Offsets -> Pages \cup {NULL}]]
  BY <1>1, <1>4 DEF TypeOK
<1>6. TypeOK'
  <2>1. vma' \in [Procs -> 0 .. MaxLen]
    BY <1>1, SizesAssumption DEF TypeOK
  <2> QED
    BY <1>1, <1>5, <2>1 DEF TypeOK
<1>7. Base' = Base
  BY <1>1 DEF Base
<1>8. ASSUME NEW q \in Procs, NEW o \in Offsets
      PROVE  pte'[q][o] = IF q = p THEN m[o] ELSE pte[q][o]
  BY <1>1 DEF TypeOK
<1>9. Backed'
  <2>1. ASSUME NEW q \in Procs, vma'[q] # 0
        PROVE  q \in created'
    BY <1>1, <2>1 DEF Backed, TypeOK
  <2>2. ASSUME NEW q \in Procs, NEW o \in Offsets, pte'[q][o] # NULL
        PROVE  q \in created' /\ pte'[q][o] \in Range(list')
    BY <1>1, <1>3, <1>8, <2>2 DEF Backed
  <2> QED
    BY <2>1, <2>2 DEF Backed
<1>10. Ordered'
  <2>1. refcnt' # 0 => Base' <= Len(list')
    BY <1>1, <1>7 DEF Ordered
  <2>2. ASSUME Len(list') = Base', NEW q \in Procs, NEW o \in Offsets, pte'[q][o] # NULL
        PROVE  o < Len(list') /\ pte'[q][o] = list'[o + 1]
    <3>1. CASE q = p
      BY <1>1, <1>3, <1>8, <2>2, <3>1
    <3>2. CASE q # p
      BY <1>1, <1>7, <1>8, <2>2, <3>2 DEF Ordered
    <3> QED
      BY <3>1, <3>2
  <2> QED
    BY <2>1, <2>2 DEF Ordered
<1>11. Locked' /\ Counted' /\ First'
  BY <1>1 DEF Locked, Counted, First, InExpand
<1>12. Supplied'
  BY <1>1, <1>7 DEF Supplied, InExpand
<1> QED
  BY <1>6, <1>9, <1>10, <1>11, <1>12

\* What CREATE does to the pages, with the first reference and with a later one.
LEMMA CreateEffect ==
  ASSUME IInv, NEW t \in Threads, Create(t)
  PROVE  /\ Proc[t] \in Procs /\ list' \in Seq(Pages) /\ pageCount' \in 0 .. MaxLen /\ isfirst' \in BOOLEAN
         /\ refcnt = 0 => /\ created = {} /\ Len(list') = pageCount' /\ allocator' = Proc[t]
         /\ refcnt # 0 => ~isfirst' /\ UNCHANGED <<list, pageCount, allocator>>
<1> USE DEF IInv
<1>1. Proc[t] \in Procs
  BY ProcAssumption
<1>2. refcnt = 0 => created = {}
  BY CreatorHasReference
<1>3. CASE refcnt = 0
  <2>1. list = <<>> /\ created = {}
    BY <1>2, <1>3 DEF Counted
  <2>2. Free = Pages
    <3>1. Range(list) = {}
      BY <2>1 DEF Range
    <3> QED
      BY <3>1, FreeIsUnlisted
  <2>3. req[t] \in Nat /\ req[t] <= MaxLen /\ MaxLen \in Nat /\ req[t] \in 0 .. MaxLen
    BY SizesAssumption DEF TypeOK
  <2>4. Cardinality(Pages) \in Nat
    BY PagesAssumption, FS_CardinalityType
  <2>5. req[t] <= Cardinality(Free)
    BY <2>2, <2>3, <2>4, SizesAssumption
  <2>6. NewPages(req[t]) \in [1 .. req[t] -> Pages]
    BY <2>2, <2>3, <2>5, NewPagesAreFree
  <2>7. NewPages(req[t]) \in Seq(Pages) /\ Len(NewPages(req[t])) = req[t]
    BY <2>3, <2>6
  <2> QED
    BY <1>1, <1>3, <2>1, <2>3, <2>7 DEF Create
<1>4. CASE refcnt # 0
  BY <1>1, <1>2, <1>4 DEF Create, TypeOK
<1> QED
  BY <1>3, <1>4

LEMMA CreateStep ==
  ASSUME IInv, NEW t \in Threads, Create(t)
  PROVE  IInv'
<1> USE DEF IInv, mm
<1> DEFINE p == Proc[t]
<1>1. /\ lock = NULL /\ refcnt' = refcnt + 1 /\ created' = created \cup {p}
      /\ pc' = [pc EXCEPT ![t] = "user"] /\ pc[t] = "create"
      /\ UNCHANGED <<mm, lock, req, next, told>>
  BY DEF Create
<1>2. /\ p \in Procs /\ list' \in Seq(Pages) /\ pageCount' \in 0 .. MaxLen /\ isfirst' \in BOOLEAN
      /\ refcnt = 0 => /\ created = {} /\ Len(list') = pageCount' /\ allocator' = p
      /\ refcnt # 0 => ~isfirst' /\ UNCHANGED <<list, pageCount, allocator>>
  BY CreateEffect
<1> HIDE DEF p
<1>3. TypeOK'
  BY <1>1, <1>2 DEF TypeOK
<1>4. \A u \in Threads : ~InExpand(u) /\ ~InExpand(u)' /\ pc'[u] # "append"
  BY <1>1, NobodyExpands DEF InExpand, TypeOK
<1>5. Locked'
  BY <1>1, <1>4, NullAssumption DEF Locked
<1>6. Base = pageCount /\ Base' = pageCount'
  BY <1>1, UncountedBase DEF Base
<1>7. Counted'
  <2>1. IsFiniteSet(created') /\ Cardinality(created') <= Cardinality(created) + 1
    <3>1. IsFiniteSet(created) /\ Cardinality(created) \in Nat
      BY CreatorHasReference DEF Counted
    <3>2. /\ IsFiniteSet(created \cup {p})
          /\ \/ Cardinality(created \cup {p}) = Cardinality(created)
             \/ Cardinality(created \cup {p}) = Cardinality(created) + 1
      BY <3>1, FS_AddElement
    <3> QED
      BY <1>1, <3>1, <3>2
  <2>2. Cardinality(created') \in Nat /\ Cardinality(created) \in Nat /\ refcnt \in Nat
    BY <2>1, FS_CardinalityType, CreatorHasReference
  <2> QED
    BY <1>1, <2>1, <2>2 DEF Counted
<1>8. First'
  <2>1. CASE refcnt = 0
    BY <1>1, <1>2, <2>1 DEF First
  <2>2. CASE refcnt # 0
    BY <1>1, <1>2, <2>2 DEF First
  <2> QED
    BY <2>1, <2>2
<1>9. Backed' /\ Ordered'
  <2>1. CASE refcnt = 0
    <3>1. ASSUME NEW q \in Procs PROVE vma'[q] = 0 /\ \A o \in Offsets : pte'[q][o] = NULL
      BY <1>1, <1>2, <2>1 DEF Backed
    <3>2. pageCount' <= pageCount'
      BY <1>2
    <3>3. Base' <= Len(list')
      BY <1>2, <1>6, <2>1, <3>2
    <3> QED
      BY <3>1, <3>3 DEF Backed, Ordered
  <2>2. CASE refcnt # 0
    <3>1. UNCHANGED list /\ Base' = Base
      BY <1>2, <1>6, <2>2
    <3> QED
      BY <1>1, <2>2, <3>1 DEF Backed, Ordered
  <2> QED
    BY <2>1, <2>2
<1>10. Supplied'
  BY <1>4 DEF Supplied
<1> QED
  BY <1>3, <1>5, <1>7, <1>8, <1>9, <1>10

LEMMA CreateFailsStep ==
  ASSUME IInv, NEW t \in Threads, CreateFails(t)
  PROVE  IInv'
<1> USE DEF IInv, mm
<1>1. /\ lock = NULL /\ refcnt = 0 /\ list' = <<>> /\ pc[t] = "create"
      /\ pc' = [pc EXCEPT ![t] = "user"]
      /\ UNCHANGED <<refcnt, pageCount, isfirst, created, allocator, told, mm, lock, req, next>>
  BY DEF CreateFails
<1>2. created = {} /\ list = <<>>
  BY <1>1, CreatorHasReference DEF Counted
<1>3. TypeOK'
  BY <1>1, <1>2 DEF TypeOK
<1>4. \A u \in Threads : ~InExpand(u) /\ ~InExpand(u)' /\ pc'[u] # "append"
  BY <1>1, NobodyExpands DEF InExpand, TypeOK
<1>5. Locked'
  BY <1>1, <1>2, <1>4, NullAssumption DEF Locked
<1>6. Counted' /\ First'
  BY <1>1, <1>2 DEF Counted, First
<1>7. Base' = Base
  BY <1>1 DEF Base
<1>8. Backed' /\ Ordered'
  BY <1>1, <1>2, <1>7, SamePages
<1>9. Supplied'
  BY <1>4 DEF Supplied
<1> QED
  BY <1>3, <1>5, <1>6, <1>8, <1>9

LEMMA ExpandLockStep ==
  ASSUME IInv, NEW t \in Threads, ExpandLock(t)
  PROVE  IInv'
<1> USE DEF IInv, shm, mm
<1>1. /\ lock = NULL /\ pc[t] = "expand"
      /\ req[t] <= pageCount + Cardinality(Free)
      /\ UNCHANGED <<shm, mm, req, next>>
      /\ \/ pc' = [pc EXCEPT ![t] = "user"] /\ lock' = NULL
         \/ vma[Proc[t]] # 0 /\ pc' = [pc EXCEPT ![t] = "down_write"] /\ lock' = t
  BY DEF ExpandLock
<1>2. TypeOK'
  BY <1>1 DEF TypeOK
<1>3. \A u \in Threads : ~InExpand(u) /\ (u # t => ~InExpand(u)') /\ pc'[u] # "append"
  BY <1>1, NobodyExpands DEF InExpand, TypeOK
<1>4. InExpand(t)' => Proc[t] \in created
  BY <1>1, ProcAssumption DEF InExpand, TypeOK, Backed
<1>5. Locked'
  <2>1. InExpand(t)' <=> lock' = t
    BY <1>1, NullAssumption DEF InExpand, TypeOK
  <2>2. \A u \in Threads : u # t => lock' # u
    BY <1>1, NullAssumption
  <2> QED
    BY <1>1, <1>3, <1>4, <2>1, <2>2 DEF Locked
<1>6. Base = pageCount /\ Base' = pageCount
  <2>1. lock' = NULL \/ pc'[lock'] # "append"
    BY <1>1, <1>3
  <2> QED
    BY <1>1, <2>1 DEF Base
<1>7. Backed' /\ Ordered'
  BY <1>1, <1>6, SamePages
<1>8. Supplied'
  BY <1>1, <1>3, <1>6, FreeIsUnlisted DEF Supplied
<1>9. Counted' /\ First'
  BY <1>1 DEF Counted, First
<1> QED
  BY <1>2, <1>5, <1>7, <1>8, <1>9

\* EXPAND returns, with the count at or below where it stood.
LEMMA LeaveExpand ==
  ASSUME IInv, NEW t \in Threads, InExpand(t),
         pc' = [pc EXCEPT ![t] = "user"], lock' = NULL,
         mmap_sem' \in [Procs -> Threads \cup {NULL}],
         UNCHANGED <<refcnt, isfirst, created, allocator, told, vma, pte, req, next>>,
         list' \in Seq(Pages), Range(list) \subseteq Range(list'), Len(list) <= Len(list'),
         pageCount' \in 0 .. MaxLen, pageCount' <= Base,
         Len(list') = pageCount' => list' = list /\ Len(list) = Base
  PROVE  IInv'
<1> USE DEF IInv
<1>1. TypeOK'
  BY DEF TypeOK
<1>2. lock = t /\ refcnt # 0
  BY CreatorHasReference DEF Locked
<1>3. \A u \in Threads : ~InExpand(u)' /\ pc'[u] # "append"
  <2>1. \A u \in Threads : u # t => ~InExpand(u)
    BY <1>2 DEF Locked
  <2> QED
    BY <2>1 DEF InExpand, TypeOK
<1>4. Locked'
  BY <1>3, NullAssumption DEF Locked
<1>5. Base' = pageCount'
  BY DEF Base
<1>6. Counted' /\ First'
  BY <1>2 DEF Counted, First
<1>7. Backed'
  BY DEF Backed
<1>8. Ordered'
  <2>1. Base \in Nat /\ Len(list) \in Nat /\ Len(list') \in Nat /\ pageCount' \in Nat
    BY BaseType, SizesAssumption DEF TypeOK
  <2>2. Base <= Len(list)
    BY <1>2 DEF Ordered
  <2>3. Base' <= Len(list')
    BY <1>5, <2>1, <2>2
  <2> QED
    BY <1>5, <2>3 DEF Ordered
<1>9. Supplied'
  BY <1>3 DEF Supplied
<1> QED
  BY <1>1, <1>4, <1>6, <1>7, <1>8, <1>9

LEMMA ReturnType ==
  ASSUME TypeOK, NEW t \in Threads, NEW keep \in BOOLEAN, ExpandReturn(t, keep)
  PROVE  /\ pc' = [pc EXCEPT ![t] = "user"] /\ lock' = NULL
         /\ mmap_sem' \in [Procs -> Threads \cup {NULL}]
BY DEF ExpandReturn, TypeOK

LEMMA ExpandDownWriteStep ==
  ASSUME IInv, NEW t \in Threads, ExpandDownWrite(t)
  PROVE  IInv'
<1> USE DEF IInv, shm
<1>1. pc[t] = "down_write" /\ InExpand(t) /\ UNCHANGED <<shm, vma, pte, req>>
  BY DEF ExpandDownWrite, InExpand
<1>2. lock = t /\ t # NULL
  BY <1>1, NullAssumption DEF Locked
<1>3. Base = pageCount
  BY <1>1, <1>2 DEF Base
<1>4. pageCount \in 0 .. MaxLen /\ pageCount <= pageCount
  BY SizesAssumption DEF TypeOK
<1>5. CASE vma[Proc[t]] < req[t]
  <2>1. ExpandReturn(t, TRUE) /\ UNCHANGED next
    BY <1>5 DEF ExpandDownWrite
  <2>2. Len(list) <= Len(list') /\ list' \in Seq(Pages) /\ list' = list
    BY <1>1 DEF TypeOK
  <2> QED
    BY <1>1, <1>3, <1>4, <2>1, <2>2, ReturnType, LeaveExpand
<1>6. CASE ~(vma[Proc[t]] < req[t])
  <2>1. /\ mmap_sem' = [mmap_sem EXCEPT ![Proc[t]] = t]
        /\ pc' = [pc EXCEPT ![t] = "append"]
        /\ next' = [next EXCEPT ![t] = pageCount]
        /\ lock' = lock
    BY <1>6 DEF ExpandDownWrite
  <2>2. TypeOK'
    BY <1>1, <2>1, ProcAssumption DEF TypeOK
  <2>3. \A u \in Threads : InExpand(u)' <=> InExpand(u)
    BY <1>1, <2>1 DEF TypeOK, InExpand
  <2>4. Locked'
    BY <1>1, <2>1, <2>3 DEF Locked
  <2>5. Base' = pageCount /\ next'[t] = pageCount
    BY <1>2, <2>1 DEF Base, TypeOK
  <2>6. Backed' /\ Ordered'
    BY <1>1, <1>3, <2>5, SamePages
  <2>7. Supplied'
    <3>1. ASSUME NEW u \in Threads, InExpand(u)' \/ pc'[u] = "append"
          PROVE  u = t
      BY <1>2, <2>3, <3>1 DEF Locked, InExpand
    <3> QED
      BY <1>1, <1>3, <1>4, <2>5, <3>1 DEF Supplied
  <2>8. Counted' /\ First'
    BY <1>1 DEF Counted, First
  <2> QED
    BY <2>2, <2>4, <2>6, <2>7, <2>8
<1> QED
  BY <1>5, <1>6

\* There is a page for append_onePage() to take, and it is a new one.
LEMMA AppendPage ==
  ASSUME IInv, NEW t \in Threads, Appending(t)
  PROVE  /\ InExpand(t) /\ lock = t /\ Base = next[t] /\ pageCount <= next[t]
         /\ next[t] \in Nat /\ req[t] \in Nat /\ next[t] < req[t] /\ req[t] <= MaxLen
         /\ pc[t] = "append"
         /\ NewPage \in Pages /\ NewPage \notin Range(list)
         /\ Proc[t] \in Procs /\ Proc[t] \in created /\ refcnt # 0
         /\ next[t] \in Offsets
<1> USE DEF IInv
<1>1. pc[t] = "append" /\ next[t] < req[t] /\ InExpand(t)
  BY DEF Appending, InExpand
<1>2. /\ lock = t /\ Base = next[t] /\ Proc[t] \in Procs
      /\ Proc[t] \in created /\ refcnt # 0
  BY <1>1, AppenderBase, ProcAssumption, CreatorHasReference DEF Locked
<1>3. /\ next[t] \in Nat /\ req[t] \in Nat /\ req[t] <= MaxLen /\ MaxLen \in Nat
  BY SizesAssumption DEF TypeOK
<1>4. next[t] \in Offsets
  BY <1>1, <1>3 DEF Offsets
<1>5. req[t] <= next[t] + Cardinality(Free) /\ pageCount <= next[t]
  BY <1>1, <1>2, FreeIsUnlisted DEF Supplied
<1>6. Free # {}
  <2>1. Cardinality({}) = 0
    BY FS_EmptySet
  <2>2. ~(req[t] <= next[t] + 0)
    BY <1>1, <1>3
  <2> QED
    BY <1>5, <2>1, <2>2
<1>7. NewPage \in Pages \ Range(list)
  BY <1>6, NewPageIsFree, FreeIsUnlisted
<1> QED
  BY <1>1, <1>2, <1>3, <1>4, <1>5, <1>7

\* The page goes to the end of the list and, in the caller, to the offset that
\* is the old length of the list, unless pages are left over already.
LEMMA ExpandAppendStep ==
  ASSUME IInv, NEW t \in Threads, ExpandAppend(t)
  PROVE  IInv'
<1> USE DEF IInv
<1>1. PICK x \in Pages, n \in Offsets : x = NewPage /\ n = next[t]
  BY AppendPage DEF ExpandAppend
<1> DEFINE p == Proc[t]
<1>2. /\ InExpand(t) /\ lock = t /\ Base = n /\ pageCount <= n
      /\ n \in Nat /\ req[t] \in Nat /\ n < req[t] /\ req[t] <= MaxLen
      /\ pc[t] = "append" /\ x \notin Range(list) /\ p \in Procs /\ p \in created
      /\ refcnt # 0
  BY <1>1, AppendPage DEF ExpandAppend
<1>3. /\ list' = Append(list, x)
      /\ pte' = [pte EXCEPT ![p][n] = x]
      /\ next' = [next EXCEPT ![t] = n + 1]
      /\ UNCHANGED <<refcnt, pageCount, isfirst, created, allocator, told, vma,
                     mmap_sem, lock, pc, req>>
  BY <1>1 DEF ExpandAppend
<1> HIDE DEF p
<1>4. /\ list \in Seq(Pages) /\ Len(list) \in Nat /\ list' \in Seq(Pages)
      /\ Len(list') = Len(list) + 1
      /\ list'[Len(list) + 1] = x
      /\ \A i \in 1 .. Len(list) : list'[i] = list[i]
  BY <1>3 DEF TypeOK
<1>5. pte' \in [Procs -> [Offsets -> Pages \cup {NULL}]]
  BY <1>2, <1>3 DEF TypeOK
<1>6. TypeOK'
  <2>1. n + 1 \in 0 .. MaxLen
    BY <1>2, SizesAssumption
  <2>2. next' \in [Threads -> 0 .. MaxLen]
    BY <1>3, <2>1 DEF TypeOK
  <2> QED
    BY <1>3, <1>4, <1>5, <2>2 DEF TypeOK
<1>7. Locked' /\ Counted' /\ First'
  BY <1>2, <1>3 DEF Locked, Counted, First, InExpand
<1>8. Base' = n + 1 /\ next'[t] = n + 1
  BY <1>2, <1>3, NullAssumption DEF Base, TypeOK
<1>9. /\ Range(list) \subseteq Range(list') /\ x \in Range(list')
      /\ Range(list') \subseteq Range(list) \cup {x}
  BY <1>3, <1>4, RangeOfAppend
<1>10. ASSUME NEW q \in Procs, NEW o \in Offsets
       PROVE  pte'[q][o] = IF q = p /\ o = n THEN x ELSE pte[q][o]
  BY <1>2, <1>3 DEF TypeOK
<1>11. Backed'
  <2>1. ASSUME NEW q \in Procs, NEW o \in Offsets, pte'[q][o] # NULL
        PROVE  q \in created' /\ pte'[q][o] \in Range(list')
    BY <1>2, <1>3, <1>9, <1>10, <2>1 DEF Backed
  <2> QED
    BY <1>3, <2>1 DEF Backed
<1>12. Ordered'
  <2>1. Base' <= Len(list')
    BY <1>2, <1>4, <1>8 DEF Ordered
  <2>2. ASSUME Len(list') = Base', NEW q \in Procs, NEW o \in Offsets, pte'[q][o] # NULL
        PROVE  o < Len(list') /\ pte'[q][o] = list'[o + 1]
    <3>1. Len(list) = n
      BY <1>2, <1>4, <1>8, <2>2
    <3>2. CASE q = p /\ o = n
      BY <1>2, <1>4, <1>10, <3>1, <3>2
    <3>3. CASE ~(q = p /\ o = n)
      <4>1. pte'[q][o] = pte[q][o]
        BY <1>10, <3>3
      <4>2. o < Len(list) /\ pte[q][o] = list[o + 1]
        BY <1>2, <2>2, <3>1, <4>1 DEF Ordered
      <4>3. o \in Nat
        BY SizesAssumption DEF Offsets
      <4>4. o + 1 \in 1 .. Len(list) /\ o < Len(list) + 1
        BY <1>4, <4>2, <4>3
      <4> QED
        BY <1>4, <4>1, <4>2, <4>4
    <3> QED
      BY <3>2, <3>3
  <2> QED
    BY <2>1, <2>2 DEF Ordered
<1>13. Supplied'
  <2> DEFINE F == Pages \ Range(list)
  <2>1. Pages \ Range(list') = F \ {x}
    BY <1>9
  <2>2. IsFiniteSet(F)
    BY PagesAssumption, FS_Subset
  <2>3. x \in F
    BY <1>2
  <2>4. /\ Cardinality(F \ {x}) = Cardinality(F) - 1 /\ Cardinality(F) \in Nat
    <3> HIDE DEF F
    <3> QED
      BY <2>2, <2>3, FS_RemoveElement, FS_CardinalityType
  <2>5. req[t] <= n + Cardinality(F)
    BY <1>2 DEF Supplied
  <2>6. req[t] <= (n + 1) + (Cardinality(F) - 1) /\ pageCount <= n + 1
    <3>1. pageCount \in Nat
      BY SizesAssumption DEF TypeOK
    <3> QED
      BY <1>2, <2>4, <2>5, <3>1
  <2>7. (req[t] <= Base + Cardinality(Pages \ Range(list)))'
    BY <1>3, <1>8, <2>1, <2>4, <2>6
  <2>8. ASSUME NEW u \in Threads, InExpand(u)' \/ pc'[u] = "append"
        PROVE  u = t
    BY <1>2, <1>3, <2>8 DEF Locked, InExpand
  <2> QED
    BY <1>3, <1>8, <2>6, <2>7, <2>8 DEF Supplied
<1> QED
  BY <1>6, <1>7, <1>11, <1>12, <1>13

LEMMA ExpandInsertFailsStep ==
  ASSUME IInv, NEW t \in Threads, ExpandInsertFails(t)
  PROVE  IInv'
<1> USE DEF IInv
<1>1. PICK x \in Pages : x = NewPage
  BY AppendPage DEF ExpandInsertFails
<1>2. InExpand(t) /\ Base = next[t] /\ pageCount <= next[t] /\ refcnt # 0
  BY AppendPage DEF ExpandInsertFails
<1>3. /\ list' = Append(list, x) /\ ExpandReturn(t, FALSE)
      /\ UNCHANGED <<refcnt, pageCount, isfirst, created, allocator, told, vma, pte, req, next>>
  BY <1>1 DEF ExpandInsertFails
<1>4. /\ list \in Seq(Pages) /\ Len(list) \in Nat /\ list' \in Seq(Pages)
      /\ Len(list') = Len(list) + 1
  BY <1>3 DEF TypeOK
<1>5. Range(list) \subseteq Range(list')
  BY <1>3, <1>4, RangeOfAppend
<1>6. Base <= Len(list) /\ Base \in Nat /\ pageCount \in Nat /\ pageCount \in 0 .. MaxLen
  BY <1>2, BaseType DEF Ordered
<1>7. Len(list) <= Len(list') /\ pageCount' <= Base /\ Len(list') # pageCount'
  BY <1>2, <1>3, <1>4, <1>6
<1> QED
  BY <1>2, <1>3, <1>4, <1>5, <1>6, <1>7, ReturnType, LeaveExpand

LEMMA ExpandNoMemoryStep ==
  ASSUME IInv, NEW t \in Threads, ExpandNoMemory(t)
  PROVE  IInv'
<1> USE DEF IInv, shm
<1>1. InExpand(t) /\ Base = next[t] /\ pageCount <= next[t] /\ refcnt # 0
  BY AppendPage DEF ExpandNoMemory
<1>2. ExpandReturn(t, TRUE) /\ UNCHANGED <<shm, vma, pte, req, next>>
  BY DEF ExpandNoMemory
<1>3. list' = list /\ list' \in Seq(Pages) /\ Len(list) <= Len(list')
  BY <1>2 DEF TypeOK
<1>4. /\ Base <= Len(list) /\ Base \in Nat /\ Len(list) \in Nat
      /\ pageCount \in Nat /\ pageCount \in 0 .. MaxLen
  BY <1>1, BaseType DEF Ordered
<1>5. pageCount' <= Base /\ (Len(list') = pageCount' => Len(list) = Base)
  BY <1>1, <1>2, <1>3, <1>4
<1> QED
  BY <1>1, <1>2, <1>3, <1>4, <1>5, ReturnType, LeaveExpand

LEMMA ExpandDoneStep ==
  ASSUME IInv, NEW t \in Threads, ExpandDone(t)
  PROVE  IInv'
<1> USE DEF IInv
<1>1. pc[t] = "append" /\ InExpand(t) /\ next[t] >= req[t]
  BY DEF ExpandDone, InExpand
<1>2. Base = next[t] /\ refcnt # 0
  BY <1>1, AppenderBase, CreatorHasReference DEF Locked
<1>3. /\ pageCount' = req[t] /\ ExpandReturn(t, FALSE)
      /\ UNCHANGED <<refcnt, list, isfirst, created, allocator, told, vma, pte, req, next>>
  BY DEF ExpandDone
<1>4. list' = list /\ list' \in Seq(Pages) /\ Len(list) <= Len(list')
  BY <1>3 DEF TypeOK
<1>5. /\ Base <= Len(list) /\ Base \in Nat /\ Len(list) \in Nat
      /\ req[t] \in Nat /\ req[t] \in 0 .. MaxLen
  BY <1>2, BaseType DEF Ordered, TypeOK
<1>6. pageCount' <= Base /\ (Len(list') = pageCount' => Len(list) = Base)
  BY <1>1, <1>2, <1>3, <1>4, <1>5
<1> QED
  BY <1>1, <1>3, <1>4, <1>5, <1>6, ReturnType, LeaveExpand

\* Release drops a reference, and with the last one nobody has a mapping left.
LEMMA ReleaseStep ==
  ASSUME IInv, NEW p \in Procs, Release(p)
  PROVE  IInv'
<1> USE DEF IInv
<1>1. /\ p \in created /\ lock = NULL
      /\ \A t \in Threads : Proc[t] = p => pc[t] = "user"
      /\ refcnt' = refcnt - 1 /\ created' = created \ {p} /\ told' = told \ {p}
      /\ list' = IF refcnt - 1 = 0 THEN <<>> ELSE list
      /\ vma' = [vma EXCEPT ![p] = 0]
      /\ pte' = [pte EXCEPT ![p] = Unmapped]
      /\ UNCHANGED <<pageCount, isfirst, allocator, mmap_sem, lock, pc, req, next>>
  BY DEF Release, CanLeave, semutex_vma_close, free_sharemem
<1>2. /\ IsFiniteSet(created') /\ Cardinality(created') <= refcnt'
      /\ refcnt' \in Nat /\ (refcnt' = 0 => created' = {})
  <2>1. IsFiniteSet(created') /\ Cardinality(created') = Cardinality(created) - 1
    BY <1>1, FS_RemoveElement DEF Counted
  <2>2. Cardinality(created') \in Nat /\ (Cardinality(created') = 0 <=> created' = {})
    BY <2>1, FS_CardinalityType, FS_EmptySet
  <2>3. refcnt \in Nat /\ Cardinality(created) \in Nat
    BY CreatorHasReference
  <2> QED
    BY <1>1, <2>1, <2>2, <2>3 DEF Counted
<1>3. /\ list' \in Seq(Pages) /\ (refcnt' = 0 => list' = <<>>)
      /\ created' # {} \/ refcnt' # 0 => list' = list
  BY <1>1, <1>2 DEF TypeOK
<1>4. pte' \in [Procs -> [Offsets -> Pages \cup {NULL}]]
  BY <1>1 DEF TypeOK, Unmapped
<1>5. TypeOK'
  <2>1. vma' \in [Procs -> 0 .. MaxLen]
    BY <1>1, SizesAssumption DEF TypeOK
  <2> QED
    BY <1>1, <1>2, <1>3, <1>4, <2>1 DEF TypeOK
<1>6. \A u \in Threads : ~InExpand(u) /\ ~InExpand(u)' /\ pc'[u] # "append"
  BY <1>1, NobodyExpands DEF InExpand
<1>7. Locked'
  BY <1>1, <1>6, NullAssumption DEF Locked
<1>8. Counted' /\ First'
  BY <1>1, <1>2, <1>3 DEF Counted, First
<1>9. Base' = Base
  BY <1>1 DEF Base
<1>10. ASSUME NEW q \in Procs, NEW o \in Offsets, pte'[q][o] # NULL
       PROVE  q # p /\ pte'[q][o] = pte[q][o] /\ q \in created' /\ list' = list
  <2>1. q # p /\ pte'[q][o] = pte[q][o]
    BY <1>1, <1>10 DEF TypeOK, Unmapped
  <2>2. q \in created'
    BY <1>1, <1>10, <2>1 DEF Backed
  <2> QED
    BY <1>3, <2>1, <2>2
<1>11. Backed'
  <2>1. ASSUME NEW q \in Procs, vma'[q] # 0
        PROVE  q \in created'
    BY <1>1, <2>1 DEF Backed, TypeOK
  <2>2. ASSUME NEW q \in Procs, NEW o \in Offsets, pte'[q][o] # NULL
        PROVE  q \in created' /\ pte'[q][o] \in Range(list')
    BY <1>10, <2>2 DEF Backed
  <2> QED
    BY <2>1, <2>2 DEF Backed
<1>12. Ordered'
  <2>1. refcnt' # 0 => Base' <= Len(list')
    BY <1>1, <1>3, <1>9, CreatorHasReference DEF Ordered
  <2>2. ASSUME Len(list') = Base', NEW q \in Procs, NEW o \in Offsets, pte'[q][o] # NULL
        PROVE  o < Len(list') /\ pte'[q][o] = list'[o + 1]
    BY <1>9, <1>10, <2>2 DEF Ordered
  <2> QED
    BY <2>1, <2>2 DEF Ordered
<1>13. Supplied'
  BY <1>6 DEF Supplied
<1> QED
  BY <1>5, <1>7, <1>8, <1>11, <1>12, <1>13

-----------------------------------------------------------------------------
(* The theorems.                                                           *)

LEMMA InvNext ==
  ASSUME IInv, [Next]_vars
  PROVE  IInv'
<1>1. CASE Next
  <2>1. ASSUME NEW t \in Threads, Call(t)
        PROVE  IInv'
    BY <2>1, CreateCheckStep, ExpandCheckStep, QueryIsFirstStep, MMapStep DEF Call
  <2>2. ASSUME NEW t \in Threads, Proceed(t)
        PROVE  IInv'
    BY <2>2, CreateStep, CreateFailsStep, ExpandLockStep, ExpandDownWriteStep,
       ExpandAppendStep, ExpandInsertFailsStep, ExpandNoMemoryStep, ExpandDoneStep
    DEF Proceed
  <2>3. ASSUME NEW p \in Procs, Release(p)
        PROVE  IInv'
    BY <2>3, ReleaseStep
  <2> QED
    BY <1>1, <2>1, <2>2, <2>3 DEF Next
<1>2. CASE UNCHANGED vars
  BY <1>2 DEF vars, IInv, TypeOK, Locked, Counted, First, Backed, Ordered, Supplied,
     InExpand, Base
<1> QED
  BY <1>1, <1>2

\* The inductive invariant holds in every reachable state.
THEOREM InductiveInvariant == Spec => []IInv
<1>1. IInv /\ [Next]_vars => IInv'
  BY InvNext
<1> QED
  BY <1>1, InvInit, PTL DEF Spec

\* Every variable has its type: refcnt_sharemem is never negative, and CREATE and
\* EXPAND take their pages from the free ones.
THEOREM TypeCorrect == Spec => []TypeOK
<1>1. IInv => TypeOK
  BY DEF IInv
<1> QED
  BY <1>1, InductiveInvariant, PTL

\* Whatever failed before, as long as no EXPAND has left pages behind, two
\* processes that have mapped an offset have mapped the same page there, also
\* when mmap() ran in the middle of an EXPAND.
THEOREM SharedIsShared == Spec => []SamePage
<1>1. IInv => SamePage
  <2> SUFFICES ASSUME IInv, NoOrphans, NEW p \in Procs, NEW q \in Procs, NEW o \in Offsets,
                      pte[p][o] # NULL, pte[q][o] # NULL
               PROVE  pte[p][o] = pte[q][o]
    BY DEF SamePage
  <2>1. Len(list) = Base
    BY DEF NoOrphans, Base
  <2> QED
    BY <2>1 DEF IInv, Ordered
<1> QED
  BY <1>1, InductiveInvariant, PTL

\* free_sharemem() and a failing alloc_sharepage() never take a page from the list
\* that some process has mapped.
THEOREM MappedStaysListed == Spec => []MappedIsListed
<1>1. IInv => MappedIsListed
  <2> SUFFICES ASSUME IInv, NEW p \in Procs, NEW x \in Range(pte[p]), x # NULL
               PROVE  x \in Range(list)
    BY DEF MappedIsListed
  <2>1. DOMAIN pte[p] = Offsets
    BY DEF IInv, TypeOK
  <2>2. PICK o \in Offsets : x = pte[p][o]
    BY <2>1 DEF Range
  <2> QED
    BY <2>2 DEF IInv, Backed
<1> QED
  BY <1>1, InductiveInvariant, PTL

\* QUERY_ISFIRST answers yes to no process but the one that allocated the pages.
THEOREM FirstIsAllocator == Spec => []OnlyAllocatorIsFirst
<1>1. IInv => OnlyAllocatorIsFirst
  BY DEF IInv, First, OnlyAllocatorIsFirst
<1> QED
  BY <1>1, InductiveInvariant, PTL

-----------------------------------------------------------------------------
(* The reference count is exact when processes are single-threaded.        *)

\* Every process has at most one thread.
Single == \A t, u \in Threads : Proc[t] = Proc[u] => t = u

\* CREATE is in progress only for a process that has no reference yet.
Exact ==
  /\ refcnt = Cardinality(created)
  /\ \A t \in Threads : pc[t] = "create" => Proc[t] \notin created

LEMMA ExactCreate ==
  ASSUME Single, TypeOK, Counted, Exact, NEW t \in Threads, Create(t)
  PROVE  Exact'
<1>1. /\ refcnt' = refcnt + 1 /\ created' = created \cup {Proc[t]}
      /\ pc' = [pc EXCEPT ![t] = "user"] /\ Proc[t] \notin created
  BY DEF Create, Exact
<1>2. refcnt' = Cardinality(created')
  BY <1>1, FS_AddElement DEF Counted, Exact
<1>3. ASSUME NEW u \in Threads, pc'[u] = "create"
      PROVE  Proc[u] \notin created'
  <2>1. u # t /\ pc[u] = "create"
    BY <1>1, <1>3 DEF TypeOK
  <2> QED
    BY <1>1, <2>1 DEF Single, Exact
<1> QED
  BY <1>2, <1>3 DEF Exact

LEMMA ExactRelease ==
  ASSUME Counted, Exact, NEW p \in Procs, Release(p)
  PROVE  Exact'
<1>1. refcnt' = refcnt - 1 /\ created' = created \ {p} /\ p \in created /\ pc' = pc
  BY DEF Release, CanLeave
<1>2. refcnt' = Cardinality(created')
  BY <1>1, FS_RemoveElement DEF Counted, Exact
<1> QED
  BY <1>1, <1>2 DEF Exact

\* The other actions start a CREATE only where none was made, and do not count.
LEMMA ExactOther ==
  ASSUME Exact, UNCHANGED <<refcnt, created>>, NEW t \in Threads, NEW l, TypeOK,
         pc' = [pc EXCEPT ![t] = l], l = "create" => Proc[t] \notin created
  PROVE  Exact'
BY DEF Exact, TypeOK

\* If processes are single-threaded, refcnt_sharemem is the number of processes
\* that have created the shared memory, so the last one to leave frees it.
THEOREM CreatorsCounted == Single => (Spec => []RefcntCountsCreators)
<1> SUFFICES ASSUME Single PROVE Spec => []RefcntCountsCreators
  OBVIOUS
<1>1. Init => Exact
  BY FS_EmptySet DEF Init, Exact
<1>2. IInv /\ Exact /\ [Next]_vars => Exact'
  <2> SUFFICES ASSUME IInv, Exact, [Next]_vars PROVE Exact'
    OBVIOUS
  <2> USE DEF IInv, shm
  <2>1. ASSUME NEW t \in Threads, Call(t) PROVE Exact'
    <3>1. ASSUME NEW n \in 1 .. MaxLen, CreateCheck(t, n) PROVE Exact'
      BY <3>1, ExactOther DEF CreateCheck
    <3>2. ASSUME NEW n \in 1 .. MaxLen, ExpandCheck(t, n) PROVE Exact'
      BY <3>2, ExactOther DEF ExpandCheck
    <3>3. CASE QueryIsFirst(t)
      BY <3>3 DEF QueryIsFirst, Exact
    <3>4. ASSUME NEW size \in VmaSizes, MMap(t, size) PROVE Exact'
      BY <3>4 DEF MMap, Exact
    <3> QED
      BY <2>1, <3>1, <3>2, <3>3, <3>4 DEF Call
  <2>2. ASSUME NEW t \in Threads, Proceed(t) PROVE Exact'
    <3>1. CASE Create(t)
      BY <3>1, ExactCreate
    <3>2. CASE CreateFails(t)
      BY <3>2, ExactOther DEF CreateFails
    <3>3. CASE ExpandLock(t)
      BY <3>3, ExactOther DEF ExpandLock
    <3>4. CASE ExpandDownWrite(t)
      BY <3>4, ExactOther DEF ExpandDownWrite, ExpandReturn
    <3>5. CASE ExpandAppend(t)
      BY <3>5 DEF ExpandAppend, Exact
    <3>6. CASE ExpandInsertFails(t)
      BY <3>6, ExactOther DEF ExpandInsertFails, ExpandReturn
    <3>7. CASE ExpandNoMemory(t)
      BY <3>7, ExactOther DEF ExpandNoMemory, ExpandReturn
    <3>8. CASE ExpandDone(t)
      BY <3>8, ExactOther DEF ExpandDone, ExpandReturn
    <3> QED
      BY <2>2, <3>1, <3>2, <3>3, <3>4, <3>5, <3>6, <3>7, <3>8 DEF Proceed
  <2>3. ASSUME NEW p \in Procs, Release(p) PROVE Exact'
    BY <2>3, ExactRelease
  <2>4. CASE UNCHANGED vars
    BY <2>4 DEF vars, Exact
  <2> QED
    BY <2>1, <2>2, <2>3, <2>4 DEF Next
<1>3. Exact => RefcntCountsCreators
  BY DEF Exact, RefcntCountsCreators
<1> QED
  BY <1>1, <1>2, <1>3, InductiveInvariant, PTL DEF Spec
=============================================================================
