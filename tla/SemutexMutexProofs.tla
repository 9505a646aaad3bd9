------------------------ MODULE SemutexMutexProofs ------------------------
(***************************************************************************)
(* Proofs about SemutexMutex, for any threads, processes, files, names and *)
(* number of slots.  Types, names, wait lists, file references and wakeups *)
(* hold for any set of Careless processes; that a mutex is exclusive and   *)
(* its record right holds for Careless = {} only.                          *)
(***************************************************************************)
EXTENDS SemutexMutex, SequenceTheorems, TLAPS

-----------------------------------------------------------------------------
(* Facts about the kernel semaphore.                                       *)

\* RemoveAt keeps the elements before and after the one it removes.
LEMMA RemoveAtElements ==
  ASSUME NEW S, NEW q \in Seq(S), NEW k \in 1 .. Len(q)
  PROVE  /\ RemoveAt(q, k) \in Seq(S)
         /\ Len(RemoveAt(q, k)) = Len(q) - 1
         /\ \A j \in 1 .. Len(q) - 1 :
              RemoveAt(q, k)[j] = IF j < k THEN q[j] ELSE q[j + 1]
<1> DEFINE a == SubSeq(q, 1, k - 1)
           b == SubSeq(q, k + 1, Len(q))
<1>1. a \in Seq(S) /\ Len(a) = k - 1 /\ \A j \in 1 .. k - 1 : a[j] = q[j]
  OBVIOUS
<1>2. b \in Seq(S) /\ Len(b) = Len(q) - k /\ \A j \in 1 .. Len(q) - k : b[j] = q[j + k]
  OBVIOUS
<1>3. RemoveAt(q, k) = a \o b
  BY DEF RemoveAt
<1> HIDE DEF a, b
<1>4. /\ a \o b \in Seq(S)
      /\ Len(a \o b) = Len(a) + Len(b)
      /\ \A j \in 1 .. Len(a) + Len(b) :
           (a \o b)[j] = IF j <= Len(a) THEN a[j] ELSE b[j - Len(a)]
  BY <1>1, <1>2, ConcatProperties
<1> QED
  BY <1>1, <1>2, <1>3, <1>4

Semaphore == [count : Nat, wait : Seq(Threads)]

\* The operations of kernel/semaphore.c yield semaphores, and up() wakes tasks.
LEMMA SemaphoreTypes ==
  ASSUME NEW s \in Semaphore, NEW t \in Threads
  PROVE  /\ \A n \in Nat : sema_init(n) \in Semaphore
         /\ down(s, t) \in Semaphore
         /\ HasUnit(s) => TakeUnit(s) \in Semaphore
         /\ \A k \in 1 .. Len(s.wait) : list_del(s, k) \in Semaphore
         /\ up(s) \in Semaphore
         /\ Woken(s) \subseteq Threads
<1>1. \A n \in Nat : sema_init(n) \in Semaphore
  BY DEF sema_init, Semaphore
<1>2. HasUnit(s) => TakeUnit(s) \in Semaphore
  BY DEF HasUnit, TakeUnit, Semaphore
<1>3. Enqueue(s, t) \in Semaphore
  BY DEF Enqueue, Semaphore
<1>4. \A k \in 1 .. Len(s.wait) : list_del(s, k) \in Semaphore
  BY RemoveAtElements DEF list_del, Semaphore
<1>5. up(s) \in Semaphore /\ Woken(s) \subseteq Threads
  <2>1. CASE s.wait = <<>>
    BY <2>1 DEF up, Woken, Semaphore
  <2>2. CASE s.wait # <<>>
    <3>1. s.wait \in Seq(Threads) /\ s.count \in Nat
      BY DEF Semaphore
    <3>2. Head(s.wait) \in Threads /\ Tail(s.wait) \in Seq(Threads)
      BY <2>2, <3>1, HeadTailProperties
    <3> QED
      BY <2>2, <3>1, <3>2 DEF up, Woken, Semaphore
  <2> QED
    BY <2>1, <2>2
<1> QED
  BY <1>1, <1>2, <1>3, <1>4, <1>5 DEF down

-----------------------------------------------------------------------------
(* Type correctness.                                                       *)

\* The table has a first slot.
LEMMA SlotZero == 0 \in Slots
BY SlotsAssumption DEF Slots

Record == [locked_status : BOOLEAN, locked_pid : Threads \cup {NULL},
           locked_tgid : Procs \cup {NULL}, locked_file : Files \cup {NULL}]

\* What the driver writes into the owner fields of a slot.
LEMMA RecordTypes ==
  /\ Unlocked \in Record
  /\ \A t \in Threads, f \in Files \cup {NULL} : LockedBy(t, f) \in Record
BY ProcAssumption DEF Unlocked, LockedBy, Record

\* What returning from a call and waking a waiter leave in pc and filp.
LEMMA PcTypes ==
  ASSUME TypeOK, NEW t \in Threads
  PROVE  /\ ReturnPc(t) \in States
         /\ ReturnFilp(t) \in Files \cup {NULL}
         /\ \A i \in Slots, next \in States : PcAfterUp(t, i, next) \in [Threads -> States]
BY DEF TypeOK, ReturnPc, ReturnFilp, PcAfterUp, States

\* Where a scan goes on.
LEMMA ScanTypes ==
  ASSUME TypeOK, NEW t \in Threads
  PROVE  /\ \A loop, behind \in States : NextPc(t, loop, behind) \in States
         /\ NextSlot(t) \in Slots
         /\ NextFilp(t) \in Files \cup {NULL}
BY SlotZero DEF TypeOK, NextPc, NextSlot, NextFilp

\* Every variable keeps its type: no step of any ioctl, close or exit leaves the
\* ranges that the driver's fields have.
THEOREM TypeCorrect == Spec => []TypeOK
<1>1. Init => TypeOK
  BY SlotZero, RecordTypes, BoundAssumption
  DEF Init, TypeOK, States, sema_init, Record
<1>2. TypeOK /\ [Next]_vars => TypeOK'
  <2> SUFFICES ASSUME TypeOK, [Next]_vars PROVE TypeOK'
    OBVIOUS
  <2> USE ProcAssumption
  <2>1. CASE UNCHANGED vars
    BY <2>1 DEF vars, TypeOK
  <2>2. ASSUME NEW t \in Threads, NEW f \in Files, Open(t, f) PROVE TypeOK'
    BY <2>2 DEF Open, table, tasks, TypeOK
  <2>3. ASSUME NEW t \in Threads, NEW n \in Names, NEW i \in Slots, CreateMutex(t, n, i)
        PROVE TypeOK'
    <3>1. sema_init(1) \in Semaphore
      BY DEF Semaphore, sema_init
    <3>2. sem' \in [Slots -> Semaphore] /\ made' \in SUBSET Slots
      <4>1. sem \in [Slots -> Semaphore] /\ made \in SUBSET Slots
        BY DEF Semaphore, TypeOK
      <4>2. \/ sem' = sem /\ made' = made
            \/ sem' = [sem EXCEPT ![i] = sema_init(1)] /\ made' = made \cup {i}
        BY <2>3 DEF CreateMutex
      <4> QED
        BY <3>1, <4>1, <4>2
    <3> QED
      BY <2>3, <3>2 DEF CreateMutex, tasks, Semaphore, TypeOK
  <2>4. ASSUME NEW t \in Threads, NEW i \in Slots, DelMutex(t, i) PROVE TypeOK'
    BY <2>4 DEF DelMutex, tasks, TypeOK
  <2>5. ASSUME NEW t \in Threads, NEW i \in Slots, NEW w \in {"lock", "timed"}, Lock(t, i, w)
        PROVE TypeOK'
    <3>1. down(sem[i], t) \in Semaphore
      BY SemaphoreTypes DEF Semaphore, TypeOK
    <3> QED
      BY <2>5, <3>1, BoundAssumption DEF Lock, Down, States, Semaphore, TypeOK
  <2>6. ASSUME NEW t \in Threads, NEW i \in Slots, TryLock(t, i) PROVE TypeOK'
    <3>1. TakeUnit(sem[i]) \in Semaphore
      BY <2>6, SemaphoreTypes DEF Semaphore, TryLock, TypeOK
    <3> QED
      BY <2>6, <3>1 DEF TryLock, States, Semaphore, TypeOK
  <2>7. ASSUME NEW t \in Threads, RecordOwner(t) PROVE TypeOK'
    BY <2>7, RecordTypes, PcTypes, SlotZero DEF RecordOwner, Record, TypeOK
  <2>8. ASSUME NEW t \in Threads, NEW k \in 1 .. Len(sem[slot[t]].wait),
               TimedOut(t, k) \/ LockTimeout(t, k) \/ Interrupted(t, k)
        PROVE TypeOK'
    <3>1. list_del(sem[slot[t]], k) \in Semaphore
      BY SemaphoreTypes DEF Semaphore, TypeOK
    <3>2. sem' \in [Slots -> Semaphore]
      BY <2>8, <3>1 DEF TimedOut, LockTimeout, Interrupted, GiveUp, Semaphore, TypeOK
    <3>3. CASE TimedOut(t, k)
      BY <3>2, <3>3, PcTypes, SlotZero DEF TimedOut, Semaphore, TypeOK
    <3>4. CASE LockTimeout(t, k)
      <4>1. retries' \in [Threads -> 0 .. MaxRetries]
        <5>1. retries \in [Threads -> 0 .. MaxRetries] /\ retries[t] < MaxRetries
          BY <3>4 DEF LockTimeout, TypeOK
        <5>2. retries[t] + 1 \in 0 .. MaxRetries
          BY <5>1, BoundAssumption
        <5> QED
          BY <3>4, <5>1, <5>2 DEF LockTimeout
      <4> QED
        BY <3>2, <3>4, <4>1 DEF LockTimeout, Semaphore, States, TypeOK
    <3>5. CASE Interrupted(t, k)
      BY <3>2, <3>5, PcTypes, SlotZero DEF Interrupted, Semaphore, TypeOK
    <3> QED
      BY <2>8, <3>3, <3>4, <3>5
  <2>9. ASSUME NEW t \in Threads, LockRetry(t) PROVE TypeOK'
    <3>1. down(sem[slot[t]], t) \in Semaphore
      BY SemaphoreTypes DEF Semaphore, TypeOK
    <3> QED
      BY <2>9, <3>1 DEF LockRetry, Down, States, Semaphore, TypeOK
  <2>10. ASSUME NEW t \in Threads, NEW i \in Slots, Unlock(t, i) PROVE TypeOK'
    BY <2>10, RecordTypes DEF Unlock, States, Record, TypeOK
  <2>11. ASSUME NEW t \in Threads, UnlockUp(t) PROVE TypeOK'
    <3>1. up(sem[slot[t]]) \in Semaphore
      BY SemaphoreTypes DEF Semaphore, TypeOK
    <3> QED
      BY <2>11, <3>1, PcTypes, SlotZero DEF UnlockUp, Semaphore, TypeOK
  <2>12. ASSUME NEW t \in Threads, Close(t) PROVE TypeOK'
    BY <2>12, SlotZero DEF Close, table, States, TypeOK
  <2>13. ASSUME NEW t \in Threads, ReleaseUp(t) PROVE TypeOK'
    <3>1. up(sem[slot[t]]) \in Semaphore /\ PcAfterUp(t, slot[t], "erase") \in [Threads -> States]
      BY SemaphoreTypes, PcTypes DEF Semaphore, States, TypeOK
    <3>2. Forget(Proc[t], slot[t]) \in [Threads -> SUBSET Slots]
      BY DEF Forget, TypeOK
    <3> QED
      BY <2>13, <3>1, <3>2 DEF ReleaseUp, Semaphore, TypeOK
  <2>14. ASSUME NEW t \in Threads, ReleaseErase(t) PROVE TypeOK'
    <3>1. mutex_info' \in [Slots -> Record]
      <4>1. mutex_info \in [Slots -> Record] /\ slot[t] \in Slots
        BY DEF Record, TypeOK
      <4>2. [mutex_info[slot[t]] EXCEPT !.locked_status = FALSE, !.locked_file = NULL] \in Record
        BY <4>1 DEF Record
      <4>3. mutex_info' = [mutex_info EXCEPT ![slot[t]] =
              [mutex_info[slot[t]] EXCEPT !.locked_status = FALSE, !.locked_file = NULL]]
        BY <2>14, <4>1 DEF ReleaseErase
      <4> QED
        BY <4>1, <4>2, <4>3
    <3>2. NextPc(t, "release", "user") \in States /\ NextSlot(t) \in Slots
          /\ NextFilp(t) \in Files \cup {NULL}
      BY ScanTypes DEF States
    <3> QED
      BY <2>14, <3>1, <3>2 DEF ReleaseErase, Record, TypeOK
  <2>15. ASSUME NEW t \in Threads, ReleaseSkip(t) \/ FlushSkip(t) PROVE TypeOK'
    <3>3. /\ NextPc(t, "release", "user") \in States /\ NextPc(t, "flush", "release") \in States
          /\ NextSlot(t) \in Slots /\ NextFilp(t) \in Files \cup {NULL}
      BY ScanTypes DEF States
    <3>1. CASE ReleaseSkip(t)
      BY <3>1, <3>3 DEF ReleaseSkip, table, TypeOK
    <3>2. CASE FlushSkip(t)
      BY <3>2, <3>3 DEF FlushSkip, table, TypeOK
    <3> QED
      BY <2>15, <3>1, <3>2
  <2>19. ASSUME NEW t \in Threads, ReleaseTest(t) \/ ReleaseBug(t) \/ FlushTest(t) \/ FlushBug(t)
         PROVE TypeOK'
    BY <2>19 DEF ReleaseTest, ReleaseBug, FlushTest, FlushBug, table, States, TypeOK
  <2>16. ASSUME NEW t \in Threads, Exit(t) PROVE TypeOK'
    <3>1. CASE fd[Proc[t]] = NULL
      BY <2>16, <3>1, SlotZero DEF Exit, table, TypeOK
    <3>2. CASE fd[Proc[t]] # NULL
      <4>1. /\ pc' = [pc EXCEPT ![t] = "flush"]
            /\ filp' = [filp EXCEPT ![t] = fd[Proc[t]]]
            /\ fd' = [fd EXCEPT ![Proc[t]] = NULL]
            /\ exiting' = exiting \cup {Proc[t]}
            /\ slot' = [slot EXCEPT ![t] = 0]
            /\ UNCHANGED <<name, mutex_info, made, sem, retries, held>>
        BY <2>16, <3>2 DEF Exit, table
      <4> QED
        BY <4>1, SlotZero DEF States, TypeOK
    <3> QED
      BY <3>1, <3>2
  <2>17. ASSUME NEW t \in Threads, FlushErase(t) PROVE TypeOK'
    <3>1. Forget(Proc[t], slot[t]) \in [Threads -> SUBSET Slots]
      BY DEF Forget, TypeOK
    <3>2. mutex_info' \in [Slots -> Record]
      BY <2>17, RecordTypes DEF FlushErase, Record, TypeOK
    <3> QED
      BY <2>17, <3>1, <3>2 DEF FlushErase, States, Record, TypeOK
  <2>18. ASSUME NEW t \in Threads, FlushUp(t) PROVE TypeOK'
    <3>1. up(sem[slot[t]]) \in Semaphore
      BY SemaphoreTypes DEF Semaphore, TypeOK
    <3>2. PcAfterUp(t, slot[t], NextPc(t, "flush", "release")) \in [Threads -> States]
      BY ScanTypes, PcTypes DEF States, TypeOK
    <3> QED
      BY <2>18, <3>1, <3>2, ScanTypes DEF FlushUp, Semaphore, TypeOK
  <2> QED
    BY <2>1, <2>2, <2>3, <2>4, <2>5, <2>6, <2>7, <2>8, <2>9, <2>10, <2>11, <2>12,
       <2>13, <2>14, <2>15, <2>16, <2>17, <2>18, <2>19
    DEF Next, Call, Proceed, Wake
<1> QED
  BY <1>1, <1>2, PTL DEF Spec

-----------------------------------------------------------------------------
(* Names.                                                                  *)

\* No two slots have the same name, however often clients create and delete: only
\* CREATE_MUTEX writes a name, after it has seen the whole table.
THEOREM NamesAreUnique == Spec => []UniqueNames
<1>1. Init => UniqueNames
  BY DEF Init, UniqueNames
<1>2. TypeOK /\ UniqueNames /\ [Next]_vars => UniqueNames'
  <2> SUFFICES ASSUME TypeOK, UniqueNames, [Next]_vars PROVE UniqueNames'
    OBVIOUS
  <2>1. CASE UNCHANGED name
    BY <2>1 DEF UniqueNames
  <2>2. ASSUME NEW t \in Threads, NEW n \in Names, NEW i \in Slots, CreateMutex(t, n, i)
        PROVE UniqueNames'
    <3>1. name' = [name EXCEPT ![i] = n] /\ \A j \in Slots : name[j] # n
      BY <2>2 DEF CreateMutex
    <3> QED
      BY <3>1 DEF TypeOK, UniqueNames
  <2>3. ASSUME NEW t \in Threads, NEW i \in Slots, DelMutex(t, i) PROVE UniqueNames'
    BY <2>3 DEF DelMutex, TypeOK, UniqueNames
  <2>4. UNCHANGED name \/ \E t \in Threads : \/ \E n \in Names, i \in Slots : CreateMutex(t, n, i)
                                           \/ \E i \in Slots : DelMutex(t, i)
    <3>1. CASE UNCHANGED vars
      BY <3>1 DEF vars
    <3>2. ASSUME NEW t \in Threads, Call(t) PROVE <2>4!:
      BY <3>2 DEF Call, Open, Lock, TryLock, Unlock, Close, Exit, table
    <3>3. ASSUME NEW t \in Threads, Proceed(t) PROVE UNCHANGED name
      BY <3>3 DEF Proceed, RecordOwner, LockRetry, UnlockUp, ReleaseTest, ReleaseSkip,
                  ReleaseBug, ReleaseUp, ReleaseErase, FlushTest, FlushSkip, FlushBug,
                  FlushErase, FlushUp, table
    <3>4. ASSUME NEW t \in Threads, Wake(t) PROVE UNCHANGED name
      BY <3>4 DEF Wake, TimedOut, LockTimeout, Interrupted
    <3> QED
      BY <3>1, <3>2, <3>3, <3>4 DEF Next
  <2> QED
    BY <2>1, <2>2, <2>3, <2>4
<1> QED
  BY <1>1, <1>2, TypeCorrect, PTL DEF Spec

-----------------------------------------------------------------------------
(* The wait lists: whoever sleeps is on the list of the slot it sleeps on, *)
(* once, and nobody else is; so up() wakes a thread that sleeps on that    *)
(* slot, and no wakeup is lost.                                            *)

Sleeping == {"lock", "timed"}
Claiming == {"granted", "up", "flush_up"}

\* Wait lists hold the threads that sleep on the slot, each once; a list is empty
\* while there is a unit.
Queued ==
  /\ \A i \in Slots : \A k \in 1 .. Len(sem[i].wait) :
       pc[sem[i].wait[k]] \in Sleeping /\ slot[sem[i].wait[k]] = i
  /\ \A i \in Slots : \A k, l \in 1 .. Len(sem[i].wait) :
       sem[i].wait[k] = sem[i].wait[l] => k = l
  /\ \A t \in Threads : pc[t] \in Sleeping =>
       \E k \in 1 .. Len(sem[slot[t]].wait) : sem[slot[t]].wait[k] = t
  /\ \A i \in Slots : sem[i].count # 0 => Len(sem[i].wait) = 0

\* Calls work on slots that have a semaphore, and so do the owner fields.
Made ==
  /\ \A t \in Threads : pc[t] \in Claiming \cup Sleeping \cup {"retry", "flush_bug", "flush_erase"}
                        => slot[t] \in made
  /\ \A t \in Threads : held[t] \subseteq made
  /\ \A i \in Slots : mutex_info[i].locked_status \/ mutex_info[i].locked_tgid # NULL
                      => i \in made

-----------------------------------------------------------------------------
(* How each kind of step treats the lists.  t is the thread that takes the *)
(* step, i the slot.                                                       *)

\* u goes on sleeping where it sleeps, or goes on not sleeping.
Alike(u) == /\ pc'[u] \in Sleeping <=> pc[u] \in Sleeping
            /\ pc[u] \in Sleeping => slot'[u] = slot[u]

\* The lists are those of before, and so are the sleepers.
LEMMA SameListsQueued ==
  ASSUME TypeOK, TypeOK', Queued, \A u \in Threads : Alike(u),
         \A j \in Slots : /\ sem'[j].wait = sem[j].wait
                          /\ sem'[j].count # 0 => sem[j].count # 0 \/ Len(sem[j].wait) = 0
  PROVE  Queued'
<1>1. \A j \in Slots : sem[j].wait \in Seq(Threads)
  BY DEF TypeOK
<1>2. (\A j \in Slots : \A k \in 1 .. Len(sem[j].wait) :
        pc[sem[j].wait[k]] \in Sleeping /\ slot[sem[j].wait[k]] = j)'
  BY <1>1 DEF Queued, Alike
<1>3. (\A j \in Slots : \A k, l \in 1 .. Len(sem[j].wait) :
        sem[j].wait[k] = sem[j].wait[l] => k = l)'
  BY DEF Queued
<1>4. ASSUME NEW u \in Threads, pc'[u] \in Sleeping
      PROVE  \E k \in 1 .. Len(sem'[slot'[u]].wait) : sem'[slot'[u]].wait[k] = u
  <2>1. pc[u] \in Sleeping /\ slot'[u] = slot[u] /\ slot[u] \in Slots
    BY <1>4 DEF Alike, TypeOK
  <2> QED
    BY <2>1 DEF Queued
<1>5. (\A j \in Slots : sem[j].count # 0 => Len(sem[j].wait) = 0)'
  BY DEF Queued
<1> QED
  BY <1>2, <1>3, <1>4, <1>5 DEF Queued

\* t joins the list of i, which has no unit.
LEMMA EnqueueQueued ==
  ASSUME TypeOK, TypeOK', Queued, NEW t \in Threads, NEW i \in Slots,
         \A u \in Threads \ {t} : Alike(u), pc[t] \notin Sleeping, pc'[t] \in Sleeping, slot'[t] = i,
         ~HasUnit(sem[i]), sem' = [sem EXCEPT ![i] = Enqueue(@, t)]
  PROVE  Queued'
<1>1. \A j \in Slots : sem[j].wait \in Seq(Threads) /\ sem[j].count \in Nat
  BY DEF TypeOK
<1>2. \A j \in Slots : \A k \in 1 .. Len(sem[j].wait) :
        sem[j].wait[k] \in Threads /\ sem[j].wait[k] # t
  BY <1>1 DEF Queued
<1>3. /\ sem'[i].wait = Append(sem[i].wait, t)
      /\ sem'[i].count = 0
      /\ \A j \in Slots \ {i} : sem'[j] = sem[j]
  <2>1. sem \in [Slots -> [count : Nat, wait : Seq(Threads)]]
    BY DEF TypeOK
  <2>2. sem'[i] = Enqueue(sem[i], t) /\ \A j \in Slots \ {i} : sem'[j] = sem[j]
    BY <2>1
  <2>3. sem[i] \in [count : Nat, wait : Seq(Threads)]
    BY <2>1
  <2>4. /\ Enqueue(sem[i], t).wait = Append(sem[i].wait, t)
        /\ Enqueue(sem[i], t).count = sem[i].count
    BY <2>3 DEF Enqueue
  <2>5. sem[i].count = 0
    BY <2>3 DEF HasUnit
  <2> QED
    BY <2>2, <2>4, <2>5
<1>4. /\ Len(sem'[i].wait) = Len(sem[i].wait) + 1
      /\ \A k \in 1 .. Len(sem[i].wait) : sem'[i].wait[k] = sem[i].wait[k]
      /\ sem'[i].wait[Len(sem[i].wait) + 1] = t
      /\ Len(sem[i].wait) \in Nat
  <2>1. PICK w \in Seq(Threads) : w = sem[i].wait
    BY <1>1
  <2>2. /\ Len(Append(w, t)) = Len(w) + 1 /\ Append(w, t)[Len(w) + 1] = t /\ Len(w) \in Nat
        /\ \A k \in 1 .. Len(w) : Append(w, t)[k] = w[k]
    OBVIOUS
  <2> QED
    BY <1>3, <2>1, <2>2
<1>5. \A j \in Slots : \A k \in 1 .. Len(sem'[j].wait) :
        \/ j = i /\ k = Len(sem[i].wait) + 1 /\ sem'[j].wait[k] = t
        \/ k \in 1 .. Len(sem[j].wait) /\ sem'[j].wait[k] = sem[j].wait[k]
  BY <1>3, <1>4
<1>6. (\A j \in Slots : \A k \in 1 .. Len(sem[j].wait) :
        pc[sem[j].wait[k]] \in Sleeping /\ slot[sem[j].wait[k]] = j)'
  BY <1>2, <1>5 DEF Queued, Alike
<1>7. (\A j \in Slots : \A k, l \in 1 .. Len(sem[j].wait) :
        sem[j].wait[k] = sem[j].wait[l] => k = l)'
  BY <1>2, <1>5 DEF Queued
<1>8. ASSUME NEW u \in Threads, pc'[u] \in Sleeping
      PROVE  \E k \in 1 .. Len(sem'[slot'[u]].wait) : sem'[slot'[u]].wait[k] = u
  <2>1. CASE u = t
    BY <1>4, <2>1
  <2>2. CASE u # t
    <3>1. PICK k \in 1 .. Len(sem[slot[u]].wait) : sem[slot[u]].wait[k] = u
      BY <1>8, <2>2 DEF Queued, Alike
    <3>2. slot'[u] = slot[u] /\ slot[u] \in Slots
      BY <1>8, <2>2 DEF Alike, TypeOK
    <3>3. k \in 1 .. Len(sem'[slot[u]].wait) /\ sem'[slot[u]].wait[k] = u
      BY <1>3, <1>4, <3>1, <3>2
    <3> QED
      BY <3>2, <3>3
  <2> QED
    BY <2>1, <2>2
<1>9. (\A j \in Slots : sem[j].count # 0 => Len(sem[j].wait) = 0)'
  BY <1>3 DEF Queued
<1> QED
  BY <1>6, <1>7, <1>8, <1>9 DEF Queued

\* The k-th waiter t of slot i is taken off the list, and sleeps no more.
LEMMA LeaveQueued ==
  ASSUME TypeOK, TypeOK', Queued, NEW i \in Slots, NEW k \in 1 .. Len(sem[i].wait),
         NEW t \in Threads, sem[i].wait[k] = t, pc'[t] \notin Sleeping,
         \A u \in Threads \ {t} : Alike(u),
         Len(sem'[i].wait) = Len(sem[i].wait) - 1,
         \A j \in 1 .. Len(sem[i].wait) - 1 :
           sem'[i].wait[j] = IF j < k THEN sem[i].wait[j] ELSE sem[i].wait[j + 1],
         sem'[i].count = sem[i].count,
         \A j \in Slots \ {i} : sem'[j] = sem[j]
  PROVE  Queued'
<1> DEFINE q == sem[i].wait
<1>1. \A j \in Slots : sem[j].wait \in Seq(Threads) /\ sem[j].count \in Nat
  BY DEF TypeOK
<1>2. q[k] = t /\ slot[t] = i
  BY DEF Queued
<1>3. \A j \in Slots \ {i} : sem'[j] = sem[j]
  OBVIOUS
<1>4. /\ Len(sem'[i].wait) = Len(q) - 1
      /\ \A j \in 1 .. Len(q) - 1 : sem'[i].wait[j] = IF j < k THEN q[j] ELSE q[j + 1]
      /\ Len(q) \in Nat
  BY <1>1
<1>5. \A j \in Slots : \A m \in 1 .. Len(sem'[j].wait) :
        \E n \in 1 .. Len(sem[j].wait) :
          /\ sem'[j].wait[m] = sem[j].wait[n]
          /\ n = IF j = i /\ m >= k THEN m + 1 ELSE m
  <2> SUFFICES ASSUME NEW j \in Slots, NEW m \in 1 .. Len(sem'[j].wait)
               PROVE  \E n \in 1 .. Len(sem[j].wait) :
                        /\ sem'[j].wait[m] = sem[j].wait[n]
                        /\ n = IF j = i /\ m >= k THEN m + 1 ELSE m
    OBVIOUS
  <2>1. CASE j # i
    BY <1>3, <2>1
  <2>2. CASE j = i
    <3>1. m \in 1 .. Len(q) - 1 /\ k \in 1 .. Len(q)
      BY <1>4, <2>2
    <3> QED
      BY <1>4, <2>2, <3>1
  <2> QED
    BY <2>1, <2>2
<1>6. \A j \in Slots : \A m \in 1 .. Len(sem'[j].wait) :
        sem'[j].wait[m] \in Threads \ {t}
  <2> SUFFICES ASSUME NEW j \in Slots, NEW m \in 1 .. Len(sem'[j].wait)
               PROVE  sem'[j].wait[m] \in Threads /\ sem'[j].wait[m] # t
    OBVIOUS
  <2>1. PICK n \in 1 .. Len(sem[j].wait) : /\ sem'[j].wait[m] = sem[j].wait[n]
                                          /\ n = IF j = i /\ m >= k THEN m + 1 ELSE m
    BY <1>5
  <2>2. sem[j].wait[n] \in Threads
    BY <1>1
  <2>3. ASSUME sem[j].wait[n] = t PROVE FALSE
    <3>1. j = i
      <4>1. slot[sem[j].wait[n]] = j
        BY DEF Queued
      <4> QED
        BY <1>2, <2>3, <4>1
    <3>2. n = k
      BY <1>2, <2>3, <3>1 DEF Queued
    <3> QED
      BY <2>1, <3>1, <3>2
  <2> QED
    BY <2>1, <2>2, <2>3
<1>7. (\A j \in Slots : \A m \in 1 .. Len(sem[j].wait) :
        pc[sem[j].wait[m]] \in Sleeping /\ slot[sem[j].wait[m]] = j)'
  <2> SUFFICES ASSUME NEW j \in Slots, NEW m \in 1 .. Len(sem'[j].wait)
               PROVE  pc'[sem'[j].wait[m]] \in Sleeping /\ slot'[sem'[j].wait[m]] = j
    OBVIOUS
  <2>1. PICK n \in 1 .. Len(sem[j].wait) : sem'[j].wait[m] = sem[j].wait[n]
    BY <1>5
  <2>2. pc[sem[j].wait[n]] \in Sleeping /\ slot[sem[j].wait[n]] = j
    BY DEF Queued
  <2> QED
    BY <1>6, <2>1, <2>2 DEF Alike
<1>8. (\A j \in Slots : \A m, l \in 1 .. Len(sem[j].wait) :
        sem[j].wait[m] = sem[j].wait[l] => m = l)'
  <2> SUFFICES ASSUME NEW j \in Slots, NEW m \in 1 .. Len(sem'[j].wait),
                      NEW l \in 1 .. Len(sem'[j].wait), sem'[j].wait[m] = sem'[j].wait[l]
               PROVE  m = l
    OBVIOUS
  <2>1. PICK n \in 1 .. Len(sem[j].wait) : /\ sem'[j].wait[m] = sem[j].wait[n]
                                          /\ n = IF j = i /\ m >= k THEN m + 1 ELSE m
    BY <1>5
  <2>2. PICK o \in 1 .. Len(sem[j].wait) : /\ sem'[j].wait[l] = sem[j].wait[o]
                                          /\ o = IF j = i /\ l >= k THEN l + 1 ELSE l
    BY <1>5
  <2>3. n = o
    <3>1. sem[j].wait[n] = sem[j].wait[o]
      BY <2>1, <2>2
    <3> QED
      BY <3>1 DEF Queued
  <2>4. m \in Nat /\ l \in Nat /\ k \in Nat
    OBVIOUS
  <2> QED
    BY <2>1, <2>2, <2>3, <2>4
<1>9. ASSUME NEW u \in Threads, pc'[u] \in Sleeping
      PROVE  \E m \in 1 .. Len(sem'[slot'[u]].wait) : sem'[slot'[u]].wait[m] = u
  <2>1. u # t /\ pc[u] \in Sleeping /\ slot'[u] = slot[u] /\ slot[u] \in Slots
    BY <1>9 DEF Alike, TypeOK
  <2>2. PICK m \in 1 .. Len(sem[slot[u]].wait) : sem[slot[u]].wait[m] = u
    BY <2>1 DEF Queued
  <2>3. CASE slot[u] # i
    BY <1>3, <2>1, <2>2, <2>3
  <2>4. CASE slot[u] = i
    <3>1. m # k /\ m \in Nat /\ k \in Nat
      BY <1>2, <2>1, <2>2, <2>4
    <3>2. CASE m < k
      <4>1. m \in 1 .. Len(q) - 1 /\ sem'[i].wait[m] = u
        BY <1>4, <2>2, <2>4, <3>1, <3>2
      <4> QED
        BY <1>4, <2>1, <2>4, <4>1
    <3>3. CASE m > k
      <4>1. m - 1 \in 1 .. Len(q) - 1 /\ (m - 1) + 1 = m /\ ~(m - 1 < k)
        BY <1>4, <2>2, <2>4, <3>1, <3>3
      <4>2. sem'[i].wait[m - 1] = u
        BY <1>4, <2>2, <2>4, <4>1
      <4> QED
        BY <1>4, <2>1, <2>4, <4>1, <4>2
    <3> QED
      BY <3>1, <3>2, <3>3
  <2> QED
    BY <2>3, <2>4
<1>10. (\A j \in Slots : sem[j].count # 0 => Len(sem[j].wait) = 0)'
  <2>1. sem[i].count = 0
    BY <1>1, <1>2 DEF Queued
  <2> QED
    BY <1>3, <2>1 DEF Queued
<1> QED
  BY <1>7, <1>8, <1>9, <1>10 DEF Queued

\* What up() does to the list and the count, and whom it wakes.
LEMMA UpElements ==
  ASSUME NEW s \in Semaphore
  PROVE  /\ Len(s.wait) = 0 => /\ up(s).wait = s.wait
                               /\ up(s).count = s.count + 1
                               /\ Woken(s) = {}
         /\ Len(s.wait) # 0 => /\ up(s).count = s.count
                               /\ Len(up(s).wait) = Len(s.wait) - 1
                               /\ \A k \in 1 .. Len(s.wait) - 1 : up(s).wait[k] = s.wait[k + 1]
                               /\ Woken(s) = {s.wait[1]}
                               /\ s.wait[1] \in Threads /\ 1 \in 1 .. Len(s.wait)
<1>1. s.wait \in Seq(Threads) /\ s.count \in Nat
  BY DEF Semaphore
<1>2. CASE s.wait = <<>>
  <2>1. Len(s.wait) = 0
    BY <1>2
  <2> QED
    BY <1>1, <1>2, <2>1 DEF up, Woken, Semaphore
<1>3. CASE s.wait # <<>>
  <2>1. /\ Head(s.wait) \in Threads /\ Tail(s.wait) \in Seq(Threads)
        /\ Len(Tail(s.wait)) = Len(s.wait) - 1
        /\ \A k \in 1 .. Len(s.wait) - 1 : Tail(s.wait)[k] = s.wait[k + 1]
        /\ Head(s.wait) = s.wait[1] /\ Len(s.wait) \in Nat /\ Len(s.wait) # 0
    BY <1>1, <1>3, HeadTailProperties
  <2>2. up(s).wait = Tail(s.wait) /\ up(s).count = s.count /\ Woken(s) = {s.wait[1]}
    BY <1>3, <2>1 DEF up, Woken, Semaphore
  <2> QED
    BY <2>1, <2>2
<1> QED
  BY <1>2, <1>3

\* up() on slot i wakes threads that sleep on slot i.
LEMMA WokenSleeps ==
  ASSUME TypeOK, Queued, NEW i \in Slots, NEW u \in Woken(sem[i])
  PROVE  u \in Threads /\ pc[u] \in Sleeping /\ slot[u] = i
<1>1. sem[i] \in Semaphore
  BY DEF TypeOK, Semaphore
<1>2. Len(sem[i].wait) # 0 /\ u = sem[i].wait[1] /\ 1 \in 1 .. Len(sem[i].wait) /\ u \in Threads
  BY <1>1, UpElements
<1> QED
  BY <1>2 DEF Queued

\* t, awake, calls up() for slot i and goes on.
LEMMA UpQueued ==
  ASSUME TypeOK, TypeOK', Queued, NEW t \in Threads, NEW i \in Slots, NEW next,
         pc[t] \notin Sleeping, next \notin Sleeping,
         pc' = PcAfterUp(t, i, next), sem' = [sem EXCEPT ![i] = up(@)],
         \A u \in Threads \ {t} : slot'[u] = slot[u]
  PROVE  Queued'
<1>1. sem[i] \in Semaphore /\ sem \in [Slots -> Semaphore]
  BY DEF TypeOK, Semaphore
<1>2. sem'[i] = up(sem[i]) /\ \A j \in Slots \ {i} : sem'[j] = sem[j]
  BY <1>1
<1>3. \A u \in Threads : pc'[u] = IF u = t THEN next
                                  ELSE IF u \in Woken(sem[i]) THEN "granted" ELSE pc[u]
  BY DEF PcAfterUp
<1>4. t \notin Woken(sem[i])
  BY WokenSleeps
<1>5. CASE Len(sem[i].wait) = 0
  <2>1. \A u \in Threads : Alike(u)
    BY <1>1, <1>3, <1>5, UpElements DEF Alike
  <2>2. \A j \in Slots : /\ sem'[j].wait = sem[j].wait
                         /\ sem'[j].count # 0 => sem[j].count # 0 \/ Len(sem[j].wait) = 0
    BY <1>1, <1>2, <1>5, UpElements
  <2> QED
    BY <2>1, <2>2, SameListsQueued
<1>6. CASE Len(sem[i].wait) # 0
  <2> DEFINE w == sem[i].wait[1]
  <2>1. /\ sem'[i].count = sem[i].count
        /\ Len(sem'[i].wait) = Len(sem[i].wait) - 1
        /\ \A k \in 1 .. Len(sem[i].wait) - 1 : sem'[i].wait[k] = sem[i].wait[k + 1]
        /\ Woken(sem[i]) = {w} /\ w \in Threads /\ 1 \in 1 .. Len(sem[i].wait)
    BY <1>1, <1>2, <1>6, UpElements
  <2>2. pc'[w] \notin Sleeping /\ \A u \in Threads \ {w} : Alike(u)
    BY <1>3, <1>4, <2>1 DEF Alike, Sleeping
  <2>3. \A k \in 1 .. Len(sem[i].wait) - 1 :
          sem'[i].wait[k] = IF k < 1 THEN sem[i].wait[k] ELSE sem[i].wait[k + 1]
    BY <2>1
  <2> HIDE DEF w
  <2>4. sem[i].wait[1] = w
    BY DEF w
  <2> QED
    BY <1>2, <2>1, <2>2, <2>3, <2>4, LeaveQueued
<1> QED
  BY <1>5, <1>6

\* t, asleep at place k of its slot's list, gives up.
LEMMA GiveUpQueued ==
  ASSUME TypeOK, TypeOK', Queued, NEW t \in Threads, NEW k \in 1 .. Len(sem[slot[t]].wait),
         GiveUp(t, k), pc'[t] \notin Sleeping, \A u \in Threads \ {t} : Alike(u)
  PROVE  Queued'
<1> DEFINE i == slot[t]
           q == sem[i].wait
<1>1. i \in Slots /\ q \in Seq(Threads) /\ sem \in [Slots -> Semaphore] /\ q[k] = t
  BY DEF TypeOK, Semaphore, GiveUp
<1>2. /\ sem'[i].wait = RemoveAt(q, k)
      /\ sem'[i].count = sem[i].count
      /\ \A j \in Slots \ {i} : sem'[j] = sem[j]
  BY <1>1 DEF GiveUp, list_del, Semaphore
<1>3. k \in 1 .. Len(q)
  OBVIOUS
<1>4. /\ Len(sem'[i].wait) = Len(q) - 1
      /\ \A j \in 1 .. Len(q) - 1 : sem'[i].wait[j] = IF j < k THEN q[j] ELSE q[j + 1]
  <2> HIDE DEF q
  <2> QED
    BY <1>1, <1>2, <1>3, RemoveAtElements
<1> HIDE DEF i
<1> QED
  BY <1>1, <1>2, <1>3, <1>4, LeaveQueued

-----------------------------------------------------------------------------
(* The steps of SemutexMutex.                                              *)

\* A step that leaves the semaphores and the sleepers alone.
LEMMA QuietQueued ==
  ASSUME TypeOK, TypeOK', Queued, sem' = sem, \A u \in Threads : Alike(u)
  PROVE  Queued'
BY SameListsQueued

\* down(): t takes the unit of slot i, or joins its list.
LEMMA DownQueued ==
  ASSUME TypeOK, TypeOK', Queued, NEW t \in Threads, NEW i \in Slots, NEW w \in Sleeping,
         pc[t] \notin Sleeping, Down(t, i, w), slot'[t] = i,
         \A u \in Threads \ {t} : slot'[u] = slot[u]
  PROVE  Queued'
<1>1. sem \in [Slots -> Semaphore] /\ pc \in [Threads -> States]
  BY DEF TypeOK, Semaphore
<1>2. \A u \in Threads \ {t} : Alike(u)
  BY <1>1 DEF Down, Alike
<1>3. CASE HasUnit(sem[i])
  <2>1. pc'[t] = "granted" /\ sem' = [sem EXCEPT ![i] = TakeUnit(@)]
    BY <1>1, <1>3 DEF Down, down
  <2>2. \A u \in Threads : Alike(u)
    BY <1>2, <2>1 DEF Alike, Sleeping
  <2>3. \A j \in Slots : /\ sem'[j].wait = sem[j].wait
                         /\ sem'[j].count # 0 => sem[j].count # 0 \/ Len(sem[j].wait) = 0
    BY <1>1, <1>3, <2>1 DEF TakeUnit, HasUnit, Semaphore
  <2> QED
    BY <2>2, <2>3, SameListsQueued
<1>4. CASE ~HasUnit(sem[i])
  <2>1. pc'[t] = w /\ sem' = [sem EXCEPT ![i] = Enqueue(@, t)]
    BY <1>1, <1>4 DEF Down, down
  <2> QED
    BY <1>2, <1>4, <2>1, EnqueueQueued
<1> QED
  BY <1>3, <1>4

\* Every step keeps the lists in order.
LEMMA QueuedStep ==
  ASSUME TypeOK, TypeOK', Queued, Made, [Next]_vars
  PROVE  Queued'
<1> USE ProcAssumption DEF Sleeping
<1>1. CASE UNCHANGED vars
  BY <1>1, QuietQueued DEF vars, Alike
<1>2. ASSUME NEW t \in Threads, NEW f \in Files, Open(t, f) PROVE Queued'
  BY <1>2, QuietQueued DEF Open, table, tasks, Alike
<1>3. ASSUME NEW t \in Threads, NEW n \in Names, NEW i \in Slots, CreateMutex(t, n, i)
      PROVE Queued'
  <2>1. \A u \in Threads : Alike(u)
    BY <1>3 DEF CreateMutex, tasks, Alike
  <2>2. CASE sem' = sem
    BY <2>1, <2>2, QuietQueued
  <2>3. CASE i \notin made /\ sem' = [sem EXCEPT ![i] = sema_init(1)]
    <3>1. sem \in [Slots -> Semaphore]
      BY DEF TypeOK, Semaphore
    <3>2. Len(sem[i].wait) = 0
      <4>1. sem[i].wait \in Seq(Threads)
        BY <3>1 DEF Semaphore
      <4>2. ASSUME Len(sem[i].wait) # 0 PROVE FALSE
        <5>1. 1 \in 1 .. Len(sem[i].wait) /\ sem[i].wait[1] \in Threads
          BY <4>1, <4>2
        <5> QED
          BY <2>3, <5>1 DEF Queued, Made
      <4> QED
        BY <4>2
    <3>3. sem[i].wait = <<>>
      BY <3>1, <3>2 DEF Semaphore
    <3> QED
      BY <2>1, <2>3, <3>1, <3>2, <3>3, SameListsQueued DEF sema_init, Semaphore
  <2> QED
    BY <1>3, <2>2, <2>3 DEF CreateMutex
<1>4. ASSUME NEW t \in Threads, NEW i \in Slots, DelMutex(t, i) PROVE Queued'
  BY <1>4, QuietQueued DEF DelMutex, tasks, Alike
<1>5. ASSUME NEW t \in Threads, NEW i \in Slots, NEW w \in {"lock", "timed"}, Lock(t, i, w)
      PROVE Queued'
  <2>1. pc[t] \notin Sleeping /\ Down(t, i, w) /\ slot' = [slot EXCEPT ![t] = i]
    BY <1>5 DEF Lock, CanCall
  <2>2. slot'[t] = i /\ \A u \in Threads \ {t} : slot'[u] = slot[u]
    BY <2>1 DEF TypeOK
  <2> QED
    BY <2>1, <2>2, DownQueued
<1>6. ASSUME NEW t \in Threads, NEW i \in Slots, TryLock(t, i) PROVE Queued'
  <2>1. \A u \in Threads : Alike(u)
    BY <1>6 DEF TryLock, CanCall, Alike, TypeOK
  <2>2. sem \in [Slots -> Semaphore]
    BY DEF TypeOK, Semaphore
  <2>3. \A j \in Slots : /\ sem'[j].wait = sem[j].wait
                         /\ sem'[j].count # 0 => sem[j].count # 0 \/ Len(sem[j].wait) = 0
    BY <1>6, <2>2 DEF TryLock, TakeUnit, HasUnit, Semaphore
  <2> QED
    BY <2>1, <2>3, SameListsQueued
<1>7. ASSUME NEW t \in Threads, RecordOwner(t) PROVE Queued'
  BY <1>7, QuietQueued DEF RecordOwner, ReturnPc, Alike, TypeOK
<1>8. ASSUME NEW t \in Threads, NEW k \in 1 .. Len(sem[slot[t]].wait),
             TimedOut(t, k) \/ LockTimeout(t, k) \/ Interrupted(t, k)
      PROVE Queued'
  <2>1. GiveUp(t, k) /\ \A u \in Threads \ {t} : slot'[u] = slot[u]
    BY <1>8 DEF TimedOut, LockTimeout, Interrupted, TypeOK
  <2>2. pc' = [pc EXCEPT ![t] = ReturnPc(t)] \/ pc' = [pc EXCEPT ![t] = "retry"]
    BY <1>8 DEF TimedOut, LockTimeout, Interrupted
  <2>3. pc'[t] \notin Sleeping /\ \A u \in Threads \ {t} : Alike(u)
    BY <2>1, <2>2 DEF ReturnPc, Alike, TypeOK
  <2> QED
    BY <2>1, <2>3, GiveUpQueued
<1>9. ASSUME NEW t \in Threads, LockRetry(t) PROVE Queued'
  <2>1. pc[t] \notin Sleeping /\ Down(t, slot[t], "lock") /\ slot' = slot
    BY <1>9 DEF LockRetry
  <2>2. slot[t] \in Slots /\ "lock" \in Sleeping
    BY DEF TypeOK
  <2> QED
    BY <2>1, <2>2, DownQueued
<1>10. ASSUME NEW t \in Threads, NEW i \in Slots, Unlock(t, i) PROVE Queued'
  BY <1>10, QuietQueued DEF Unlock, CanCall, Alike, TypeOK
<1>11. ASSUME NEW t \in Threads, UnlockUp(t) PROVE Queued'
  <2>1. slot[t] \in Slots /\ ReturnPc(t) \notin Sleeping
    BY DEF TypeOK, ReturnPc
  <2>2. \A u \in Threads \ {t} : slot'[u] = slot[u]
    BY <1>11 DEF UnlockUp, TypeOK
  <2> QED
    BY <1>11, <2>1, <2>2, UpQueued DEF UnlockUp
<1>12. ASSUME NEW t \in Threads, Close(t) PROVE Queued'
  BY <1>12, QuietQueued DEF Close, CanCall, table, Alike, TypeOK
<1>13. ASSUME NEW t \in Threads, ReleaseUp(t) PROVE Queued'
  <2>1. slot[t] \in Slots /\ "erase" \notin Sleeping
    BY DEF TypeOK
  <2> QED
    BY <1>13, <2>1, UpQueued DEF ReleaseUp
<1>14. ASSUME NEW t \in Threads, ReleaseErase(t) PROVE Queued'
  BY <1>14, QuietQueued DEF ReleaseErase, NextPc, Alike, TypeOK
<1>15. ASSUME NEW t \in Threads, ReleaseSkip(t) \/ FlushSkip(t) PROVE Queued'
  BY <1>15, QuietQueued DEF ReleaseSkip, FlushSkip, NextPc, table, Alike, TypeOK
<1>19. ASSUME NEW t \in Threads, ReleaseTest(t) \/ ReleaseBug(t) \/ FlushTest(t) \/ FlushBug(t)
       PROVE Queued'
  BY <1>19, QuietQueued DEF ReleaseTest, ReleaseBug, FlushTest, FlushBug, table, Alike, TypeOK
<1>16. ASSUME NEW t \in Threads, Exit(t) PROVE Queued'
  <2>1. /\ sem' = sem /\ slot' = [slot EXCEPT ![t] = 0] /\ pc[t] = "user"
        /\ pc' = pc \/ pc' = [pc EXCEPT ![t] = "flush"]
    BY <1>16 DEF Exit, table
  <2> QED
    BY <2>1, QuietQueued DEF Alike, TypeOK
<1>17. ASSUME NEW t \in Threads, FlushErase(t) PROVE Queued'
  BY <1>17, QuietQueued DEF FlushErase, Alike, TypeOK
<1>18. ASSUME NEW t \in Threads, FlushUp(t) PROVE Queued'
  <2> DEFINE next == NextPc(t, "flush", "release")
  <2>1. slot[t] \in Slots /\ next \notin Sleeping
    BY DEF TypeOK, NextPc
  <2>2. /\ pc[t] \notin Sleeping /\ \A u \in Threads \ {t} : slot'[u] = slot[u]
        /\ pc' = PcAfterUp(t, slot[t], next)
        /\ sem' = [sem EXCEPT ![slot[t]] = up(@)]
    BY <1>18 DEF FlushUp, TypeOK
  <2> HIDE DEF next
  <2> QED
    BY <2>1, <2>2, UpQueued
<1> QED
  BY <1>1, <1>2, <1>3, <1>4, <1>5, <1>6, <1>7, <1>8, <1>9, <1>10, <1>11, <1>12,
     <1>13, <1>14, <1>15, <1>16, <1>17, <1>18, <1>19
  DEF Next, Call, Proceed, Wake

\* Every step works on slots that have a semaphore.
LEMMA MadeStep ==
  ASSUME TypeOK, TypeOK', Queued, Made, [Next]_vars
  PROVE  Made'
<1> USE ProcAssumption DEF Sleeping, Claiming
<1>1. CASE UNCHANGED vars
  BY <1>1 DEF vars, Made
<1>2. ASSUME NEW t \in Threads, NEW f \in Files, Open(t, f) PROVE Made'
  BY <1>2 DEF Open, table, tasks, Made
<1>3. ASSUME NEW t \in Threads, NEW n \in Names, NEW i \in Slots, CreateMutex(t, n, i)
      PROVE Made'
  <2>1. made \subseteq made' /\ UNCHANGED <<mutex_info, pc, slot, held>>
    BY <1>3 DEF CreateMutex, tasks
  <2> QED
    BY <2>1 DEF Made
<1>4. ASSUME NEW t \in Threads, NEW i \in Slots, DelMutex(t, i) PROVE Made'
  BY <1>4 DEF DelMutex, tasks, Made
<1>5. ASSUME NEW t \in Threads, NEW i \in Slots, NEW w \in {"lock", "timed"}, Lock(t, i, w)
      PROVE Made'
  BY <1>5 DEF Lock, Down, TypeOK, Made
<1>6. ASSUME NEW t \in Threads, NEW i \in Slots, TryLock(t, i) PROVE Made'
  BY <1>6 DEF TryLock, TypeOK, Made
<1>7. ASSUME NEW t \in Threads, RecordOwner(t) PROVE Made'
  BY <1>7 DEF RecordOwner, ReturnPc, TypeOK, Made
<1>8. ASSUME NEW t \in Threads, NEW k \in 1 .. Len(sem[slot[t]].wait),
             TimedOut(t, k) \/ LockTimeout(t, k) \/ Interrupted(t, k)
      PROVE Made'
  <2>1. /\ UNCHANGED <<mutex_info, made, held>> /\ pc[t] \in Sleeping
        /\ \A u \in Threads \ {t} : slot'[u] = slot[u]
    BY <1>8 DEF TimedOut, LockTimeout, Interrupted, TypeOK
  <2>2. /\ \A u \in Threads \ {t} : pc'[u] = pc[u]
        /\ pc'[t] \in {"user", "release"} \/ (pc'[t] = "retry" /\ slot'[t] = slot[t])
    <3>1. CASE TimedOut(t, k) \/ Interrupted(t, k)
      <4>1. pc' = [pc EXCEPT ![t] = ReturnPc(t)] /\ ReturnPc(t) \in {"user", "release"}
        BY <3>1 DEF TimedOut, Interrupted, ReturnPc
      <4>2. pc \in [Threads -> States]
        BY DEF TypeOK
      <4> QED
        BY <4>1, <4>2
    <3>2. CASE LockTimeout(t, k)
      BY <3>2 DEF LockTimeout, TypeOK
    <3> QED
      BY <1>8, <3>1, <3>2
  <2> QED
    BY <2>1, <2>2 DEF Made
<1>9. ASSUME NEW t \in Threads, LockRetry(t) PROVE Made'
  BY <1>9 DEF LockRetry, Down, TypeOK, Made
<1>10. ASSUME NEW t \in Threads, NEW i \in Slots, Unlock(t, i) PROVE Made'
  BY <1>10 DEF Unlock, Unlocked, TypeOK, Made
<1>11. ASSUME NEW t \in Threads, NEW i \in Slots, NEW next \in States,
              pc' = PcAfterUp(t, i, next), UNCHANGED <<mutex_info, made>>,
              \A u \in Threads \ {t} : slot'[u] = slot[u],
              next \in {"user", "release", "flush", "erase"},
              \A u \in Threads : held'[u] \subseteq held[u]
       PROVE Made'
  <2>1. \A u \in Threads : pc'[u] = IF u = t THEN next
                                    ELSE IF u \in Woken(sem[i]) THEN "granted" ELSE pc[u]
    BY <1>11 DEF PcAfterUp
  <2>2. \A u \in Threads :
          pc'[u] \in Claiming \cup Sleeping \cup {"retry", "flush_bug", "flush_erase"}
          => slot'[u] \in made
    BY <1>11, <2>1, WokenSleeps DEF Made
  <2> QED
    BY <1>11, <2>2 DEF Made
<1>12. ASSUME NEW t \in Threads, UnlockUp(t) \/ FlushUp(t) \/ ReleaseUp(t) PROVE Made'
  <2>1. slot[t] \in Slots /\ \A u \in Threads \ {t} : slot'[u] = slot[u]
    BY <1>12 DEF UnlockUp, FlushUp, ReleaseUp, TypeOK
  <2>2. /\ ReturnPc(t) \in {"user", "release"}
        /\ NextPc(t, "flush", "release") \in {"flush", "release"}
    BY DEF ReturnPc, NextPc
  <2>3. UNCHANGED <<mutex_info, made>> /\ \A u \in Threads : held'[u] \subseteq held[u]
    BY <1>12 DEF UnlockUp, FlushUp, ReleaseUp, Forget
  <2>4. \E next \in {"user", "release", "flush", "erase"} : pc' = PcAfterUp(t, slot[t], next)
    BY <1>12, <2>2 DEF UnlockUp, FlushUp, ReleaseUp
  <2> QED
    BY <1>11, <2>1, <2>3, <2>4 DEF States
<1>13. ASSUME NEW t \in Threads, Close(t) PROVE Made'
  BY <1>13 DEF Close, table, TypeOK, Made
<1>14. ASSUME NEW t \in Threads, ReleaseErase(t) PROVE Made'
  <2>1. /\ pc'[t] \in {"release", "user"} /\ UNCHANGED <<made, held>>
        /\ \A u \in Threads \ {t} : pc'[u] = pc[u] /\ slot'[u] = slot[u]
    BY <1>14 DEF ReleaseErase, NextPc, TypeOK
  <2>2. \A i \in Slots : /\ mutex_info'[i].locked_status => mutex_info[i].locked_status
                         /\ mutex_info'[i].locked_tgid = mutex_info[i].locked_tgid
    BY <1>14 DEF ReleaseErase, TypeOK
  <2> QED
    BY <2>1, <2>2 DEF Made
<1>15. ASSUME NEW t \in Threads, ReleaseSkip(t) \/ FlushSkip(t) \/ ReleaseTest(t) \/ ReleaseBug(t)
       PROVE Made'
  <2>1. /\ pc'[t] \in {"release", "user", "flush", "release_bug", "release_up", "oops"}
        /\ UNCHANGED <<mutex_info, made, held>>
        /\ \A u \in Threads \ {t} : pc'[u] = pc[u] /\ slot'[u] = slot[u]
    BY <1>15 DEF ReleaseSkip, FlushSkip, ReleaseTest, ReleaseBug, NextPc, table, TypeOK
  <2> QED
    BY <2>1 DEF Made
<1>16. ASSUME NEW t \in Threads, FlushTest(t) \/ FlushBug(t) PROVE Made'
  <2>1. /\ pc'[t] \in {"flush_bug", "flush_erase", "oops"} /\ UNCHANGED <<mutex_info, made, held>>
        /\ slot' = slot /\ \A u \in Threads \ {t} : pc'[u] = pc[u]
    BY <1>16 DEF FlushTest, FlushBug, table, TypeOK
  <2>2. slot[t] \in made
    <3>1. CASE FlushTest(t)
      <4>1. mutex_info[slot[t]].locked_tgid # NULL /\ slot[t] \in Slots
        BY <3>1, NullAssumption DEF FlushTest, TypeOK
      <4> QED
        BY <4>1 DEF Made
    <3>2. CASE FlushBug(t)
      BY <3>2 DEF FlushBug, Made
    <3> QED
      BY <1>16, <3>1, <3>2
  <2> QED
    BY <2>1, <2>2 DEF Made
<1>17. ASSUME NEW t \in Threads, FlushErase(t) PROVE Made'
  <2>1. /\ slot[t] \in made /\ slot[t] \in Slots /\ pc'[t] = "flush_up" /\ made' = made /\ slot' = slot
        /\ \A u \in Threads \ {t} : pc'[u] = pc[u]
        /\ \A u \in Threads : held'[u] \subseteq held[u]
    BY <1>17 DEF FlushErase, Forget, TypeOK, Made
  <2>2. \A i \in Slots \ {slot[t]} : mutex_info'[i] = mutex_info[i]
    BY <1>17 DEF FlushErase, TypeOK
  <2> QED
    BY <2>1, <2>2 DEF Made
<1>18. ASSUME NEW t \in Threads, Exit(t) PROVE Made'
  <2>1. /\ UNCHANGED <<mutex_info, made, held>> /\ pc'[t] \in {"flush", "user"}
        /\ \A u \in Threads \ {t} : pc'[u] = pc[u] /\ slot'[u] = slot[u]
    BY <1>18 DEF Exit, table, TypeOK
  <2> QED
    BY <2>1 DEF Made
<1> QED
  BY <1>1, <1>2, <1>3, <1>4, <1>5, <1>6, <1>7, <1>8, <1>9, <1>10, <1>12,
     <1>13, <1>14, <1>15, <1>16, <1>17, <1>18
  DEF Next, Call, Proceed, Wake

\* The wait lists are in order in every state, whatever locks, timeouts, signals,
\* closes, exits and deletions come in between.
THEOREM QueuesInOrder == Spec => [](Queued /\ Made)
<1>1. Init => Queued /\ Made
  BY DEF Init, Queued, Made, sema_init, Sleeping, Claiming, Unlocked
<1>2. TypeOK /\ TypeOK' /\ Queued /\ Made /\ [Next]_vars => Queued' /\ Made'
  BY QueuedStep, MadeStep
<1> QED
  BY <1>1, <1>2, TypeCorrect, PTL DEF Spec

-----------------------------------------------------------------------------
(***************************************************************************)
(* Who can still reach a struct file: the process that has it open and the *)
(* calls that hold a reference.  Release and Flush run for the last of     *)
(* them, so nobody else uses the file meanwhile.                           *)
(***************************************************************************)

Flushing == {"flush", "flush_bug", "flush_erase", "flush_up"}
Closing == Flushing \cup {"release", "release_bug", "release_up", "erase", "oops"}

\* Who may still reach a struct file.
FileRefs ==
  /\ \A t \in Threads : (pc[t] = "user") <=> (filp[t] = NULL)
  /\ \A p, q \in Procs : fd[p] = fd[q] /\ fd[p] # NULL => p = q
  /\ \A t \in Threads, p \in Procs : filp[t] = fd[p] /\ fd[p] # NULL => p = Proc[t]
  /\ \A t, u \in Threads : filp[t] = filp[u] /\ filp[t] # NULL => Proc[t] = Proc[u]
  /\ \A t \in Threads : pc[t] \in Closing =>
       /\ \A p \in Procs : fd[p] # filp[t]
       /\ \A u \in Threads \ {t} : filp[u] # filp[t]

\* An exiting process has one thread in the driver at most, in Flush or Release.
Exits ==
  /\ \A t \in Threads : Proc[t] \in exiting => pc[t] \in Closing \cup {"user"}
  /\ \A t, u \in Threads :
       (Proc[t] = Proc[u] /\ Proc[t] \in exiting /\ pc[t] # "user" /\ pc[u] # "user")
       => t = u
  /\ \A t \in Threads : pc[t] \in Flushing => Proc[t] \in exiting

-----------------------------------------------------------------------------
(* The kinds of steps; t is the thread that takes the step.                *)

\* u stays outside the driver, in an ioctl or in close(), with the same file.
Steady(u) ==
  /\ filp'[u] = filp[u]
  /\ pc'[u] = "user" <=> pc[u] = "user"
  /\ pc'[u] \in Closing <=> pc[u] \in Closing
  /\ pc'[u] \in Flushing => pc[u] \in Flushing

\* A step within a call.
LEMMA WithinRefs ==
  ASSUME TypeOK, FileRefs, Exits, \A u \in Threads : Steady(u),
         fd' = fd, exiting' = exiting
  PROVE  FileRefs' /\ Exits'
BY DEF FileRefs, Exits, Steady

\* t opens the device.
LEMMA OpenRefs ==
  ASSUME TypeOK, FileRefs, Exits, NEW t \in Threads, NEW f \in Files, Open(t, f)
  PROVE  FileRefs' /\ Exits'
<1>1. /\ UNCHANGED <<pc, filp, exiting>>
      /\ \A p \in Procs : fd'[p] = IF p = Proc[t] THEN f ELSE fd[p]
      /\ \A p \in Procs : fd[p] # f
      /\ \A u \in Threads : filp[u] # f
  BY DEF Open, tasks, TypeOK
<1> QED
  BY <1>1 DEF FileRefs, Exits

\* t starts an ioctl.
LEMMA EnterRefs ==
  ASSUME TypeOK, FileRefs, Exits, NEW t \in Threads, CanCall(t),
         pc'[t] \notin Closing \cup {"user"}, filp'[t] = fd[Proc[t]],
         \A u \in Threads \ {t} : Steady(u), fd' = fd, exiting' = exiting
  PROVE  FileRefs' /\ Exits'
<1>1. fd[Proc[t]] # NULL /\ Proc[t] \in Procs /\ Proc[t] \notin exiting /\ pc[t] = "user"
  BY ProcAssumption DEF CanCall
<1>2. FileRefs'
  BY <1>1 DEF FileRefs, Steady
<1>3. Exits'
  BY <1>1 DEF Exits, Steady, Closing, Flushing
<1> QED
  BY <1>2, <1>3

\* t ends an ioctl, maybe with the last reference to its file.
LEMMA ReturnRefs ==
  ASSUME TypeOK, FileRefs, Exits, NEW t \in Threads, pc[t] \notin Closing \cup {"user"},
         pc'[t] = ReturnPc(t), filp'[t] = ReturnFilp(t),
         \A u \in Threads \ {t} : Steady(u), fd' = fd, exiting' = exiting
  PROVE  FileRefs' /\ Exits'
<1>1. Proc[t] \in Procs /\ Proc[t] \notin exiting /\ filp[t] # NULL
  BY ProcAssumption DEF FileRefs, Exits
<1>2. CASE LastRef(t)
  <2>1. pc'[t] = "release" /\ filp'[t] = filp[t]
    BY <1>2 DEF ReturnPc, ReturnFilp
  <2>2. /\ \A p \in Procs : fd[p] # filp[t]
        /\ \A u \in Threads \ {t} : filp[u] # filp[t]
    BY <1>1, <1>2 DEF LastRef, FileRefs
  <2>3. FileRefs'
    BY <1>1, <2>1, <2>2 DEF FileRefs, Steady, Closing, Flushing
  <2>4. Exits'
    BY <1>1, <2>1 DEF Exits, Steady, Closing, Flushing
  <2> QED
    BY <2>3, <2>4
<1>3. CASE ~LastRef(t)
  <2>1. pc'[t] = "user" /\ filp'[t] = NULL
    BY <1>3 DEF ReturnPc, ReturnFilp
  <2>2. FileRefs'
    BY <1>1, <2>1, NullAssumption DEF FileRefs, Steady, Closing, Flushing
  <2>3. Exits'
    BY <1>1, <2>1 DEF Exits, Steady, Closing, Flushing
  <2> QED
    BY <2>2, <2>3
<1> QED
  BY <1>2, <1>3

\* t goes on scanning in Release, or has finished it.
LEMMA ScanRefs ==
  ASSUME TypeOK, FileRefs, Exits, NEW t \in Threads, pc[t] \in {"release", "erase"},
         pc'[t] = NextPc(t, "release", "user"), filp'[t] = NextFilp(t),
         \A u \in Threads \ {t} : pc'[u] = pc[u] /\ filp'[u] = filp[u],
         fd' = fd, exiting' = exiting
  PROVE  FileRefs' /\ Exits'
<1>1. CASE slot[t] + 1 \in Slots
  <2>1. \A u \in Threads : Steady(u)
    BY <1>1 DEF NextPc, NextFilp, Steady, Closing, Flushing
  <2> QED
    BY <2>1, WithinRefs
<1>2. CASE slot[t] + 1 \notin Slots
  <2>1. pc'[t] = "user" /\ filp'[t] = NULL
    BY <1>2 DEF NextPc, NextFilp
  <2> QED
    BY <2>1 DEF FileRefs, Exits, Closing, Flushing
<1> QED
  BY <1>1, <1>2

\* t closes the descriptor, maybe with the last reference to the file.
LEMMA CloseRefs ==
  ASSUME TypeOK, FileRefs, Exits, NEW t \in Threads, Close(t)
  PROVE  FileRefs' /\ Exits'
<1>1. fd[Proc[t]] # NULL /\ Proc[t] \in Procs /\ Proc[t] \notin exiting
      /\ pc[t] = "user" /\ filp[t] = NULL
  BY ProcAssumption DEF Close, CanCall, FileRefs
<1>2. /\ exiting' = exiting
      /\ \A p \in Procs : fd'[p] = IF p = Proc[t] THEN NULL ELSE fd[p]
      /\ \A u \in Threads \ {t} : pc'[u] = pc[u] /\ filp'[u] = filp[u]
  BY DEF Close, TypeOK
<1>3. \/ /\ pc'[t] = "release" /\ filp'[t] = fd[Proc[t]]
         /\ \A u \in Threads : filp[u] # fd[Proc[t]]
      \/ pc'[t] = "user" /\ filp'[t] = NULL
  BY DEF Close, TypeOK
<1>4. Exits'
  BY <1>1, <1>2, <1>3 DEF Exits, Closing, Flushing
<1>5. \A u \in Threads : pc[u] \in Closing => filp[u] # NULL
  BY DEF FileRefs, Closing, Flushing
<1>6. CASE pc'[t] = "user" /\ filp'[t] = NULL
  <2>1. \A u \in Threads : pc'[u] = pc[u] /\ filp'[u] = filp[u]
    BY <1>1, <1>2, <1>6
  <2>2. \A u \in Threads : pc'[u] \in Closing =>
          /\ \A p \in Procs : fd'[p] # filp'[u]
          /\ \A v \in Threads \ {u} : filp'[v] # filp'[u]
    BY <1>2, <1>5, <2>1 DEF FileRefs
  <2>3. \A p, q \in Procs : fd'[p] = fd'[q] /\ fd'[p] # NULL => p = q
    BY <1>2 DEF FileRefs
  <2>4. \A u \in Threads, p \in Procs : filp'[u] = fd'[p] /\ fd'[p] # NULL => p = Proc[u]
    BY <1>2, <2>1 DEF FileRefs
  <2>5. /\ \A u \in Threads : (pc'[u] = "user") <=> (filp'[u] = NULL)
        /\ \A u, v \in Threads : filp'[u] = filp'[v] /\ filp'[u] # NULL => Proc[u] = Proc[v]
    BY <2>1 DEF FileRefs
  <2> QED
    BY <1>4, <2>2, <2>3, <2>4, <2>5 DEF FileRefs
<1>7. CASE /\ pc'[t] = "release" /\ filp'[t] = fd[Proc[t]]
           /\ \A u \in Threads : filp[u] # fd[Proc[t]]
  <2>1. /\ \A p \in Procs : fd'[p] # filp'[t]
        /\ \A u \in Threads \ {t} : filp'[u] # filp'[t]
    BY <1>1, <1>2, <1>7 DEF FileRefs
  <2>2. \A u \in Threads \ {t} : pc'[u] \in Closing =>
          /\ \A p \in Procs : fd'[p] # filp'[u]
          /\ \A v \in Threads \ {u} : filp'[v] # filp'[u]
    BY <1>1, <1>2, <1>5, <1>7 DEF FileRefs
  <2>3. \A u \in Threads : (pc'[u] = "user") <=> (filp'[u] = NULL)
    BY <1>1, <1>2, <1>7 DEF FileRefs
  <2>4. \A p, q \in Procs : fd'[p] = fd'[q] /\ fd'[p] # NULL => p = q
    BY <1>2 DEF FileRefs
  <2>5. \A u \in Threads, p \in Procs : filp'[u] = fd'[p] /\ fd'[p] # NULL => p = Proc[u]
    BY <1>2, <2>1 DEF FileRefs
  <2>6. \A u, v \in Threads : filp'[u] = filp'[v] /\ filp'[u] # NULL => Proc[u] = Proc[v]
    BY <1>2, <2>1 DEF FileRefs
  <2>7. \A u \in Threads : pc'[u] \in Closing =>
          /\ \A p \in Procs : fd'[p] # filp'[u]
          /\ \A v \in Threads \ {u} : filp'[v] # filp'[u]
    BY <2>1, <2>2
  <2> QED
    BY <1>4, <2>3, <2>4, <2>5, <2>6, <2>7 DEF FileRefs
<1> QED
  BY <1>3, <1>4, <1>6, <1>7

\* The process of t exits.
LEMMA ExitRefs ==
  ASSUME TypeOK, FileRefs, Exits, NEW t \in Threads, Exit(t)
  PROVE  FileRefs' /\ Exits'
<1>1. /\ Proc[t] \in Procs /\ Proc[t] \notin exiting
      /\ exiting' = exiting \cup {Proc[t]}
      /\ \A u \in Threads : Proc[u] = Proc[t] => pc[u] = "user" /\ filp[u] = NULL
  BY ProcAssumption DEF Exit, FileRefs
<1>2. CASE fd[Proc[t]] = NULL
  <2>1. UNCHANGED <<pc, filp, fd>>
    BY <1>2 DEF Exit
  <2> QED
    BY <1>1, <2>1 DEF FileRefs, Exits
<1>3. CASE fd[Proc[t]] # NULL
  <2>1. /\ pc'[t] = "flush" /\ filp'[t] = fd[Proc[t]]
        /\ \A u \in Threads \ {t} : pc'[u] = pc[u] /\ filp'[u] = filp[u]
        /\ \A p \in Procs : fd'[p] = IF p = Proc[t] THEN NULL ELSE fd[p]
    BY <1>3 DEF Exit, TypeOK
  <2>2. FileRefs'
    BY <1>1, <1>3, <2>1 DEF FileRefs, Closing, Flushing
  <2>3. Exits'
    BY <1>1, <2>1 DEF Exits, Closing, Flushing
  <2> QED
    BY <2>2, <2>3
<1> QED
  BY <1>2, <1>3

\* Every step keeps track of the references.
LEMMA RefsStep ==
  ASSUME TypeOK, TypeOK', Queued, FileRefs, Exits, [Next]_vars
  PROVE  FileRefs' /\ Exits'
<1> USE ProcAssumption DEF Closing, Flushing
<1>1. CASE UNCHANGED vars
  BY <1>1, WithinRefs DEF vars, Steady
<1>2. ASSUME NEW t \in Threads, NEW f \in Files, Open(t, f) PROVE FileRefs' /\ Exits'
  BY <1>2, OpenRefs
<1>3. ASSUME NEW t \in Threads, NEW i \in Slots,
             DelMutex(t, i) \/ \E n \in Names : CreateMutex(t, n, i)
      PROVE FileRefs' /\ Exits'
  BY <1>3, WithinRefs DEF CreateMutex, DelMutex, tasks, Steady
<1>4. ASSUME NEW t \in Threads, NEW i \in Slots, NEW w \in {"lock", "timed"}, Lock(t, i, w)
      PROVE FileRefs' /\ Exits'
  <2>1. /\ CanCall(t) /\ fd' = fd /\ exiting' = exiting
        /\ pc'[t] \in {"granted", "lock", "timed"} /\ filp'[t] = fd[Proc[t]]
        /\ \A u \in Threads \ {t} : pc'[u] = pc[u] /\ filp'[u] = filp[u]
    BY <1>4 DEF Lock, Down, TypeOK
  <2> QED
    BY <2>1, EnterRefs DEF Steady
<1>5. ASSUME NEW t \in Threads, NEW i \in Slots, TryLock(t, i) \/ Unlock(t, i)
      PROVE FileRefs' /\ Exits'
  <2>1. /\ CanCall(t) /\ fd' = fd /\ exiting' = exiting
        /\ pc'[t] \in {"granted", "up"} /\ filp'[t] = fd[Proc[t]]
        /\ \A u \in Threads \ {t} : pc'[u] = pc[u] /\ filp'[u] = filp[u]
    BY <1>5 DEF TryLock, Unlock, TypeOK
  <2> QED
    BY <2>1, EnterRefs DEF Steady
<1>6. ASSUME NEW t \in Threads, RecordOwner(t) PROVE FileRefs' /\ Exits'
  <2>1. /\ pc[t] = "granted" /\ fd' = fd /\ exiting' = exiting
        /\ pc'[t] = ReturnPc(t) /\ filp'[t] = ReturnFilp(t)
        /\ \A u \in Threads \ {t} : pc'[u] = pc[u] /\ filp'[u] = filp[u]
    BY <1>6 DEF RecordOwner, TypeOK
  <2> QED
    BY <2>1, ReturnRefs DEF Steady
<1>7. ASSUME NEW t \in Threads, NEW k \in 1 .. Len(sem[slot[t]].wait),
             TimedOut(t, k) \/ Interrupted(t, k)
      PROVE FileRefs' /\ Exits'
  <2>1. /\ pc[t] \in Sleeping /\ fd' = fd /\ exiting' = exiting
        /\ pc'[t] = ReturnPc(t) /\ filp'[t] = ReturnFilp(t)
        /\ \A u \in Threads \ {t} : pc'[u] = pc[u] /\ filp'[u] = filp[u]
    BY <1>7 DEF TimedOut, Interrupted, Sleeping, TypeOK
  <2>2. pc[t] \notin Closing \cup {"user"}
    BY <2>1 DEF Sleeping
  <2> QED
    BY <2>1, <2>2, ReturnRefs DEF Steady
<1>8. ASSUME NEW t \in Threads, NEW k \in 1 .. Len(sem[slot[t]].wait), LockTimeout(t, k)
      PROVE FileRefs' /\ Exits'
  <2>1. \A u \in Threads : Steady(u)
    BY <1>8 DEF LockTimeout, Steady, TypeOK
  <2> QED
    BY <1>8, <2>1, WithinRefs DEF LockTimeout
<1>9. ASSUME NEW t \in Threads, LockRetry(t) PROVE FileRefs' /\ Exits'
  <2>1. \A u \in Threads : Steady(u)
    BY <1>9 DEF LockRetry, Down, Steady, TypeOK
  <2> QED
    BY <1>9, <2>1, WithinRefs DEF LockRetry
<1>10. ASSUME NEW t \in Threads, NEW i \in Slots, NEW next, pc' = PcAfterUp(t, i, next),
              NEW u \in Threads \ {t}, filp'[u] = filp[u]
       PROVE  Steady(u)
  <2>1. pc'[u] = IF u \in Woken(sem[i]) THEN "granted" ELSE pc[u]
    BY <1>10 DEF PcAfterUp
  <2>2. u \in Woken(sem[i]) => pc[u] \in Sleeping
    BY WokenSleeps
  <2> QED
    BY <1>10, <2>1, <2>2 DEF Steady, Sleeping
<1>11. ASSUME NEW t \in Threads, UnlockUp(t) PROVE FileRefs' /\ Exits'
  <2>1. /\ pc[t] = "up" /\ fd' = fd /\ exiting' = exiting
        /\ pc' = PcAfterUp(t, slot[t], ReturnPc(t)) /\ slot[t] \in Slots
        /\ filp'[t] = ReturnFilp(t)
        /\ \A u \in Threads \ {t} : filp'[u] = filp[u]
    BY <1>11 DEF UnlockUp, TypeOK
  <2>2. pc'[t] = ReturnPc(t)
    BY <2>1 DEF PcAfterUp
  <2>3. \A u \in Threads \ {t} : Steady(u)
    BY <1>10, <2>1
  <2> QED
    BY <2>1, <2>2, <2>3, ReturnRefs
<1>12. ASSUME NEW t \in Threads, Close(t) PROVE FileRefs' /\ Exits'
  BY <1>12, CloseRefs
<1>13. ASSUME NEW t \in Threads, ReleaseUp(t) PROVE FileRefs' /\ Exits'
  <2>1. /\ pc[t] = "release_up" /\ filp' = filp /\ fd' = fd /\ exiting' = exiting
        /\ pc' = PcAfterUp(t, slot[t], "erase") /\ slot[t] \in Slots
    BY <1>13 DEF ReleaseUp, TypeOK
  <2>2. pc'[t] = "erase"
    BY <2>1 DEF PcAfterUp
  <2>3. Steady(t)
    BY <2>1, <2>2 DEF Steady
  <2>4. \A u \in Threads \ {t} : Steady(u)
    BY <1>10, <2>1
  <2> QED
    BY <2>1, <2>3, <2>4, WithinRefs
<1>14. ASSUME NEW t \in Threads, ReleaseErase(t) \/ ReleaseSkip(t) PROVE FileRefs' /\ Exits'
  <2>1. /\ pc[t] \in {"release", "erase"} /\ pc'[t] = NextPc(t, "release", "user")
        /\ filp'[t] = NextFilp(t) /\ fd' = fd /\ exiting' = exiting
        /\ \A u \in Threads \ {t} : pc'[u] = pc[u] /\ filp'[u] = filp[u]
    BY <1>14 DEF ReleaseErase, ReleaseSkip, TypeOK
  <2> QED
    BY <2>1, ScanRefs
<1>15. ASSUME NEW t \in Threads,
              ReleaseTest(t) \/ ReleaseBug(t) \/ FlushTest(t) \/ FlushSkip(t) \/ FlushBug(t) \/ FlushErase(t)
       PROVE FileRefs' /\ Exits'
  <2>1. /\ filp' = filp /\ fd' = fd /\ exiting' = exiting
        /\ pc[t] \in Closing /\ pc'[t] \in Closing /\ (pc'[t] \in Flushing => pc[t] \in Flushing)
        /\ pc[t] # "user" /\ pc'[t] # "user"
        /\ \A u \in Threads \ {t} : pc'[u] = pc[u]
    <3>1. CASE ReleaseTest(t) \/ ReleaseBug(t)
      BY <3>1 DEF ReleaseTest, ReleaseBug, Closing, Flushing, TypeOK
    <3>2. CASE FlushTest(t) \/ FlushBug(t)
      BY <3>2 DEF FlushTest, FlushBug, Closing, Flushing, TypeOK
    <3>3. CASE FlushSkip(t) \/ FlushErase(t)
      BY <3>3 DEF FlushSkip, FlushErase, NextPc, Closing, Flushing, TypeOK
    <3> QED
      BY <1>15, <3>1, <3>2, <3>3
  <2>2. \A u \in Threads : Steady(u)
    BY <2>1 DEF Steady
  <2> QED
    BY <2>1, <2>2, WithinRefs
<1>16. ASSUME NEW t \in Threads, Exit(t) PROVE FileRefs' /\ Exits'
  BY <1>16, ExitRefs
<1>17. ASSUME NEW t \in Threads, FlushUp(t) PROVE FileRefs' /\ Exits'
  <2> DEFINE next == NextPc(t, "flush", "release")
  <2>1. /\ pc[t] = "flush_up" /\ filp' = filp /\ fd' = fd /\ exiting' = exiting
        /\ pc' = PcAfterUp(t, slot[t], next) /\ slot[t] \in Slots
    BY <1>17 DEF FlushUp, TypeOK
  <2>2. pc'[t] \in {"flush", "release"}
    BY <2>1 DEF PcAfterUp, NextPc
  <2>3. Steady(t)
    BY <2>1, <2>2 DEF Steady
  <2> HIDE DEF next
  <2>4. \A u \in Threads \ {t} : Steady(u)
    BY <1>10, <2>1
  <2> QED
    BY <2>1, <2>3, <2>4, WithinRefs
<1> QED
  BY <1>1, <1>2, <1>3, <1>4, <1>5, <1>6, <1>7, <1>8, <1>9, <1>11, <1>12, <1>13,
     <1>14, <1>15, <1>16, <1>17
  DEF Next, Call, Proceed, Wake

\* In every state the files are referenced as FileRefs says, and exiting processes
\* are in Flush or Release with one thread at most.
THEOREM ReferencesCounted == Spec => [](FileRefs /\ Exits)
<1>1. Init => FileRefs /\ Exits
  BY DEF Init, FileRefs, Exits, Closing, Flushing
<1>2. TypeOK /\ TypeOK' /\ Queued /\ FileRefs /\ Exits /\ [Next]_vars => FileRefs' /\ Exits'
  BY RefsStep
<1> QED
  BY <1>1, <1>2, TypeCorrect, QueuesInOrder, PTL DEF Spec

-----------------------------------------------------------------------------
(* No lost wakeup, whoever closes what.                                    *)

\* A semaphore without a unit has an owner, who will call up().
UnitsOut == \A i \in made : sem[i].count = 0 => \E t \in Threads : Owns(t, i)

\* No count drops to zero and no owner goes without a successor.
LEMMA KeepOut ==
  ASSUME TypeOK, UnitsOut, made' = made,
         \A j \in made : sem'[j].count = 0 => sem[j].count = 0,
         \A j \in Slots, u \in Threads : Owns(u, j) => Owns(u, j)'
  PROVE  UnitsOut'
BY DEF UnitsOut, TypeOK

\* Threads that own nothing by their place in the code go elsewhere.
LEMMA QuietOut ==
  ASSUME TypeOK, UnitsOut, made' = made, held' = held,
         \A j \in made : sem'[j].count = 0 => sem[j].count = 0,
         \A u \in Threads : pc[u] \in Claiming => pc'[u] = pc[u] /\ slot'[u] = slot[u]
  PROVE  UnitsOut'
<1>1. \A j \in Slots, u \in Threads : Owns(u, j) => Owns(u, j)'
  BY DEF Owns, Claiming
<1> QED
  BY <1>1, KeepOut

\* t takes the unit of slot i, or joins its list.
LEMMA DownOut ==
  ASSUME TypeOK, UnitsOut, NEW t \in Threads, NEW i \in made, pc[t] \notin Claiming,
         made' = made, held' = held, slot'[t] = i, \A u \in Threads \ {t} : slot'[u] = slot[u],
         \/ sem' = [sem EXCEPT ![i] = TakeUnit(@)] /\ pc' = [pc EXCEPT ![t] = "granted"]
         \/ sem' = [sem EXCEPT ![i] = Enqueue(@, t)] /\ \E w \in Sleeping : pc' = [pc EXCEPT ![t] = w]
  PROVE  UnitsOut'
<1>1. /\ made \in SUBSET Slots /\ sem \in [Slots -> Semaphore]
      /\ \A u \in Threads \ {t} : pc'[u] = pc[u]
  BY DEF TypeOK, Semaphore
<1>2. \A j \in Slots, u \in Threads : Owns(u, j) => Owns(u, j)'
  BY <1>1 DEF Owns, Claiming
<1>3. CASE sem' = [sem EXCEPT ![i] = TakeUnit(@)] /\ pc' = [pc EXCEPT ![t] = "granted"]
  <2>1. Owns(t, i)'
    BY <1>3 DEF Owns, TypeOK
  <2>2. \A j \in made \ {i} : sem'[j] = sem[j]
    BY <1>1, <1>3
  <2> QED
    BY <1>1, <1>2, <2>1, <2>2 DEF UnitsOut
<1>4. CASE sem' = [sem EXCEPT ![i] = Enqueue(@, t)]
  <2>1. \A j \in made : sem'[j].count = sem[j].count
    BY <1>1, <1>4 DEF Enqueue, Semaphore
  <2> QED
    BY <1>2, <2>1, KeepOut
<1> QED
  BY <1>3, <1>4

\* up() by t on slot i: the unit goes to the first waiter or into the semaphore.
LEMMA UpOut ==
  ASSUME TypeOK, Queued, UnitsOut, NEW t \in Threads, NEW i \in Slots, NEW next,
         sem' = [sem EXCEPT ![i] = up(@)], pc' = PcAfterUp(t, i, next), pc[t] \notin Sleeping,
         \A u \in Threads \ {t} : slot'[u] = slot[u], made' = made,
         pc[t] \in Claiming => slot[t] = i, \A u \in Threads : held[u] \ {i} \subseteq held'[u]
  PROVE  UnitsOut'
<1>1. /\ made \in SUBSET Slots /\ sem[i] \in Semaphore /\ sem \in [Slots -> Semaphore]
  BY DEF TypeOK, Semaphore
<1>2. /\ sem'[i] = up(sem[i]) /\ \A j \in Slots \ {i} : sem'[j] = sem[j]
  BY <1>1
<1>3. \A u \in Threads \ {t} : pc'[u] = IF u \in Woken(sem[i]) THEN "granted" ELSE pc[u]
  BY DEF PcAfterUp
<1>4. \A u \in Woken(sem[i]) : u \in Threads /\ u # t /\ pc[u] \in Sleeping /\ slot[u] = i
  BY WokenSleeps
<1>5. \A j \in Slots \ {i}, u \in Threads : Owns(u, j) => Owns(u, j)'
  BY <1>3, <1>4 DEF Owns, Claiming, Sleeping
<1>6. sem'[i].count = 0 => \E u \in Threads : Owns(u, i)'
  <2>1. CASE Len(sem[i].wait) = 0
    BY <1>1, <1>2, <2>1, UpElements DEF Semaphore
  <2>2. CASE Len(sem[i].wait) # 0
    <3>1. PICK u \in Threads : u \in Woken(sem[i])
      BY <1>1, <2>2, UpElements
    <3>2. Owns(u, i)'
      BY <1>3, <1>4, <3>1 DEF Owns
    <3> QED
      BY <3>2
  <2> QED
    BY <2>1, <2>2
<1> QED
  BY <1>1, <1>2, <1>5, <1>6 DEF UnitsOut

\* After every step a semaphore without a unit has an owner.
LEMMA UnitsOutStep ==
  ASSUME TypeOK, Queued, Made, UnitsOut, [Next]_vars
  PROVE  UnitsOut'
<1> USE ProcAssumption
<1>0. made \in SUBSET Slots /\ sem \in [Slots -> Semaphore]
  BY DEF TypeOK, Semaphore
<1>1. CASE UNCHANGED vars
  BY <1>1, QuietOut DEF vars
<1>2. ASSUME NEW t \in Threads, NEW i \in Slots, (\E f \in Files : Open(t, f)) \/ DelMutex(t, i)
      PROVE UnitsOut'
  BY <1>2, QuietOut DEF Open, DelMutex, table, tasks
<1>3. ASSUME NEW t \in Threads, NEW n \in Names, NEW i \in Slots, CreateMutex(t, n, i)
      PROVE UnitsOut'
  <2>1. UNCHANGED <<pc, slot, held>> /\ \A j \in Slots, u \in Threads : Owns(u, j) <=> Owns(u, j)'
    BY <1>3 DEF CreateMutex, tasks, Owns
  <2>2. CASE UNCHANGED <<made, sem>>
    BY <2>1, <2>2, QuietOut
  <2>3. CASE i \notin made /\ made' = made \cup {i} /\ sem' = [sem EXCEPT ![i] = sema_init(1)]
    <3>1. sem'[i].count = 1 /\ \A j \in made : sem'[j] = sem[j]
      BY <1>0, <2>3 DEF sema_init
    <3> QED
      BY <1>0, <2>1, <2>3, <3>1 DEF UnitsOut
  <2> QED
    BY <1>3, <2>2, <2>3 DEF CreateMutex
<1>4. ASSUME NEW t \in Threads, NEW i \in made, NEW w \in Sleeping, Down(t, i, w),
             pc[t] \notin Claiming, slot'[t] = i, UNCHANGED <<held, made>>,
             \A u \in Threads \ {t} : slot'[u] = slot[u]
      PROVE UnitsOut'
  <2>1. \/ sem' = [sem EXCEPT ![i] = TakeUnit(@)] /\ pc' = [pc EXCEPT ![t] = "granted"]
        \/ sem' = [sem EXCEPT ![i] = Enqueue(@, t)] /\ pc' = [pc EXCEPT ![t] = w]
    BY <1>0, <1>4 DEF Down, down
  <2> QED
    BY <1>4, <2>1, DownOut
<1>5. ASSUME NEW t \in Threads, NEW i \in Slots, NEW w \in {"lock", "timed"}, Lock(t, i, w)
      PROVE UnitsOut'
  <2>1. /\ i \in made /\ w \in Sleeping /\ Down(t, i, w) /\ pc[t] \notin Claiming
        /\ slot'[t] = i /\ UNCHANGED <<held, made>>
        /\ \A u \in Threads \ {t} : slot'[u] = slot[u]
    BY <1>5 DEF Lock, CanCall, Sleeping, Claiming, TypeOK
  <2> QED
    BY <1>4, <2>1
<1>6. ASSUME NEW t \in Threads, LockRetry(t) PROVE UnitsOut'
  <2>1. /\ slot[t] \in made /\ "lock" \in Sleeping /\ Down(t, slot[t], "lock")
        /\ pc[t] \notin Claiming /\ slot' = slot /\ UNCHANGED <<held, made>>
    BY <1>6 DEF LockRetry, Sleeping, Claiming, Made
  <2> QED
    BY <1>4, <2>1
<1>7. ASSUME NEW t \in Threads, NEW i \in Slots, TryLock(t, i) PROVE UnitsOut'
  <2>1. slot'[t] = i /\ \A u \in Threads \ {t} : slot'[u] = slot[u]
    BY <1>7 DEF TryLock, TypeOK
  <2> QED
    BY <1>7, <2>1, DownOut DEF TryLock, CanCall, Claiming
<1>8. ASSUME NEW t \in Threads, RecordOwner(t) PROVE UnitsOut'
  <2>1. \A j \in Slots, u \in Threads : Owns(u, j) => Owns(u, j)'
    BY <1>8 DEF RecordOwner, Owns, TypeOK
  <2> QED
    BY <1>8, <2>1, KeepOut DEF RecordOwner
<1>9. ASSUME NEW t \in Threads, NEW k \in 1 .. Len(sem[slot[t]].wait),
             TimedOut(t, k) \/ LockTimeout(t, k) \/ Interrupted(t, k)
      PROVE UnitsOut'
  <2>1. /\ pc[t] \notin Claiming /\ GiveUp(t, k) /\ UNCHANGED <<held, made>>
        /\ \A u \in Threads \ {t} : pc'[u] = pc[u] /\ slot'[u] = slot[u]
    BY <1>9 DEF TimedOut, LockTimeout, Interrupted, Claiming, TypeOK
  <2>2. \A j \in made : sem'[j].count = sem[j].count
    BY <1>0, <2>1 DEF GiveUp, list_del, Semaphore
  <2> QED
    BY <2>1, <2>2, QuietOut
<1>10. ASSUME NEW t \in Threads, NEW i \in Slots, Unlock(t, i) PROVE UnitsOut'
  <2>1. \A j \in Slots, u \in Threads : Owns(u, j) => Owns(u, j)'
    BY <1>10 DEF Unlock, CanCall, Owns, TypeOK
  <2> QED
    BY <1>10, <2>1, KeepOut DEF Unlock
<1>11. ASSUME NEW t \in Threads, UnlockUp(t) \/ FlushUp(t) \/ ReleaseUp(t) PROVE UnitsOut'
  <2>1. /\ slot[t] \in Slots /\ pc[t] \notin Sleeping /\ sem' = [sem EXCEPT ![slot[t]] = up(@)]
        /\ made' = made /\ \A u \in Threads \ {t} : slot'[u] = slot[u]
    BY <1>11 DEF UnlockUp, FlushUp, ReleaseUp, Sleeping, TypeOK
  <2>2. \E next \in {"user", "release", "flush", "erase"} : pc' = PcAfterUp(t, slot[t], next)
    <3>1. /\ ReturnPc(t) \in {"user", "release"}
          /\ NextPc(t, "flush", "release") \in {"flush", "release"}
      BY DEF ReturnPc, NextPc
    <3> QED
      BY <1>11, <3>1 DEF UnlockUp, FlushUp, ReleaseUp
  <2>3. \A u \in Threads : held[u] \ {slot[t]} \subseteq held'[u]
    BY <1>11 DEF UnlockUp, FlushUp, ReleaseUp, Forget
  <2> QED
    BY <2>1, <2>2, <2>3, UpOut
<1>12. ASSUME NEW t \in Threads, FlushErase(t) PROVE UnitsOut'
  <2>1. /\ pc[t] = "flush_erase" /\ pc'[t] = "flush_up" /\ slot' = slot
        /\ UNCHANGED <<sem, made>> /\ slot[t] \in Slots
        /\ \A u \in Threads \ {t} : pc'[u] = pc[u]
        /\ \A u \in Threads : held[u] \ {slot[t]} \subseteq held'[u]
    BY <1>12 DEF FlushErase, Forget, TypeOK
  <2>2. Owns(t, slot[t])' /\ \A j \in Slots \ {slot[t]}, u \in Threads : Owns(u, j) => Owns(u, j)'
    BY <2>1 DEF Owns
  <2> QED
    BY <1>0, <2>1, <2>2 DEF UnitsOut
<1>13. ASSUME NEW t \in Threads,
              \/ Close(t) \/ Exit(t) \/ ReleaseTest(t) \/ ReleaseSkip(t) \/ ReleaseBug(t)
              \/ ReleaseErase(t) \/ FlushTest(t) \/ FlushSkip(t) \/ FlushBug(t)
       PROVE UnitsOut'
  <2>1. /\ pc[t] \notin Claiming /\ UNCHANGED <<sem, held, made>>
        /\ \A u \in Threads \ {t} : pc'[u] = pc[u] /\ slot'[u] = slot[u]
    <3>1. CASE Close(t)
      BY <3>1 DEF Close, CanCall, table, Claiming, TypeOK
    <3>2. CASE Exit(t)
      BY <3>2 DEF Exit, table, Claiming, TypeOK
    <3>3. CASE ReleaseTest(t) \/ ReleaseSkip(t) \/ ReleaseBug(t) \/ ReleaseErase(t)
      BY <3>3 DEF ReleaseTest, ReleaseSkip, ReleaseBug, ReleaseErase, table, Claiming, TypeOK
    <3>4. CASE FlushTest(t) \/ FlushSkip(t) \/ FlushBug(t)
      BY <3>4 DEF FlushTest, FlushSkip, FlushBug, table, Claiming, TypeOK
    <3> QED
      BY <1>13, <3>1, <3>2, <3>3, <3>4
  <2> QED
    BY <2>1, QuietOut
<1> QED
  BY SlotZero, <1>1, <1>2, <1>3, <1>5, <1>6, <1>7, <1>8, <1>9, <1>10, <1>11, <1>12, <1>13
  DEF Next, Call, Proceed, Wake

\* No lost wakeup: whoever sleeps in LOCK or LOCK_WITHTIMEOUT is on the wait list of
\* its mutex, and some thread has that mutex and will call up(); also if processes
\* close the device while they hold or await a mutex.
THEOREM NoLostWakeup == Spec => []SleepersAreQueued
<1>1. Init => UnitsOut
  BY DEF Init, UnitsOut
<1>2. TypeOK /\ Queued /\ Made /\ UnitsOut /\ [Next]_vars => UnitsOut'
  BY UnitsOutStep
<1>3. Spec => []UnitsOut
  BY <1>1, <1>2, TypeCorrect, QueuesInOrder, PTL DEF Spec
<1>4. TypeOK /\ Queued /\ Made /\ UnitsOut => SleepersAreQueued
  <2> SUFFICES ASSUME TypeOK, Queued, Made, UnitsOut, NEW t \in Threads, pc[t] \in Sleeping
               PROVE  /\ \E u \in Threads : Owns(u, slot[t])
                      /\ \E k \in 1 .. Len(sem[slot[t]].wait) : sem[slot[t]].wait[k] = t
    BY DEF SleepersAreQueued, Sleeping
  <2>1. slot[t] \in Slots /\ slot[t] \in made /\ sem[slot[t]].wait \in Seq(Threads)
    BY DEF TypeOK, Made
  <2>2. PICK k \in 1 .. Len(sem[slot[t]].wait) : sem[slot[t]].wait[k] = t
    BY DEF Queued
  <2>3. Len(sem[slot[t]].wait) # 0
    BY <2>1, <2>2
  <2>4. sem[slot[t]].count = 0
    BY <2>1, <2>3 DEF Queued
  <2> QED
    BY <2>1, <2>2, <2>4 DEF UnitsOut
<1> QED
  BY <1>3, <1>4, TypeCorrect, QueuesInOrder, PTL

-----------------------------------------------------------------------------
(***************************************************************************)
(* What holds when no process closes the device while it holds or awaits a *)
(* mutex (Careless = {}); processes may still be killed at any time.       *)
(*                                                                         *)
(* Mutual exclusion alone is not inductive.  That Unlock and Flush call    *)
(* up() for the owner and for nobody else rests on the record naming the   *)
(* owner, and Flush decides by tests it makes without semutex_mutex, one   *)
(* step before the other: that the record is still the one it has tested   *)
(* when it erases it rests on the holder being a thread of the dying       *)
(* process (Target), of which nobody else is in the driver (Exits).  That  *)
(* Release, which runs after Flush, finds nothing left rests on how far    *)
(* the scan of Flush has come (HolderRecorded).  That up() passes the unit *)
(* to one thread that sleeps on that slot rests on the wait lists (Queued).*)
(*                                                                         *)
(* Without the hypothesis this is false: Release leaves the tgid in the    *)
(* record, so that Flush may take the next owner's record for its own.     *)
(***************************************************************************)

\* A thread does not already hold what it is being given or is giving back.
ClaimsOnce == \A t \in Threads : pc[t] \in Claiming => slot[t] \notin held[t]

Exclusive == MutualExclusion /\ UnitConserved /\ ClaimsOnce

\* An ioctl works on the file that its process has open.
OpenFile == \A t \in Threads : pc[t] \notin Closing \cup {"user"} => filp[t] = fd[Proc[t]]

\* The Flush of process P has the file f and has not yet come past slot i.
Flusher(P, i, f) ==
  \E v \in Threads : /\ Proc[v] = P /\ pc[v] \in Flushing /\ filp[v] = f
                     /\ slot[v] <= i /\ (pc[v] = "flush_up" => slot[v] < i)

\* The record of a mutex names its holder, and the file that the holder can
\* unlock it through; a holder that exits will get it unlocked by Flush.
HolderRecorded ==
  \A t \in Threads : \A i \in held[t] :
     /\ mutex_info[i].locked_status /\ mutex_info[i].locked_pid = t
     /\ mutex_info[i].locked_tgid = Proc[t]
     /\ Proc[t] \notin exiting => mutex_info[i].locked_file = fd[Proc[t]] /\ fd[Proc[t]] # NULL
     /\ Proc[t] \in exiting => Flusher(Proc[t], i, mutex_info[i].locked_file)

\* A record that is not erased has a holder.
RecordHeld == \A i \in Slots : mutex_info[i] = Unlocked \/ \E t \in Threads : i \in held[t]

\* What Flush has found locked, a thread of its process holds.
Target ==
  \A t \in Threads : pc[t] \in {"flush_bug", "flush_erase"} =>
     \E u \in Threads : Proc[u] = Proc[t] /\ slot[t] \in held[u]

\* Release finds nothing, and no BUG_ON fires.
Unreached == {"release_bug", "release_up", "erase", "oops"}
NothingLeft == \A t \in Threads : pc[t] \notin Unreached

Careful == OpenFile /\ HolderRecorded /\ RecordHeld /\ Target /\ NothingLeft

IndInv == /\ TypeOK /\ Queued /\ Made /\ FileRefs /\ Exits
          /\ Exclusive /\ Careful

-----------------------------------------------------------------------------
(* The unit of each slot.                                                  *)

\* What is left to show when a step concerns one slot.
LEMMA MoveExclusive ==
  ASSUME Exclusive, NEW i \in Slots, ClaimsOnce', made \in SUBSET Slots,
         made' \subseteq made \cup {i},
         \A j \in made \ {i} : sem'[j].count = sem[j].count,
         \A j \in Slots \ {i}, u \in Threads : Owns(u, j)' <=> Owns(u, j),
         \A u, v \in Threads : Owns(u, i)' /\ Owns(v, i)' => u = v,
         i \in made' => sem'[i].count = IF \E u \in Threads : Owns(u, i)' THEN 0 ELSE 1
  PROVE  Exclusive'
<1>1. MutualExclusion'
  BY DEF Exclusive, MutualExclusion
<1>2. UnitConserved'
  BY DEF Exclusive, UnitConserved
<1> QED
  BY <1>1, <1>2 DEF Exclusive

\* A step that changes no owner and no count.
LEMMA KeepExclusive ==
  ASSUME Exclusive, ClaimsOnce', made \in SUBSET Slots, made' = made,
         \A j \in made : sem'[j].count = sem[j].count,
         \A j \in Slots, u \in Threads : Owns(u, j)' <=> Owns(u, j)
  PROVE  Exclusive'
<1>1. MutualExclusion'
  BY DEF Exclusive, MutualExclusion
<1>2. UnitConserved'
  BY DEF Exclusive, UnitConserved
<1> QED
  BY <1>1, <1>2 DEF Exclusive

\* Threads go in and out of states in which they claim nothing.
LEMMA QuietExclusive ==
  ASSUME TypeOK, Exclusive, made' = made, held' = held,
         \A j \in made : sem'[j].count = sem[j].count,
         \A u \in Threads : \/ pc[u] \in Claiming /\ pc'[u] \in Claiming /\ slot'[u] = slot[u]
                            \/ pc[u] \notin Claiming /\ pc'[u] \notin Claiming
  PROVE  Exclusive'
<1>1. \A j \in Slots, u \in Threads : Owns(u, j)' <=> Owns(u, j)
  BY DEF Owns, Claiming
<1>2. ClaimsOnce'
  BY DEF Exclusive, ClaimsOnce
<1>3. made \in SUBSET Slots
  BY DEF TypeOK
<1> QED
  BY <1>1, <1>2, <1>3, KeepExclusive

\* t takes the unit that the semaphore of slot i has: nobody owns it before.
LEMMA TakeExclusive ==
  ASSUME TypeOK, Exclusive, NEW t \in Threads, NEW i \in made, HasUnit(sem[i]),
         sem' = [sem EXCEPT ![i] = TakeUnit(@)], pc[t] \notin Claiming,
         pc' = [pc EXCEPT ![t] = "granted"], slot'[t] = i,
         \A u \in Threads \ {t} : slot'[u] = slot[u], held' = held, made' = made
  PROVE  Exclusive'
<1>1. made \in SUBSET Slots /\ i \in Slots /\ sem[i].count \in Nat
  BY DEF TypeOK
<1>2. sem[i].count = 1 /\ \A u \in Threads : ~Owns(u, i)
  BY <1>1 DEF HasUnit, Exclusive, UnitConserved
<1>3. sem'[i].count = 0 /\ \A j \in made \ {i} : sem'[j].count = sem[j].count
  BY <1>1, <1>2 DEF TakeUnit, TypeOK
<1>4. pc'[t] = "granted" /\ \A u \in Threads \ {t} : pc'[u] = pc[u]
  BY DEF TypeOK
<1>5. \A j \in Slots \ {i}, u \in Threads : Owns(u, j)' <=> Owns(u, j)
  BY <1>4 DEF Owns, Claiming
<1>6. \A u \in Threads : Owns(u, i)' <=> u = t
  BY <1>2, <1>4 DEF Owns
<1>7. ClaimsOnce'
  BY <1>2, <1>4 DEF Exclusive, ClaimsOnce, Owns
<1> QED
  BY <1>1, <1>3, <1>5, <1>6, <1>7, MoveExclusive

\* up() by t on a slot that is owned: the unit goes to the first waiter or back
\* into the semaphore, once nobody who had it keeps it.
LEMMA UpExclusive ==
  ASSUME TypeOK, Queued, Exclusive, NEW t \in Threads, NEW i \in made, NEW next,
         \E u \in Threads : Owns(u, i),
         sem' = [sem EXCEPT ![i] = up(@)], pc' = PcAfterUp(t, i, next),
         pc[t] \notin Sleeping, next \notin Claiming,
         \A u \in Threads \ {t} : slot'[u] = slot[u], made' = made,
         \A u \in Threads : held'[u] = held[u] \ {i},
         pc[t] \in Claiming => slot[t] = i,
         \A u \in Threads \ {t} : pc[u] \in Claiming => slot[u] # i
  PROVE  Exclusive'
<1>1. made \in SUBSET Slots /\ i \in Slots /\ sem[i] \in Semaphore /\ sem \in [Slots -> Semaphore]
  BY DEF TypeOK, Semaphore
<1>2. sem[i].count = 0
  BY DEF Exclusive, UnitConserved
<1>3. /\ sem'[i] = up(sem[i])
      /\ \A j \in made \ {i} : sem'[j].count = sem[j].count
  BY <1>1
<1>4. sem'[i].count = IF Woken(sem[i]) = {} THEN 1 ELSE 0
  <2>1. CASE Len(sem[i].wait) = 0
    BY <1>1, <1>2, <1>3, <2>1, UpElements
  <2>2. CASE Len(sem[i].wait) # 0
    BY <1>1, <1>2, <1>3, <2>2, UpElements
  <2> QED
    BY <2>1, <2>2
<1>5. \A u \in Threads : pc'[u] = IF u = t THEN next
                                  ELSE IF u \in Woken(sem[i]) THEN "granted" ELSE pc[u]
  BY DEF PcAfterUp
<1>6. \A u \in Woken(sem[i]) : u \in Threads /\ u # t /\ pc[u] \in Sleeping /\ slot[u] = i
  BY <1>1, WokenSleeps
<1>7. \A u, v \in Woken(sem[i]) : u = v
  BY DEF Woken
<1>8. \A j \in Slots \ {i}, u \in Threads : Owns(u, j)' <=> Owns(u, j)
  BY <1>5, <1>6 DEF Owns, Claiming, Sleeping
<1>9. \A u \in Threads : Owns(u, i)' <=> u \in Woken(sem[i])
  BY <1>5, <1>6 DEF Owns, Claiming
<1>10. ClaimsOnce'
  BY <1>5, <1>6 DEF Exclusive, ClaimsOnce
<1>11. i \in made' => sem'[i].count = IF \E u \in Threads : Owns(u, i)' THEN 0 ELSE 1
  BY <1>4, <1>6, <1>9
<1> QED
  BY <1>1, <1>3, <1>7, <1>8, <1>9, <1>10, <1>11, MoveExclusive

\* CREATE_MUTEX gives slot i its semaphore: nobody can own the slot before.
LEMMA CreateExclusive ==
  ASSUME TypeOK, Made, Exclusive, NEW t \in Threads, NEW n \in Names, NEW i \in Slots,
         CreateMutex(t, n, i)
  PROVE  Exclusive'
<1>1. UNCHANGED <<pc, slot, held>> /\ made \in SUBSET Slots
  BY DEF CreateMutex, tasks, TypeOK
<1>2. CASE UNCHANGED <<made, sem>>
  BY <1>1, <1>2, QuietExclusive
<1>3. CASE i \notin made /\ made' = made \cup {i} /\ sem' = [sem EXCEPT ![i] = sema_init(1)]
  <2>1. \A u \in Threads : ~Owns(u, i)
    BY <1>3 DEF Made, Owns, Claiming
  <2>2. sem'[i].count = 1 /\ \A j \in made \ {i} : sem'[j].count = sem[j].count
    BY <1>3 DEF sema_init, TypeOK
  <2>3. \A j \in Slots, u \in Threads : Owns(u, j)' <=> Owns(u, j)
    BY <1>1 DEF Owns
  <2>4. ClaimsOnce'
    BY <1>1 DEF Exclusive, ClaimsOnce
  <2> QED
    BY <1>1, <1>3, <2>1, <2>2, <2>3, <2>4, MoveExclusive
<1> QED
  BY <1>2, <1>3 DEF CreateMutex

\* The owner is written down: what t was given it now holds.
LEMMA RecordOwnerExclusive ==
  ASSUME TypeOK, Exclusive, NEW t \in Threads, RecordOwner(t)
  PROVE  Exclusive'
<1>1. /\ pc[t] = "granted" /\ pc'[t] \notin Claiming /\ sem' = sem
      /\ held'[t] = held[t] \cup {slot[t]} /\ made' = made /\ made \in SUBSET Slots
      /\ \A u \in Threads \ {t} : pc'[u] = pc[u] /\ slot'[u] = slot[u] /\ held'[u] = held[u]
  BY DEF RecordOwner, ReturnPc, Claiming, TypeOK
<1>2. \A j \in Slots, u \in Threads : Owns(u, j)' <=> Owns(u, j)
  BY <1>1 DEF Owns, Claiming
<1>3. ClaimsOnce'
  BY <1>1 DEF Exclusive, ClaimsOnce
<1> QED
  BY <1>1, <1>2, <1>3, KeepExclusive

\* The thread that a record names holds the mutex, and nobody else has a claim.
LEMMA RecordedOwner ==
  ASSUME Careful, Exclusive, NEW i \in Slots, mutex_info[i].locked_status
  PROVE  /\ mutex_info[i].locked_pid \in Threads
         /\ i \in held[mutex_info[i].locked_pid]
         /\ mutex_info[i].locked_tgid = Proc[mutex_info[i].locked_pid]
         /\ \A u \in Threads : pc[u] \in Claiming => slot[u] # i
         /\ \A u \in Threads : i \in held[u] => u = mutex_info[i].locked_pid
<1>1. PICK t \in Threads : i \in held[t]
  BY DEF Careful, RecordHeld, Unlocked
<1>2. mutex_info[i].locked_pid = t /\ mutex_info[i].locked_tgid = Proc[t]
  BY <1>1 DEF Careful, HolderRecorded
<1>3. \A u \in Threads : Owns(u, i) => u = t
  BY <1>1 DEF Exclusive, MutualExclusion, Owns
<1>4. \A u \in Threads : pc[u] \in Claiming => slot[u] # i
  BY <1>1, <1>3 DEF Exclusive, ClaimsOnce, Owns, Claiming
<1>5. \A u \in Threads : i \in held[u] => u = t
  BY <1>3 DEF Owns
<1> QED
  BY <1>1, <1>2, <1>4, <1>5

\* UNLOCK erases the record of a mutex that the caller does hold.
LEMMA UnlockExclusive ==
  ASSUME TypeOK, Careful, Exclusive, NEW t \in Threads, NEW i \in Slots, Unlock(t, i)
  PROVE  Exclusive'
<1>1. /\ pc[t] = "user" /\ pc'[t] = "up" /\ slot'[t] = i /\ held'[t] = held[t] \ {i}
      /\ \A u \in Threads \ {t} : pc'[u] = pc[u] /\ slot'[u] = slot[u] /\ held'[u] = held[u]
      /\ sem' = sem /\ made' = made /\ made \in SUBSET Slots
  BY DEF Unlock, CanCall, TypeOK
<1>2. i \in held[t]
  BY RecordedOwner DEF Unlock, MayUnlock
<1>3. \A j \in Slots, u \in Threads : Owns(u, j)' <=> Owns(u, j)
  BY <1>1, <1>2 DEF Owns
<1>4. ClaimsOnce'
  BY <1>1 DEF Exclusive, ClaimsOnce
<1> QED
  BY <1>1, <1>3, <1>4, KeepExclusive

\* Flush erases the record of a mutex that its own process holds; from then on it
\* is t that has the unit.
LEMMA FlushEraseExclusive ==
  ASSUME TypeOK, Careful, Exclusive, NEW t \in Threads, FlushErase(t)
  PROVE  Exclusive'
<1>1. PICK i \in Slots : i = slot[t]
  BY DEF TypeOK
<1>2. /\ pc[t] = "flush_erase" /\ pc'[t] = "flush_up" /\ slot' = slot
      /\ made' = made /\ sem' = sem /\ made \in SUBSET Slots /\ held' = Forget(Proc[t], i)
      /\ \A u \in Threads \ {t} : pc'[u] = pc[u]
  BY <1>1 DEF FlushErase, TypeOK
<1>3. PICK w \in Threads : Proc[w] = Proc[t] /\ i \in held[w]
  BY <1>1, <1>2 DEF Careful, Target
<1>4. mutex_info[i].locked_status /\ mutex_info[i].locked_pid = w
  BY <1>3 DEF Careful, HolderRecorded
<1>5. /\ \A u \in Threads : pc[u] \in Claiming => slot[u] # i
      /\ \A u \in Threads : i \in held[u] => u = w
  BY <1>4, RecordedOwner
<1>6. \A u \in Threads : held'[u] = held[u] \ {i}
  BY <1>2, <1>3, <1>5 DEF Forget
<1>7. \A j \in Slots \ {i}, u \in Threads : Owns(u, j)' <=> Owns(u, j)
  BY <1>1, <1>2, <1>6 DEF Owns
<1>8. \A u \in Threads : Owns(u, i)' <=> u = t
  BY <1>1, <1>2, <1>5, <1>6 DEF Owns, Claiming
<1>9. ClaimsOnce'
  BY <1>1, <1>2, <1>6 DEF Exclusive, ClaimsOnce
<1>10. i \in made => sem[i].count = 0
  BY <1>3 DEF Exclusive, UnitConserved, Owns
<1> QED
  BY <1>2, <1>7, <1>8, <1>9, <1>10, MoveExclusive

\* The unit is where it should be after every step.
LEMMA ExclusiveStep ==
  ASSUME TypeOK, Queued, Made, Careful, Exclusive, [Next]_vars
  PROVE  Exclusive'
<1> USE ProcAssumption
<1>0. made \in SUBSET Slots /\ sem \in [Slots -> Semaphore]
  BY DEF TypeOK, Semaphore
<1>1. CASE UNCHANGED vars
  BY <1>1, QuietExclusive DEF vars
<1>2. ASSUME NEW t \in Threads, NEW f \in Files, Open(t, f) PROVE Exclusive'
  BY <1>2, QuietExclusive DEF Open, table, tasks
<1>3. ASSUME NEW t \in Threads, NEW n \in Names, NEW i \in Slots, CreateMutex(t, n, i)
      PROVE Exclusive'
  BY <1>3, CreateExclusive
<1>4. ASSUME NEW t \in Threads, NEW i \in Slots, DelMutex(t, i) PROVE Exclusive'
  BY <1>4, QuietExclusive DEF DelMutex, tasks
<1>5. ASSUME NEW t \in Threads, NEW i \in made, NEW w \in Sleeping, Down(t, i, w),
             pc[t] \notin Claiming, slot'[t] = i, UNCHANGED <<held, made>>,
             \A u \in Threads \ {t} : slot'[u] = slot[u]
      PROVE Exclusive'
  <2>1. CASE HasUnit(sem[i])
    <3>1. sem' = [sem EXCEPT ![i] = TakeUnit(@)] /\ pc' = [pc EXCEPT ![t] = "granted"]
      BY <1>0, <1>5, <2>1 DEF Down, down
    <3> QED
      BY <1>5, <2>1, <3>1, TakeExclusive
  <2>2. CASE ~HasUnit(sem[i])
    <3>1. sem' = [sem EXCEPT ![i] = Enqueue(@, t)] /\ pc' = [pc EXCEPT ![t] = w]
      BY <1>0, <1>5, <2>2 DEF Down, down
    <3>2. \A j \in made : sem'[j].count = sem[j].count
      BY <1>0, <3>1 DEF Enqueue, Semaphore
    <3>3. pc'[t] \notin Claiming /\ \A u \in Threads \ {t} : pc'[u] = pc[u]
      BY <1>5, <3>1 DEF TypeOK, Claiming, Sleeping
    <3> QED
      BY <1>5, <3>2, <3>3, QuietExclusive
  <2> QED
    BY <2>1, <2>2
<1>6. ASSUME NEW t \in Threads, NEW i \in Slots, NEW w \in {"lock", "timed"}, Lock(t, i, w)
      PROVE Exclusive'
  <2>1. /\ i \in made /\ w \in Sleeping /\ Down(t, i, w) /\ pc[t] \notin Claiming
        /\ slot'[t] = i /\ UNCHANGED <<held, made>>
        /\ \A u \in Threads \ {t} : slot'[u] = slot[u]
    BY <1>6 DEF Lock, CanCall, Sleeping, Claiming, TypeOK
  <2> QED
    BY <1>5, <2>1
<1>7. ASSUME NEW t \in Threads, LockRetry(t) PROVE Exclusive'
  <2>1. /\ slot[t] \in made /\ "lock" \in Sleeping /\ Down(t, slot[t], "lock")
        /\ pc[t] \notin Claiming /\ slot' = slot /\ UNCHANGED <<held, made>>
    BY <1>7 DEF LockRetry, Sleeping, Claiming, Made
  <2> QED
    BY <1>5, <2>1
<1>8. ASSUME NEW t \in Threads, NEW i \in Slots, TryLock(t, i) PROVE Exclusive'
  <2>1. slot'[t] = i /\ \A u \in Threads \ {t} : slot'[u] = slot[u]
    BY <1>8 DEF TryLock, TypeOK
  <2> QED
    BY <1>8, <2>1, TakeExclusive DEF TryLock, CanCall, Claiming
<1>9. ASSUME NEW t \in Threads, RecordOwner(t) PROVE Exclusive'
  BY <1>9, RecordOwnerExclusive
<1>10. ASSUME NEW t \in Threads, NEW k \in 1 .. Len(sem[slot[t]].wait),
              TimedOut(t, k) \/ LockTimeout(t, k) \/ Interrupted(t, k)
       PROVE Exclusive'
  <2>1. /\ pc[t] \notin Claiming /\ pc'[t] \notin Claiming /\ GiveUp(t, k)
        /\ UNCHANGED <<held, made>>
        /\ \A u \in Threads \ {t} : pc'[u] = pc[u] /\ slot'[u] = slot[u]
    BY <1>10 DEF TimedOut, LockTimeout, Interrupted, ReturnPc, Claiming, TypeOK
  <2>2. \A j \in made : sem'[j].count = sem[j].count
    BY <1>0, <2>1 DEF GiveUp, list_del, Semaphore
  <2> QED
    BY <2>1, <2>2, QuietExclusive
<1>11. ASSUME NEW t \in Threads, NEW i \in Slots, Unlock(t, i) PROVE Exclusive'
  BY <1>11, UnlockExclusive
<1>12. ASSUME NEW t \in Threads, UnlockUp(t) \/ FlushUp(t) PROVE Exclusive'
  <2> DEFINE next == IF UnlockUp(t) THEN ReturnPc(t) ELSE NextPc(t, "flush", "release")
  <2>1. pc[t] \in {"up", "flush_up"} /\ next \notin Claiming /\ pc[t] \notin Sleeping
    BY <1>12 DEF UnlockUp, FlushUp, ReturnPc, NextPc, Claiming, Sleeping
  <2>2. /\ sem' = [sem EXCEPT ![slot[t]] = up(@)] /\ UNCHANGED <<held, made>>
        /\ pc' = PcAfterUp(t, slot[t], next) /\ \A u \in Threads \ {t} : slot'[u] = slot[u]
    BY <1>12 DEF UnlockUp, FlushUp, TypeOK
  <2>3. slot[t] \in made /\ slot[t] \in Slots
    BY <1>0, <2>1 DEF Made, Claiming
  <2>4. Owns(t, slot[t])
    BY <2>1 DEF Owns
  <2>5. \A u \in Threads : Owns(u, slot[t]) => u = t
    BY <2>3, <2>4 DEF Exclusive, MutualExclusion
  <2>6. \A u \in Threads \ {t} : pc[u] \in Claiming => slot[u] # slot[t]
    BY <2>5 DEF Owns, Claiming
  <2>7. \A u \in Threads : held'[u] = held[u] \ {slot[t]}
    <3>1. \A u \in Threads : slot[t] \notin held[u]
      BY <2>1, <2>5 DEF Owns, Exclusive, ClaimsOnce, Claiming
    <3> QED
      BY <2>2, <3>1
  <2> HIDE DEF next
  <2> QED
    BY <2>1, <2>2, <2>3, <2>4, <2>6, <2>7, UpExclusive
<1>13. ASSUME NEW t \in Threads, Close(t) \/ Exit(t) \/ ReleaseTest(t) \/ ReleaseSkip(t) \/ FlushTest(t)
                                \/ FlushSkip(t) \/ FlushBug(t)
       PROVE Exclusive'
  <2>1. /\ pc[t] \notin Claiming /\ pc'[t] \notin Claiming /\ UNCHANGED <<sem, held, made>>
        /\ \A u \in Threads \ {t} : pc'[u] = pc[u] /\ slot'[u] = slot[u]
    <3>1. CASE Close(t)
      BY <3>1 DEF Close, CanCall, table, Claiming, TypeOK
    <3>2. CASE Exit(t)
      BY <3>2 DEF Exit, table, Claiming, TypeOK
    <3>3. CASE ReleaseTest(t) \/ ReleaseSkip(t)
      BY <3>3 DEF ReleaseTest, ReleaseSkip, NextPc, table, Claiming, TypeOK
    <3>4. CASE FlushTest(t) \/ FlushSkip(t) \/ FlushBug(t)
      BY <3>4 DEF FlushTest, FlushSkip, FlushBug, NextPc, table, Claiming, TypeOK
    <3> QED
      BY <1>13, <3>1, <3>2, <3>3, <3>4
  <2> QED
    BY <2>1, QuietExclusive
<1>14. ASSUME NEW t \in Threads, ReleaseBug(t) \/ ReleaseUp(t) \/ ReleaseErase(t) PROVE FALSE
  BY <1>14 DEF ReleaseBug, ReleaseUp, ReleaseErase, Careful, NothingLeft, Unreached
<1>15. ASSUME NEW t \in Threads, FlushErase(t) PROVE Exclusive'
  BY <1>15, FlushEraseExclusive
<1> QED
  BY <1>1, <1>2, <1>3, <1>4, <1>6, <1>7, <1>8, <1>9, <1>10, <1>11, <1>12, <1>13, <1>14, <1>15
  DEF Next, Call, Proceed, Wake

-----------------------------------------------------------------------------
(* The records.                                                            *)

\* u is in an ioctl only with the open file, and neither enters, leaves nor
\* continues Flush.
Mild(u) == /\ pc'[u] \notin Closing \cup {"user"} => filp'[u] = fd[Proc[u]]
           /\ pc[u] \in Flushing \/ pc'[u] \in Flushing
              => pc'[u] = pc[u] /\ slot'[u] = slot[u] /\ filp'[u] = filp[u]
           /\ pc'[u] \notin Unreached

\* A thread that takes no step is Mild, and so is one that is handed a unit.
LEMMA RestMild ==
  ASSUME Careful, NEW u \in Threads, filp'[u] = filp[u], slot'[u] = slot[u],
         pc'[u] = pc[u] \/ (pc[u] \in Sleeping /\ pc'[u] = "granted")
  PROVE  Mild(u)
BY DEF Careful, OpenFile, NothingLeft, Unreached, Mild, Closing, Flushing, Sleeping

\* The threads that up() wakes are Mild.
LEMMA UpMild ==
  ASSUME TypeOK, Queued, Careful, NEW t \in Threads, NEW i \in Slots, NEW next,
         pc' = PcAfterUp(t, i, next),
         \A u \in Threads \ {t} : filp'[u] = filp[u] /\ slot'[u] = slot[u]
  PROVE  pc'[t] = next /\ \A u \in Threads \ {t} : Mild(u)
<1>1. pc'[t] = next
  BY DEF PcAfterUp
<1>2. ASSUME NEW u \in Threads \ {t} PROVE Mild(u)
  <2>1. CASE u \in Woken(sem[i])
    <3>1. pc[u] \in Sleeping /\ pc'[u] = "granted"
      BY <2>1, WokenSleeps DEF PcAfterUp
    <3> QED
      BY <3>1, RestMild
  <2>2. CASE u \notin Woken(sem[i])
    <3>1. pc'[u] = pc[u]
      BY <2>2 DEF PcAfterUp
    <3> QED
      BY <3>1, RestMild
  <2> QED
    BY <2>1, <2>2
<1> QED
  BY <1>1, <1>2

\* Where t leaves a Flush that all others leave alone.
LEMMA FlusherStays ==
  ASSUME NEW t \in Threads, NEW P, NEW i \in Slots, NEW f, Flusher(P, i, f),
         \A u \in Threads \ {t} : Mild(u),
         Mild(t) \/ (Proc[t] = P /\ pc[t] \in Flushing /\ filp[t] = f /\ slot[t] <= i
                     /\ (pc[t] = "flush_up" => slot[t] < i)
                     => /\ pc'[t] \in Flushing /\ filp'[t] = f /\ slot'[t] <= i
                        /\ (pc'[t] = "flush_up" => slot'[t] < i))
  PROVE  Flusher(P, i, f)'
<1>1. PICK v \in Threads : /\ Proc[v] = P /\ pc[v] \in Flushing /\ filp[v] = f
                           /\ slot[v] <= i /\ (pc[v] = "flush_up" => slot[v] < i)
  BY DEF Flusher
<1>2. CASE Mild(v)
  BY <1>1, <1>2 DEF Mild, Flusher
<1>3. CASE v = t
  BY <1>1, <1>2, <1>3 DEF Flusher
<1> QED
  BY <1>2, <1>3

\* Records, holders and files stay, and so does every Flush.
LEMMA QuietCareful ==
  ASSUME TypeOK, Careful, mutex_info' = mutex_info, held' = held, fd' = fd, exiting' = exiting,
         \A u \in Threads : Mild(u)
  PROVE  Careful'
<1>1. OpenFile' /\ NothingLeft'
  BY DEF Careful, OpenFile, NothingLeft, Mild
<1>2. HolderRecorded'
  <2>1. ASSUME NEW u \in Threads, NEW i \in held[u], Proc[u] \in exiting
        PROVE  Flusher(Proc[u], i, mutex_info[i].locked_file)'
    <3>1. Flusher(Proc[u], i, mutex_info[i].locked_file) /\ i \in Slots
      BY <2>1 DEF Careful, HolderRecorded, TypeOK
    <3>2. PICK f : f = mutex_info[i].locked_file
      OBVIOUS
    <3>3. Flusher(Proc[u], i, f)'
      BY <3>1, <3>2, FlusherStays
    <3> QED
      BY <3>2, <3>3
  <2> QED
    BY <2>1 DEF Careful, HolderRecorded
<1>3. RecordHeld'
  BY DEF Careful, RecordHeld
<1>4. Target'
  BY DEF Careful, Target, Mild, Flushing
<1> QED
  BY <1>1, <1>2, <1>3, <1>4 DEF Careful

\* The file of an ioctl is still open when it ends, so it does not run Release.
LEMMA ReturnsToUser ==
  ASSUME Careful, NEW t \in Threads, pc[t] \notin Closing \cup {"user"}
  PROVE  ReturnPc(t) = "user" /\ ReturnFilp(t) = NULL
BY DEF Careful, OpenFile, ReturnPc, ReturnFilp, LastRef

\* Release finds nothing to unlock: who holds a mutex has its file open, or is in
\* Flush with it.
LEMMA NoneThrough ==
  ASSUME IndInv, NEW t \in Threads, pc[t] = "release", NEW i \in Slots
  PROVE  mutex_info[i].locked_file # filp[t]
<1> SUFFICES ASSUME mutex_info[i].locked_file = filp[t] PROVE FALSE
  OBVIOUS
<1>1. /\ filp[t] # NULL /\ \A p \in Procs : fd[p] # filp[t]
      /\ \A u \in Threads \ {t} : filp[u] # filp[t]
  BY DEF IndInv, FileRefs, Closing
<1>2. PICK u \in Threads : i \in held[u]
  BY <1>1 DEF IndInv, Careful, RecordHeld, Unlocked
<1>3. Proc[u] \in Procs
  BY ProcAssumption
<1>4. CASE Proc[u] \notin exiting
  BY <1>1, <1>2, <1>3, <1>4 DEF IndInv, Careful, HolderRecorded
<1>5. CASE Proc[u] \in exiting
  <2>1. PICK v \in Threads : pc[v] \in Flushing /\ filp[v] = filp[t]
    BY <1>2, <1>5 DEF IndInv, Careful, HolderRecorded, Flusher
  <2> QED
    BY <1>1, <2>1 DEF Flushing
<1> QED
  BY <1>4, <1>5

\* A holder is recorded; nobody else holds the mutex.
LEMMA RecordOwnerCareful ==
  ASSUME IndInv, NEW t \in Threads, RecordOwner(t)
  PROVE  Careful'
<1>0. TypeOK /\ Careful
  BY DEF IndInv
<1>1. PICK i \in Slots : i = slot[t]
  BY <1>0 DEF TypeOK
<1>2. /\ pc[t] = "granted" /\ pc'[t] = "user" /\ fd' = fd /\ exiting' = exiting
      /\ mutex_info'[i] = LockedBy(t, filp[t]) /\ held'[t] = held[t] \cup {i}
      /\ \A j \in Slots \ {i} : mutex_info'[j] = mutex_info[j]
      /\ \A u \in Threads \ {t} : /\ pc'[u] = pc[u] /\ filp'[u] = filp[u]
                                 /\ held'[u] = held[u] /\ slot'[u] = slot[u]
  BY <1>0, <1>1, ReturnsToUser DEF RecordOwner, TypeOK, Closing, Flushing
<1>3. filp[t] = fd[Proc[t]] /\ filp[t] # NULL /\ Proc[t] \notin exiting
  BY <1>2 DEF Careful, OpenFile, IndInv, FileRefs, Exits, Closing, Flushing
<1>4. \A u \in Threads \ {t} : i \notin held[u]
  BY <1>1, <1>2 DEF IndInv, Exclusive, MutualExclusion, Owns
<1>5. \A u \in Threads : held[u] \subseteq Slots
  BY <1>0 DEF TypeOK
<1>6. \A u \in Threads : Mild(u)
  <2>1. Mild(t)
    BY <1>2 DEF Mild, Unreached, Flushing
  <2> QED
    BY <1>0, <1>2, <2>1, RestMild
<1>7. OpenFile' /\ NothingLeft'
  BY <1>6, <1>2 DEF OpenFile, NothingLeft, Mild
<1>8. HolderRecorded'
  <2>1. ASSUME NEW u \in Threads, NEW j \in held'[u], j # i
        PROVE  j \in held[u] /\ j \in Slots /\ mutex_info'[j] = mutex_info[j]
    BY <1>2, <1>5, <2>1
  <2>2. ASSUME NEW u \in Threads, i \in held'[u] PROVE u = t
    BY <1>2, <1>4, <2>2
  <2>3. /\ mutex_info'[i].locked_status /\ mutex_info'[i].locked_pid = t
        /\ mutex_info'[i].locked_tgid = Proc[t] /\ mutex_info'[i].locked_file = fd[Proc[t]]
    BY <1>2, <1>3 DEF LockedBy
  <2>4. ASSUME NEW u \in Threads, NEW j \in held'[u], Proc[u] \in exiting
        PROVE  Flusher(Proc[u], j, mutex_info[j].locked_file)'
    <3>1. j # i
      BY <1>3, <2>2, <2>4
    <3>2. j \in held[u] /\ j \in Slots /\ mutex_info'[j] = mutex_info[j]
      BY <2>1, <3>1
    <3>3. PICK f : f = mutex_info[j].locked_file
      OBVIOUS
    <3>4. Flusher(Proc[u], j, f)
      BY <1>0, <2>4, <3>2, <3>3 DEF Careful, HolderRecorded
    <3>5. Flusher(Proc[u], j, f)'
      BY <1>6, <3>2, <3>4, FlusherStays
    <3> QED
      BY <3>2, <3>3, <3>5
  <2> QED
    BY <1>0, <1>2, <1>3, <2>1, <2>2, <2>3, <2>4 DEF Careful, HolderRecorded
<1>9. RecordHeld'
  BY <1>0, <1>2 DEF Careful, RecordHeld
<1>10. Target'
  BY <1>0, <1>2, <1>6 DEF Careful, Target, Mild, Flushing
<1> QED
  BY <1>7, <1>8, <1>9, <1>10 DEF Careful

\* A record is erased together with its holder: Unlock and Flush.
LEMMA EraseCareful ==
  ASSUME TypeOK, Careful, NEW i \in Slots, mutex_info' = [mutex_info EXCEPT ![i] = Unlocked],
         fd' = fd, exiting' = exiting, \A u \in Threads : held'[u] \subseteq held[u],
         \A u \in Threads : held[u] \ {i} \subseteq held'[u],
         \A u \in Threads : i \notin held'[u], OpenFile', NothingLeft', Target',
         \A u \in Threads : \A j \in held[u] \ {i} : \A f :
            Proc[u] \in exiting /\ Flusher(Proc[u], j, f) => Flusher(Proc[u], j, f)'
  PROVE  Careful'
<1>1. mutex_info'[i] = Unlocked /\ \A j \in Slots \ {i} : mutex_info'[j] = mutex_info[j]
  BY DEF TypeOK
<1>2. \A u \in Threads : held[u] \subseteq Slots
  BY DEF TypeOK
<1>3. HolderRecorded'
  <2>1. ASSUME NEW u \in Threads, NEW j \in held'[u]
        PROVE  j \in held[u] \ {i} /\ mutex_info'[j] = mutex_info[j]
    BY <1>1, <1>2
  <2>2. ASSUME NEW u \in Threads, NEW j \in held'[u], Proc[u] \in exiting
        PROVE  Flusher(Proc[u], j, mutex_info[j].locked_file)'
    <3>1. PICK f : f = mutex_info[j].locked_file
      OBVIOUS
    <3>2. j \in held[u] \ {i} /\ mutex_info'[j] = mutex_info[j]
      BY <2>1
    <3>3. Flusher(Proc[u], j, f)
      BY <2>2, <3>1, <3>2 DEF Careful, HolderRecorded
    <3>4. Flusher(Proc[u], j, f)'
      BY <2>2, <3>2, <3>3
    <3> QED
      BY <3>1, <3>2, <3>4
  <2> QED
    BY <2>1, <2>2 DEF Careful, HolderRecorded
<1>4. RecordHeld'
  BY <1>1 DEF Careful, RecordHeld
<1> QED
  BY <1>3, <1>4 DEF Careful

\* Unlock erases the record of the caller and its claim to hold the mutex.
LEMMA UnlockCareful ==
  ASSUME IndInv, NEW t \in Threads, NEW i \in Slots, Unlock(t, i)
  PROVE  Careful'
<1>0. TypeOK /\ Careful
  BY DEF IndInv
<1>1. /\ mutex_info' = [mutex_info EXCEPT ![i] = Unlocked] /\ fd' = fd /\ exiting' = exiting
      /\ mutex_info[i].locked_pid = t /\ held'[t] = held[t] \ {i} /\ Proc[t] \notin exiting
      /\ pc[t] = "user" /\ pc'[t] = "up" /\ filp'[t] = fd[Proc[t]]
      /\ \A u \in Threads \ {t} : /\ pc'[u] = pc[u] /\ filp'[u] = filp[u]
                                 /\ held'[u] = held[u] /\ slot'[u] = slot[u]
  BY <1>0 DEF Unlock, CanCall, MayUnlock, TypeOK
<1>2. \A u \in Threads : Mild(u)
  <2>1. Mild(t)
    BY <1>1 DEF Mild, Flushing, Unreached
  <2> QED
    BY <1>0, <1>1, <2>1, RestMild
<1>3. \A u \in Threads \ {t} : i \notin held[u]
  BY <1>0, <1>1 DEF Careful, HolderRecorded
<1>4. \A u \in Threads : /\ held'[u] \subseteq held[u] /\ held[u] \ {i} \subseteq held'[u]
                         /\ i \notin held'[u]
  BY <1>1, <1>3
<1>5. OpenFile' /\ NothingLeft'
  BY <1>1, <1>2 DEF OpenFile, NothingLeft, Mild
<1>6. Target'
  <2>1. ASSUME NEW u \in Threads, pc'[u] \in {"flush_bug", "flush_erase"}
        PROVE  \E v \in Threads : Proc[v] = Proc[u] /\ slot'[u] \in held'[v]
    <3>1. pc[u] = pc'[u] /\ slot'[u] = slot[u]
      BY <1>2, <2>1 DEF Mild, Flushing
    <3>2. PICK v \in Threads : Proc[v] = Proc[u] /\ slot[u] \in held[v]
      BY <1>0, <2>1, <3>1 DEF Careful, Target
    <3>3. Proc[u] \in exiting
      BY <2>1, <3>1 DEF IndInv, Exits, Flushing
    <3> QED
      BY <1>1, <3>1, <3>2, <3>3
  <2> QED
    BY <2>1 DEF Target
<1>7. ASSUME NEW u \in Threads, NEW j \in held[u] \ {i}, NEW f, Flusher(Proc[u], j, f)
      PROVE  Flusher(Proc[u], j, f)'
  <2>1. j \in Slots
    BY <1>0 DEF TypeOK
  <2> QED
    BY <1>2, <1>7, <2>1, FlusherStays
<1> QED
  BY <1>0, <1>1, <1>4, <1>5, <1>6, <1>7, EraseCareful

\* Flush erases the record of a mutex that a thread of its process holds.
LEMMA FlushEraseCareful ==
  ASSUME IndInv, NEW t \in Threads, FlushErase(t)
  PROVE  Careful'
<1>0. TypeOK /\ Careful
  BY DEF IndInv
<1>1. PICK i \in Slots : i = slot[t]
  BY <1>0 DEF TypeOK
<1>2. /\ mutex_info' = [mutex_info EXCEPT ![i] = Unlocked] /\ fd' = fd /\ exiting' = exiting
      /\ held' = Forget(Proc[t], i) /\ filp' = filp /\ slot' = slot
      /\ pc[t] = "flush_erase" /\ pc'[t] = "flush_up" /\ \A v \in Threads \ {t} : pc'[v] = pc[v]
  BY <1>0, <1>1 DEF FlushErase, TypeOK
<1>3. \A v \in Threads \ {t} : Mild(v)
  BY <1>0, <1>2, RestMild
<1>4. mutex_info[i].locked_tgid = Proc[t]
  BY <1>0, <1>1, <1>2 DEF Careful, Target, HolderRecorded
<1>5. \A v \in Threads : i \in held[v] => Proc[v] = Proc[t]
  BY <1>0, <1>4 DEF Careful, HolderRecorded
<1>6. \A v \in Threads : /\ held'[v] \subseteq held[v] /\ held[v] \ {i} \subseteq held'[v]
                         /\ i \notin held'[v]
  BY <1>2, <1>5 DEF Forget
<1>7. OpenFile' /\ NothingLeft'
  BY <1>2, <1>3 DEF OpenFile, NothingLeft, Mild, Closing, Flushing, Unreached
<1>8. Target'
  <2>1. ASSUME NEW u \in Threads, pc'[u] \in {"flush_bug", "flush_erase"}
        PROVE  \E v \in Threads : Proc[v] = Proc[u] /\ slot'[u] \in held'[v]
    <3>1. pc[u] = pc'[u] /\ u # t
      BY <1>2, <2>1
    <3>2. PICK v \in Threads : Proc[v] = Proc[u] /\ slot[u] \in held[v]
      BY <1>0, <2>1, <3>1 DEF Careful, Target
    <3>3. Proc[u] # Proc[t]
      BY <1>2, <2>1, <3>1 DEF IndInv, Exits, Flushing
    <3> QED
      BY <1>2, <3>2, <3>3 DEF Forget
  <2> QED
    BY <2>1 DEF Target
<1>9. ASSUME NEW u \in Threads, NEW j \in held[u] \ {i}, NEW f, Flusher(Proc[u], j, f)
      PROVE  Flusher(Proc[u], j, f)'
  <2>1. j \in Slots /\ slot[t] \in Nat /\ j \in Nat
    BY <1>0, SlotsAssumption DEF TypeOK, Slots
  <2>2. slot[t] <= j => slot[t] < j
    BY <1>1, <1>9, <2>1
  <2>3. pc'[t] \in Flushing
    BY <1>2 DEF Flushing
  <2> QED
    BY <1>2, <1>3, <1>9, <2>1, <2>2, <2>3, FlusherStays
<1> QED
  BY <1>0, <1>2, <1>6, <1>7, <1>8, <1>9, EraseCareful

\* Flush goes on: what its process still holds is at the slots to come.
LEMMA FlushMoves ==
  ASSUME TypeOK, Careful, NEW t \in Threads, pc[t] \in Flushing,
         mutex_info' = mutex_info, held' = held, fd' = fd, exiting' = exiting,
         filp'[t] = filp[t], pc'[t] \in (Flushing \ {"flush_up"}) \cup {"release"},
         \A u \in Threads \ {t} : Mild(u),
         \A u \in Threads : \A j \in held[u] :
            Proc[u] = Proc[t] /\ slot[t] <= j /\ (pc[t] = "flush_up" => slot[t] < j)
            => pc'[t] \in Flushing /\ slot'[t] <= j,
         pc'[t] \in {"flush_bug", "flush_erase"} =>
            \E u \in Threads : Proc[u] = Proc[t] /\ slot'[t] \in held[u]
  PROVE  Careful'
<1>1. OpenFile' /\ NothingLeft'
  BY DEF Careful, OpenFile, NothingLeft, Mild, Closing, Flushing, Unreached
<1>2. HolderRecorded'
  <2>1. ASSUME NEW u \in Threads, NEW i \in held[u], Proc[u] \in exiting
        PROVE  Flusher(Proc[u], i, mutex_info[i].locked_file)'
    <3>1. Flusher(Proc[u], i, mutex_info[i].locked_file) /\ i \in Slots
      BY <2>1 DEF Careful, HolderRecorded, TypeOK
    <3>2. PICK f : f = mutex_info[i].locked_file
      OBVIOUS
    <3>3. pc'[t] # "flush_up"
      BY DEF Flushing
    <3>4. Flusher(Proc[u], i, f)'
      BY <3>1, <3>2, <3>3, FlusherStays
    <3> QED
      BY <3>2, <3>4
  <2> QED
    BY <2>1 DEF Careful, HolderRecorded
<1>3. RecordHeld'
  BY DEF Careful, RecordHeld
<1>4. Target'
  BY DEF Careful, Target, Mild, Flushing
<1> QED
  BY <1>1, <1>2, <1>3, <1>4 DEF Careful

\* The first test of Flush finds a mutex of its own process.
LEMMA FlushTestCareful ==
  ASSUME IndInv, NEW t \in Threads, FlushTest(t)
  PROVE  Careful'
<1>0. TypeOK /\ Careful
  BY DEF IndInv
<1>1. /\ pc[t] = "flush" /\ pc'[t] = "flush_bug" /\ mutex_info[slot[t]].locked_tgid = Proc[t]
      /\ UNCHANGED <<mutex_info, held, fd, exiting, filp, slot>> /\ slot[t] \in Slots
      /\ \A u \in Threads \ {t} : pc'[u] = pc[u]
  BY <1>0 DEF FlushTest, table, TypeOK
<1>2. Proc[t] # NULL
  BY ProcAssumption, NullAssumption
<1>3. PICK u \in Threads : slot[t] \in held[u]
  BY <1>0, <1>1, <1>2 DEF Careful, RecordHeld, Unlocked
<1>4. Proc[u] = Proc[t]
  BY <1>0, <1>1, <1>3 DEF Careful, HolderRecorded
<1>5. \A v \in Threads \ {t} : Mild(v)
  BY <1>0, <1>1, RestMild
<1>6. pc[t] \in Flushing /\ pc'[t] \in Flushing \ {"flush_up"}
  BY <1>1 DEF Flushing
<1> QED
  BY <1>0, <1>1, <1>3, <1>4, <1>5, <1>6, FlushMoves

\* Its second test, the BUG_ON, finds the mutex locked.
LEMMA FlushBugCareful ==
  ASSUME IndInv, NEW t \in Threads, FlushBug(t)
  PROVE  Careful'
<1>0. TypeOK /\ Careful
  BY DEF IndInv
<1>1. PICK u \in Threads : Proc[u] = Proc[t] /\ slot[t] \in held[u]
  BY <1>0 DEF FlushBug, Careful, Target
<1>2. mutex_info[slot[t]].locked_status
  BY <1>0, <1>1 DEF Careful, HolderRecorded
<1>3. /\ pc[t] = "flush_bug" /\ pc'[t] = "flush_erase"
      /\ UNCHANGED <<mutex_info, held, fd, exiting, filp, slot>>
      /\ \A v \in Threads \ {t} : pc'[v] = pc[v]
  BY <1>0, <1>2 DEF FlushBug, table, TypeOK
<1>4. \A v \in Threads \ {t} : Mild(v)
  BY <1>0, <1>3, RestMild
<1>5. pc[t] \in Flushing /\ pc'[t] \in Flushing \ {"flush_up"}
  BY <1>3 DEF Flushing
<1> QED
  BY <1>0, <1>1, <1>3, <1>4, <1>5, FlushMoves

\* The scan moves on from a slot that is not, or no longer, its process's.
LEMMA FlushNextCareful ==
  ASSUME TypeOK, Careful, NEW t \in Threads, pc[t] \in {"flush", "flush_up"},
         mutex_info' = mutex_info, held' = held, fd' = fd, exiting' = exiting,
         filp'[t] = filp[t], pc'[t] = NextPc(t, "flush", "release"), slot'[t] = NextSlot(t),
         \A u \in Threads \ {t} : Mild(u),
         pc[t] = "flush" => mutex_info[slot[t]].locked_tgid # Proc[t]
  PROVE  Careful'
<1>1. slot[t] \in Slots /\ \A u \in Threads : held[u] \subseteq Slots
  BY DEF TypeOK
<1>2. ASSUME NEW u \in Threads, NEW j \in held[u], Proc[u] = Proc[t], slot[t] <= j,
             pc[t] = "flush_up" => slot[t] < j
      PROVE  pc'[t] = "flush" /\ slot'[t] <= j
  <2>1. pc[t] = "flush" => j # slot[t]
    BY <1>2 DEF Careful, HolderRecorded
  <2>2. slot[t] < j /\ j \in Slots
    BY <1>1, <1>2, <2>1, SlotsAssumption DEF Slots
  <2>3. slot[t] + 1 \in Slots /\ slot[t] + 1 <= j
    BY <1>1, <2>2, SlotsAssumption DEF Slots
  <2> QED
    BY <2>3 DEF NextPc, NextSlot
<1>3. pc'[t] \in {"flush", "release"}
  BY DEF NextPc
<1>4. pc[t] \in Flushing /\ "flush" \in Flushing
  BY DEF Flushing
<1>5. pc'[t] \in (Flushing \ {"flush_up"}) \cup {"release"}
  BY <1>3, <1>4
<1>6. pc'[t] \notin {"flush_bug", "flush_erase"}
  BY <1>3
<1> QED
  BY <1>2, <1>4, <1>5, <1>6, FlushMoves

\* A process that opens the device held nothing and had no call under way.
LEMMA OpenCareful ==
  ASSUME IndInv, NEW t \in Threads, NEW f \in Files, Open(t, f)
  PROVE  Careful'
<1>0. TypeOK /\ Careful
  BY DEF IndInv
<1>1. /\ fd[Proc[t]] = NULL /\ Proc[t] \in Procs /\ Proc[t] \notin exiting
      /\ \A p \in Procs \ {Proc[t]} : fd'[p] = fd[p]
      /\ UNCHANGED <<mutex_info, held, exiting, pc, filp, slot>>
  BY <1>0, ProcAssumption DEF Open, TypeOK, table, tasks
<1>2. \A u \in Threads : Proc[u] = Proc[t] => held[u] = {}
  BY <1>0, <1>1 DEF Careful, HolderRecorded
<1>3. \A u \in Threads : Proc[u] = Proc[t] => pc[u] \in Closing \cup {"user"}
  BY <1>0, <1>1 DEF Careful, OpenFile, IndInv, FileRefs
<1>4. \A u \in Threads : Proc[u] \in Procs
  BY ProcAssumption
<1>5. OpenFile'
  BY <1>0, <1>1, <1>3, <1>4 DEF Careful, OpenFile
<1>6. \A P, i, g : Flusher(P, i, g)' <=> Flusher(P, i, g)
  BY <1>1 DEF Flusher
<1>7. HolderRecorded'
  BY <1>0, <1>1, <1>2, <1>4, <1>6 DEF Careful, HolderRecorded
<1>8. RecordHeld' /\ Target' /\ NothingLeft'
  BY <1>0, <1>1 DEF Careful, RecordHeld, Target, NothingLeft
<1> QED
  BY <1>5, <1>7, <1>8 DEF Careful

\* A process that closes the device holds nothing and has no call under way.
LEMMA CloseCareful ==
  ASSUME Careless = {}, IndInv, NEW t \in Threads, Close(t)
  PROVE  Careful'
<1>0. TypeOK /\ Careful
  BY DEF IndInv
<1>1. /\ Proc[t] \in Procs /\ Proc[t] \notin exiting
      /\ \A p \in Procs \ {Proc[t]} : fd'[p] = fd[p]
      /\ UNCHANGED <<mutex_info, held, exiting>>
      /\ pc[t] = "user" /\ pc'[t] \in {"release", "user"}
      /\ \A u \in Threads \ {t} : pc'[u] = pc[u] /\ filp'[u] = filp[u] /\ slot'[u] = slot[u]
  BY <1>0, ProcAssumption DEF Close, CanCall, TypeOK, table
<1>2. \A u \in Threads : Proc[u] = Proc[t] => held[u] = {} /\ pc[u] = "user"
  BY DEF Close, Quiescent
<1>3. \A u \in Threads : Proc[u] \in Procs
  BY ProcAssumption
<1>4. OpenFile'
  BY <1>0, <1>1, <1>2, <1>3 DEF Careful, OpenFile, Closing
<1>5. \A P, i, g : Flusher(P, i, g) => Flusher(P, i, g)'
  <2>1. pc[t] \notin Flushing
    BY <1>1 DEF Flushing
  <2> QED
    BY <1>1, <2>1 DEF Flusher
<1>6. HolderRecorded'
  BY <1>0, <1>1, <1>2, <1>3, <1>5 DEF Careful, HolderRecorded
<1>7. RecordHeld' /\ Target' /\ NothingLeft'
  BY <1>0, <1>1 DEF Careful, RecordHeld, Target, NothingLeft, Unreached
<1> QED
  BY <1>4, <1>6, <1>7 DEF Careful

\* A process exits with no call under way; what it holds waits for Flush.
LEMMA ExitCareful ==
  ASSUME IndInv, NEW t \in Threads, Exit(t)
  PROVE  Careful'
<1>0. TypeOK /\ Careful
  BY DEF IndInv
<1>1. /\ Proc[t] \in Procs /\ Proc[t] \notin exiting /\ exiting' = exiting \cup {Proc[t]}
      /\ \A p \in Procs \ {Proc[t]} : fd'[p] = fd[p]
      /\ UNCHANGED <<mutex_info, held>>
      /\ pc'[t] \in {"flush", "user"} /\ slot'[t] = 0
      /\ \A u \in Threads \ {t} : pc'[u] = pc[u] /\ filp'[u] = filp[u] /\ slot'[u] = slot[u]
      /\ \A u \in Threads : Proc[u] = Proc[t] => pc[u] = "user"
      /\ fd[Proc[t]] # NULL => pc'[t] = "flush" /\ filp'[t] = fd[Proc[t]]
  BY <1>0, ProcAssumption DEF Exit, TypeOK, table
<1>2. \A u \in Threads : Proc[u] \in Procs
  BY ProcAssumption
<1>3. OpenFile'
  BY <1>0, <1>1, <1>2 DEF Careful, OpenFile, Closing, Flushing
<1>4. \A P, i, g : Flusher(P, i, g) => Flusher(P, i, g)'
  <2>1. pc[t] \notin Flushing
    BY <1>1 DEF Flushing
  <2> QED
    BY <1>1, <2>1 DEF Flusher
<1>5. ASSUME NEW u \in Threads, NEW i \in held[u], Proc[u] = Proc[t]
      PROVE  Flusher(Proc[u], i, mutex_info[i].locked_file)'
  <2>1. mutex_info[i].locked_file = fd[Proc[t]] /\ fd[Proc[t]] # NULL
    BY <1>0, <1>1, <1>5 DEF Careful, HolderRecorded
  <2>2. i \in Slots /\ 0 <= i
    BY <1>0, SlotsAssumption DEF TypeOK, Slots
  <2>3. pc'[t] \in Flushing /\ pc'[t] # "flush_up" /\ filp'[t] = mutex_info'[i].locked_file
    BY <1>1, <2>1 DEF Flushing
  <2> QED
    BY <1>1, <1>5, <2>2, <2>3 DEF Flusher
<1>6. HolderRecorded'
  <2>1. ASSUME NEW u \in Threads, NEW i \in held[u], Proc[u] # Proc[t]
        PROVE  /\ Proc[u] \notin exiting' => mutex_info[i].locked_file = fd'[Proc[u]] /\ fd'[Proc[u]] # NULL
               /\ Proc[u] \in exiting' => Flusher(Proc[u], i, mutex_info[i].locked_file)'
    <3>1. fd'[Proc[u]] = fd[Proc[u]] /\ (Proc[u] \in exiting' <=> Proc[u] \in exiting)
      BY <1>1, <1>2, <2>1
    <3>2. PICK f : f = mutex_info[i].locked_file
      OBVIOUS
    <3>3. Proc[u] \in exiting => Flusher(Proc[u], i, f)
      BY <1>0, <3>2 DEF Careful, HolderRecorded
    <3>4. Proc[u] \in exiting => Flusher(Proc[u], i, f)'
      BY <1>4, <3>3
    <3>5. mutex_info'[i].locked_file = f
      BY <1>1, <3>2
    <3> QED
      BY <1>0, <3>1, <3>2, <3>4, <3>5 DEF Careful, HolderRecorded
  <2> QED
    BY <1>0, <1>1, <1>5, <2>1 DEF Careful, HolderRecorded
<1>7. RecordHeld' /\ Target' /\ NothingLeft'
  BY <1>0, <1>1 DEF Careful, RecordHeld, Target, NothingLeft, Unreached
<1> QED
  BY <1>3, <1>6, <1>7 DEF Careful

-----------------------------------------------------------------------------
\* Every step of processes that close nothing they use.
LEMMA CarefulStep ==
  ASSUME Careless = {}, IndInv, [Next]_vars
  PROVE  Careful'
<1> USE ProcAssumption
<1>0. TypeOK /\ Queued /\ FileRefs /\ Careful
  BY DEF IndInv
<1>1. CASE UNCHANGED vars
  BY <1>0, <1>1, RestMild, QuietCareful DEF vars
<1>2. ASSUME NEW t \in Threads, NEW f \in Files, Open(t, f) PROVE Careful'
  BY <1>2, OpenCareful
<1>3. ASSUME NEW t \in Threads, NEW i \in Slots, DelMutex(t, i) \/ \E n \in Names : CreateMutex(t, n, i)
      PROVE  Careful'
  BY <1>0, <1>3, RestMild, QuietCareful DEF DelMutex, CreateMutex, tasks
<1>4. ASSUME NEW t \in Threads, pc[t] \notin Flushing, pc'[t] \in {"granted", "lock", "timed", "retry"},
             filp'[t] = fd[Proc[t]], UNCHANGED <<mutex_info, held, fd, exiting>>,
             \A u \in Threads \ {t} : pc'[u] = pc[u] /\ filp'[u] = filp[u] /\ slot'[u] = slot[u]
      PROVE  Careful'
  <2>1. Mild(t)
    BY <1>4 DEF Mild, Flushing, Unreached
  <2> QED
    BY <1>0, <1>4, <2>1, RestMild, QuietCareful
<1>5. ASSUME NEW t \in Threads, NEW i \in Slots, NEW w \in {"lock", "timed"}, Lock(t, i, w)
      PROVE  Careful'
  BY <1>0, <1>4, <1>5 DEF Lock, CanCall, Down, TypeOK, Flushing
<1>6. ASSUME NEW t \in Threads, NEW i \in Slots, TryLock(t, i) PROVE Careful'
  BY <1>0, <1>4, <1>6 DEF TryLock, CanCall, TypeOK, Flushing
<1>7. ASSUME NEW t \in Threads, RecordOwner(t) PROVE Careful'
  BY <1>7, RecordOwnerCareful
<1>8. ASSUME NEW t \in Threads, NEW k \in 1 .. Len(sem[slot[t]].wait), TimedOut(t, k) \/ Interrupted(t, k)
      PROVE  Careful'
  <2>1. /\ pc[t] \in {"lock", "timed"} /\ pc'[t] = "user"
        /\ UNCHANGED <<mutex_info, held, fd, exiting>>
        /\ \A u \in Threads \ {t} : pc'[u] = pc[u] /\ filp'[u] = filp[u] /\ slot'[u] = slot[u]
    BY <1>0, <1>8, ReturnsToUser DEF TimedOut, Interrupted, TypeOK, Closing, Flushing
  <2>2. Mild(t)
    BY <2>1 DEF Mild, Flushing, Unreached
  <2> QED
    BY <1>0, <2>1, <2>2, RestMild, QuietCareful
<1>9. ASSUME NEW t \in Threads, NEW k \in 1 .. Len(sem[slot[t]].wait), LockTimeout(t, k)
      PROVE  Careful'
  <2>1. filp[t] = fd[Proc[t]]
    BY <1>0, <1>9 DEF LockTimeout, Careful, OpenFile, Closing, Flushing
  <2> QED
    BY <1>0, <1>4, <1>9, <2>1 DEF LockTimeout, TypeOK, Flushing
<1>10. ASSUME NEW t \in Threads, LockRetry(t) PROVE Careful'
  <2>1. filp[t] = fd[Proc[t]]
    BY <1>0, <1>10 DEF LockRetry, Careful, OpenFile, Closing, Flushing
  <2> QED
    BY <1>0, <1>4, <1>10, <2>1 DEF LockRetry, Down, TypeOK, Flushing
<1>11. ASSUME NEW t \in Threads, NEW i \in Slots, Unlock(t, i) PROVE Careful'
  BY <1>11, UnlockCareful
<1>12. ASSUME NEW t \in Threads, UnlockUp(t) PROVE Careful'
  <2>1. PICK i \in Slots : i = slot[t]
    BY <1>0 DEF TypeOK
  <2>2. /\ pc[t] = "up" /\ pc' = PcAfterUp(t, i, "user") /\ UNCHANGED <<mutex_info, held, fd, exiting>>
        /\ \A u \in Threads \ {t} : filp'[u] = filp[u] /\ slot'[u] = slot[u]
    BY <1>0, <1>12, <2>1, ReturnsToUser DEF UnlockUp, Closing, Flushing, TypeOK
  <2>3. pc'[t] = "user" /\ \A u \in Threads \ {t} : Mild(u)
    BY <1>0, <2>2, UpMild
  <2>4. Mild(t)
    BY <2>2, <2>3 DEF Mild, Flushing, Unreached
  <2> QED
    BY <1>0, <2>2, <2>3, <2>4, QuietCareful
<1>13. ASSUME NEW t \in Threads, FlushUp(t) PROVE Careful'
  <2>1. PICK i \in Slots : i = slot[t]
    BY <1>0 DEF TypeOK
  <2>2. /\ pc[t] = "flush_up" /\ pc' = PcAfterUp(t, i, NextPc(t, "flush", "release"))
        /\ UNCHANGED <<mutex_info, held, fd, exiting, filp>>
        /\ slot'[t] = NextSlot(t) /\ \A u \in Threads \ {t} : slot'[u] = slot[u]
    BY <1>0, <1>13, <2>1 DEF FlushUp, TypeOK
  <2>3. pc'[t] = NextPc(t, "flush", "release") /\ \A u \in Threads \ {t} : Mild(u)
    BY <1>0, <2>2, UpMild
  <2> QED
    BY <1>0, <2>2, <2>3, FlushNextCareful
<1>14. ASSUME NEW t \in Threads, FlushSkip(t) PROVE Careful'
  <2>1. /\ pc[t] = "flush" /\ pc'[t] = NextPc(t, "flush", "release") /\ slot'[t] = NextSlot(t)
        /\ mutex_info[slot[t]].locked_tgid # Proc[t]
        /\ UNCHANGED <<mutex_info, held, fd, exiting, filp>>
        /\ \A u \in Threads \ {t} : pc'[u] = pc[u] /\ slot'[u] = slot[u]
    BY <1>0, <1>14 DEF FlushSkip, table, TypeOK
  <2>2. \A u \in Threads \ {t} : Mild(u)
    BY <1>0, <2>1, RestMild
  <2> QED
    BY <1>0, <2>1, <2>2, FlushNextCareful
<1>15. ASSUME NEW t \in Threads, FlushTest(t) \/ FlushBug(t) \/ FlushErase(t) PROVE Careful'
  BY <1>15, FlushTestCareful, FlushBugCareful, FlushEraseCareful
<1>16. ASSUME NEW t \in Threads, Close(t) PROVE Careful'
  BY <1>16, CloseCareful
<1>17. ASSUME NEW t \in Threads, Exit(t) PROVE Careful'
  BY <1>17, ExitCareful
<1>18. ASSUME NEW t \in Threads, ReleaseTest(t) PROVE FALSE
  <2>1. slot[t] \in Slots
    BY <1>0 DEF TypeOK
  <2> QED
    BY <1>18, <2>1, NoneThrough DEF ReleaseTest
<1>19. ASSUME NEW t \in Threads, ReleaseBug(t) \/ ReleaseUp(t) \/ ReleaseErase(t) PROVE FALSE
  BY <1>0, <1>19 DEF ReleaseBug, ReleaseUp, ReleaseErase, Careful, NothingLeft, Unreached
<1>20. ASSUME NEW t \in Threads, ReleaseSkip(t) PROVE Careful'
  <2>1. /\ pc[t] = "release" /\ pc'[t] \in {"release", "user"} /\ UNCHANGED <<mutex_info, held, fd, exiting>>
        /\ \A u \in Threads \ {t} : pc'[u] = pc[u] /\ filp'[u] = filp[u] /\ slot'[u] = slot[u]
    BY <1>0, <1>20 DEF ReleaseSkip, NextPc, TypeOK, table
  <2>2. Mild(t)
    BY <2>1 DEF Mild, Closing, Flushing, Unreached
  <2> QED
    BY <1>0, <2>1, <2>2, RestMild, QuietCareful
<1> QED
  BY <1>1, <1>2, <1>3, <1>5, <1>6, <1>7, <1>8, <1>9, <1>10, <1>11, <1>12, <1>13, <1>14, <1>15,
     <1>16, <1>17, <1>18, <1>19, <1>20
  DEF Next, Call, Proceed, Wake

\* Units, wait lists, references and records keep each other right, as long as
\* no process closes the device while it holds or awaits a mutex.
THEOREM InductiveInvariant == ASSUME Careless = {} PROVE Spec => []IndInv
<1> DEFINE Both == Exclusive /\ Careful
<1>1. Init => Both
  <2> SUFFICES ASSUME Init PROVE Both
    OBVIOUS
  <2>1. \A u \in Threads : pc[u] = "user" /\ held[u] = {}
    BY DEF Init
  <2>2. Exclusive
    BY <2>1 DEF Init, Exclusive, MutualExclusion, UnitConserved, ClaimsOnce, Owns, Claiming
  <2>3. Careful
    BY <2>1 DEF Init, Careful, OpenFile, HolderRecorded, RecordHeld, Target, NothingLeft, Unreached
  <2> QED
    BY <2>2, <2>3
<1>2. TypeOK /\ Queued /\ Made /\ FileRefs /\ Exits /\ Both /\ [Next]_vars => Both'
  BY ExclusiveStep, CarefulStep DEF IndInv
<1>3. TypeOK /\ Queued /\ Made /\ FileRefs /\ Exits /\ Both => IndInv
  BY DEF IndInv
<1> QED
  BY <1>1, <1>2, <1>3, TypeCorrect, QueuesInOrder, ReferencesCounted, PTL DEF Spec

\* At most one thread has a mutex, whoever is killed, times out, is interrupted
\* or deletes the name in between.
THEOREM MutexIsExclusive == ASSUME Careless = {} PROVE Spec => []MutualExclusion
<1>1. IndInv => MutualExclusion
  BY DEF IndInv, Exclusive
<1> QED
  BY <1>1, InductiveInvariant, PTL

\* Unlock and Flush call up() once for each successful lock: the unit is in the
\* semaphore exactly when nobody has the mutex.
THEOREM UnitIsConserved == ASSUME Careless = {} PROVE Spec => []UnitConserved
<1>1. IndInv => UnitConserved
  BY DEF IndInv, Exclusive
<1> QED
  BY <1>1, InductiveInvariant, PTL

\* UNLOCK is never refused to the thread that locked the mutex.
THEOREM HoldersCanUnlock == ASSUME Careless = {} PROVE Spec => []HolderCanUnlock
<1>1. IndInv => HolderCanUnlock
  BY DEF IndInv, Careful, HolderRecorded, HolderCanUnlock, MayUnlock
<1> QED
  BY <1>1, InductiveInvariant, PTL

\* The thread that LOCK signals and that UNLOCK and Flush go by holds the mutex.
THEOREM RecordsAreTruthful == ASSUME Careless = {} PROVE Spec => []RecordTruthful
<1>1. IndInv => RecordTruthful
  BY DEF IndInv, Careful, RecordHeld, HolderRecorded, RecordTruthful
<1> QED
  BY <1>1, InductiveInvariant, PTL

\* Neither BUG_ON fires.
THEOREM NeitherBugs == ASSUME Careless = {} PROVE Spec => []NoBug
<1>1. IndInv => NoBug
  BY DEF IndInv, Careful, NothingLeft, Unreached, NoBug
<1> QED
  BY <1>1, InductiveInvariant, PTL
=============================================================================
