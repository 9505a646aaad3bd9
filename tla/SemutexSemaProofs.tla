------------------------- MODULE SemutexSemaProofs -------------------------
(***************************************************************************)
(* Proofs about SemutexSema, for any threads, names, counts and number of  *)
(* slots, whoever dies and whoever unlocks what it has not locked.         *)
(***************************************************************************)
EXTENDS SemutexSema, FiniteSetTheorems, SequenceTheorems, TLAPS

-----------------------------------------------------------------------------
(* What the operations of the kernel semaphore do to its two fields, with  *)
(* the wait list seen as the set of the tasks T on it.                     *)

\* RemoveAt keeps the elements before and after the one it removes.
LEMMA RemoveAtElements ==
  ASSUME NEW S, NEW q \in Seq(S), NEW k \in 1 .. Len(q)
  PROVE  /\ RemoveAt(q, k) \in Seq(S)
         /\ Len(RemoveAt(q, k)) = Len(q) - 1
         /\ \A j \in 1 .. Len(q) - 1 :
              RemoveAt(q, k)[j] = IF j < k THEN q[j] ELSE q[j + 1]
<1> DEFINE a == SubSeq(q, 1, k - 1)
           b == SubSeq(q, k + 1, Len(q))
<1>1. a \in Seq(S) /\ Len(a) = k - 1 /\ \A j \in 1 .. k - 1 : a[j] = q[j]
  OBVIOUS
<1>2. b \in Seq(S) /\ Len(b) = Len(q) - k /\ \A j \in 1 .. Len(q) - k : b[j] = q[j + k]
  OBVIOUS
<1>3. RemoveAt(q, k) = a \o b
  BY DEF RemoveAt
<1> HIDE DEF a, b
<1>4. /\ a \o b \in Seq(S)
      /\ Len(a \o b) = Len(a) + Len(b)
      /\ \A j \in 1 .. Len(a) + Len(b) :
           (a \o b)[j] = IF j <= Len(a) THEN a[j] ELSE b[j - Len(a)]
  BY <1>1, <1>2, ConcatProperties
<1> QED
  BY <1>1, <1>2, <1>3, <1>4

SemaphoreOf(T) == [count : Nat, wait : Seq(T)]

\* The tasks on the wait list, and that none is on it twice.
Waiting(s) == {s.wait[k] : k \in 1 .. Len(s.wait)}
Distinct(s) == \A k, l \in 1 .. Len(s.wait) : s.wait[k] = s.wait[l] => k = l

\* A new semaphore has nobody on its list.
LEMMA InitList ==
  ASSUME NEW T, NEW n \in Nat
  PROVE  /\ sema_init(n) \in SemaphoreOf(T) /\ sema_init(n).count = n
         /\ Waiting(sema_init(n)) = {} /\ Distinct(sema_init(n))
BY DEF sema_init, SemaphoreOf, Waiting, Distinct

\* down() of a semaphore with a unit, and down_trylock(): the list stays.
LEMMA TakeUnitList ==
  ASSUME NEW T, NEW s \in SemaphoreOf(T), HasUnit(s), Distinct(s)
  PROVE  /\ TakeUnit(s) \in SemaphoreOf(T) /\ TakeUnit(s).count = s.count - 1
         /\ Waiting(TakeUnit(s)) = Waiting(s) /\ Distinct(TakeUnit(s))
<1>1. TakeUnit(s).wait = s.wait /\ TakeUnit(s) \in SemaphoreOf(T) /\ TakeUnit(s).count = s.count - 1
  BY DEF TakeUnit, HasUnit, SemaphoreOf
<1> QED
  BY <1>1 DEF Waiting, Distinct

\* down() of one without: the task joins the list.
LEMMA EnqueueList ==
  ASSUME NEW T, NEW s \in SemaphoreOf(T), Distinct(s), NEW t \in T, t \notin Waiting(s)
  PROVE  /\ Enqueue(s, t) \in SemaphoreOf(T) /\ Enqueue(s, t).count = s.count
         /\ Waiting(Enqueue(s, t)) = Waiting(s) \cup {t} /\ Distinct(Enqueue(s, t))
<1> DEFINE q == s.wait
           r == Append(q, t)
<1>1. q \in Seq(T) /\ Len(q) \in Nat /\ s.count \in Nat
  BY DEF SemaphoreOf
<1>2. /\ r \in Seq(T) /\ Len(r) = Len(q) + 1 /\ r[Len(q) + 1] = t
      /\ \A k \in 1 .. Len(q) : r[k] = q[k]
  BY <1>1
<1>3. Enqueue(s, t).wait = r /\ Enqueue(s, t).count = s.count /\ Enqueue(s, t) \in SemaphoreOf(T)
  BY <1>1, <1>2 DEF Enqueue, SemaphoreOf
<1> HIDE DEF r
<1>4. Waiting(Enqueue(s, t)) = Waiting(s) \cup {t}
  <2>1. \A k \in 1 .. Len(r) : k \in 1 .. Len(q) \/ k = Len(q) + 1
    BY <1>1, <1>2
  <2>2. \A k \in 1 .. Len(q) : k \in 1 .. Len(r)
    BY <1>1, <1>2
  <2>3. Len(q) + 1 \in 1 .. Len(r)
    BY <1>1, <1>2
  <2> QED
    BY <1>2, <1>3, <2>1, <2>2, <2>3 DEF Waiting
<1>5. Distinct(Enqueue(s, t))
  <2>1. \A k \in 1 .. Len(q) : q[k] # t
    BY DEF Waiting
  <2>2. \A k \in 1 .. Len(r) :
          \/ k \in 1 .. Len(q) /\ r[k] = q[k]
          \/ k = Len(q) + 1 /\ r[k] = t
    BY <1>1, <1>2
  <2> QED
    BY <1>3, <2>1, <2>2 DEF Distinct
<1> QED
  BY <1>3, <1>4, <1>5

\* The shorter list after the k-th element has left.
LEMMA ShorterList ==
  ASSUME NEW T, NEW s \in SemaphoreOf(T), Distinct(s), NEW k \in 1 .. Len(s.wait),
         NEW r \in SemaphoreOf(T), Len(r.wait) = Len(s.wait) - 1,
         \A j \in 1 .. Len(s.wait) - 1 : r.wait[j] = IF j < k THEN s.wait[j] ELSE s.wait[j + 1]
  PROVE  Waiting(r) = Waiting(s) \ {s.wait[k]} /\ Distinct(r)
<1> DEFINE q == s.wait
<1>1. q \in Seq(T) /\ Len(q) \in Nat
  BY DEF SemaphoreOf
<1>2. \A j \in 1 .. Len(q) - 1 :
        /\ j < k => j \in 1 .. Len(q) /\ j # k /\ r.wait[j] = q[j]
        /\ ~(j < k) => j + 1 \in 1 .. Len(q) /\ j + 1 # k /\ r.wait[j] = q[j + 1]
  BY <1>1
<1>3. ASSUME NEW x \in Waiting(r) PROVE x \in Waiting(s) \ {q[k]}
  <2>1. PICK j \in 1 .. Len(q) - 1 : x = r.wait[j]
    BY <1>3 DEF Waiting
  <2>2. PICK l \in 1 .. Len(q) : l # k /\ x = q[l]
    BY <1>2, <2>1
  <2> QED
    BY <2>2 DEF Waiting, Distinct
<1>4. ASSUME NEW x \in Waiting(s), x # q[k] PROVE x \in Waiting(r)
  <2>1. PICK j \in 1 .. Len(q) : x = q[j]
    BY <1>4 DEF Waiting
  <2>2. CASE j < k
    <3>1. j \in 1 .. Len(q) - 1
      BY <1>1, <2>2
    <3> QED
      BY <1>2, <2>1, <2>2, <3>1 DEF Waiting
  <2>3. CASE j > k
    <3>1. j - 1 \in 1 .. Len(q) - 1 /\ ~(j - 1 < k) /\ (j - 1) + 1 = j
      BY <1>1, <2>3
    <3> QED
      BY <1>2, <2>1, <3>1 DEF Waiting
  <2> QED
    BY <1>1, <1>4, <2>1, <2>2, <2>3
<1>5. Distinct(r)
  BY <1>1, <1>2 DEF Distinct
<1> QED
  BY <1>3, <1>4, <1>5

\* A waiter that gave up is taken off the list.
LEMMA ListDelList ==
  ASSUME NEW T, NEW s \in SemaphoreOf(T), Distinct(s), NEW k \in 1 .. Len(s.wait)
  PROVE  /\ list_del(s, k) \in SemaphoreOf(T) /\ list_del(s, k).count = s.count
         /\ Waiting(list_del(s, k)) = Waiting(s) \ {s.wait[k]} /\ Distinct(list_del(s, k))
<1>1. s.wait \in Seq(T)
  BY DEF SemaphoreOf
<1>2. /\ RemoveAt(s.wait, k) \in Seq(T) /\ Len(RemoveAt(s.wait, k)) = Len(s.wait) - 1
      /\ \A j \in 1 .. Len(s.wait) - 1 :
           RemoveAt(s.wait, k)[j] = IF j < k THEN s.wait[j] ELSE s.wait[j + 1]
  BY <1>1, RemoveAtElements
<1>3. /\ list_del(s, k).wait = RemoveAt(s.wait, k) /\ list_del(s, k).count = s.count
      /\ list_del(s, k) \in SemaphoreOf(T)
  BY <1>2 DEF list_del, SemaphoreOf
<1> DEFINE r == list_del(s, k)
<1>4. /\ r \in SemaphoreOf(T) /\ Len(r.wait) = Len(s.wait) - 1
      /\ \A j \in 1 .. Len(s.wait) - 1 : r.wait[j] = IF j < k THEN s.wait[j] ELSE s.wait[j + 1]
  BY <1>2, <1>3
<1> HIDE DEF r
<1>5. Waiting(r) = Waiting(s) \ {s.wait[k]} /\ Distinct(r)
  BY <1>4, ShorterList
<1> QED
  BY <1>3, <1>5 DEF r

\* up() hands the unit to one waiter if there is one, and adds it otherwise.
LEMMA UpList ==
  ASSUME NEW T, NEW s \in SemaphoreOf(T), Distinct(s)
  PROVE  /\ up(s) \in SemaphoreOf(T) /\ Distinct(up(s))
         /\ Waiting(s) = {} => Woken(s) = {} /\ Waiting(up(s)) = {} /\ up(s).count = s.count + 1
         /\ Waiting(s) # {} =>
              \E u \in Waiting(s) : /\ Woken(s) = {u} /\ Waiting(up(s)) = Waiting(s) \ {u}
                                    /\ up(s).count = s.count
<1>1. s.wait \in Seq(T) /\ s.count \in Nat /\ Len(s.wait) \in Nat
  BY DEF SemaphoreOf
<1>2. CASE s.wait = <<>>
  <2>1. Waiting(s) = {}
    BY <1>2 DEF Waiting
  <2>2. up(s).wait = s.wait /\ up(s).count = s.count + 1 /\ up(s) \in SemaphoreOf(T)
    BY <1>1, <1>2 DEF up, SemaphoreOf
  <2> QED
    BY <1>2, <2>1, <2>2 DEF Waiting, Distinct, Woken
<1>3. CASE s.wait # <<>>
  <2>1. /\ Len(s.wait) # 0 /\ 1 \in 1 .. Len(s.wait) /\ Head(s.wait) = s.wait[1]
        /\ Tail(s.wait) \in Seq(T) /\ Len(Tail(s.wait)) = Len(s.wait) - 1
        /\ \A j \in 1 .. Len(s.wait) - 1 : Tail(s.wait)[j] = s.wait[j + 1]
    BY <1>1, <1>3
  <2>2. up(s).wait = Tail(s.wait) /\ up(s).count = s.count /\ up(s) \in SemaphoreOf(T)
    BY <1>1, <1>3, <2>1 DEF up, SemaphoreOf
  <2>3. Waiting(up(s)) = Waiting(s) \ {s.wait[1]} /\ Distinct(up(s))
    <3> DEFINE r == up(s)
    <3>1. /\ r \in SemaphoreOf(T) /\ Len(r.wait) = Len(s.wait) - 1
          /\ \A j \in 1 .. Len(s.wait) - 1 : r.wait[j] = IF j < 1 THEN s.wait[j] ELSE s.wait[j + 1]
      BY <1>1, <2>1, <2>2
    <3> HIDE DEF r
    <3>2. Waiting(r) = Waiting(s) \ {s.wait[1]} /\ Distinct(r)
      BY <2>1, <3>1, ShorterList
    <3> QED
      BY <3>2 DEF r
  <2>4. s.wait[1] \in Waiting(s) /\ Woken(s) = {s.wait[1]}
    BY <1>3, <2>1 DEF Waiting, Woken
  <2> QED
    BY <2>2, <2>3, <2>4
<1> QED
  BY <1>2, <1>3

-----------------------------------------------------------------------------
(* The inductive invariant.                                                *)

Sleepers(i) == {t \in Threads : pc[t] = "lock" /\ slot[t] = i}

\* The wait list of a slot holds the threads that sleep on it, each once, and is
\* empty while there is a unit.
Queued ==
  \A i \in Slots : /\ Distinct(sem[i]) /\ Waiting(sem[i]) = Sleepers(i)
                   /\ sem[i].count # 0 => Sleepers(i) = {}

\* Calls work on slots that have a semaphore; of the others nothing is out.
Made ==
  /\ \A t \in Threads : pc[t] \in {"lock", "retry", "granted", "up"} => slot[t] \in made
  /\ \A i \in Slots \ made : extra[i] = 0 /\ \A t \in Threads : taken[t][i] = 0

\* The sum is one of finitely many units.
Finite == \A i \in Slots : IsFiniteSet(UnitsOut(i))

IndInv == TypeOK /\ Queued /\ Made /\ Finite /\ UnitsConserved /\ SignalledHasUnit

-----------------------------------------------------------------------------
(* Types.                                                                  *)

States == {"user", "granted", "lock", "retry", "up", "dead"}

\* Every semaphore of the table is one, with tasks on its list.
LEMMA SlotTypes ==
  ASSUME TypeOK
  PROVE  /\ sem \in [Slots -> SemaphoreOf(Threads)]
         /\ \A i \in Slots : sem[i] \in SemaphoreOf(Threads)
         /\ \A t \in Threads : slot[t] \in Slots
BY DEF TypeOK, SemaphoreOf

\* A down() leaves a semaphore, and the thread granted or asleep.
LEMMA DownTypes ==
  ASSUME TypeOK, Queued, NEW t \in Threads, NEW i \in Slots, Down(t, i), pc[t] # "lock"
  PROVE  sem' \in [Slots -> [count : Nat, wait : Seq(Threads)]] /\ pc' \in [Threads -> States]
<1>1. down(sem[i], t) \in SemaphoreOf(Threads)
  <2>1. sem[i] \in SemaphoreOf(Threads) /\ Distinct(sem[i]) /\ t \notin Waiting(sem[i])
    BY SlotTypes DEF Queued, Sleepers
  <2> QED
    BY <2>1, TakeUnitList, EnqueueList DEF down
<1> QED
  BY <1>1 DEF Down, SemaphoreOf, States, TypeOK

\* The counts that clients ask for are numbers.
LEMMA NumbersAreNat == \A num \in Numbers : num \in Nat
<1>1. \A x \in 1 .. MaxCount : x \in Nat
  BY BoundAssumption
<1> QED
  BY <1>1, NumbersAssumption

\* Every variable keeps its type.
LEMMA TypeStep ==
  ASSUME TypeOK, Queued, Made, [Next]_vars
  PROVE  TypeOK'
<1> USE ThreadsAssumption, BoundAssumption, NumbersAssumption
<1>1. CASE UNCHANGED vars
  BY <1>1 DEF vars, TypeOK
<1>2. ASSUME NEW t \in Threads, NEW n \in Names, NEW num \in Numbers, NEW i \in Slots,
             CreateSemaphore(t, n, num, i)
      PROVE  TypeOK'
  <2>1. num \in Nat /\ sema_init(num) \in [count : Nat, wait : Seq(Threads)]
    BY NumbersAreNat, InitList DEF SemaphoreOf
  <2>2. /\ sem' \in [Slots -> [count : Nat, wait : Seq(Threads)]]
        /\ number' \in [Slots -> Nat] /\ made' \subseteq Slots
    <3>1. /\ sem \in [Slots -> [count : Nat, wait : Seq(Threads)]]
          /\ number \in [Slots -> Nat] /\ made \subseteq Slots
      BY DEF TypeOK
    <3>2. CASE UNCHANGED <<made, sem, number>>
      BY <3>1, <3>2
    <3>3. CASE /\ made' = made \cup {i}
               /\ sem' = [sem EXCEPT ![i] = sema_init(num)]
               /\ number' = [number EXCEPT ![i] = num]
      BY <2>1, <3>1, <3>3
    <3> QED
      BY <1>2, <3>2, <3>3 DEF CreateSemaphore
  <2>3. name' \in [Slots -> Names \cup {NULL}]
    BY <1>2 DEF CreateSemaphore, TypeOK
  <2> QED
    BY <1>2, <2>2, <2>3 DEF CreateSemaphore, clients, TypeOK
<1>3. ASSUME NEW t \in Threads, NEW i \in Slots, SemaLock(t, i) PROVE TypeOK'
  <2>1. sem' \in [Slots -> [count : Nat, wait : Seq(Threads)]] /\ pc' \in [Threads -> States]
    BY <1>3, DownTypes DEF SemaLock
  <2>2. slot' \in [Threads -> Slots] /\ retries' \in [Threads -> 0 .. MaxRetries]
    BY <1>3 DEF SemaLock, TypeOK
  <2> QED
    BY <1>3, <2>1, <2>2 DEF SemaLock, clients, States, TypeOK
<1>4. ASSUME NEW t \in Threads, NEW i \in Slots, SemaTryLock(t, i) PROVE TypeOK'
  <2>1. TakeUnit(sem[i]) \in SemaphoreOf(Threads)
    BY <1>4, SlotTypes, TakeUnitList DEF SemaTryLock, Queued
  <2> QED
    BY <1>4, <2>1 DEF SemaTryLock, clients, SemaphoreOf, TypeOK
<1>5. ASSUME NEW t \in Threads, RecordLocker(t) PROVE TypeOK'
  <2>1. taken' \in [Threads -> [Slots -> Nat]]
    <3>1. taken[t] \in [Slots -> Nat] /\ slot[t] \in Slots
      BY DEF TypeOK
    <3>2. [taken[t] EXCEPT ![slot[t]] = @ + 1] \in [Slots -> Nat]
      BY <3>1
    <3> QED
      BY <1>5, <3>2 DEF RecordLocker, TypeOK
  <2> QED
    BY <1>5, <2>1 DEF RecordLocker, TypeOK
<1>6. ASSUME NEW t \in Threads, NEW k \in 1 .. Len(sem[slot[t]].wait),
             LockTimeout(t, k) \/ Interrupted(t, k)
      PROVE  TypeOK'
  <2>1. list_del(sem[slot[t]], k) \in SemaphoreOf(Threads)
    BY SlotTypes, ListDelList DEF Queued
  <2>2. retries' \in [Threads -> 0 .. MaxRetries]
    <3>1. retries \in [Threads -> 0 .. MaxRetries]
      BY DEF TypeOK
    <3>2. CASE LockTimeout(t, k)
      <4>1. retries[t] + 1 \in 0 .. MaxRetries
        BY <3>1, <3>2 DEF LockTimeout
      <4> QED
        BY <3>1, <3>2, <4>1 DEF LockTimeout
    <3> QED
      BY <1>6, <3>1, <3>2 DEF Interrupted
  <2>3. \/ GiveUp(t, k, "retry")
        \/ GiveUp(t, k, "user")
    BY <1>6 DEF LockTimeout, Interrupted
  <2>4. sem' \in [Slots -> [count : Nat, wait : Seq(Threads)]]
    BY <2>1, <2>3 DEF GiveUp, SemaphoreOf, TypeOK
  <2>5. pc' \in [Threads -> States]
    BY <2>3 DEF GiveUp, States, TypeOK
  <2>6. UNCHANGED <<name, made, number, locked_pid, slot, clients>>
    BY <2>3 DEF GiveUp
  <2> QED
    BY <2>2, <2>4, <2>5, <2>6 DEF clients, States, TypeOK
<1>7. ASSUME NEW t \in Threads, LockRetry(t) PROVE TypeOK'
  <2>1. sem' \in [Slots -> [count : Nat, wait : Seq(Threads)]] /\ pc' \in [Threads -> States]
    BY <1>7, SlotTypes, DownTypes DEF LockRetry
  <2> QED
    BY <1>7, <2>1 DEF LockRetry, clients, States, TypeOK
<1>8. ASSUME NEW t \in Threads, NEW i \in Slots, SemaUnlock(t, i) PROVE TypeOK'
  <2>1. taken' \in [Threads -> [Slots -> Nat]] /\ extra' \in [Slots -> Nat]
    <3>1. CASE taken[t][i] > 0
      <4>1. taken[t] \in [Slots -> Nat]
        BY DEF TypeOK
      <4>2. [taken[t] EXCEPT ![i] = @ - 1] \in [Slots -> Nat]
        BY <3>1, <4>1
      <4>3. taken' = [taken EXCEPT ![t][i] = @ - 1] /\ UNCHANGED extra
        BY <1>8, <3>1 DEF SemaUnlock, Returned
      <4>4. taken' = [taken EXCEPT ![t] = [taken[t] EXCEPT ![i] = @ - 1]]
        BY <4>3
      <4> QED
        BY <4>2, <4>3, <4>4 DEF TypeOK
    <3>2. CASE ~(taken[t][i] > 0)
      <4>1. extra' = [extra EXCEPT ![i] = @ + 1] /\ taken' = taken
        BY <1>8, <3>2 DEF SemaUnlock, Returned
      <4>2. taken \in [Threads -> [Slots -> Nat]] /\ extra \in [Slots -> Nat]
        BY DEF TypeOK
      <4> QED
        BY <4>1, <4>2
    <3> QED
      BY <3>1, <3>2
  <2> QED
    BY <1>8, <2>1 DEF SemaUnlock, TypeOK
<1>9. ASSUME NEW t \in Threads, SemaUnlockUp(t) PROVE TypeOK'
  <2>1. up(sem[slot[t]]) \in SemaphoreOf(Threads)
    BY SlotTypes, UpList DEF Queued
  <2>2. pc' \in [Threads -> States]
    BY <1>9 DEF SemaUnlockUp, PcAfterUp, States, TypeOK
  <2> QED
    BY <1>9, <2>1, <2>2 DEF SemaUnlockUp, clients, SemaphoreOf, States, TypeOK
<1>10. ASSUME NEW t \in Threads, Die(t) PROVE TypeOK'
  BY <1>10 DEF Die, table, clients, TypeOK
<1> QED
  BY <1>1, <1>2, <1>3, <1>4, <1>5, <1>6, <1>7, <1>8, <1>9, <1>10
  DEF Next, Call, Proceed, Wake

-----------------------------------------------------------------------------
(* The wait lists.                                                         *)

\* u goes on sleeping where it sleeps, or goes on not sleeping.
Alike(u) == /\ pc'[u] = "lock" <=> pc[u] = "lock"
            /\ pc[u] = "lock" => slot'[u] = slot[u]

\* Nothing happens to the lists or to the sleepers.
LEMMA QuietQueued ==
  ASSUME Queued, sem' = sem, \A u \in Threads : Alike(u)
  PROVE  Queued'
<1>1. \A i \in Slots : Sleepers(i)' = Sleepers(i)
  BY DEF Sleepers, Alike
<1> QED
  BY <1>1 DEF Queued

\* One slot changes, together with those that sleep on it.
LEMMA SlotQueued ==
  ASSUME Queued, sem \in [Slots -> SemaphoreOf(Threads)], NEW i \in Slots, NEW x,
         sem' = [sem EXCEPT ![i] = x], Distinct(x), Waiting(x) = Sleepers(i)',
         x.count # 0 => Waiting(x) = {},
         \A j \in Slots \ {i} : Sleepers(j)' = Sleepers(j)
  PROVE  Queued'
<1>1. sem'[i] = x /\ \A j \in Slots \ {i} : sem'[j] = sem[j]
  OBVIOUS
<1> QED
  BY <1>1 DEF Queued

\* down() takes a unit or joins the list.
LEMMA DownQueued ==
  ASSUME TypeOK, Queued, NEW t \in Threads, NEW i \in Slots, Down(t, i), pc[t] # "lock",
         slot'[t] = i, \A u \in Threads \ {t} : slot'[u] = slot[u]
  PROVE  Queued'
<1>1. /\ sem \in [Slots -> SemaphoreOf(Threads)] /\ sem[i] \in SemaphoreOf(Threads)
      /\ Distinct(sem[i]) /\ Waiting(sem[i]) = Sleepers(i) /\ t \notin Sleepers(i)
      /\ sem[i].count \in Nat
  BY SlotTypes DEF Queued, Sleepers, SemaphoreOf
<1>2. /\ sem' = [sem EXCEPT ![i] = down(sem[i], t)]
      /\ pc'[t] = IF HasUnit(sem[i]) THEN "granted" ELSE "lock"
      /\ \A u \in Threads \ {t} : pc'[u] = pc[u]
  BY DEF Down, TypeOK
<1>3. \A j \in Slots \ {i} : Sleepers(j)' = Sleepers(j)
  BY <1>2 DEF Sleepers
<1>4. CASE HasUnit(sem[i])
  <2>1. /\ Distinct(TakeUnit(sem[i])) /\ Waiting(TakeUnit(sem[i])) = Sleepers(i)
        /\ Sleepers(i) = {}
    BY <1>1, <1>4, TakeUnitList DEF Queued, HasUnit
  <2>2. Sleepers(i)' = Sleepers(i)
    BY <1>2, <1>4 DEF Sleepers
  <2> QED
    BY <1>1, <1>2, <1>3, <1>4, <2>1, <2>2, SlotQueued DEF down
<1>5. CASE ~HasUnit(sem[i])
  <2>1. /\ Distinct(Enqueue(sem[i], t)) /\ Waiting(Enqueue(sem[i], t)) = Sleepers(i) \cup {t}
        /\ Enqueue(sem[i], t).count = 0
    BY <1>1, <1>5, EnqueueList DEF HasUnit
  <2>2. Sleepers(i)' = Sleepers(i) \cup {t}
    BY <1>2, <1>5 DEF Sleepers
  <2> QED
    BY <1>1, <1>2, <1>3, <1>5, <2>1, <2>2, SlotQueued DEF down
<1> QED
  BY <1>4, <1>5

\* A sleeper that gives up leaves the list.
LEMMA GiveUpQueued ==
  ASSUME TypeOK, Queued, NEW t \in Threads, NEW k \in 1 .. Len(sem[slot[t]].wait), NEW next,
         next # "lock", GiveUp(t, k, next)
  PROVE  Queued'
<1>1. PICK i \in Slots : i = slot[t]
  BY DEF TypeOK
<1>2. /\ sem \in [Slots -> SemaphoreOf(Threads)] /\ sem[i] \in SemaphoreOf(Threads)
      /\ Distinct(sem[i]) /\ Waiting(sem[i]) = Sleepers(i) /\ k \in 1 .. Len(sem[i].wait)
      /\ sem[i].wait[k] = t
  BY <1>1, SlotTypes DEF Queued, GiveUp
<1>3. /\ list_del(sem[i], k).count = sem[i].count /\ Distinct(list_del(sem[i], k))
      /\ Waiting(list_del(sem[i], k)) = Sleepers(i) \ {t}
  BY <1>2, ListDelList
<1>4. sem' = [sem EXCEPT ![i] = list_del(sem[i], k)]
  BY <1>1 DEF GiveUp
<1>5. Sleepers(i)' = Sleepers(i) \ {t} /\ \A j \in Slots \ {i} : Sleepers(j)' = Sleepers(j)
  BY <1>1 DEF GiveUp, Sleepers, TypeOK
<1>6. sem[i].count # 0 => Sleepers(i) = {}
  BY DEF Queued
<1> QED
  BY <1>2, <1>3, <1>4, <1>5, <1>6, SlotQueued

\* up() takes the thread that it wakes off the list.
LEMMA UpQueued ==
  ASSUME TypeOK, Queued, NEW t \in Threads, SemaUnlockUp(t)
  PROVE  Queued'
<1>1. PICK i \in Slots : i = slot[t]
  BY DEF TypeOK
<1>2. /\ sem \in [Slots -> SemaphoreOf(Threads)] /\ sem[i] \in SemaphoreOf(Threads)
      /\ Distinct(sem[i]) /\ Waiting(sem[i]) = Sleepers(i)
      /\ pc[t] = "up" /\ slot' = slot /\ sem' = [sem EXCEPT ![i] = up(sem[i])]
      /\ pc' = PcAfterUp(t, i)
  BY <1>1, SlotTypes DEF Queued, SemaUnlockUp
<1>3. Distinct(up(sem[i])) /\ sem[i].count \in Nat
  BY <1>2, UpList DEF SemaphoreOf
<1>4. CASE Sleepers(i) = {}
  <2>1. Woken(sem[i]) = {} /\ Waiting(up(sem[i])) = {}
    BY <1>2, <1>4, UpList
  <2>2. \A j \in Slots : Sleepers(j)' = Sleepers(j)
    BY <1>2, <2>1 DEF PcAfterUp, Sleepers
  <2> QED
    BY <1>2, <1>3, <1>4, <2>1, <2>2, SlotQueued
<1>5. CASE Sleepers(i) # {}
  <2>1. PICK u \in Sleepers(i) : /\ Woken(sem[i]) = {u} /\ up(sem[i]).count = sem[i].count
                                /\ Waiting(up(sem[i])) = Sleepers(i) \ {u}
    BY <1>2, <1>5, UpList
  <2>2. u \in Threads /\ u # t /\ pc[u] = "lock" /\ slot[u] = i
    BY <1>2, <2>1 DEF Sleepers
  <2>3. pc'[t] = "user" /\ pc'[u] = "granted" /\ \A v \in Threads \ {t, u} : pc'[v] = pc[v]
    BY <1>2, <2>1, <2>2 DEF PcAfterUp
  <2>4. Sleepers(i)' = Sleepers(i) \ {u} /\ \A j \in Slots \ {i} : Sleepers(j)' = Sleepers(j)
    BY <1>2, <2>2, <2>3 DEF Sleepers
  <2>5. sem[i].count = 0
    BY <1>5 DEF Queued
  <2> QED
    BY <1>2, <1>3, <2>1, <2>4, <2>5, SlotQueued
<1> QED
  BY <1>4, <1>5

\* Wait lists and sleepers change together.
LEMMA QueuedStep ==
  ASSUME TypeOK, Queued, Made, [Next]_vars
  PROVE  Queued'
<1> USE DEF Alike, TypeOK
<1>1. CASE UNCHANGED vars
  BY <1>1, QuietQueued DEF vars
<1>2. ASSUME NEW t \in Threads, NEW n \in Names, NEW num \in Numbers, NEW i \in Slots,
             CreateSemaphore(t, n, num, i)
      PROVE  Queued'
  <2>1. CASE sem' = sem
    BY <1>2, <2>1, QuietQueued DEF CreateSemaphore
  <2>2. CASE i \notin made /\ sem' = [sem EXCEPT ![i] = sema_init(num)]
    <3>1. num \in Nat /\ Waiting(sema_init(num)) = {} /\ Distinct(sema_init(num))
      BY NumbersAreNat, InitList
    <3>2. \A j \in Slots : Sleepers(j)' = Sleepers(j)
      BY <1>2 DEF CreateSemaphore, Sleepers
    <3>3. Sleepers(i) = {}
      BY <2>2 DEF Made, Sleepers
    <3> QED
      BY <2>2, <3>1, <3>2, <3>3, SlotTypes, SlotQueued
  <2> QED
    BY <1>2, <2>1, <2>2 DEF CreateSemaphore
<1>3. ASSUME NEW t \in Threads, NEW i \in Slots, SemaLock(t, i) PROVE Queued'
  BY <1>3, DownQueued DEF SemaLock
<1>4. ASSUME NEW t \in Threads, NEW i \in Slots, SemaTryLock(t, i) PROVE Queued'
  <2>1. sem[i] \in SemaphoreOf(Threads) /\ Distinct(sem[i]) /\ HasUnit(sem[i])
    BY <1>4, SlotTypes DEF Queued, SemaTryLock
  <2>2. Distinct(TakeUnit(sem[i])) /\ Waiting(TakeUnit(sem[i])) = Sleepers(i)
    BY <2>1, TakeUnitList DEF Queued
  <2>3. Sleepers(i) = {}
    <3>1. sem[i].count # 0
      BY <2>1 DEF HasUnit, SemaphoreOf
    <3> QED
      BY <3>1 DEF Queued
  <2>4. \A j \in Slots : Sleepers(j)' = Sleepers(j)
    BY <1>4 DEF SemaTryLock, Sleepers
  <2>5. sem' = [sem EXCEPT ![i] = TakeUnit(sem[i])]
    BY <1>4 DEF SemaTryLock
  <2> QED
    BY <2>2, <2>3, <2>4, <2>5, SlotTypes, SlotQueued
<1>5. ASSUME NEW t \in Threads, RecordLocker(t) PROVE Queued'
  BY <1>5, QuietQueued DEF RecordLocker
<1>6. ASSUME NEW t \in Threads, NEW k \in 1 .. Len(sem[slot[t]].wait),
             LockTimeout(t, k) \/ Interrupted(t, k)
      PROVE  Queued'
  BY <1>6, GiveUpQueued DEF LockTimeout, Interrupted
<1>7. ASSUME NEW t \in Threads, LockRetry(t) PROVE Queued'
  BY <1>7, DownQueued DEF LockRetry
<1>8. ASSUME NEW t \in Threads, NEW i \in Slots, SemaUnlock(t, i) PROVE Queued'
  BY <1>8, QuietQueued DEF SemaUnlock
<1>9. ASSUME NEW t \in Threads, SemaUnlockUp(t) PROVE Queued'
  BY <1>9, UpQueued
<1>10. ASSUME NEW t \in Threads, Die(t) PROVE Queued'
  BY <1>10, QuietQueued DEF Die, table
<1> QED
  BY <1>1, <1>2, <1>3, <1>4, <1>5, <1>6, <1>7, <1>8, <1>9, <1>10
  DEF Next, Call, Proceed, Wake

-----------------------------------------------------------------------------
(* Slots without a semaphore.                                              *)

\* Calls reach only slots with a semaphore, which keep it.
LEMMA MadeStep ==
  ASSUME TypeOK, Queued, Made, [Next]_vars
  PROVE  Made'
<1> USE DEF Made, TypeOK
<1>1. CASE UNCHANGED vars
  BY <1>1 DEF vars
<1>2. ASSUME NEW t \in Threads, NEW n \in Names, NEW num \in Numbers, NEW i \in Slots,
             CreateSemaphore(t, n, num, i)
      PROVE  Made'
  BY <1>2 DEF CreateSemaphore, clients
<1>3. ASSUME NEW t \in Threads, NEW i \in Slots, SemaLock(t, i) PROVE Made'
  BY <1>3 DEF SemaLock, Down, clients
<1>4. ASSUME NEW t \in Threads, NEW i \in Slots, SemaTryLock(t, i) PROVE Made'
  BY <1>4 DEF SemaTryLock, clients
<1>5. ASSUME NEW t \in Threads, RecordLocker(t) PROVE Made'
  BY <1>5 DEF RecordLocker
<1>6. ASSUME NEW t \in Threads, NEW k \in 1 .. Len(sem[slot[t]].wait),
             LockTimeout(t, k) \/ Interrupted(t, k)
      PROVE  Made'
  BY <1>6 DEF LockTimeout, Interrupted, GiveUp, clients
<1>7. ASSUME NEW t \in Threads, LockRetry(t) PROVE Made'
  BY <1>7 DEF LockRetry, Down, clients
<1>8. ASSUME NEW t \in Threads, NEW i \in Slots, SemaUnlock(t, i) PROVE Made'
  <2> HIDE DEF Made
  <2>1. /\ i \in made /\ made' = made
        /\ pc'[t] = "up" /\ slot'[t] = i
        /\ \A u \in Threads \ {t} : pc'[u] = pc[u] /\ slot'[u] = slot[u]
    BY <1>8 DEF SemaUnlock
  <2>2. \A j \in Slots \ {i} : extra'[j] = extra[j] /\ \A u \in Threads : taken'[u][j] = taken[u][j]
    <3>1. CASE extra' = extra /\ taken' = [taken EXCEPT ![t][i] = @ - 1]
      BY <3>1
    <3>2. CASE taken' = taken /\ extra' = [extra EXCEPT ![i] = @ + 1]
      BY <3>2
    <3> QED
      BY <1>8, <3>1, <3>2 DEF SemaUnlock, Returned
  <2>3. ASSUME NEW u \in Threads, pc'[u] \in {"lock", "retry", "granted", "up"}
        PROVE  slot'[u] \in made'
    BY <2>1, <2>3 DEF Made
  <2>4. ASSUME NEW j \in Slots \ made'
        PROVE  extra'[j] = 0 /\ \A u \in Threads : taken'[u][j] = 0
    <3>1. j \in Slots \ made /\ j # i
      BY <2>1
    <3> QED
      BY <2>2, <3>1 DEF Made
  <2> QED
    BY <2>3, <2>4 DEF Made
<1>9. ASSUME NEW t \in Threads, SemaUnlockUp(t) PROVE Made'
  <2>1. PICK i \in Slots : i = slot[t]
    OBVIOUS
  <2>2. \A u \in Woken(sem[i]) : u \in Sleepers(i)
    <3>1. sem[i] \in SemaphoreOf(Threads) /\ Distinct(sem[i]) /\ Waiting(sem[i]) = Sleepers(i)
      BY SlotTypes DEF Queued
    <3> QED
      BY ZenonT(40), <3>1, UpList
  <2> QED
    BY <1>9, <2>1, <2>2 DEF SemaUnlockUp, PcAfterUp, Sleepers, clients
<1>10. ASSUME NEW t \in Threads, Die(t) PROVE Made'
  BY <1>10 DEF Die, table, clients
<1> QED
  BY <1>1, <1>2, <1>3, <1>4, <1>5, <1>6, <1>7, <1>8, <1>9, <1>10
  DEF Next, Call, Proceed, Wake

-----------------------------------------------------------------------------
(* Conservation: the numbered units of a function from threads to numbers. *)

Units(f) == UNION {{t} \X (1 .. f[t]) : t \in Threads}
Out(i) == [t \in Threads |-> OutOf(t, i)]

\* The units that are out are those of the function Out(i).
LEMMA UnitsOfOut ==
  ASSUME TypeOK, NEW i \in Slots
  PROVE  UnitsOut(i) = Units(Out(i)) /\ Out(i) \in [Threads -> Nat]
BY DEF UnitsOut, Units, Out, OutOf, TypeOK

\* What a unit is.
LEMMA UnitOf ==
  ASSUME NEW f, NEW t, NEW k
  PROVE  <<t, k>> \in Units(f) <=> t \in Threads /\ k \in 1 .. f[t]
BY DEF Units

\* A thread has one unit more: its number is new.
LEMMA OneMore ==
  ASSUME NEW f \in [Threads -> Nat], NEW t \in Threads, IsFiniteSet(Units(f)),
         NEW g, g = [f EXCEPT ![t] = @ + 1]
  PROVE  IsFiniteSet(Units(g)) /\ Cardinality(Units(g)) = Cardinality(Units(f)) + 1
<1> DEFINE x == <<t, f[t] + 1>>
<1>1. f[t] \in Nat /\ x \notin Units(f)
  BY UnitOf
<1>2. Units(g) = Units(f) \cup {x}
  <2>1. ASSUME NEW y \in Units(g) PROVE y \in Units(f) \cup {x}
    <3>1. PICK u \in Threads, k \in Nat : k \in 1 .. g[u] /\ y = <<u, k>>
      BY <2>1 DEF Units
    <3>2. k \in 1 .. f[u] \/ (u = t /\ k = f[t] + 1)
      <4>1. g[u] = IF u = t THEN f[t] + 1 ELSE f[u]
        OBVIOUS
      <4> QED
        BY <1>1, <3>1, <4>1
    <3> QED
      BY <3>1, <3>2, UnitOf
  <2>2. ASSUME NEW y \in Units(f) PROVE y \in Units(g)
    <3>1. PICK u \in Threads, k \in Nat : k \in 1 .. f[u] /\ y = <<u, k>>
      BY <2>2 DEF Units
    <3>2. k \in 1 .. g[u]
      BY <3>1
    <3> QED
      BY <3>1, <3>2, UnitOf
  <2>3. x \in Units(g)
    <3>1. f[t] + 1 \in 1 .. g[t]
      BY <1>1
    <3> QED
      BY <3>1, UnitOf
  <2> QED
    BY <2>1, <2>2, <2>3
<1> HIDE DEF x
<1>3. /\ IsFiniteSet(Units(f) \cup {x})
      /\ Cardinality(Units(f) \cup {x}) = Cardinality(Units(f)) + 1
  BY <1>1, FS_AddElement
<1> QED
  BY <1>2, <1>3

\* A thread has one unit less: the last number is gone.
LEMMA OneLess ==
  ASSUME NEW f \in [Threads -> Nat], NEW t \in Threads, IsFiniteSet(Units(f)), f[t] > 0,
         NEW g, g = [f EXCEPT ![t] = @ - 1]
  PROVE  /\ g \in [Threads -> Nat] /\ IsFiniteSet(Units(g))
         /\ Cardinality(Units(f)) = Cardinality(Units(g)) + 1
<1> DEFINE x == <<t, f[t]>>
<1>1. f[t] \in Nat /\ g \in [Threads -> Nat] /\ f[t] \in 1 .. f[t]
  OBVIOUS
<1>2. Units(g) = Units(f) \ {x}
  <2>1. ASSUME NEW y \in Units(g) PROVE y \in Units(f) \ {x}
    <3>1. PICK u \in Threads, k \in Nat : k \in 1 .. g[u] /\ y = <<u, k>>
      BY <2>1 DEF Units
    <3>2. k \in 1 .. f[u] /\ ~(u = t /\ k = f[t])
      BY <1>1, <3>1
    <3> QED
      BY <3>1, <3>2, UnitOf
  <2>2. ASSUME NEW y \in Units(f), y # x PROVE y \in Units(g)
    <3>1. PICK u \in Threads, k \in Nat : k \in 1 .. f[u] /\ y = <<u, k>>
      BY <2>2 DEF Units
    <3>2. k \in 1 .. g[u]
      BY <1>1, <2>2, <3>1
    <3> QED
      BY <3>1, <3>2, UnitOf
  <2> QED
    BY <2>1, <2>2
<1>3. x \in Units(f)
  BY <1>1, UnitOf
<1> HIDE DEF x
<1>4. IsFiniteSet(Units(g)) /\ Cardinality(Units(g)) = Cardinality(Units(f)) - 1
  BY <1>2, <1>3, FS_RemoveElement
<1>5. Cardinality(Units(f)) \in Nat
  BY FS_CardinalityType
<1> QED
  BY <1>1, <1>4, <1>5

\* Slot i has all its units, in it or out.
ConservedAt(i) ==
  /\ IsFiniteSet(UnitsOut(i))
  /\ i \in made => sem[i].count + Cardinality(UnitsOut(i)) = number[i] + extra[i]

\* What counts for slot i stays the same.
SameAt(i) == /\ sem'[i].count = sem[i].count /\ number'[i] = number[i] /\ extra'[i] = extra[i]
             /\ i \in made' => i \in made

\* Nothing happens to the units of slot i.
LEMMA SameConserved ==
  ASSUME NEW i, ConservedAt(i), SameAt(i), \A u \in Threads : OutOf(u, i)' = OutOf(u, i)
  PROVE  ConservedAt(i)'
<1>1. UnitsOut(i)' = UnitsOut(i)
  BY DEF UnitsOut
<1> QED
  BY <1>1 DEF ConservedAt, SameAt

\* The numbers that the balance is about.
LEMMA ConservedTypes ==
  ASSUME TypeOK, NEW i \in Slots
  PROVE  sem[i].count \in Nat /\ number[i] \in Nat /\ extra[i] \in Nat
BY DEF TypeOK

\* t gets a unit of slot i: one that was in the semaphore, or a new one.
LEMMA MoreConserved ==
  ASSUME TypeOK, TypeOK', NEW i \in Slots, NEW t \in Threads, ConservedAt(i),
         OutOf(t, i)' = OutOf(t, i) + 1,
         \A u \in Threads \ {t} : OutOf(u, i)' = OutOf(u, i),
         number'[i] = number[i], i \in made' => i \in made,
         \/ sem'[i].count = sem[i].count - 1 /\ extra'[i] = extra[i]
         \/ sem'[i].count = sem[i].count /\ extra'[i] = extra[i] + 1
  PROVE  ConservedAt(i)'
<1>1. UnitsOut(i) = Units(Out(i)) /\ Out(i) \in [Threads -> Nat] /\ UnitsOut(i)' = Units(Out(i)')
  BY UnitsOfOut DEF UnitsOut, Units, Out
<1>2. Out(i)' = [Out(i) EXCEPT ![t] = @ + 1]
  BY DEF Out
<1>3. /\ IsFiniteSet(Units(Out(i)'))
      /\ Cardinality(Units(Out(i)')) = Cardinality(Units(Out(i))) + 1
  BY <1>1, <1>2, OneMore DEF ConservedAt
<1>4. Cardinality(UnitsOut(i)) \in Nat
  BY FS_CardinalityType DEF ConservedAt
<1> QED
  BY <1>1, <1>3, <1>4, ConservedTypes DEF ConservedAt

\* t hands its unit of slot i back: to the semaphore.
LEMMA LessConserved ==
  ASSUME TypeOK, TypeOK', NEW i \in Slots, NEW t \in Threads, ConservedAt(i),
         OutOf(t, i) > 0, OutOf(t, i)' = OutOf(t, i) - 1,
         \A u \in Threads \ {t} : OutOf(u, i)' = OutOf(u, i),
         number'[i] = number[i], i \in made' => i \in made,
         sem'[i].count = sem[i].count + 1, extra'[i] = extra[i]
  PROVE  ConservedAt(i)'
<1>1. UnitsOut(i) = Units(Out(i)) /\ Out(i) \in [Threads -> Nat] /\ UnitsOut(i)' = Units(Out(i)')
  BY UnitsOfOut DEF UnitsOut, Units, Out
<1>2. Out(i)' = [Out(i) EXCEPT ![t] = @ - 1] /\ Out(i)[t] > 0
  BY DEF Out
<1>3. /\ IsFiniteSet(Units(Out(i)'))
      /\ Cardinality(Units(Out(i))) = Cardinality(Units(Out(i)')) + 1
  <2>1. PICK f : f = Out(i)
    OBVIOUS
  <2>2. PICK g : g = [f EXCEPT ![t] = @ - 1]
    OBVIOUS
  <2>3. f \in [Threads -> Nat] /\ IsFiniteSet(Units(f)) /\ f[t] > 0 /\ g = Out(i)'
    BY <1>1, <1>2, <2>1, <2>2 DEF ConservedAt
  <2>4. IsFiniteSet(Units(g)) /\ Cardinality(Units(f)) = Cardinality(Units(g)) + 1
    BY <2>2, <2>3, OneLess
  <2> QED
    BY <2>1, <2>3, <2>4
<1>4. Cardinality(Units(Out(i)')) \in Nat
  BY <1>3, FS_CardinalityType
<1> QED
  BY <1>1, <1>3, <1>4, ConservedTypes DEF ConservedAt

\* t hands its unit of slot i over to u.
LEMMA HandedConserved ==
  ASSUME TypeOK, TypeOK', NEW i \in Slots, NEW t \in Threads, NEW u \in Threads \ {t}, ConservedAt(i),
         OutOf(t, i) > 0, OutOf(t, i)' = OutOf(t, i) - 1, OutOf(u, i)' = OutOf(u, i) + 1,
         \A v \in Threads \ {t, u} : OutOf(v, i)' = OutOf(v, i), SameAt(i)
  PROVE  ConservedAt(i)'
<1>1. UnitsOut(i) = Units(Out(i)) /\ Out(i) \in [Threads -> Nat] /\ UnitsOut(i)' = Units(Out(i)')
  BY UnitsOfOut DEF UnitsOut, Units, Out
<1>2. PICK f : f = [Out(i) EXCEPT ![t] = @ - 1]
  OBVIOUS
<1>3. Out(i)' = [f EXCEPT ![u] = @ + 1] /\ Out(i)[t] > 0
  BY <1>2 DEF Out
<1>4. /\ f \in [Threads -> Nat] /\ IsFiniteSet(Units(f))
      /\ Cardinality(Units(Out(i))) = Cardinality(Units(f)) + 1
  <2>1. PICK g : g = Out(i)
    OBVIOUS
  <2>2. g \in [Threads -> Nat] /\ IsFiniteSet(Units(g)) /\ g[t] > 0 /\ f = [g EXCEPT ![t] = @ - 1]
    BY <1>1, <1>2, <1>3, <2>1 DEF ConservedAt
  <2> QED
    BY <2>1, <2>2, OneLess
<1>5. /\ IsFiniteSet(Units(Out(i)'))
      /\ Cardinality(Units(Out(i)')) = Cardinality(Units(f)) + 1
  BY <1>3, <1>4, OneMore
<1> QED
  BY <1>1, <1>4, <1>5 DEF ConservedAt, SameAt

\* down() of a semaphore with a unit moves it out; without one nothing moves.
LEMMA DownConserved ==
  ASSUME TypeOK, TypeOK', Queued, NEW t \in Threads, NEW i \in Slots, Down(t, i),
         pc[t] \in {"user", "retry"}, slot'[t] = i, \A u \in Threads \ {t} : slot'[u] = slot[u],
         UNCHANGED <<made, number, clients>>, \A j \in Slots : ConservedAt(j)
  PROVE  \A j \in Slots : ConservedAt(j)'
<1>1. /\ \A j \in Slots \ {i} : sem'[j] = sem[j]
      /\ pc'[t] = IF HasUnit(sem[i]) THEN "granted" ELSE "lock"
      /\ \A u \in Threads \ {t} : pc'[u] = pc[u]
      /\ sem'[i] = down(sem[i], t)
  BY DEF Down, TypeOK
<1>2. \A j \in Slots, u \in Threads : (u # t \/ j # i) => OutOf(u, j)' = OutOf(u, j)
  BY <1>1 DEF OutOf, clients
<1>3. ASSUME NEW j \in Slots \ {i} PROVE ConservedAt(j)'
  BY <1>1, <1>2, SameConserved DEF SameAt, clients
<1>4. sem[i] \in SemaphoreOf(Threads) /\ Distinct(sem[i]) /\ t \notin Waiting(sem[i])
  BY SlotTypes DEF Queued, Sleepers
<1>5. CASE HasUnit(sem[i])
  <2>1. sem'[i].count = sem[i].count - 1
    BY <1>1, <1>4, <1>5, TakeUnitList DEF down
  <2>2. taken[t][i] \in Nat /\ OutOf(t, i)' = OutOf(t, i) + 1
    BY <1>1, <1>5 DEF OutOf, clients, TypeOK
  <2>3. ConservedAt(i)'
    BY <1>2, <2>1, <2>2, MoreConserved DEF clients
  <2> QED
    BY <1>3, <2>3
<1>6. CASE ~HasUnit(sem[i])
  <2>1. sem'[i].count = sem[i].count
    BY <1>1, <1>4, <1>6, EnqueueList DEF down
  <2>2. OutOf(t, i)' = OutOf(t, i)
    BY <1>1, <1>6 DEF OutOf, clients
  <2>3. ConservedAt(i)'
    BY <1>2, <2>1, <2>2, SameConserved DEF SameAt, clients
  <2> QED
    BY <1>3, <2>3
<1> QED
  BY <1>5, <1>6

\* up() moves the unit of its caller into the semaphore or to the thread it wakes.
LEMMA UpConserved ==
  ASSUME TypeOK, TypeOK', Queued, NEW t \in Threads, SemaUnlockUp(t), \A j \in Slots : ConservedAt(j)
  PROVE  \A j \in Slots : ConservedAt(j)'
<1>1. PICK i \in Slots : i = slot[t]
  BY DEF TypeOK
<1>2. /\ sem[i] \in SemaphoreOf(Threads) /\ Distinct(sem[i]) /\ Waiting(sem[i]) = Sleepers(i)
      /\ pc[t] = "up" /\ pc' = PcAfterUp(t, i) /\ sem'[i] = up(sem[i])
      /\ \A j \in Slots \ {i} : sem'[j] = sem[j]
      /\ UNCHANGED <<made, number, slot, taken, extra>>
  BY <1>1, SlotTypes DEF Queued, SemaUnlockUp, clients, TypeOK
<1>3. taken[t][i] \in Nat /\ pc'[t] = "user"
  BY <1>2 DEF PcAfterUp, TypeOK
<1>4. OutOf(t, i) > 0 /\ OutOf(t, i)' = OutOf(t, i) - 1
  BY <1>1, <1>2, <1>3 DEF OutOf
<1>5. CASE Sleepers(i) = {}
  <2>1. Woken(sem[i]) = {} /\ sem'[i].count = sem[i].count + 1
    BY <1>2, <1>5, UpList
  <2>2. \A u \in Threads \ {t} : pc'[u] = pc[u]
    BY <1>2, <2>1 DEF PcAfterUp
  <2>3. \A j \in Slots, u \in Threads : (u # t \/ j # i) => OutOf(u, j)' = OutOf(u, j)
    BY <1>1, <1>2, <1>3, <2>2 DEF OutOf
  <2>4. ConservedAt(i)'
    BY <1>2, <1>4, <2>1, <2>3, LessConserved
  <2>5. \A j \in Slots \ {i} : ConservedAt(j)'
    BY <1>2, <2>3, SameConserved DEF SameAt
  <2> QED
    BY <2>4, <2>5
<1>6. CASE Sleepers(i) # {}
  <2>1. PICK u \in Sleepers(i) : Woken(sem[i]) = {u} /\ sem'[i].count = sem[i].count
    BY <1>2, <1>6, UpList
  <2>2. u \in Threads \ {t} /\ pc[u] = "lock" /\ slot[u] = i
    BY <1>2, <2>1 DEF Sleepers
  <2>3. pc'[u] = "granted" /\ \A v \in Threads \ {t, u} : pc'[v] = pc[v]
    BY <1>2, <2>1, <2>2 DEF PcAfterUp
  <2>4. OutOf(u, i)' = OutOf(u, i) + 1
    BY <1>2, <2>2, <2>3 DEF OutOf, TypeOK
  <2>5. \A v \in Threads \ {t, u} : OutOf(v, i)' = OutOf(v, i)
    BY <1>2, <2>3 DEF OutOf
  <2>6. \A j \in Slots \ {i}, v \in Threads : OutOf(v, j)' = OutOf(v, j)
    BY <1>1, <1>2, <1>3, <2>2, <2>3 DEF OutOf
  <2>7. ConservedAt(i)'
    BY <1>2, <1>4, <2>1, <2>2, <2>4, <2>5, HandedConserved DEF SameAt
  <2>8. \A j \in Slots \ {i} : ConservedAt(j)'
    BY <1>2, <2>6, SameConserved DEF SameAt
  <2> QED
    BY <2>7, <2>8
<1> QED
  BY <1>5, <1>6

\* SEMA_UNLOCK puts a unit on its way in; one that the caller has not locked is new.
LEMMA UnlockConserved ==
  ASSUME TypeOK, TypeOK', NEW t \in Threads, NEW i \in Slots, SemaUnlock(t, i),
         \A j \in Slots : ConservedAt(j)
  PROVE  \A j \in Slots : ConservedAt(j)'
<1>1. /\ pc[t] = "user" /\ pc'[t] = "up" /\ slot'[t] = i /\ UNCHANGED <<made, number, sem>>
      /\ \A u \in Threads \ {t} : pc'[u] = pc[u] /\ slot'[u] = slot[u]
      /\ taken[t][i] \in Nat
  BY DEF SemaUnlock, TypeOK
<1>2. CASE taken[t][i] > 0
  <2>1. /\ extra' = extra /\ taken'[t][i] = taken[t][i] - 1
        /\ \A u \in Threads, j \in Slots : (u # t \/ j # i) => taken'[u][j] = taken[u][j]
    <3>1. extra' = extra /\ taken' = [taken EXCEPT ![t][i] = @ - 1]
      BY <1>2 DEF SemaUnlock, Returned
    <3>2. taken \in [Threads -> [Slots -> Nat]]
      BY DEF TypeOK
    <3> QED
      BY <3>1, <3>2
  <2>2. \A u \in Threads, j \in Slots : OutOf(u, j)' = OutOf(u, j)
    BY <1>1, <2>1 DEF OutOf
  <2> QED
    BY <1>1, <2>1, <2>2, SameConserved DEF SameAt
<1>3. CASE ~(taken[t][i] > 0)
  <2>1. /\ extra'[i] = extra[i] + 1 /\ taken' = taken
        /\ \A j \in Slots \ {i} : extra'[j] = extra[j]
    BY <1>3 DEF SemaUnlock, Returned, TypeOK
  <2>2. OutOf(t, i)' = OutOf(t, i) + 1
    BY <1>1, <2>1 DEF OutOf
  <2>3. \A u \in Threads, j \in Slots : (u # t \/ j # i) => OutOf(u, j)' = OutOf(u, j)
    BY <1>1, <2>1 DEF OutOf
  <2>4. ConservedAt(i)'
    BY <1>1, <2>1, <2>2, <2>3, MoreConserved
  <2>5. \A j \in Slots \ {i} : ConservedAt(j)'
    BY <1>1, <2>1, <2>3, SameConserved DEF SameAt
  <2> QED
    BY <2>4, <2>5
<1> QED
  BY <1>2, <1>3

\* A new semaphore has all its units in it.
LEMMA CreateConserved ==
  ASSUME TypeOK, TypeOK', Made, NEW t \in Threads, NEW n \in Names, NEW num \in Numbers,
         NEW i \in Slots, CreateSemaphore(t, n, num, i), \A j \in Slots : ConservedAt(j)
  PROVE  \A j \in Slots : ConservedAt(j)'
<1>1. \A u \in Threads, j \in Slots : OutOf(u, j)' = OutOf(u, j)
  BY DEF CreateSemaphore, OutOf, clients
<1>2. CASE UNCHANGED <<made, sem, number>>
  BY <1>1, <1>2, SameConserved DEF CreateSemaphore, SameAt, clients
<1>3. CASE /\ i \notin made /\ made' = made \cup {i} /\ sem' = [sem EXCEPT ![i] = sema_init(num)]
           /\ number' = [number EXCEPT ![i] = num]
  <2>1. ASSUME NEW j \in Slots \ {i} PROVE ConservedAt(j)'
    <3>1. sem'[j] = sem[j] /\ number'[j] = number[j]
      BY <1>3 DEF TypeOK
    <3> QED
      BY <1>1, <1>3, <3>1, SameConserved DEF CreateSemaphore, SameAt, clients
  <2>2. UnitsOut(i)' = {}
    <3>1. \A u \in Threads : OutOf(u, i) = 0
      BY <1>3 DEF Made, OutOf
    <3>2. \A u \in Threads : OutOf(u, i)' = 0
      BY <1>1, <3>1
    <3>3. \A u \in Threads : {u} \X (1 .. OutOf(u, i)') = {}
      BY <3>2
    <3> QED
      BY <3>3 DEF UnitsOut
  <2>3. sem'[i].count = num /\ number'[i] = num /\ extra'[i] = 0 /\ num \in Nat
    BY <1>3, NumbersAreNat DEF CreateSemaphore, sema_init, Made, TypeOK, clients
  <2>4. ConservedAt(i)'
    BY <2>2, <2>3, FS_EmptySet DEF ConservedAt
  <2> QED
    BY <2>1, <2>4
<1> QED
  BY <1>2, <1>3 DEF CreateSemaphore

\* No step loses a unit or makes one up.
LEMMA ConservedStep ==
  ASSUME TypeOK, TypeOK', Queued, Made, [Next]_vars, \A j \in Slots : ConservedAt(j)
  PROVE  \A j \in Slots : ConservedAt(j)'
<1>1. CASE UNCHANGED vars
  BY <1>1, SameConserved DEF vars, SameAt, OutOf
<1>2. ASSUME NEW t \in Threads, NEW n \in Names, NEW num \in Numbers, NEW i \in Slots,
             CreateSemaphore(t, n, num, i)
      PROVE  \A j \in Slots : ConservedAt(j)'
  BY <1>2, CreateConserved
<1>3. ASSUME NEW t \in Threads, NEW i \in Slots, SemaLock(t, i) PROVE \A j \in Slots : ConservedAt(j)'
  <2>1. slot'[t] = i /\ \A u \in Threads \ {t} : slot'[u] = slot[u]
    BY <1>3 DEF SemaLock, TypeOK
  <2> QED
    BY <1>3, <2>1, DownConserved DEF SemaLock
<1>4. ASSUME NEW t \in Threads, NEW i \in Slots, SemaTryLock(t, i) PROVE \A j \in Slots : ConservedAt(j)'
  <2>1. Down(t, i) /\ slot'[t] = i /\ \A u \in Threads \ {t} : slot'[u] = slot[u]
    BY <1>4 DEF SemaTryLock, Down, down, TypeOK
  <2> QED
    BY <1>4, <2>1, DownConserved DEF SemaTryLock
<1>5. ASSUME NEW t \in Threads, RecordLocker(t) PROVE \A j \in Slots : ConservedAt(j)'
  <2>1. PICK i \in Slots : i = slot[t]
    BY DEF TypeOK
  <2>2. /\ taken[t][i] \in Nat /\ taken'[t][i] = taken[t][i] + 1 /\ pc[t] = "granted" /\ pc'[t] = "user"
        /\ \A u \in Threads, j \in Slots : (u # t \/ j # i) => taken'[u][j] = taken[u][j]
        /\ \A u \in Threads \ {t} : pc'[u] = pc[u]
    BY <1>5, <2>1 DEF RecordLocker, TypeOK
  <2>3. \A u \in Threads, j \in Slots : OutOf(u, j)' = OutOf(u, j)
    BY <1>5, <2>1, <2>2 DEF RecordLocker, OutOf
  <2> QED
    BY <1>5, <2>3, SameConserved DEF RecordLocker, SameAt
<1>6. ASSUME NEW t \in Threads, NEW k \in 1 .. Len(sem[slot[t]].wait),
             LockTimeout(t, k) \/ Interrupted(t, k)
      PROVE  \A j \in Slots : ConservedAt(j)'
  <2>1. PICK next \in {"retry", "user"} : GiveUp(t, k, next)
    BY <1>6 DEF LockTimeout, Interrupted
  <2>2. \A u \in Threads, j \in Slots : OutOf(u, j)' = OutOf(u, j)
    BY <2>1 DEF GiveUp, OutOf, TypeOK, clients
  <2>3. \A j \in Slots : sem'[j].count = sem[j].count
    BY <2>1, SlotTypes, ListDelList DEF GiveUp, Queued
  <2> QED
    BY <2>1, <2>2, <2>3, SameConserved DEF GiveUp, SameAt, clients
<1>7. ASSUME NEW t \in Threads, LockRetry(t) PROVE \A j \in Slots : ConservedAt(j)'
  <2>1. PICK i \in Slots : i = slot[t]
    BY DEF TypeOK
  <2> QED
    BY <1>7, <2>1, DownConserved DEF LockRetry
<1>8. ASSUME NEW t \in Threads, NEW i \in Slots, SemaUnlock(t, i) PROVE \A j \in Slots : ConservedAt(j)'
  BY <1>8, UnlockConserved
<1>9. ASSUME NEW t \in Threads, SemaUnlockUp(t) PROVE \A j \in Slots : ConservedAt(j)'
  BY <1>9, UpConserved
<1>10. ASSUME NEW t \in Threads, Die(t) PROVE \A j \in Slots : ConservedAt(j)'
  <2>1. \A u \in Threads, j \in Slots : OutOf(u, j)' = OutOf(u, j)
    BY <1>10 DEF Die, OutOf, TypeOK, clients
  <2> QED
    BY <1>10, <2>1, SameConserved DEF Die, SameAt, table, clients
<1> QED
  BY <1>1, <1>2, <1>3, <1>4, <1>5, <1>6, <1>7, <1>8, <1>9, <1>10
  DEF Next, Call, Proceed, Wake

-----------------------------------------------------------------------------
(* The recorded locker.                                                    *)

\* A locker is recorded with its unit, and erased before a unit is returned.
LEMMA SignalledStep ==
  ASSUME TypeOK, SignalledHasUnit, [Next]_vars
  PROVE  SignalledHasUnit'
<1>1. CASE UNCHANGED <<locked_pid, taken>>
  BY <1>1 DEF SignalledHasUnit
<1>2. ASSUME NEW t \in Threads, RecordLocker(t) PROVE SignalledHasUnit'
  <2>1. PICK i \in Slots : i = slot[t]
    BY DEF TypeOK
  <2>2. /\ locked_pid'[i] = t /\ taken'[t][i] > 0
        /\ \A j \in Slots \ {i} : locked_pid'[j] = locked_pid[j]
        /\ \A u \in Threads, j \in Slots \ {i} : taken'[u][j] = taken[u][j]
    BY <1>2, <2>1 DEF RecordLocker, TypeOK
  <2>3. \A j \in Slots \ {i} : locked_pid[j] # NULL => locked_pid[j] \in Threads
    BY DEF TypeOK
  <2> QED
    BY <2>2, <2>3 DEF SignalledHasUnit
<1>3. ASSUME NEW t \in Threads, NEW i \in Slots, SemaUnlock(t, i) PROVE SignalledHasUnit'
  <2>1. locked_pid'[i] = NULL /\ \A j \in Slots \ {i} : locked_pid'[j] = locked_pid[j]
    BY <1>3 DEF SemaUnlock, TypeOK
  <2>2. \A u \in Threads, j \in Slots \ {i} : taken'[u][j] = taken[u][j]
    <3>1. taken' = [taken EXCEPT ![t][i] = @ - 1] \/ taken' = taken
      BY <1>3 DEF SemaUnlock, Returned
    <3>2. taken \in [Threads -> [Slots -> Nat]]
      BY DEF TypeOK
    <3> QED
      BY <3>1, <3>2
  <2>3. \A j \in Slots \ {i} : locked_pid[j] # NULL => locked_pid[j] \in Threads
    BY DEF TypeOK
  <2> QED
    BY <2>1, <2>2, <2>3 DEF SignalledHasUnit
<1> QED
  BY <1>1, <1>2, <1>3
  DEF Next, Call, Proceed, Wake, vars, table, clients, CreateSemaphore, SemaLock, SemaTryLock, Die,
      LockRetry, SemaUnlockUp, LockTimeout, Interrupted, GiveUp

-----------------------------------------------------------------------------
\* The inductive invariant holds in every state: whoever locks, gives up, dies or
\* unlocks what it has not locked.
THEOREM SemaInvariant == Spec => []IndInv
<1>1. Init => IndInv
  <2> SUFFICES ASSUME Init PROVE IndInv
    OBVIOUS
  <2>1. /\ \A i \in Slots : sem[i] = sema_init(0) /\ extra[i] = 0
        /\ \A t \in Threads : pc[t] = "user" /\ \A i \in Slots : taken[t][i] = 0
        /\ made = {}
    BY DEF Init
  <2>2. \A i \in Slots : /\ sem[i] \in [count : Nat, wait : Seq(Threads)]
                         /\ Waiting(sem[i]) = {} /\ Distinct(sem[i])
    BY <2>1, InitList DEF SemaphoreOf
  <2>3. TypeOK
    <3>1. sem \in [Slots -> [count : Nat, wait : Seq(Threads)]]
      BY <2>2 DEF Init
    <3>2. 0 \in Slots /\ 0 \in 0 .. MaxRetries
      BY SlotsAssumption, BoundAssumption DEF Slots
    <3> QED
      BY <3>1, <3>2 DEF Init, TypeOK
  <2>4. Queued
    BY <2>1, <2>2 DEF Queued, Sleepers
  <2>5. Finite
    <3>1. \A i \in Slots, t \in Threads : OutOf(t, i) = 0
      BY <2>1 DEF OutOf
    <3>2. \A i \in Slots, t \in Threads : {t} \X (1 .. OutOf(t, i)) = {}
      BY <3>1
    <3>3. \A i \in Slots : UnitsOut(i) = {}
      BY <3>2 DEF UnitsOut
    <3> QED
      BY <3>3, FS_EmptySet DEF Finite
  <2> QED
    BY <2>1, <2>3, <2>4, <2>5 DEF Init, IndInv, Made, UnitsConserved, SignalledHasUnit
<1>2. IndInv /\ [Next]_vars => IndInv'
  <2> SUFFICES ASSUME IndInv, [Next]_vars PROVE IndInv'
    OBVIOUS
  <2> USE DEF IndInv
  <2>1. TypeOK' /\ Queued' /\ Made' /\ SignalledHasUnit'
    BY TypeStep, QueuedStep, MadeStep, SignalledStep
  <2>2. \A j \in Slots : ConservedAt(j)
    BY DEF Finite, UnitsConserved, ConservedAt
  <2>3. \A j \in Slots : ConservedAt(j)'
    BY <2>1, <2>2, ConservedStep
  <2>4. Finite' /\ UnitsConserved'
    BY <2>1, <2>3 DEF Finite, UnitsConserved, ConservedAt, TypeOK
  <2> QED
    BY <2>1, <2>4
<1> QED
  BY <1>1, <1>2, PTL DEF Spec

\* No unit is ever lost or made up by the driver: what is in the semaphore and
\* what is out is sema_number, and the units that clients unlocked without having
\* them.
THEOREM UnitsAreConserved == Spec => []UnitsConserved
<1>1. IndInv => UnitsConserved
  BY DEF IndInv
<1> QED
  BY <1>1, SemaInvariant, PTL

\* A thread that sleeps in SEMA_LOCK is on the wait list of a semaphore that has
\* no unit left.
THEOREM SleepersHaveNoUnit == Spec => []NoIdleUnits
<1>1. IndInv => NoIdleUnits
  <2> SUFFICES ASSUME IndInv, NEW t \in Threads, pc[t] = "lock"
               PROVE  /\ sem[slot[t]].count = 0
                      /\ \E k \in 1 .. Len(sem[slot[t]].wait) : sem[slot[t]].wait[k] = t
    BY DEF NoIdleUnits
  <2>1. PICK i \in Slots : i = slot[t]
    BY DEF IndInv, TypeOK
  <2>2. t \in Sleepers(i)
    BY <2>1 DEF Sleepers
  <2>3. sem[i].count = 0 /\ t \in Waiting(sem[i])
    BY <2>2 DEF IndInv, Queued
  <2> QED
    BY <2>1, <2>3 DEF Waiting
<1> QED
  BY <1>1, SemaInvariant, PTL

\* The process that SEMA_LOCK signals after ten seconds has a unit of the semaphore.
THEOREM SignalledHaveUnits == Spec => []SignalledHasUnit
<1>1. IndInv => SignalledHasUnit
  BY DEF IndInv
<1> QED
  BY <1>1, SemaInvariant, PTL
=============================================================================
