---------------------------- MODULE SemutexSema ----------------------------
(***************************************************************************)
(* The named counting semaphores of /dev/semutex                           *)
(* (drv/semutex/mdrv_semutex.c).  Unlike the mutexes they are never        *)
(* deleted, UNLOCK does not ask who calls it, and nothing is cleaned up    *)
(* when a process dies: its units are gone.                                *)
(*                                                                         *)
(* Each thread stands for a process of its own.  As in SemutexMutex a call *)
(* is cut where semutex_semaphore is dropped, and calls that fail without  *)
(* changing anything are stutters.                                         *)
(***************************************************************************)
EXTENDS KSemaphore

CONSTANTS
  Threads,          \* task ids (current->pid)
  Rogues,           \* threads that may unlock a semaphore they have not locked
  Mortals,          \* threads that may die
  Names,            \* semaphore names, none of them empty
  Numbers,          \* initial counts that clients ask for (semanum)
  MUTEX_SUPPORTED,  \* slots in the table
  NULL,             \* pid 0 and the empty name
  MaxCount,         \* bound: units of a semaphore, rogue ones included
  MaxRetries        \* bound: ten-second timeouts within one LOCK

ASSUME SlotsAssumption == MUTEX_SUPPORTED \in Nat \ {0}
ASSUME ThreadsAssumption == Rogues \subseteq Threads /\ Mortals \subseteq Threads
ASSUME NumbersAssumption == Numbers \subseteq 1 .. MaxCount
ASSUME NullAssumption == NULL \notin Threads \cup Names
ASSUME BoundAssumption == MaxCount \in Nat /\ MaxRetries \in Nat

Slots == 0 .. MUTEX_SUPPORTED - 1

VARIABLES
  name,        \* slot -> sema_name, NULL when unused
  made,        \* slots whose sem pointer is not NULL
  number,      \* slot -> sema_number
  sem,         \* slot -> kernel semaphore
  locked_pid,  \* slot -> the last thread that locked it
  pc,          \* thread -> where it is in the driver
  slot,        \* thread -> the slot its call is about
  retries,     \* thread -> timeouts within its current LOCK
  taken,       \* thread -> slot -> units its calls have locked
  extra        \* slot -> units unlocked by threads that had not locked them

vars == <<name, made, number, sem, locked_pid, pc, slot, retries, taken, extra>>
clients == <<taken, extra>>
table == <<name, made, number, sem, locked_pid>>

Init ==
  /\ name = [i \in Slots |-> NULL]
  /\ made = {}
  /\ number = [i \in Slots |-> 0]
  /\ sem = [i \in Slots |-> sema_init(0)]
  /\ locked_pid = [i \in Slots |-> NULL]
  /\ pc = [t \in Threads |-> "user"]
  /\ slot = [t \in Threads |-> 0]
  /\ retries = [t \in Threads |-> 0]
  /\ taken = [t \in Threads |-> [i \in Slots |-> 0]]
  /\ extra = [i \in Slots |-> 0]

-----------------------------------------------------------------------------
FirstUnused(i) == name[i] = NULL /\ \A j \in Slots : j < i => name[j] # NULL

(***************************************************************************)
(* CREATE_SEMAPHORE.  The scan stops at the first unused slot, so a name   *)
(* behind a gap would not be seen.  As for the mutexes the name is written *)
(* before the allocation that may fail.                                    *)
(***************************************************************************)
CreateSemaphore(t, n, num, i) ==
  /\ pc[t] = "user"
  /\ FirstUnused(i)
  /\ \A j \in Slots : j < i => name[j] # n
  /\ name' = [name EXCEPT ![i] = n]
  /\ \/ /\ i \notin made
        /\ made' = made \cup {i}
        /\ sem' = [sem EXCEPT ![i] = sema_init(num)]
        /\ number' = [number EXCEPT ![i] = num]
     \/ UNCHANGED <<made, sem, number>>   \* kmalloc failed, or -EEXIST
  /\ UNCHANGED <<locked_pid, pc, slot, retries, clients>>

Down(t, i) ==
  /\ sem' = [sem EXCEPT ![i] = down(@, t)]
  /\ pc' = [pc EXCEPT ![t] = IF HasUnit(sem[i]) THEN "granted" ELSE "lock"]

SemaLock(t, i) ==
  /\ pc[t] = "user"
  /\ i \in made
  /\ Down(t, i)
  /\ slot' = [slot EXCEPT ![t] = i]
  /\ retries' = [retries EXCEPT ![t] = 0]
  /\ UNCHANGED <<name, made, number, locked_pid, clients>>

\* Mutant: the result of down_trylock() is taken for success when it is not.
SemaTryLockUnchecked(t, i) ==
  /\ pc[t] = "user"
  /\ i \in made
  /\ sem' = [sem EXCEPT ![i] = IF HasUnit(@) THEN TakeUnit(@) ELSE @]
  /\ pc' = [pc EXCEPT ![t] = "granted"]
  /\ slot' = [slot EXCEPT ![t] = i]
  /\ UNCHANGED <<name, made, number, locked_pid, retries, clients>>

SemaTryLock(t, i) ==
  /\ pc[t] = "user"
  /\ i \in made
  /\ HasUnit(sem[i])
  /\ sem' = [sem EXCEPT ![i] = TakeUnit(@)]
  /\ pc' = [pc EXCEPT ![t] = "granted"]
  /\ slot' = [slot EXCEPT ![t] = i]
  /\ UNCHANGED <<name, made, number, locked_pid, retries, clients>>

RecordLocker(t) ==
  /\ pc[t] = "granted"
  /\ locked_pid' = [locked_pid EXCEPT ![slot[t]] = t]
  /\ taken' = [taken EXCEPT ![t][slot[t]] = @ + 1]
  /\ pc' = [pc EXCEPT ![t] = "user"]
  /\ UNCHANGED <<name, made, number, sem, slot, retries, extra>>

\* A sleeper leaves the wait list without a unit and goes on at next.
GiveUp(t, k, next) ==
  /\ pc[t] = "lock"
  /\ sem[slot[t]].wait[k] = t
  /\ sem' = [sem EXCEPT ![slot[t]] = list_del(@, k)]
  /\ pc' = [pc EXCEPT ![t] = next]
  /\ UNCHANGED <<name, made, number, locked_pid, slot, clients>>

\* Ten seconds are over: SIGUSR1 to locked_pid the first time, and again.
LockTimeout(t, k) ==
  /\ retries[t] < MaxRetries
  /\ GiveUp(t, k, "retry")
  /\ retries' = [retries EXCEPT ![t] = @ + 1]

LockRetry(t) ==
  /\ pc[t] = "retry"
  /\ Down(t, slot[t])
  /\ UNCHANGED <<name, made, number, locked_pid, slot, retries, clients>>

Interrupted(t, k) ==
  /\ GiveUp(t, k, "user")
  /\ UNCHANGED retries

\* Units of slot i that are out: locked, or on their way in or out.  The units
\* that a thread has are numbered.
OutOf(t, i) == taken[t][i] + IF pc[t] \in {"granted", "up"} /\ slot[t] = i THEN 1 ELSE 0
UnitsOut(i) == UNION {{t} \X (1 .. OutOf(t, i)) : t \in Threads}

\* Clients unlock what they locked; a rogue unlocks more, up to MaxCount units.
MayUnlock(t, i) ==
  \/ taken[t][i] > 0
  \/ t \in Rogues /\ sem[i].count + Cardinality(UnitsOut(i)) < MaxCount

\* What the clients know of an unlock.
Returned(t, i) ==
  IF taken[t][i] > 0
  THEN taken' = [taken EXCEPT ![t][i] = @ - 1] /\ UNCHANGED extra
  ELSE extra' = [extra EXCEPT ![i] = @ + 1] /\ UNCHANGED taken

\* Mutant: the locker is not erased.
SemaUnlockKeepsPid(t, i) ==
  /\ pc[t] = "user"
  /\ i \in made
  /\ MayUnlock(t, i)
  /\ pc' = [pc EXCEPT ![t] = "up"]
  /\ slot' = [slot EXCEPT ![t] = i]
  /\ Returned(t, i)
  /\ UNCHANGED <<table, retries>>

\* SEMA_UNLOCK erases the locker, whoever it is, then calls up().
SemaUnlock(t, i) ==
  /\ pc[t] = "user"
  /\ i \in made
  /\ MayUnlock(t, i)
  /\ locked_pid' = [locked_pid EXCEPT ![i] = NULL]
  /\ pc' = [pc EXCEPT ![t] = "up"]
  /\ slot' = [slot EXCEPT ![t] = i]
  /\ Returned(t, i)
  /\ UNCHANGED <<name, made, number, sem, retries>>

PcAfterUp(t, i) ==
  [u \in Threads |-> CASE u = t -> "user"
                       [] u \in Woken(sem[i]) \ {t} -> "granted"
                       [] OTHER -> pc[u]]

SemaUnlockUp(t) ==
  /\ pc[t] = "up"
  /\ sem' = [sem EXCEPT ![slot[t]] = up(@)]
  /\ pc' = PcAfterUp(t, slot[t])
  /\ UNCHANGED <<name, made, number, locked_pid, slot, retries, clients>>

\* A process dies; Flush and Release know nothing of semaphores.
Die(t) ==
  /\ t \in Mortals
  /\ pc[t] = "user"
  /\ pc' = [pc EXCEPT ![t] = "dead"]
  /\ UNCHANGED <<table, slot, retries, clients>>

-----------------------------------------------------------------------------
Call(t) ==
  \/ \E n \in Names, num \in Numbers, i \in Slots : CreateSemaphore(t, n, num, i)
  \/ \E i \in Slots : SemaLock(t, i)
  \/ \E i \in Slots : SemaTryLock(t, i)
  \/ \E i \in Slots : SemaUnlock(t, i)
  \/ Die(t)

Proceed(t) == RecordLocker(t) \/ LockRetry(t) \/ SemaUnlockUp(t)

Wake(t) == \E k \in 1 .. Len(sem[slot[t]].wait) : LockTimeout(t, k) \/ Interrupted(t, k)

Next == \E t \in Threads : Call(t) \/ Proceed(t) \/ Wake(t)

Spec == Init /\ [][Next]_vars

-----------------------------------------------------------------------------
\* Every variable has its type.
TypeOK ==
  /\ name \in [Slots -> Names \cup {NULL}]
  /\ made \subseteq Slots
  /\ number \in [Slots -> Nat]
  /\ sem \in [Slots -> [count : Nat, wait : Seq(Threads)]]
  /\ locked_pid \in [Slots -> Threads \cup {NULL}]
  /\ pc \in [Threads -> {"user", "granted", "lock", "retry", "up", "dead"}]
  /\ slot \in [Threads -> Slots]
  /\ retries \in [Threads -> 0 .. MaxRetries]
  /\ taken \in [Threads -> [Slots -> Nat]]
  /\ extra \in [Slots -> Nat]

\* The units in the semaphore and those that are out add up to sema_number, and
\* to the ones that clients unlocked without having them, which SEMA_UNLOCK does
\* not notice; also across timeouts, signals and deaths (a dead client's units
\* stay out, for good).
UnitsConserved ==
  \A i \in made : sem[i].count + Cardinality(UnitsOut(i)) = number[i] + extra[i]

\* Nobody sleeps while units are left, and every sleeper is on the wait list.
NoIdleUnits ==
  \A t \in Threads : pc[t] = "lock" =>
     /\ sem[slot[t]].count = 0
     /\ \E k \in 1 .. Len(sem[slot[t]].wait) : sem[slot[t]].wait[k] = t

\* The thread that LOCK signals as the holder has a unit, even if other holders
\* came and went; a dead one still counts as having it.
SignalledHasUnit ==
  \A i \in Slots : locked_pid[i] # NULL => taken[locked_pid[i]][i] > 0
=============================================================================
