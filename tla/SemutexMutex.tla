--------------------------- MODULE SemutexMutex ---------------------------
(***************************************************************************)
(* The named mutexes of /dev/semutex (drv/semutex/mdrv_semutex.c): a table *)
(* of slots shared by all processes.  A slot is found or made by name, is  *)
(* locked by taking the kernel semaphore behind it, and remembers who      *)
(* locked it so that only that thread may unlock it, and so that the       *)
(* driver can unlock it for a process that dies.                           *)
(*                                                                         *)
(* A thread's ioctl is cut where the code drops semutex_mutex or sleeps:   *)
(* taking the semaphore and recording the owner are two steps, and so are  *)
(* erasing the owner and up().  Flush and Release scan the table without   *)
(* that mutex, so each of their tests of a slot is a step of its own.      *)
(* Calls that fail without changing anything (-EINVAL, -ENOENT, a refused  *)
(* UNLOCK, a failed TRY_LOCK) are stutters.                                *)
(***************************************************************************)
EXTENDS KSemaphore

CONSTANTS
  Threads,          \* task ids (current->pid)
  Procs,            \* processes (current->tgid)
  Proc,             \* the process of each thread
  Files,            \* struct file objects
  Names,            \* mutex names, none of them empty
  MUTEX_SUPPORTED,  \* slots in the table (320 in the driver)
  NULL,             \* pid 0, a NULL filp and the empty name
  Careless,         \* processes that may close() while holding or awaiting a mutex
  MaxRetries        \* bound: ten-second timeouts within one LOCK

ASSUME SlotsAssumption == MUTEX_SUPPORTED \in Nat \ {0}
ASSUME ProcAssumption == Proc \in [Threads -> Procs]
ASSUME NullAssumption == NULL \notin Threads \cup Procs \cup Files \cup Names
ASSUME BoundAssumption == MaxRetries \in Nat
ASSUME CarelessAssumption == Careless \subseteq Procs

Slots == 0 .. MUTEX_SUPPORTED - 1

VARIABLES
  name,        \* slot -> its name, NULL when the slot is unused
  mutex_info,  \* slot -> locked_status, locked_pid, locked_tgid, locked_file
  made,        \* slots whose sem pointer is not NULL
  sem,         \* slot -> kernel semaphore
  fd,          \* process -> the file it has open
  exiting,     \* processes with PF_EXITING set
  pc,          \* thread -> where it is in the driver
  slot,        \* thread -> the slot its call is about, or i of its scan
  filp,        \* thread -> the file its call holds a reference to
  retries,     \* thread -> timeouts within its current LOCK
  held         \* thread -> mutexes its calls have locked (what the client knows)

vars == <<name, mutex_info, made, sem, fd, exiting, pc, slot, filp, retries, held>>
table == <<name, mutex_info, made, sem>>
tasks == <<pc, slot, filp, retries>>

Unlocked == [locked_status |-> FALSE, locked_pid |-> NULL,
             locked_tgid |-> NULL, locked_file |-> NULL]

LockedBy(t, f) == [locked_status |-> TRUE, locked_pid |-> t,
                   locked_tgid |-> Proc[t], locked_file |-> f]

Init ==
  /\ name = [i \in Slots |-> NULL]
  /\ mutex_info = [i \in Slots |-> Unlocked]
  /\ made = {}
  /\ sem = [i \in Slots |-> sema_init(0)]
  /\ fd = [p \in Procs |-> NULL]
  /\ exiting = {}
  /\ pc = [t \in Threads |-> "user"]
  /\ slot = [t \in Threads |-> 0]
  /\ filp = [t \in Threads |-> NULL]
  /\ retries = [t \in Threads |-> 0]
  /\ held = [t \in Threads |-> {}]

-----------------------------------------------------------------------------
\* A thread that is in user mode and can issue an ioctl on its process's file.
CanCall(t) == pc[t] = "user" /\ Proc[t] \notin exiting /\ fd[Proc[t]] # NULL

(***************************************************************************)
(* Leaving the driver.  An ioctl holds a reference to its file, so when    *)
(* another thread has closed the descriptor meanwhile, the last call to    *)
(* end runs Release on its way out.                                        *)
(***************************************************************************)
LastRef(t) == /\ fd[Proc[t]] # filp[t]
              /\ \A u \in Threads \ {t} : filp[u] # filp[t]
ReturnPc(t) == IF LastRef(t) THEN "release" ELSE "user"
ReturnFilp(t) == IF LastRef(t) THEN filp[t] ELSE NULL

\* pc after up() on slot i by t: t goes on at next, the first waiter has the unit.
PcAfterUp(t, i, next) ==
  [u \in Threads |-> CASE u = t -> next
                       [] u \in Woken(sem[i]) \ {t} -> "granted"
                       [] OTHER -> pc[u]]

Forget(P, i) == [u \in Threads |-> IF Proc[u] = P THEN held[u] \ {i} ELSE held[u]]

-----------------------------------------------------------------------------
Open(t, f) ==
  /\ pc[t] = "user" /\ Proc[t] \notin exiting
  /\ fd[Proc[t]] = NULL
  /\ \A p \in Procs : fd[p] # f
  /\ \A u \in Threads : filp[u] # f
  /\ fd' = [fd EXCEPT ![Proc[t]] = f]
  /\ UNCHANGED <<table, exiting, tasks, held>>

(***************************************************************************)
(* CREATE_MUTEX.  A known name changes nothing.  Otherwise the name goes   *)
(* into the first unused slot; only then is the semaphore allocated, and   *)
(* when that fails the name stays behind.  A slot that was deleted before  *)
(* keeps its semaphore in whatever state it is.                            *)
(***************************************************************************)
FirstUnused(i) == name[i] = NULL /\ \A j \in Slots : j < i => name[j] # NULL

\* Mutant: the scan stops at the first unused slot.
CreateMutexEarlyBreak(t, n, i) ==
  /\ CanCall(t)
  /\ \A j \in Slots : j < i => name[j] # n
  /\ FirstUnused(i)
  /\ name' = [name EXCEPT ![i] = n]
  /\ made' = made \cup {i}
  /\ sem' = [sem EXCEPT ![i] = IF i \in made THEN @ ELSE sema_init(1)]
  /\ UNCHANGED <<mutex_info, fd, exiting, tasks, held>>

CreateMutex(t, n, i) ==
  /\ CanCall(t)
  /\ \A j \in Slots : name[j] # n
  /\ FirstUnused(i)
  /\ name' = [name EXCEPT ![i] = n]
  /\ \/ /\ i \notin made
        /\ made' = made \cup {i}
        /\ sem' = [sem EXCEPT ![i] = sema_init(1)]
     \/ UNCHANGED <<made, sem>>   \* i \in made, or kmalloc failed
  /\ UNCHANGED <<mutex_info, fd, exiting, tasks, held>>

\* DEL_MUTEX erases the name only, locked or not, and takes no lock.
DelMutex(t, i) ==
  /\ CanCall(t)
  /\ i \in made
  /\ name' = [name EXCEPT ![i] = NULL]
  /\ UNCHANGED <<mutex_info, made, sem, fd, exiting, tasks, held>>

-----------------------------------------------------------------------------
\* The first down of LOCK ("lock") and LOCK_WITHTIMEOUT ("timed").
Down(t, i, wait) ==
  /\ sem' = [sem EXCEPT ![i] = down(@, t)]
  /\ pc' = [pc EXCEPT ![t] = IF HasUnit(sem[i]) THEN "granted" ELSE wait]

Lock(t, i, wait) ==
  /\ CanCall(t)
  /\ i \in made
  /\ Down(t, i, wait)
  /\ slot' = [slot EXCEPT ![t] = i]
  /\ filp' = [filp EXCEPT ![t] = fd[Proc[t]]]
  /\ retries' = [retries EXCEPT ![t] = 0]
  /\ UNCHANGED <<name, mutex_info, made, fd, exiting, held>>

\* Mutant: the result of down_trylock is ignored.
TryLockUnchecked(t, i) ==
  /\ CanCall(t)
  /\ i \in made
  /\ sem' = [sem EXCEPT ![i] = TakeUnit(@)]
  /\ pc' = [pc EXCEPT ![t] = "granted"]
  /\ slot' = [slot EXCEPT ![t] = i]
  /\ filp' = [filp EXCEPT ![t] = fd[Proc[t]]]
  /\ UNCHANGED <<name, mutex_info, made, fd, exiting, retries, held>>

TryLock(t, i) ==
  /\ CanCall(t)
  /\ i \in made
  /\ HasUnit(sem[i])
  /\ sem' = [sem EXCEPT ![i] = TakeUnit(@)]
  /\ pc' = [pc EXCEPT ![t] = "granted"]
  /\ slot' = [slot EXCEPT ![t] = i]
  /\ filp' = [filp EXCEPT ![t] = fd[Proc[t]]]
  /\ UNCHANGED <<name, mutex_info, made, fd, exiting, retries, held>>

\* The second half of every successful lock: the owner is written down.
RecordOwner(t) ==
  /\ pc[t] = "granted"
  /\ mutex_info' = [mutex_info EXCEPT ![slot[t]] = LockedBy(t, filp[t])]
  /\ held' = [held EXCEPT ![t] = @ \cup {slot[t]}]
  /\ pc' = [pc EXCEPT ![t] = ReturnPc(t)]
  /\ filp' = [filp EXCEPT ![t] = ReturnFilp(t)]
  /\ slot' = [slot EXCEPT ![t] = 0]
  /\ UNCHANGED <<name, made, sem, fd, exiting, retries>>

\* A sleeper leaves the wait list without the unit.
GiveUp(t, k) ==
  /\ sem[slot[t]].wait[k] = t
  /\ sem' = [sem EXCEPT ![slot[t]] = list_del(@, k)]

\* LOCK_WITHTIMEOUT returns -ETIME.
TimedOut(t, k) ==
  /\ pc[t] = "timed"
  /\ GiveUp(t, k)
  /\ pc' = [pc EXCEPT ![t] = ReturnPc(t)]
  /\ filp' = [filp EXCEPT ![t] = ReturnFilp(t)]
  /\ slot' = [slot EXCEPT ![t] = 0]
  /\ UNCHANGED <<name, mutex_info, made, fd, exiting, retries, held>>

(***************************************************************************)
(* LOCK wakes up after ten seconds, the first time sends SIGUSR1 to        *)
(* locked_pid (a signal to a sleeping thread is one of the reasons for     *)
(* Interrupted), and goes back to the end of the wait list.                *)
(***************************************************************************)
LockTimeout(t, k) ==
  /\ pc[t] = "lock"
  /\ retries[t] < MaxRetries
  /\ GiveUp(t, k)
  /\ retries' = [retries EXCEPT ![t] = @ + 1]
  /\ pc' = [pc EXCEPT ![t] = "retry"]
  /\ UNCHANGED <<name, mutex_info, made, fd, exiting, slot, filp, held>>

LockRetry(t) ==
  /\ pc[t] = "retry"
  /\ Down(t, slot[t], "lock")
  /\ UNCHANGED <<name, mutex_info, made, fd, exiting, slot, filp, retries, held>>

\* A signal ends an interruptible wait: LOCK returns -EINTR.
Interrupted(t, k) ==
  /\ pc[t] = "lock"
  /\ GiveUp(t, k)
  /\ pc' = [pc EXCEPT ![t] = ReturnPc(t)]
  /\ filp' = [filp EXCEPT ![t] = ReturnFilp(t)]
  /\ slot' = [slot EXCEPT ![t] = 0]
  /\ UNCHANGED <<name, mutex_info, made, fd, exiting, retries, held>>

-----------------------------------------------------------------------------
\* Mutant: any thread of the process may unlock.
MayUnlockAnyPid(t, i) == /\ mutex_info[i].locked_status
                         /\ mutex_info[i].locked_file = fd[Proc[t]]

\* UNLOCK: only the recorded thread, through the recorded file.
MayUnlock(t, i) == /\ mutex_info[i].locked_status
                   /\ mutex_info[i].locked_pid = t
                   /\ mutex_info[i].locked_file = fd[Proc[t]]

\* Mutant: pid and tgid are not erased.
UnlockKeepsPid(t, i) ==
  /\ CanCall(t)
  /\ i \in made
  /\ MayUnlock(t, i)
  /\ mutex_info' = [mutex_info EXCEPT ![i].locked_status = FALSE,
                                      ![i].locked_file = NULL]
  /\ held' = [held EXCEPT ![t] = @ \ {i}]
  /\ pc' = [pc EXCEPT ![t] = "up"]
  /\ slot' = [slot EXCEPT ![t] = i]
  /\ filp' = [filp EXCEPT ![t] = fd[Proc[t]]]
  /\ UNCHANGED <<name, made, sem, fd, exiting, retries>>

Unlock(t, i) ==
  /\ CanCall(t)
  /\ i \in made
  /\ MayUnlock(t, i)
  /\ mutex_info' = [mutex_info EXCEPT ![i] = Unlocked]
  /\ held' = [held EXCEPT ![t] = @ \ {i}]
  /\ pc' = [pc EXCEPT ![t] = "up"]
  /\ slot' = [slot EXCEPT ![t] = i]
  /\ filp' = [filp EXCEPT ![t] = fd[Proc[t]]]
  /\ UNCHANGED <<name, made, sem, fd, exiting, retries>>

\* Mutant: UNLOCK forgets up().
UnlockNoUp(t) ==
  /\ pc[t] = "up"
  /\ pc' = [pc EXCEPT ![t] = ReturnPc(t)]
  /\ filp' = [filp EXCEPT ![t] = ReturnFilp(t)]
  /\ slot' = [slot EXCEPT ![t] = 0]
  /\ UNCHANGED <<table, fd, exiting, retries, held>>

UnlockUp(t) ==
  /\ pc[t] = "up"
  /\ sem' = [sem EXCEPT ![slot[t]] = up(@)]
  /\ pc' = PcAfterUp(t, slot[t], ReturnPc(t))
  /\ filp' = [filp EXCEPT ![t] = ReturnFilp(t)]
  /\ slot' = [slot EXCEPT ![t] = 0]
  /\ UNCHANGED <<name, mutex_info, made, fd, exiting, retries, held>>

-----------------------------------------------------------------------------
(***************************************************************************)
(* close().  Flush does nothing for a process that is not exiting; Release *)
(* runs now unless another thread's call still uses the file.  A process   *)
(* that is not Careless first unlocks everything and has no call under way *)
(***************************************************************************)
Quiescent(p) == \A u \in Threads : Proc[u] = p => held[u] = {} /\ pc[u] = "user"

Close(t) ==
  /\ CanCall(t)
  /\ Proc[t] \in Careless \/ Quiescent(Proc[t])
  /\ LET f == fd[Proc[t]]
         last == \A u \in Threads : filp[u] # f
     IN /\ pc' = [pc EXCEPT ![t] = IF last THEN "release" ELSE "user"]
        /\ filp' = [filp EXCEPT ![t] = IF last THEN f ELSE NULL]
  /\ fd' = [fd EXCEPT ![Proc[t]] = NULL]
  /\ slot' = [slot EXCEPT ![t] = 0]
  /\ UNCHANGED <<table, exiting, retries, held>>

\* The scans of Release and Flush: where "for (i = 0; ...; i++)" goes on after
\* slot i, in the loop or behind it.
NextPc(t, loop, behind) == IF slot[t] + 1 \in Slots THEN loop ELSE behind
NextSlot(t) == IF slot[t] + 1 \in Slots THEN slot[t] + 1 ELSE 0
NextFilp(t) == IF slot[t] + 1 \in Slots THEN filp[t] ELSE NULL

\* Release: is the slot locked through this file?
ReleaseTest(t) ==
  /\ pc[t] = "release"
  /\ mutex_info[slot[t]].locked_file = filp[t]
  /\ pc' = [pc EXCEPT ![t] = "release_bug"]
  /\ UNCHANGED <<table, fd, exiting, slot, filp, retries, held>>

ReleaseSkip(t) ==
  /\ pc[t] = "release"
  /\ mutex_info[slot[t]].locked_file # filp[t]
  /\ pc' = [pc EXCEPT ![t] = NextPc(t, "release", "user")]
  /\ slot' = [slot EXCEPT ![t] = NextSlot(t)]
  /\ filp' = [filp EXCEPT ![t] = NextFilp(t)]
  /\ UNCHANGED <<table, fd, exiting, retries, held>>

\* BUG_ON(locked_status == false), read after the file was compared.
ReleaseBug(t) ==
  /\ pc[t] = "release_bug"
  /\ pc' = [pc EXCEPT ![t] = IF mutex_info[slot[t]].locked_status
                             THEN "release_up" ELSE "oops"]
  /\ UNCHANGED <<table, fd, exiting, slot, filp, retries, held>>

\* up() first, the status and the file of the slot erased after it.
ReleaseUp(t) ==
  /\ pc[t] = "release_up"
  /\ sem' = [sem EXCEPT ![slot[t]] = up(@)]
  /\ pc' = PcAfterUp(t, slot[t], "erase")
  /\ held' = Forget(Proc[t], slot[t])
  /\ UNCHANGED <<name, mutex_info, made, fd, exiting, slot, filp, retries>>

ReleaseErase(t) ==
  /\ pc[t] = "erase"
  /\ mutex_info' = [mutex_info EXCEPT ![slot[t]].locked_status = FALSE,
                                      ![slot[t]].locked_file = NULL]
  /\ pc' = [pc EXCEPT ![t] = NextPc(t, "release", "user")]
  /\ slot' = [slot EXCEPT ![t] = NextSlot(t)]
  /\ filp' = [filp EXCEPT ![t] = NextFilp(t)]
  /\ UNCHANGED <<name, made, sem, fd, exiting, retries, held>>

(***************************************************************************)
(* A process exits, normally or killed, once none of its threads is in the *)
(* driver.  Its last thread closes the file with PF_EXITING set: Flush     *)
(* unlocks every slot that carries its tgid, then Release runs.            *)
(***************************************************************************)
Exit(t) ==
  /\ Proc[t] \notin exiting
  /\ \A u \in Threads : Proc[u] = Proc[t] => pc[u] = "user"
  /\ exiting' = exiting \cup {Proc[t]}
  /\ IF fd[Proc[t]] = NULL
     THEN UNCHANGED <<pc, filp, fd>>
     ELSE /\ pc' = [pc EXCEPT ![t] = "flush"]
          /\ filp' = [filp EXCEPT ![t] = fd[Proc[t]]]
          /\ fd' = [fd EXCEPT ![Proc[t]] = NULL]
  /\ slot' = [slot EXCEPT ![t] = 0]
  /\ UNCHANGED <<table, retries, held>>

\* Flush: does the slot carry the tgid of the process that exits?
FlushTest(t) ==
  /\ pc[t] = "flush"
  /\ mutex_info[slot[t]].locked_tgid = Proc[t]
  /\ pc' = [pc EXCEPT ![t] = "flush_bug"]
  /\ UNCHANGED <<table, fd, exiting, slot, filp, retries, held>>

FlushSkip(t) ==
  /\ pc[t] = "flush"
  /\ mutex_info[slot[t]].locked_tgid # Proc[t]
  /\ pc' = [pc EXCEPT ![t] = NextPc(t, "flush", "release")]
  /\ slot' = [slot EXCEPT ![t] = NextSlot(t)]
  /\ UNCHANGED <<table, fd, exiting, filp, retries, held>>

\* BUG_ON(locked_status == false), read after the tgid was compared.
FlushBug(t) ==
  /\ pc[t] = "flush_bug"
  /\ pc' = [pc EXCEPT ![t] = IF mutex_info[slot[t]].locked_status
                             THEN "flush_erase" ELSE "oops"]
  /\ UNCHANGED <<table, fd, exiting, slot, filp, retries, held>>

\* Mutant: the tgid is not erased, as in Release.
FlushEraseStatus(t) ==
  /\ pc[t] = "flush_erase"
  /\ mutex_info' = [mutex_info EXCEPT ![slot[t]].locked_status = FALSE]
  /\ held' = Forget(Proc[t], slot[t])
  /\ pc' = [pc EXCEPT ![t] = "flush_up"]
  /\ UNCHANGED <<name, made, sem, fd, exiting, slot, filp, retries>>

\* Under semutex_mutex the slot is erased, whoever it names by now.
FlushErase(t) ==
  /\ pc[t] = "flush_erase"
  /\ mutex_info' = [mutex_info EXCEPT ![slot[t]] = Unlocked]
  /\ held' = Forget(Proc[t], slot[t])
  /\ pc' = [pc EXCEPT ![t] = "flush_up"]
  /\ UNCHANGED <<name, made, sem, fd, exiting, slot, filp, retries>>

FlushUp(t) ==
  /\ pc[t] = "flush_up"
  /\ sem' = [sem EXCEPT ![slot[t]] = up(@)]
  /\ pc' = PcAfterUp(t, slot[t], NextPc(t, "flush", "release"))
  /\ slot' = [slot EXCEPT ![t] = NextSlot(t)]
  /\ UNCHANGED <<name, mutex_info, made, fd, exiting, filp, retries, held>>

-----------------------------------------------------------------------------
\* Calls a client chooses to make.
Call(t) ==
  \/ \E f \in Files : Open(t, f)
  \/ \E n \in Names, i \in Slots : CreateMutex(t, n, i)
  \/ \E i \in Slots : DelMutex(t, i)
  \/ \E i \in Slots, wait \in {"lock", "timed"} : Lock(t, i, wait)
  \/ \E i \in Slots : TryLock(t, i)
  \/ \E i \in Slots : Unlock(t, i)
  \/ Close(t)
  \/ Exit(t)

\* Steps of a call that has begun and is not asleep.
Proceed(t) ==
  \/ RecordOwner(t)
  \/ LockRetry(t)
  \/ UnlockUp(t)
  \/ ReleaseTest(t)
  \/ ReleaseSkip(t)
  \/ ReleaseBug(t)
  \/ ReleaseUp(t)
  \/ ReleaseErase(t)
  \/ FlushTest(t)
  \/ FlushSkip(t)
  \/ FlushBug(t)
  \/ FlushErase(t)
  \/ FlushUp(t)

\* What ends a sleep other than being handed the unit.
Wake(t) ==
  \E k \in 1 .. Len(sem[slot[t]].wait) :
     TimedOut(t, k) \/ LockTimeout(t, k) \/ Interrupted(t, k)

Next == \E t \in Threads : Call(t) \/ Proceed(t) \/ Wake(t)

Spec == Init /\ [][Next]_vars

(***************************************************************************)
(* Fairness.  The kernel runs a thread that is in the driver and not       *)
(* asleep, and a timed sleep ends.  That a holder unlocks in the end is    *)
(* the clients' part of the contract; it is assumed for LockServed only.   *)
(***************************************************************************)
KernelFairness == \A t \in Threads : WF_vars(Proceed(t))
ClientFairness == \A t \in Threads : \A i \in Slots : WF_vars(Unlock(t, i))
FairSpec == Spec /\ KernelFairness /\ ClientFairness

-----------------------------------------------------------------------------
States == {"user", "granted", "lock", "timed", "retry", "up",
           "release", "release_bug", "release_up", "erase",
           "flush", "flush_bug", "flush_erase", "flush_up", "oops"}

\* Every variable has its type.
TypeOK ==
  /\ name \in [Slots -> Names \cup {NULL}]
  /\ mutex_info \in [Slots -> [locked_status : BOOLEAN,
                               locked_pid : Threads \cup {NULL},
                               locked_tgid : Procs \cup {NULL},
                               locked_file : Files \cup {NULL}]]
  /\ made \in SUBSET Slots
  /\ sem \in [Slots -> [count : Nat, wait : Seq(Threads)]]
  /\ fd \in [Procs -> Files \cup {NULL}]
  /\ exiting \in SUBSET Procs
  /\ pc \in [Threads -> States]
  /\ slot \in [Threads -> Slots]
  /\ filp \in [Threads -> Files \cup {NULL}]
  /\ retries \in [Threads -> 0 .. MaxRetries]
  /\ held \in [Threads -> SUBSET Slots]

\* Thread t has the unit of slot i: it locked it, is about to record that it
\* did, or has erased the record and is about to call up().
Owns(t, i) == \/ i \in held[t]
              \/ pc[t] \in {"granted", "up", "flush_up"} /\ slot[t] = i

\* No two threads have the same mutex, whatever locks, timeouts, signals,
\* closes, exits and deletions come in between (the semaphore of a slot).
MutualExclusion ==
  \A i \in Slots : \A t, u \in Threads : Owns(t, i) /\ Owns(u, i) => t = u

\* The unit of a semaphore is neither lost nor duplicated by Unlock, Release
\* and Flush: it is in the semaphore exactly when no thread has it.
UnitConserved ==
  \A i \in made : sem[i].count = IF \E t \in Threads : Owns(t, i) THEN 0 ELSE 1

\* No lost wakeup: a thread sleeps in LOCK or LOCK_WITHTIMEOUT only on a mutex
\* that some thread has, and it is on that mutex's wait list.
SleepersAreQueued ==
  \A t \in Threads : pc[t] \in {"lock", "timed"} =>
     /\ \E u \in Threads : Owns(u, slot[t])
     /\ \E k \in 1 .. Len(sem[slot[t]].wait) : sem[slot[t]].wait[k] = t

\* UNLOCK is never refused to the thread that locked the mutex ("it is not in
\* lock status", "not in the lock pid", "use wrong filp").
HolderCanUnlock ==
  \A t \in Threads : \A i \in held[t] : Proc[t] \notin exiting => MayUnlock(t, i)

\* The owner fields, which UNLOCK and Flush decide by and LOCK signals to,
\* name a thread only while that thread holds the mutex.
RecordTruthful ==
  \A i \in Slots : mutex_info[i] = Unlocked
                   \/ \E t \in Threads : /\ i \in held[t]
                                         /\ mutex_info[i].locked_status
                                         /\ mutex_info[i].locked_pid = t
                                         /\ mutex_info[i].locked_tgid = Proc[t]

\* BUG_ON(dev->mutex_info[i].locked_status == false) fires neither in Flush nor
\* in Release.
NoBug == \A t \in Threads : pc[t] # "oops"

\* Two slots never have the same name: the scan of CREATE_MUTEX sees the whole
\* table before it takes the first unused slot.
UniqueNames ==
  \A i, j \in Slots : name[i] = name[j] /\ name[i] # NULL => i = j

\* A process that exits leaves no mutex locked: every slot it had is freed or
\* handed to a waiter.
ExitFrees ==
  \A p \in Procs :
    (p \in exiting) ~> (\A t \in Threads : Proc[t] = p =>
                            pc[t] = "user" /\ \A i \in Slots : ~Owns(t, i))

\* A thread in LOCK gets out of it when holders unlock or die, however its own
\* timeouts and the other waiters' come and go; the one exception is a holder
\* that is itself asleep in the driver (it locked again what it holds).
LockServed ==
  \A t \in Threads :
    pc[t] \in {"lock", "retry"} ~>
      \/ pc[t] \notin {"lock", "retry"}
      \/ \E u \in Threads : slot[t] \in held[u] /\ pc[u] \in {"lock", "timed"}
=============================================================================
