# TLA+ models of the MStar T1 platform drivers

The repository is the source drop of a Fire TV set built on the MStar T1
("maserati") SoC: a Linux 3.10 kernel with the vendor's drivers
(`src/kernel/mstar/t1/3.10`), two boot loaders (`src/bootable`), a Wi-Fi driver and
a Bluetooth remote daemon (`src/vendor`), and a few user-space libraries.  Most of
it is third-party code.  What is the platform's own is a set of drivers under
`drivers/mstar2` and their Amazon and OP-TEE neighbours, and among those the core
logic is the communication between processes and between processors.  This
directory models that part.

## Inventory

| component | state it keeps | operations | who shares it |
|---|---|---|---|
| semutex mutexes (`drv/semutex`) | 320 named slots, each with a kernel semaphore and the owner's pid, tgid and file | create, delete, lock, lock with timeout, try lock, unlock, close, exit | all processes that open `/dev/semutex` |
| semutex semaphores | 320 named slots with a count and the last locker | create, lock, try lock, unlock, reset | the same |
| semutex shared memory | one list of pages, its length, a reference count | create, query, expand, map, close | the same |
| kernel counting semaphore (`kernel/semaphore.c`) | count and wait list | down, try, timeout, interrupt, up | semutex |
| mailbox message pool (`drv/mbx/mdrv_mbx_msgpool.c`) | a pool of message slots, one queue of normal and one of instant messages per class | register, unregister, add, receive, check, remove latest, clear | the receive tasklet and the processes that registered a class |
| mailbox driver (`drv/mbx/mdrv_mbx.c`) | notifiers, per-class completions, the driver's status | init, deinit, register, unregister, enable, send, receive, suspend, resume | the same |
| mailbox hardware layer (`hal/maserati/mbx`) | the registers of each mailbox group: FIRE, BUSY, OVERFLOW, DISABLED, INSTANT | fire, poll, receive, end of receive, clear | the two CPUs at the ends of a mailbox |
| fusion skirmishes and calls (`drv/fusion`) | per skirmish the holder, its depth, to whom it is lent and how many are notified; per execution its caller and whether it is answered | prevail, swoop, dismiss, wait, notify, destroy, execute, return, kill, flush, release | DirectFB processes ("fusionees") and their threads |
| fusion refs, reactors, properties, pools | counts and lists of each world | their ioctls | the same |
| OP-TEE calls (`drivers/optee_linuxdriver`) | waiters for a secure thread, one request and one answer buffer, wait queues by key, the use count of the supplicant | call, resume after an RPC, read and write by the supplicant, open and release | client threads, tee-supplicant, secure world |
| OP-TEE sessions and shared memory | reference-counted contexts, sessions, buffers | open, invoke, close, allocate, free | clients |

The parts interact as follows.  The three parts of semutex share a device file
and its life cycle: `open`, `flush` (every `close()`), `release` (the last
reference), and all of semutex rests on the kernel's semaphore.  The mailbox's
tasklet `MsgRecvCb` takes a mail out of the registers and puts it into the pool, from
where `RecvMsg` takes it; `SendMsg` polls the registers until the other CPU's tasklet
has answered.  In fusion a call lends the skirmishes that its caller holds to the
callee, and the death of a fusionee ends all it holds, waits for, lent and owes.  In
OP-TEE the secure world comes back into Linux in the middle of a call, to ask the
supplicant or to put the calling thread to sleep until another call wakes it.

Hard behaviours: the ioctls of several processes interleave; a process can be
killed while it holds a lock, waits for it, or is between taking a semaphore and
writing down that it did; the mailbox's tasklet fills queues that processes read;
a mailbox's peer CPU may be slow, stopped, or answer after the sender gave up;
fusionees die one thread at a time while others wait for their answers; the
supplicant is restarted under its clients.
`PROJECT.json` lists them one by one, each at its line, as hazards.

What makes each part correct:

* mutexes: no two threads have one mutex; the unit of a semaphore is neither lost
  nor duplicated when a process dies; the owner record tells the truth, so that the
  owner can unlock and nobody else can; the assertions in Flush and Release do not
  fire; waiters are served.  All but the last of these hold only if clients unlock before
  they close the device (see below);
* semaphores: units add up; nobody sleeps beside a free unit; a name has one
  semaphore;
* shared memory: processes see the same page at the same offset; pages are not
  freed under a mapping; locks are given back;
* message pool: slots are accounted for, reserved room suffices, each class behaves
  as two bounded FIFO queues, all of it as long as the unlocked tasklet does not overlap
  a call; when it does, what is lost is bounded, unless it writes outside the pool;
* registers: the two CPUs do not write a group at the same time; `SendMsg` tells
  what became of the message; every send returns;
* mailbox driver: whoever waits for a class is woken for every message that was
  queued for it; no notifier is freed while classes belong to it (that classes end with
  their file is what the code intends and, on the 64-bit build, does not do);
* skirmishes and calls: a lock has one holder, which knows it; nobody sleeps on a free
  lock or waits for an answer that nobody owes; what is lent comes back; the dead hold
  nothing;
* OP-TEE calls: a thread gets the answer to its own request; one that waits for a
  secure thread is told when there is one; a wake-up finds its sleeper; every call
  returns unless an answer or a wake-up has been lost or the supplicants are locked out.

## Modules

| module | models | state and steps |
|---|---|---|
| `KSemaphore` | `kernel/semaphore.c` | operators on a record of `count` and `wait`; each runs under `sem->lock` in the code and is atomic here.  `up` hands the unit to the first waiter without raising the count |
| `SemutexMutex` | the mutex ioctls, `_MDrv_SEMUTEX_Flush`, `_Cleanup_Mutex`, `_MDrv_SEMUTEX_Release` | `name`, `mutex_info` (status, pid, tgid, file), `made` (slots with a semaphore), `sem`; `fd`, `filp` and `exiting` are the kernel's side of open files and dying processes; `pc`, `slot`, `retries` are a thread's position in its ioctl; `held` is what clients have locked.  The scans of Flush and Release are cut at each test, `BUG_ON`, erasure and `up()`, since only the erasure is done under `semutex_mutex` |
| `SemutexSema` | the semaphore ioctls | `name`, `number`, `sem`, `locked_pid`; `taken` and `extra` account for units that clients have or gave without having |
| `SemutexShm` | the shared memory ioctls, `mmap`, Release | `refcnt`, `list`, `pageCount`, `isfirst`; `vma`, `pte`, `mmap_sem` are the kernel's side of a mapping; `allocator` and `told` record who was told to be first; `alloc_page()` returns some page that is not in the list (`NewPage`) |
| `MbxMsgPool` | `mdrv_mbx_msgpool.c` | the slot array with its links and counts, per class the heads, ends, counts, status and size of its lists, the list of classes of each notifier, `_infoLatestMSGP`; `call` and `task` are the positions of a call and of the tasklet while they overlap, `torn` says that they have |
| `MbxQueues` | what the pool promises to clients that the tasklet does not overlap | per class an owner, a size and two sequences; the result of the last call |
| `MbxDriver` | `mdrv_mbx.c`: notifiers, registration, enabling, blocking `RecvMsg`, `MsgRecvCb`, close | the queues are an instance of `MbxQueues` whose clients are the notifiers, so the driver rests on what `MbxMsgPool` is shown to implement, and AddMSG is one step; `Wide` says whether close() loses the upper half of the file pointer; `notif`, `role`, `ready`, `done` are the driver's own; `recv` and `cb` are the positions of the receiving threads and of the tasklet |
| `MbxChannel` | `SendMsg`, `Fire`, `GetFireStatus`, `ClearStatus`, `SetConfig`, `Recv`, `RecvEnd`, `MsgRecvCb` | the registers of each group, a pending interrupt, `_mutexSendMBX`, the position of each sender and of each receiving tasklet |
| `FusionSkirmish` | `skirmish.c`, `call.c` and the parts of `entries.c`, `fusiondev.c` and `fusionee.c` that they use | `lock_pid`, `lock_count`, `lent` (the transfer fields), `notify_count`; the executions of calls (`fusion_call_return()` is cut between its check of the caller and its assertion about it); per thread its position, what it sleeps on and whether it has a signal; per fusionee how far its death has come |
| `TeeCalls` | `call_tee()` and the handling of RPCs in `tee_tz_drv.c`, `tee_supp_com.c`, `tee_wait_queue.c`, open and release in `tee_core.c` | `c_waiters` and `done`; the wait queues and how many allocations of entries have `failed`; the buffers and semaphores of `struct tee_rpc`; `used`; `ta`, `smutex` and `sleepers` are the secure world's threads and its one mutex (external) |
| `MC...` | | model values and symmetry for the runs |
| `SemutexMutexProofs` | | theorems about `SemutexMutex`: types, queues and files first, then exclusion and the records on top of them |
| `SemutexSemaProofs` | | theorems about `SemutexSema`, and before them lemmas about `KSemaphore`: what `down`, `up` and leaving the wait list do to it |
| `SemutexShmProofs`, `MbxMsgPoolProofs`, `MbxDriverProofs`, `MbxChannelProofs`, `FusionSkirmishProofs`, `TeeCallsProofs` | | theorems about the module of that name |

How code becomes steps.  An ioctl is one action when it runs under one lock from
end to end, and is cut where it drops the lock or sleeps: for instance a `LOCK` is
`Lock` (the argument checks and the first `down`), possibly sleeps that end in
`LockTimeout`, `TimedOut`, `Interrupted` or by being handed the unit, and
`RecordOwner`.  What the code does without a lock is cut at every access that matters:
Flush and Release in `SemutexMutex`, and in `MbxMsgPool` a call and the additions of the
tasklet that overlap it.  There the clients' calls exclude each other, because the shipped
configuration (`CONFIG_MSTAR_MBX_U2K`) runs every ioctl under `_mutexMBXIOCTL`
(`mdrv_mbx_io.c:771`); the tasklet takes no lock (`mdrv_mbx.c:769`; the one at 712 is
commented out).  As long as it overlaps no call, calls and additions are single steps; a
call that it overlaps is done access by access, with the accesses in program order, and with
that call the model ends.  In `MbxChannel` every access to a register is a step, and setting a
bit is two (a read and a write).  In `FusionSkirmish` a step is what happens between
locking an entry and unlocking it or sleeping on it; in `TeeCalls` a whole visit to the
secure world is one, because `ptee->mutex` is held around it; in `MbxDriver` the tasklet,
which takes no lock, is cut at each of its reads and calls.  Calls that fail without changing anything are
stuttering steps.

Data is abstracted to what the properties tell apart: names, contents and pages are
model values or small numbers; a mail is two words, so that a torn one can be told
from a whole one; lengths are in pages; the mailbox's busy counter keeps its wrap at
a small width `U32`.

Assumptions that models make on clients or hardware, each stated in its module:

* a process opens `/dev/semutex` at most once at a time, as the driver's own comment
  in `Open` demands;
* `SemutexMutex.Careless` is the set of processes that may `close()` the device while
  they hold or await a mutex.  Runs and theorems say which set they use;
* `MbxMsgPool.Overlapped` is the set of clients whose calls the tasklet overlaps, and
  `Overlaps` the number of messages it adds meanwhile: bounds, since one overlapped call
  is enough to damage the pool;
* `SemutexShm`: clients map after their own CREATE, once, and unmap when they leave;
* `MbxMsgPool`: classes are registered with room for at least one message, and
  RemoveLatestMsg follows a CheckMsg of the same client, as the comment on
  `MDrv_MBX_RemoveLatestMsg` says;
* `MbxChannel`: the peers run the same HAL;
* `MbxDriver`: a file has one thread that controls it and one that receives; clients
  register classes that are free or their own and ask for one kind of message per class;
  AddMSG is one step, although no lock makes it so (its inside is in `MbxMsgPool`);
  nobody receives before the completions have been initialised;
* `FusionSkirmish`: each fusionee in the domain of `Dispatcher` has one dispatcher thread,
  whose handlers unlock what they have locked and make no calls of their own; callers
  hold only skirmishes of `Lend` during a call;
* `TeeCalls`: a supplicant writes once for each request it has read, or dies; the secure
  world wakes one waiter of its mutex per unlock, and a waiter that comes back from its
  sleep without having been woken sleeps again.  `Askers` and `Lockers` are bounds: the
  clients whose calls ask the supplicant and lock the mutex.

## Runs

All runs finish within three minutes with two workers.

| run | instance | checks |
|---|---|---|
| `mutex_safety` | 3 threads in 2 processes, 2 files, 2 slots, 2 names, one timeout retry; nobody is careless, anybody may be killed | `TypeOK`, `MutualExclusion`, `UnitConserved`, `HolderCanUnlock`, `RecordTruthful`, `NoBug`, `UniqueNames`: as long as clients unlock before they close, nobody shares a mutex, the record says who holds it, the holder can unlock and no assertion fires |
| `mutex_careless` | the same threads, 3 files, one slot, everybody careless | `SleepersAreQueued`: the wait lists stay right and nobody sleeps beside a free unit even then.  The other safety properties fail for such clients, as said below |
| `mutex_live` | one slot, fairness | `ExitFrees`, `LockServed` |
| `sema` | 3 clients, one that unlocks what it has not locked, one that may die; 2 slots, 2 names, counts 1 and 2 | `UnitsConserved`, `NoIdleUnits`, `SignalledHasUnit` |
| `shm` | 2 processes, 3 pages of shared memory, 5 page frames, failing allocations and insertions | `SamePage`, `MappedIsListed`, `RefcntCountsCreators`, `OnlyAllocatorIsFirst`, `MutexIsReleased` |
| `mbx_pool` | 2 clients, 2 classes, sizes 1 and 2, 3 slots, 2 contents; the tasklet may overlap a call of one client with one message | `SlotsAccounted` and `ImplementsQueues`, the refinement of `MbxQueues` with the result of every call, until a call is overlapped; `DamageBounded`: what an overlapped call leaves behind; `ListsMatchOwners`, throughout |
| `mbx_driver` | 2 files, 2 notifiers, 2 classes (one asked for normal, one for instant messages), 2 slots, sizes 1 and 2, 2 messages from peers, 64-bit file pointers (`Wide`), Init at any time | `MessageAnnounced`: a message in a queue has a completion, or a tasklet about to give one; `OwnersInUse`: the owner of a class is a notifier in use |
| `mbx_chan_prompt` | 2 senders, a live peer, a dead one, a dead loopback role | `OneSideAtATime`, `GroupsReleased`, `ReportsFate`, `SendReturns` |
| `mbx_chan_slow` | 2 senders, a peer that may answer after the timeout | `MailWithdrawn`, `SendReturns` |
| `skirmish` | a caller in one fusionee, a dispatcher and a third thread, which gets signals, in another; both may be killed; one skirmish that is lent, one that is waited for; depth 2, 2 calls, one notification | `RecordMatches`, `NoLostWakeup`, `AnswerOwed`, `LentToCallee`, `GoneHoldsNothing`, `NoBug` |
| `skirmish_reclaim` (violation) | two callers and a dispatcher, each a fusionee of its own, nobody dies | `ReclaimFindsFree`: the dispatcher holds the skirmish that the woken caller takes back |
| `tee` | 3 client threads, 2 secure threads, 1 call each, of which 2 make a request to the supplicant and 2 lock the secure mutex; two supplicants that open, are refused, close or die at any time; requests and answers that are lost; one failing allocation | `AnswerIsMine`, `WaiterIsTold`, `WakeHitsEntry`, `CallReturns` |

Bounds.  Two threads of one process and one of another are the smallest set in which
every pair of roles occurs: two threads that share a file, two that do not, and a
third that waits or bystands.  Two slots show whether a step meant for one slot
touches another.  `MaxRetries` bounds the ten-second retries within one LOCK; one is
enough for a sleeper to lose its place to another.  Three files with one slot let
each process reopen the device while an old file is still being released.  In the
pool, three slots and sizes 1 and 2 make reservations fail, fit exactly and leave
one over, and one message beside a call reaches every kind of damage but one (see below).
In the channel, `TIMEOUT_CHK_BUSY` of one or two with `U32` of 4 or 8 keeps
the counter's wrap.  Five page frames are what two processes can have in use when
one EXPAND has failed.  In the driver two messages and two slots fill a queue of size 1
and overfill it, and two files are the smallest number whose registrations compete for
slots; its view leaves out `result`, which no step reads.  In `skirmish` two calls are
what it takes for a dispatcher to be behind with one while it serves another, and depth
2 shows whether what is lent comes back as deep as it was.  In `tee` three clients are
one more than the secure threads, so that somebody waits while one call sleeps on the
mutex and another one holds it; one of them only locks, one only asks and one does both,
so that a chain of three can form: asleep on the mutex, whose holder waits for the
channel, which the third has.  Symmetry is used only in runs without liveness properties,
over names, files, contents and classes that no definition chooses between, and over
the two threads of one process.

Deadlock is checked in `tee` only: in the other models the clients may all have exited, or be idle
forever with nothing left to do under the bounds.  What must not get stuck is stated
as a liveness property instead.

Fairness.  `mutex_live` assumes that the kernel runs a thread that is in the driver
and awake, that holders unlock in the end (the clients' part; the locks are useless
otherwise), and that one LOCK times out at most `MaxRetries` times: a LOCK that times
out forever while others are always faster can starve, and the code does nothing
against it.  Nothing is assumed about timeouts or signals happening.  `shm` assumes that
calls that are not blocked go on.  `MbxChannel` assumes that threads run, that
tasklets run once raised unless the peer is in `Dead`, and strong fairness for
`_mutexSendMBX`, since a kernel mutex queues its waiters.  `TeeCalls` assumes that threads
run and the secure world returns, that a supplicant is started again when it has exited
and goes on serving, and, by strong fairness, that among endless restarts one of them
comes to read; it does not rely on the one-second time-out of the wait for a secure
thread.  It also assumes that there is, again and again, a moment at which no supplicant is
between counting itself in and out of a device that is in use: two processes that take
turns there for ever, each seeing the other's count, would keep each other out without any
count being lost.

## What the finding says

`skirmish_reclaim`: `fusion_skirmish_reclaim_all()` assumes that nobody holds what the
caller has lent.  `transfer_to` is cleared only there, when the woken caller runs.  The
dispatcher that has returned the first call can by then be in the handler of the
second, and take the skirmish because it is still lent to its fusionee; the caller
takes it back under its feet and both hold it.

Seen while modelling, and excluded from the passing runs by the assumptions above
rather than run by themselves.  For those that name a constant, giving it the other
value shows the case.

Semutex (`mdrv_semutex.c`):

* Release erases the status and the file of a record and leaves the tgid.  Flush decides
  by that tgid (line 430) and by the status (432) without `semutex_mutex`, which it takes
  only to erase (434), and calls `up()` (442) without looking again.  So with `Careless`
  clients a process that closes the device with a mutex locked, opens it again and exits
  can take the mutex from its next owner: after Flush has seen the stale tgid, the new
  owner writes its record, Flush finds the slot locked, erases that record and calls
  `up()`, and a second thread gets the mutex.  `MutualExclusion`, `UnitConserved`,
  `HolderCanUnlock` and `RecordTruthful` fail in `mutex_careless` for this reason, in traces of
  some eighteen states, and `NoBug` fails because the status may as well be unset at 432;
* the test of the file (527) and the `BUG_ON` (529) in Release are unlocked too: the erasure
  by another Release can come between them.  And since `up()` (530) comes before the erasure
  (532), the next owner can write a record that is then erased, so that a process that
  behaved well runs into the `BUG_ON` of Flush;
* two early returns of `expend_sharemem()` (lines 334 and 342) skip `up_write()`, so the
  caller goes back to user mode with `mmap_sem` write-locked.  `MutexIsReleased` excepts
  such processes;
* two threads of one process that call CREATE at once are counted twice (`shm` has
  single-threaded processes);
* an EXPAND whose check was overtaken by a longer one sets `pageCount` back, and one
  that fails half-way leaves pages behind; `SamePage` is therefore stated under
  `NoOrphans`;
* a process that touches pages another one has added runs into `BUG()` in
  `semutex_vma_fault`;
* a failing `kmalloc` in CREATE_MUTEX leaves a slot with a name and no semaphore, which
  no call can use and DEL_MUTEX refuses to free.

Mailbox:

* a call that the tasklet overlaps (`torn` in `MbxMsgPool`).  The comments in
  `mdrv_mbx_msgpool.c` ask for a spin lock "to protect co-access", and there is none.
  Updates of `u16FreeSlots` and of the message counts are lost; a message is linked
  behind a slot that is just being freed and is gone, with a count above zero and no first
  slot; OVERFLOW is overwritten by NORMAL; the scan for a free slot finds none although
  the count promised one and goes on with index -1, and so does an addition behind the
  end of a list that ClearMsg has just emptied: both write outside the pool ("wild").
  `DamageBounded` says what holds otherwise: no slot is in two lists or free in one,
  and one message beside a call loses at most one slot.  With two messages beside one call even that
  fails: `FreeSlot` writes the link of its slot after it has marked it free, and cuts the list of
  the class that has it by then;
* close() passes `(MS_U32)filp` to DeInit (`mdrv_mbx_io.c:529`), where all other calls pass
  the 64 bits that `CONFIG_COMPAT` selects.  On the shipped arm64 build it finds no notifier,
  against its comment "force to release since application is exit!": notifier
  and classes outlive the file, and the next file at the same address inherits them.  The run
  has it so (`Wide`);
* with `Takeover = TRUE` in `MbxMsgPool` a class of another notifier is taken over by
  `goto Register_NotifyID` (`mdrv_mbx_msgpool.c:430`) and its slots leak, although the
  comments promise SLOT_BUSY;
* with two clients that use CheckMsg, one can remove what the other has checked
  (`Checkers` has one member in `mbx_pool`);
* with a late peer the register protocol no longer excludes the two sides, so the
  safety properties of `mbx_chan_prompt` are not claimed in `mbx_chan_slow`.  There
  `while (... && ((time_chk--) > 0))` in Fire (`mhal_mbx.c:402`) also leaves the unsigned
  counter wrapped, not zero, so that Fire goes on with BUSY set;
* a client that calls Init again after a lower notifier was freed gets a second one, and
  DeInit frees only one of them (`mdrv_mbx.c:206`; the run has this too);
* if `MHAL_MBXINT_Init` fails the role stays set, later calls of Init succeed, and the
  completions are never initialised (`mdrv_mbx.c:907`);
* `UnRegisterMSG` reads the first class of its notifier before it takes the lock (harmless
  where ioctls exclude each other);
* Suspend, Resume and DeInit test the interrupt flags with IRQ numbers where Init has
  set them with other values (`mhal_mbx_interrupt.c:48`).

Fusion:

* a signal during `fusion_call_execute()` returns before the skirmishes are reclaimed
  (`call.c:232`), so that they stay lent;
* a callee that holds a lent skirmish and calls on fails the assertion in
  `transfer_all` (`skirmish.c:685`);
* when a fusionee with executions under way dies, `free_all_executions()` wakes the callers and frees their
  executions (`call.c:440`); a woken caller reads its execution and frees it again
  (239, 242), and one that was interrupted writes into freed memory (234).  The models
  know whether an execution is listed and not whether its memory is valid, so no property
  covers this;
* `fusion_call_return()` checks the caller (288) and asserts it (304, beside a FIXME), and
  a caller that is killed clears itself (234) without the call's lock in between.  The
  run reaches this: the dispatcher dies in the BUG with the call locked ("oops"), its
  callers get no answer, and the destruction of the fusionee waits for the lock for ever;
* a waiter takes its skirmish again without looking whether it is lent
  (`skirmish.c:535`), unlike `prevail`;
* two early returns of `fusionee_enter()` keep `enter_lock` (`fusionee.c:261` and `:268`).

OP-TEE:

* an answer is lost, and its caller waits for ever with `thrd_mutex`, if the supplicant
  dies with the request, reads it with too small a buffer (`tee_supp_com.c:160`), or
  writes an answer that cannot be copied or is as long as `commFromUser`: the guard
  `length < sizeof(rpc->commFromUser)` (200) leaves out the legal answer to a request with
  all five buffers, and `write()` returns 0 without `up()`.  This is `AnswerLost`;
* a release that reads `used` while another supplicant is being refused does not count
  itself out (`tee_core.c:189`), and no supplicant is let in any more.  This is `LockedOut`;
* when the allocation of an entry fails (`tee_wait_queue.c:48`) a wake-up may be gone
  (`WakeLost`), or a completion may be left behind; then the next sleep returns at once and
  a waker that has already found the entry completes it after it has been freed, which
  takes three threads that lock the secure mutex.  `WakeHitsEntry` is stated for the time
  before.

The run has all of these; `CallReturns` names the three states in which it claims nothing,
and fails without any one of them.

## Proofs

The theorems hold for every number of threads, processes, files, names, slots, clients,
groups, messages and whatever else a module has as a constant.  They use the modules'
named assumptions: `NULL` is none of the things it stands in for, the constants that are
maps are maps, the bounds are natural numbers and there is at least one slot.  Where a
theorem needs more it says so as a hypothesis:

* `Careless = {}`: no process closes the device while it holds or awaits a mutex (being
  killed is always allowed).  Without it Flush can take a mutex from its owner, and a
  `BUG_ON` can fire, as said above;
* `Single`: processes that use the shared memory are single-threaded.  With two threads in
  CREATE both may count themselves, as said above;
* `Takeover = FALSE` and `OneChecker` (message pool): no class of another notifier is taken
  over, and one client at most uses CheckMsg and RemoveLatestMsg.  What happens without
  them is said above;
* `Slow = {}`: a peer CPU that is alive answers before the sender gives up.  Any set of
  peers may be dead;
* `Orderly` (fusion): dispatchers make no calls, callers get no signals that they survive,
  and a skirmish that is lent is not waited for.  Any thread may be killed.  Each part is
  needed: the consequences listed above for fusion are what happens without it;
* `OneCaller` (fusion): one thread makes calls.  With two, a callee may take what the
  first caller is about to take back, which is the finding of `skirmish_reclaim`.

Two modules have conclusions that end with an event instead, because the code itself
gives nothing better: in `MbxMsgPool` what is proved of slots, room, types and queues holds
until the tasklet overlaps a call (`~torn`), and in `TeeCalls` what is proved of the wait
queues holds until an allocation fails (`failed = 0`).

These are the settings of the runs that check the same properties, and the runs with
the other settings are described above.

| theorem | hypothesis | states |
|---|---|---|
| `SemutexMutexProofs`: `TypeCorrect` | | `Spec => []TypeOK` |
| `NamesAreUnique` | | `Spec => []UniqueNames` |
| `QueuesInOrder` | | `Spec => [](Queued /\ Made)` |
| `ReferencesCounted` | | `Spec => [](FileRefs /\ Exits)` |
| `NoLostWakeup` | | `Spec => []SleepersAreQueued`, careless clients or not |
| `InductiveInvariant` | `Careless = {}` | `Spec => []IndInv` |
| `MutexIsExclusive` | `Careless = {}` | `Spec => []MutualExclusion` |
| `UnitIsConserved` | `Careless = {}` | `Spec => []UnitConserved` |
| `HoldersCanUnlock` | `Careless = {}` | `Spec => []HolderCanUnlock` |
| `RecordsAreTruthful` | `Careless = {}` | `Spec => []RecordTruthful` |
| `NeitherBugs` | `Careless = {}` | `Spec => []NoBug` |
| `SemutexSemaProofs`: `SemaInvariant` | | `Spec => []IndInv` |
| `UnitsAreConserved` | | `Spec => []UnitsConserved` |
| `SleepersHaveNoUnit` | | `Spec => []NoIdleUnits` |
| `SignalledHaveUnits` | | `Spec => []SignalledHasUnit` |
| `SemutexShmProofs`: `InductiveInvariant` | | `Spec => []IInv` |
| `TypeCorrect` | | `Spec => []TypeOK` |
| `SharedIsShared` | | `Spec => []SamePage` |
| `MappedStaysListed` | | `Spec => []MappedIsListed` |
| `FirstIsAllocator` | | `Spec => []OnlyAllocatorIsFirst` |
| `CreatorsCounted` | `Single` | `Spec => []RefcntCountsCreators` |
| `MbxMsgPoolProofs`: `InductiveInvariant` | `~Takeover`, `OneChecker` | `Spec => [](~torn => IInv)` |
| `SlotsStayAccounted` | `~Takeover`, `OneChecker` | `Spec => []SlotsAccounted`, which speaks of `~torn` |
| `ListsStayWithOwners` | `~Takeover` | `Spec => []ListsMatchOwners`, overlapped calls included |
| `ReservationsHold` | `~Takeover`, `OneChecker` | `Spec => [](~torn => Sized /\ Room)` |
| `TypeCorrect` | `~Takeover`, `OneChecker` | `Spec => []TypeOK`, which speaks of `~torn` |
| `PoolImplementsQueues` | `~Takeover`, `OneChecker` | `Spec => ImplementsQueues`: the pool refines `MbxQueues` until a call is overlapped |
| `TeeCallsProofs`: `TeeInvariant` | | `Spec => []IndInv` |
| `AnswersAreMine` | | `Spec => []AnswerIsMine` |
| `WaitersAreTold` | | `Spec => []WaiterIsTold` |
| `WakesHitEntries` | | `Spec => []WakeHitsEntry`, which speaks of `failed = 0` |
| `SleepersAreWoken` | | `Spec => [](failed = 0 => NoLostWake)` |
| `MbxDriverProofs`: `DriverInvariant` | | `Spec => []IndInv` |
| `MessagesAreAnnounced` | | `Spec => []MessageAnnounced` |
| `OwnersStayInUse` | | `Spec => []OwnersInUse` |
| `MbxChannelProofs`: `ChannelInvariant` | | `Spec => []SafeInv` |
| `MailsAreWithdrawn` | | `Spec => []MailWithdrawn` |
| `PromptInvariant` | `Slow = {}` | `Spec => []PromptInv` |
| `SidesAlternate` | `Slow = {}` | `Spec => []OneSideAtATime` |
| `FateIsReported` | `Slow = {}` | `Spec => ReportsFate`, an action property |
| `GroupsAreReleased` | `Slow = {}` | `Spec => []GroupsReleased` |
| `FusionSkirmishProofs`: `SkirmishInvariant` | | `Spec => []SafeInv` |
| `SleepersAreWoken` | | `Spec => []NoLostWakeup` |
| `CallersAreOwed` | | `Spec => []AnswerOwed` |
| `TheDeadHoldNothing` | | `Spec => []GoneHoldsNothing` |
| `LoansInvariant` | `Orderly` | `Spec => [](SafeInv /\ LoanInv)` |
| `LoansStayWithCallee` | `Orderly` | `Spec => []LentToCallee` |
| `TransferNeverBugs` | `Orderly` | `Spec => []NoBug` |
| `BeliefsInvariant` | `Orderly`, `OneCaller` | `Spec => [](SafeInv /\ LoanInv /\ BeliefInv)` |
| `RecordsMatch` | `Orderly`, `OneCaller` | `Spec => []RecordMatches` |
| `TypesKept` | `Orderly`, `OneCaller` | `Spec => []TypeOK` |

**Mutual exclusion** is not inductive.  A step that could break it is an `up()` for
somebody who does not have the mutex, and four things keep that from happening, the last
two only with careful clients.

1. `Queued`: wait lists hold exactly the sleeping threads, once and on
   the slot they sleep on, and are empty while a unit is left.  So `up()` passes the
   unit to one thread that sleeps on that slot, or back into the semaphore.  `Made`
   says that nobody works on a slot without a semaphore, so `sema_init` in CREATE
   meets no owner.
2. `FileRefs` and `Exits`: a `struct file` is used by one process;
   Flush and Release run for its last reference, so nobody else can use the file while
   they do; an exiting process has one thread in the driver at most.
3. `HolderRecorded` and `RecordHeld`: whoever holds a mutex is in the record, with the file it
   can unlock it through, and a record that is not erased has a holder.  A holder that
   exits has a Flush that has not yet come past the slot, so that nothing is left for
   Release (`NothingLeft`), and no stale tgid stays behind.
4. `Target`: what Flush has seen to carry its tgid is held by a thread of its own process.
   Flush tests without a lock and in two steps; what it has tested cannot change before it
   erases it, because the holder is not in the driver any more.  This is the step that
   fails for careless clients.

With these, `MutualExclusion`, `UnitConserved` and `ClaimsOnce` (a thread does not hold
what it is just being given or giving back) are preserved together: each action keeps
all owners, takes the unit from a semaphore that has it (so nobody owns it), passes it
on by `up()`, or, in Flush, moves it from the dead thread to the one that cleans up.
That nobody sleeps beside a free unit (`SleepersAreQueued`) needs only the first two and
holds for all clients.

**Units of a semaphore.**  What is out is a set of numbered units, so that locking,
unlocking and unlocking without having locked add or remove one element and the sum is
a matter of cardinalities.  `Queued` is needed for `up()`, which passes a unit on
only when somebody waits, and the finiteness of the set, which holds because each step
adds one unit at most, for counting.

**Shared memory.**  `MappedIsListed` needs to know that only creators have mappings and
that there are no pages without references (`Backed`, `Counted`), because the last
Release frees the list.  `SamePage` needs the order of the list: offset `o` maps the page at
position `o` as long as there are no more pages than are counted (`Ordered`).  While an
EXPAND appends its pages, `pageCount` is not yet raised; what is counted then is the length
that the thread started from plus what it has appended (`Base`), and the thread has the
pages that it still needs (`Supplied`), so that the two meet again when it is done.  An
EXPAND that fails leaves pages behind, and `SamePage` does not claim anything from then on.
None of it needs single-threaded processes: a count that is too high only keeps the
pages.  The count itself is exact if no two threads of a process are in CREATE (`Exact`).

**The message pool.**  A class finds its messages by following links through the slot array,
and `Follow` is a recursive function.  Its value is settled without induction over data:
the invariant has a witness `Q`, which gives each class and kind a sequence of slots, and
`Lists(Q)` says that consecutive slots are linked, that first, last and count of the class
agree with the sequence, and that no slot is in two places.  If `Follow` differed from the sequence,
there would be a first position at which it did, and the equation of the function
refutes that one.  Each action then says how its witness differs from the old one: `Link`
appends a free slot, `Dequeue` drops the first, `RemoveLatestMsg` drops what was checked
(`Checked` says that it is still the first), `ClearMsg` and `UnRegisterMSG` empty lists.
The list of classes of a notifier is treated in the same way (`Owners`), but it is also kept
while a call is overlapped: the tasklet does not write these links, and the one call that
does is split where it works on them.

The invariant is shown to hold until a call is overlapped, and nothing more: the
atomic steps of `Alone` are what calls and additions do one after the other, and the first
step that overlaps sets `torn`.  What the overlapped call leaves behind (`DamageBounded`) is
only model-checked.

`Sized` says that `u16RegistedSlots` is the sum of the sizes of the registered classes.  The
sum is the number of cells of a table with a row per class, so that registering adds a
row.  `Room` says that a class has no more messages than its size and that its status is
OVERFLOW exactly when it is full.  Together: each message has a cell of its own, so a class
that is not full finds a free slot, and AddMSG never refuses a message for lack of one.

For the refinement, the queue of a class in `MbxQueues` is the sequence of the messages in
the slots of `Q`; appending a slot appends its message, and dropping the first drops
the first message.  The result of each call is compared too: its code, and the message it
delivers.

**OP-TEE calls.**  `Channel` says where the one request is: in `commToUser`, with one
supplicant, or answered in `commFromUser`, and that it is the request of whoever has
`thrd_mutex`.  A restarted supplicant that finds a count of an earlier life in the semaphores
would break it; it cannot, since each count goes with its request.  A request that is lost
takes its count with it and keeps `thrd_mutex`, so the losses cost progress and never mix
answers.  `Counted` says that `c_waiters` is the number of threads in the wait, of which none
is in the secure world.  For the wait queues the invariant says, until an allocation
fails, who is a waiter of the secure mutex, who has been chosen to be woken and by whom,
and that an entry exists while its sleeper may still be completed.

**The mailbox driver.**  `MessageAnnounced` compares the messages of a class with its completions
and the receivers that have consumed one and not fetched yet.  To be inductive it needs
that a class without an owner has no messages, so that a new owner starts from zero, that
nothing is received before the completions have been initialised, and that the
receivers can be counted.  `OwnersInUse` rests on DeInit unregistering the classes of exactly the
notifier that it frees; it needs neither that close() finds the notifier nor that clients
call Init once.

**The registers.**  `SafeInv` holds with late peers too: one thread is past the mutex, what it
read before a write is a content of that register, and a mail of the host is there only
while a thread sends or withdraws it.  `PromptInv` adds what a late peer would break:
a receiver rests unless the mail being sent is fired in its group and its sender polls
(`Resting`), what it has fetched are the words that Fire wrote (`Filled`), the answer bits
and `accepted` say what it did with them (`Answered`), and BUSY is set only in between
(`Unbusied`).  From this follow the alternation of the two CPUs, so that no unlocked
read-modify-write is lost, and that the sender reads the right answer.

**Skirmishes and calls.**  Three layers, each on the one below.

1. `SafeInv`, for any clients.  Its lock half (`LockInv`) says who sleeps where, that a
   fusionee past "killed" has only exited threads, that whoever holds a skirmish has
   locked it, and that one that is gone holds and lends nothing; `NoLostWakeup` is part of
   it.  A step of a thread is `Good` if it leaves every skirmish on which somebody else
   stays asleep as unavailable as before (`Firm`).  The subtle case is a skirmish that is
   free but lent: its sleepers may stay asleep only while they are not its callee's
   dispatcher, so the proof needs that a thread that becomes a dispatcher is awake.  The
   call half (`CallInv`) says that a call is queued or handled once and by its callee,
   that its execution is listed until it is answered and names a caller inside the call,
   and that a dispatcher inside `fusion_call_return()` handles a call that is listed
   (`Returning`).  A caller is owed an answer already while it sends,
   before it sleeps; without that the proof fails at the callee that answers first.
2. `LoanInv`, for `Orderly` clients: a thread knows of at least what it has locked, lent or
   given up for a wait.  So what it holds when it calls is of `Lend`, and what is lent was
   not lent before.  The dispatcher is the only one that can take a lent skirmish.
3. `BeliefInv`, for one caller: it knows of exactly that.  Only `reclaim_all` takes a
   skirmish from somebody else.  It runs in a caller that is awake without a signal, whose
   execution is not listed any more; with one caller the dispatcher has then no
   call to handle, and a dispatcher at rest holds nothing (`LoanIsFree`).

Only model-checked are the liveness properties (`ExitFrees`, `LockServed`, `MutexIsReleased`,
`SendReturns`, `CallReturns`), because the proof system does not handle fairness and
`ENABLED`, and `DamageBounded`.  `ReclaimFindsFree` of `skirmish_reclaim` is false, as the
finding says.  Every other property of a run is proved, under the hypotheses of the table.

## Not modelled

* Mailbox: the ioctl layer, which copies arguments; suspend and resume; the table of
  triggers from user to kernel mode; reordering of the accesses of two CPUs to the pool.
* Fusion: refs, reactors, properties and shared memory pools; one-way calls;
  `fusion_call_destroy()` by a living owner; `fusionee_enter()` and `fusionee_kill()`; API
  major version 3.
* OP-TEE: sessions, contexts and shared memory, which are reference-counted objects in
  front of the calls; `tee_mutex_wait`, an older form of the wait queue; allocation by RPC.
* The memory pools and sign of life: address arithmetic and register accessors.
* Device drivers whose correctness is a matter of hardware (ir, gflip, fcie, dvfs,
  nand): nothing in the repository says what the hardware does.
* The kernel core, boot loaders, Wi-Fi and Bluetooth code: third-party.  They are nearly
  all of the repository's lines, so that the models cover a small share of it and most
  of what is the platform's own concurrent logic.

## Plan

1. Fusion references: local and global counts, watching for zero, inheritance.
2. OP-TEE sessions with the reference counts of contexts and shared memory.

Questions that belong together share a run, so that the list of runs stays short as
modules are added.
