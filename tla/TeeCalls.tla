------------------------------ MODULE TeeCalls ------------------------------
(***************************************************************************)
(* Calls of Linux threads into the trusted world (optee_linuxdriver):      *)
(* call_tee() with its wait for a secure thread (armtz/tee_tz_drv.c), the  *)
(* requests that the trusted world sends back on the way (RPCs), which     *)
(* tee_supp_cmd() hands to the tee-supplicant process                      *)
(* (core/tee_supp_com.c), the opening and closing of the device by the     *)
(* supplicant (core/tee_core.c), and the wait queues on which a thread of  *)
(* the trusted world sleeps in Linux (core/tee_wait_queue.c).              *)
(*                                                                         *)
(* ptee->mutex is held from e_lock to e_unlock, around the whole visit to  *)
(* the trusted world: each such section is one action.  The trusted world  *)
(* is external: it has SecureThreads threads; a call may ask the           *)
(* supplicant for something, and may lock the one mutex of the trusted     *)
(* world, whose waiters sleep on the wait queue with their own key and are *)
(* woken one at a time by whoever unlocks it.                              *)
(***************************************************************************)
EXTENDS Naturals, FiniteSets

CONSTANTS
  Clients,        \* threads that call the trusted world
  Supplicants,    \* processes named tee-supplicant
  NULL,
  SecureThreads,  \* threads of the trusted world
  MaxCalls,       \* bound on the calls of a client
  MaxRpc,         \* bound on the requests to the supplicant during a call
  Askers,         \* bound: the clients whose calls ask the supplicant
  Lockers,        \* bound: the clients whose calls lock the mutex of the trusted world
  MaxFailed       \* bound on the allocations of wait queue entries that fail

ASSUME SecureThreadsAssumption == SecureThreads \in Nat \ {0}
ASSUME BoundsAssumption == MaxCalls \in Nat /\ MaxRpc \in Nat /\ MaxFailed \in Nat
ASSUME TeeNullAssumption == NULL \notin Clients \cup Supplicants \cup Nat

VARIABLES
  pc,            \* client -> what it is doing
  number,        \* client -> number of its call
  rpcs,          \* client -> requests made during the call
  answer,        \* client -> what tee_supp_cmd() copied out, or NULL
  c_waiters, done,                     \* ptee->c_waiters, and ptee->c.done
  ta,            \* client -> how far its call is with the mutex of the trusted world
  smutex, sleepers,                    \* holder and waiters of that mutex
  woken,         \* client -> the client that it has to wake
  queue,         \* key -> comp.done of its tee_wait_queue, or NULL if there is none
  failed,        \* number of failed allocations of such an entry
  thrd_mutex, commToUser, datatouser, commFromUser, datafromuser,  \* struct tee_rpc
  used,
  supp,          \* supplicant -> what it is doing
  request        \* supplicant -> the request it has read

tz == <<c_waiters, done>>
secure == <<ta, smutex, sleepers>>
rpc == <<thrd_mutex, commToUser, datatouser, commFromUser, datafromuser>>
client == <<pc, number, rpcs, answer, woken>>
wq == <<queue, failed>>
supplicant == <<used, supp, request>>
vars == <<client, tz, secure, wq, rpc, supplicant>>

Init ==
  /\ pc = [t \in Clients |-> "idle"]
  /\ number = [t \in Clients |-> 0]
  /\ rpcs = [t \in Clients |-> 0]
  /\ answer = [t \in Clients |-> NULL]
  /\ c_waiters = 0 /\ done = 0
  /\ ta = [t \in Clients |-> "out"]
  /\ smutex = NULL /\ sleepers = {}
  /\ woken = [t \in Clients |-> NULL]
  /\ queue = [t \in Clients |-> NULL] /\ failed = 0
  /\ thrd_mutex = NULL
  /\ commToUser = NULL /\ datatouser = 0
  /\ commFromUser = NULL /\ datafromuser = 0
  /\ used = 0
  /\ supp = [s \in Supplicants |-> "closed"]
  /\ request = [s \in Supplicants |-> NULL]

Goto(t, where) == pc' = [pc EXCEPT ![t] = where]

-----------------------------------------------------------------------------
(***************************************************************************)
(* call_tee().  A thread is about to take ptee->mutex and do an SMC: for a *)
(* new call ("enter"), again after it found no secure thread ("retry"), or *)
(* to return from an RPC ("resume").                                       *)
(***************************************************************************)
call_tee(t) ==
  /\ pc[t] = "idle" /\ number[t] < MaxCalls
  /\ Goto(t, "enter")
  /\ number' = [number EXCEPT ![t] = @ + 1]
  /\ rpcs' = [rpcs EXCEPT ![t] = 0]
  /\ UNCHANGED <<answer, woken, tz, secure, wq, rpc, supplicant>>

\* c_waiters, seen by t inside the mutex: e_lock_wait_completion_teez() has
\* counted t out again.
Waiters(t) == IF pc[t] = "retry" THEN c_waiters - 1 ELSE c_waiters

Inside == {u \in Clients : ta[u] # "out"}
CanEnter(t) ==
  /\ pc[t] \in {"enter", "retry", "resume"}
  /\ pc[t] # "resume" => Cardinality(Inside) < SecureThreads

\* TEESMC_RETURN_ETHREAD_LIMIT
e_lock_wait_completion(t) ==
  /\ pc[t] \in {"enter", "retry"} /\ Cardinality(Inside) = SecureThreads
  /\ c_waiters' = Waiters(t) + 1
  /\ Goto(t, "wait")
  /\ UNCHANGED <<number, rpcs, answer, woken, done, secure, wq, rpc, supplicant>>

\* wait_for_completion_timeout() returns; the time-out leaves done alone.
wait_for_completion(t) ==
  /\ pc[t] = "wait" /\ done > 0
  /\ done' = done - 1
  /\ Goto(t, "retry")
  /\ UNCHANGED <<number, rpcs, answer, woken, c_waiters, secure, wq, rpc, supplicant>>

wait_timeout(t) ==
  /\ pc[t] = "wait"
  /\ Goto(t, "retry")
  /\ UNCHANGED <<number, rpcs, answer, woken, tz, secure, wq, rpc, supplicant>>

\* Mutant: the last waiter is not woken.
UnlockForTwo(t) ==
  /\ c_waiters' = Waiters(t)
  /\ done' = IF Waiters(t) > 1 THEN done + 1 ELSE done

e_unlock(t) ==
  /\ c_waiters' = Waiters(t)
  /\ done' = IF Waiters(t) > 0 THEN done + 1 ELSE done

-----------------------------------------------------------------------------
(***************************************************************************)
(* What the trusted world does during a visit, up to its return to Linux.  *)
(* A call is outside ("out"), inside without the mutex ("start"), queued   *)
(* for it ("wants"), holding it ("holds"), or done with it ("after").  A   *)
(* waiter sleeps again and again until it has been chosen to be woken.     *)
(***************************************************************************)
Where(t) == IF ta[t] = "out" THEN "start" ELSE ta[t]
Locks(t) == t \in Lockers /\ Where(t) \in {"start", "wants"}
CanLock(t) == Locks(t) /\ t \notin sleepers /\ smutex = NULL
MustWait(t) == Locks(t) /\ (t \in sleepers \/ smutex # NULL)

\* The call returns, having unlocked the mutex if nobody waits for it.
Return(t) ==
  /\ \/ Where(t) \in {"start", "after"} /\ UNCHANGED smutex
     \/ Where(t) = "holds" /\ sleepers = {} /\ smutex' = NULL
  /\ ta' = [ta EXCEPT ![t] = "out"]
  /\ Goto(t, "idle")
  /\ UNCHANGED <<sleepers, rpcs, woken>>

\* TEESMC_RPC_FUNC_CMD with a command for the supplicant, perhaps after
\* locking the mutex
AskSupplicant(t) ==
  /\ t \in Askers /\ rpcs[t] < MaxRpc
  /\ rpcs' = [rpcs EXCEPT ![t] = @ + 1]
  /\ \/ /\ Where(t) \in {"start", "holds", "after"}
        /\ ta' = [ta EXCEPT ![t] = Where(t)]
        /\ UNCHANGED smutex
     \/ /\ CanLock(t)
        /\ ta' = [ta EXCEPT ![t] = "holds"]
        /\ smutex' = t
  /\ Goto(t, "invoke")
  /\ UNCHANGED <<sleepers, woken>>

\* TEE_RPC_WAIT_QUEUE_SLEEP: the mutex is taken, or the thread has come back
\* from its sleep without having been woken.
AskToSleep(t) ==
  /\ MustWait(t)
  /\ ta' = [ta EXCEPT ![t] = "wants"]
  /\ sleepers' = sleepers \cup {t}
  /\ Goto(t, "sleep")
  /\ UNCHANGED <<smutex, rpcs, woken>>

\* TEESMC_RPC_FUNC_IRQ: an interrupt for Linux, after the mutex has been locked
Interrupted(t) ==
  /\ CanLock(t)
  /\ ta' = [ta EXCEPT ![t] = "holds"]
  /\ smutex' = t
  /\ Goto(t, "resume")
  /\ UNCHANGED <<sleepers, rpcs, woken>>

\* TEE_RPC_WAIT_QUEUE_WAKEUP: the mutex is unlocked.
AskToWake(t) ==
  /\ Where(t) = "holds"
  /\ smutex' = NULL
  /\ ta' = [ta EXCEPT ![t] = "after"]
  /\ \E u \in sleepers :
       /\ sleepers' = sleepers \ {u}
       /\ woken' = [woken EXCEPT ![t] = u]
  /\ Goto(t, "wakeup")
  /\ UNCHANGED rpcs

\* e_lock, tee_smc_call(), e_unlock
smc(t) ==
  /\ CanEnter(t)
  /\ Return(t) \/ AskSupplicant(t) \/ AskToSleep(t) \/ Interrupted(t) \/ AskToWake(t)
  /\ e_unlock(t)
  /\ answer' = [answer EXCEPT ![t] = NULL]
  /\ UNCHANGED <<number, wq, rpc, supplicant>>

-----------------------------------------------------------------------------
(***************************************************************************)
(* The wait queues.  tee_wait_queue_get() finds or makes the entry of a    *)
(* key under priv->mu; it is completed, or waited for, after the unlock.   *)
(* Without memory for a new entry, sleep and wakeup return at once.        *)
(***************************************************************************)
Entry(key) == IF queue[key] = NULL THEN 0 ELSE queue[key]

wait_queue_get(key) ==
  \/ queue' = [queue EXCEPT ![key] = Entry(key)] /\ UNCHANGED failed
  \/ queue[key] = NULL /\ failed < MaxFailed /\ failed' = failed + 1 /\ UNCHANGED queue

wait_queue_sleep(t) ==
  /\ pc[t] = "sleep"
  /\ wait_queue_get(t)
  /\ Goto(t, IF queue'[t] = NULL THEN "resume" ELSE "sleeping")
  /\ UNCHANGED <<number, rpcs, answer, woken, tz, secure, rpc, supplicant>>

\* Mutant: the entry is taken off the list before the completion.
WakeDeletes(t) ==
  /\ pc[t] = "sleeping" /\ queue[t] # NULL
  /\ queue' = [queue EXCEPT ![t] = NULL]
  /\ Goto(t, IF queue[t] > 0 THEN "resume" ELSE "sleeping")
  /\ UNCHANGED <<number, rpcs, answer, woken, failed, tz, secure, rpc, supplicant>>

wait_queue_woken(t) ==
  /\ pc[t] = "sleeping" /\ Entry(t) > 0
  /\ queue' = [queue EXCEPT ![t] = @ - 1]
  /\ Goto(t, "delete")
  /\ UNCHANGED <<number, rpcs, answer, woken, failed, tz, secure, rpc, supplicant>>

wait_queue_delete(t) ==
  /\ pc[t] = "delete"
  /\ queue' = [queue EXCEPT ![t] = NULL]
  /\ Goto(t, "resume")
  /\ UNCHANGED <<number, rpcs, answer, woken, failed, tz, secure, rpc, supplicant>>

wait_queue_wakeup(t) ==
  /\ pc[t] = "wakeup"
  /\ wait_queue_get(woken[t])
  /\ IF queue'[woken[t]] = NULL
     THEN Goto(t, "resume") /\ woken' = [woken EXCEPT ![t] = NULL]
     ELSE Goto(t, "complete") /\ UNCHANGED woken
  /\ UNCHANGED <<number, rpcs, answer, tz, secure, rpc, supplicant>>

\* An entry that has been freed is written all the same: the write goes to free
\* memory, or to the next entry of this key in the same place.
wait_queue_complete(t) ==
  /\ pc[t] = "complete"
  /\ queue' = [queue EXCEPT ![woken[t]] = IF @ = NULL THEN NULL ELSE @ + 1]
  /\ woken' = [woken EXCEPT ![t] = NULL]
  /\ Goto(t, "resume")
  /\ UNCHANGED <<number, rpcs, answer, failed, tz, secure, rpc, supplicant>>

-----------------------------------------------------------------------------
(***************************************************************************)
(* tee_supp_cmd(TEE_RPC_ICMD_INVOKE).  Nobody reads commToUser without a   *)
(* unit of datatouser, so that filling it and up() are one action; so are  *)
(* down() and copying the answer out.                                      *)
(***************************************************************************)
Cmd(t) == [client |-> t, number |-> number[t], rpc |-> rpcs[t]]

\* the supplicant is not ready: TEEC_RPC_FAIL
supp_cmd(t) ==
  /\ pc[t] = "invoke"
  /\ Goto(t, IF used = 0 THEN "resume" ELSE "send")
  /\ UNCHANGED <<number, rpcs, answer, woken, tz, secure, wq, rpc, supplicant>>

\* Mutant: the channel is not kept until the answer has come.
ChannelFreeAnyway(t) == TRUE

ChannelFree(t) == thrd_mutex = NULL

supp_send(t) ==
  /\ pc[t] = "send" /\ ChannelFree(t)
  /\ thrd_mutex' = t
  /\ commToUser' = Cmd(t)
  /\ datatouser' = datatouser + 1
  /\ Goto(t, "answer")
  /\ UNCHANGED <<number, rpcs, answer, woken, tz, secure, wq, commFromUser, datafromuser,
                 supplicant>>

\* Mutant: the mutex is not unlocked.
ReceiveKeepsChannel(t) ==
  /\ pc[t] = "answer" /\ datafromuser > 0
  /\ datafromuser' = datafromuser - 1
  /\ answer' = [answer EXCEPT ![t] = commFromUser]
  /\ Goto(t, "resume")
  /\ UNCHANGED <<number, rpcs, woken, tz, secure, wq, thrd_mutex, commToUser, datatouser,
                 commFromUser, supplicant>>

supp_receive(t) ==
  /\ pc[t] = "answer" /\ datafromuser > 0
  /\ datafromuser' = datafromuser - 1
  /\ answer' = [answer EXCEPT ![t] = commFromUser]
  /\ thrd_mutex' = NULL
  /\ Goto(t, "resume")
  /\ UNCHANGED <<number, rpcs, woken, tz, secure, wq, commToUser, datatouser, commFromUser,
                 supplicant>>

\* tee_supp_read(): a request that does not fit into the supplicant's buffer, or
\* cannot be copied to it, is gone with its unit of datatouser.
supp_read(s) ==
  /\ supp[s] = "open" /\ used # 0 /\ datatouser > 0
  /\ datatouser' = datatouser - 1
  /\ \/ /\ request' = [request EXCEPT ![s] = commToUser]
        /\ supp' = [supp EXCEPT ![s] = "busy"]
     \/ UNCHANGED <<request, supp>>
  /\ UNCHANGED <<client, tz, secure, wq, thrd_mutex, commToUser, commFromUser, datafromuser,
                 used>>

\* tee_supp_write(): an answer of the size of commFromUser, as a request with
\* all its buffers gets it, is ignored like an empty one, one that cannot be
\* copied, and any answer when the supplicant is not ready.  (Nobody reads what
\* a copy that failed half-way has left in commFromUser.)
Lengths == {"none", "part", "whole"}

supp_write(s) ==
  /\ supp[s] = "busy"
  /\ \E length \in Lengths, copied \in BOOLEAN :
       IF used # 0 /\ length = "part" /\ copied
       THEN commFromUser' = request[s] /\ datafromuser' = datafromuser + 1
       ELSE UNCHANGED <<commFromUser, datafromuser>>
  /\ supp' = [supp EXCEPT ![s] = "open"]
  /\ request' = [request EXCEPT ![s] = NULL]
  /\ UNCHANGED <<client, tz, secure, wq, thrd_mutex, commToUser, datatouser, used>>

-----------------------------------------------------------------------------
(***************************************************************************)
(* tee_supp_open() and tee_supp_release(): rpc->used is tested and changed *)
(* by separate atomic operations.  A release that meets the transient      *)
(* count of a refused opening does not count itself out, and no supplicant *)
(* is let in any more.  A supplicant may die between read() and write().   *)
(***************************************************************************)
\* A process that is started takes a free name; which one makes no difference.
Started == CHOOSE s \in Supplicants : supp[s] = "closed"

supp_open(s) ==
  /\ supp[s] = "closed" /\ s = Started
  /\ used' = used + 1
  /\ supp' = [supp EXCEPT ![s] = IF used = 0 THEN "open" ELSE "refused"]
  /\ UNCHANGED <<client, tz, secure, wq, rpc, request>>

supp_refused(s) ==
  /\ supp[s] = "refused"
  /\ used' = used - 1
  /\ supp' = [supp EXCEPT ![s] = "closed"]
  /\ UNCHANGED <<client, tz, secure, wq, rpc, request>>

supp_release(s) ==
  /\ supp[s] \in {"open", "busy"}
  /\ supp' = [supp EXCEPT ![s] = IF used = 1 THEN "release" ELSE "closed"]
  /\ request' = [request EXCEPT ![s] = NULL]
  /\ UNCHANGED <<client, tz, secure, wq, rpc, used>>

supp_released(s) ==
  /\ supp[s] = "release"
  /\ used' = used - 1
  /\ supp' = [supp EXCEPT ![s] = "closed"]
  /\ UNCHANGED <<client, tz, secure, wq, rpc, request>>

-----------------------------------------------------------------------------
\* what a client does by itself once it has entered call_tee()
ClientStep(t) ==
  \/ e_lock_wait_completion(t) \/ wait_for_completion(t) \/ smc(t)
  \/ wait_queue_sleep(t) \/ wait_queue_woken(t) \/ wait_queue_delete(t)
  \/ wait_queue_wakeup(t) \/ wait_queue_complete(t)
  \/ supp_cmd(t) \/ supp_send(t) \/ supp_receive(t)

\* the loop of a supplicant
Serve(s) ==
  supp_open(s) \/ supp_refused(s) \/ supp_write(s) \/ supp_released(s)

Next ==
  \/ \E t \in Clients : call_tee(t) \/ wait_timeout(t) \/ ClientStep(t)
  \/ \E s \in Supplicants : supp_read(s) \/ supp_release(s) \/ Serve(s)

\* Threads keep running, the trusted world returns, the supplicant is started
\* again when it has died and, when it is started over and over, comes to read.
\* Processes that are refused do not take turns in the few instructions between
\* counting themselves in and out of the device without ever leaving a gap.  The
\* time-out of the wait for a secure thread is not relied on.
Fairness ==
  /\ \A t \in Clients : WF_vars(ClientStep(t))
  /\ \A s \in Supplicants : WF_vars(Serve(s))
  /\ SF_vars(\E s \in Supplicants : supp_read(s))
  /\ []<>(\A s \in Supplicants : supp[s] # "refused")

Spec == Init /\ [][Next]_vars
FairSpec == Spec /\ Fairness

-----------------------------------------------------------------------------
Requests == [client : Clients, number : 1 .. MaxCalls, rpc : 1 .. MaxRpc] \cup {NULL}

\* The variables stay within their types.
TypeOK ==
  /\ pc \in [Clients -> {"idle", "enter", "retry", "resume", "wait", "sleep", "sleeping", "delete",
                         "wakeup", "complete", "invoke", "send", "answer"}]
  /\ number \in [Clients -> 0 .. MaxCalls]
  /\ rpcs \in [Clients -> 0 .. MaxRpc]
  /\ answer \in [Clients -> Requests]
  /\ c_waiters \in Nat /\ done \in Nat
  /\ ta \in [Clients -> {"out", "start", "wants", "holds", "after"}]
  /\ smutex \in Clients \cup {NULL} /\ sleepers \subseteq Clients
  /\ woken \in [Clients -> Clients \cup {NULL}]
  /\ queue \in [Clients -> Nat \cup {NULL}] /\ failed \in 0 .. MaxFailed
  /\ thrd_mutex \in Clients \cup {NULL}
  /\ commToUser \in Requests /\ commFromUser \in Requests
  /\ datatouser \in Nat /\ datafromuser \in Nat /\ used \in Nat
  /\ supp \in [Supplicants -> {"closed", "refused", "open", "busy", "release"}]
  /\ request \in [Supplicants -> Requests]

\* What tee_supp_cmd() hands back to a thread is the answer to the request this
\* thread has sent in this call, however requests, answers and restarts of the
\* supplicant interleave.
AnswerIsMine == \A t \in Clients : answer[t] \in {NULL, Cmd(t)}

\* A thread that waits for a secure thread will be told: unless a completion is
\* pending already, some other thread is on its way through call_tee() and will
\* pass e_unlock_teez().
WaiterIsTold ==
  (done = 0 /\ \E t \in Clients : pc[t] = "wait") =>
    \E u \in Clients : pc[u] \notin {"idle", "wait"}

\* Whoever completes an entry of the wait queue after releasing its mutex finds
\* it still there, as long as there has been memory for every entry: the sleeper
\* has not taken it off the list and freed it.
WakeHitsEntry ==
  failed = 0 => \A t \in Clients : pc[t] = "complete" => queue[woken[t]] # NULL

\* The three ways in which a call can be stuck.  tee_supp_cmd() waits for an
\* answer, and has thrd_mutex, but its request was lost by read(), with the
\* supplicant, or by write().
AnswerLost ==
  /\ \E t \in Clients : pc[t] = "answer" /\ thrd_mutex = t
  /\ datatouser = 0 /\ datafromuser = 0
  /\ \A s \in Supplicants : supp[s] # "busy"

\* rpc->used counts more supplicants than there are: none is let in any more.
LockedOut == used > Cardinality({s \in Supplicants : supp[s] # "closed"})

\* There was no memory for the entry by which a sleeper should have been woken.
WakeLost ==
  /\ failed > 0
  /\ \E u \in Clients \ sleepers :
       /\ pc[u] = "sleeping" /\ Entry(u) = 0
       /\ \A t \in Clients : woken[t] # u

\* Every call into the trusted world returns, unless an answer or the wake-up of
\* a sleeper has been lost or the supplicants are locked out.
CallReturns ==
  \A t \in Clients :
    pc[t] # "idle" ~> pc[t] = "idle" \/ AnswerLost \/ LockedOut \/ WakeLost
=============================================================================
