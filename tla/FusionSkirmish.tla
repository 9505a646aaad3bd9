--------------------------- MODULE FusionSkirmish ---------------------------
(***************************************************************************)
(* Skirmishes of the Fusion device (drv/fusion/skirmish.c): recursive      *)
(* locks shared by the threads of several processes ("fusionees"), which   *)
(* double as condition variables, together with the synchronous calls      *)
(* between fusionees (call.c) that lend what the caller has locked to the  *)
(* callee, and with the death of a fusionee (fusiondev.c, fusionee.c).     *)
(*                                                                         *)
(* Every access to a skirmish happens under the lock of its entry, which   *)
(* fusion_entry_lock() takes under the lock of the list, so the code       *)
(* between locking an entry and unlocking it or going to sleep on it is    *)
(* one action; the walks over all skirmishes hold the lock of the list.    *)
(* lock_fid is Fid[lock_pid], and lock_count is 0 while nobody holds the   *)
(* lock (wait_() leaves it, nothing reads it before it is set again).      *)
(* The API is of major version 4 or later: a return names a serial number. *)
(*                                                                         *)
(* Clients: each fusionee in DOMAIN Dispatcher offers one call, served by  *)
(* its dispatcher thread, whose handlers unlock what they have locked.     *)
(* A thread in Callers executes calls while holding nothing but skirmishes *)
(* in Lend.  Skirmishes in Cond are waited for and notified.               *)
(***************************************************************************)
EXTENDS Naturals, Sequences, FiniteSets

CONSTANTS
  Threads, Fusionees, Skirmishes, NULL,
  Fid,          \* thread -> its fusionee
  Dispatcher,   \* fusionee that offers a call -> the thread that serves it
  Callers,      \* threads that execute calls
  Lend,         \* skirmishes that may be locked during a call
  Cond,         \* skirmishes used as condition variables
  Killable,     \* fusionees that may be killed
  Interrupted,  \* threads that get signals they survive
  MaxDepth,     \* bound on lock_count
  MaxNotify,    \* bound on notify_count
  MaxCalls      \* bound on the number of calls executed

ASSUME ThreadsAssumption ==
  /\ Fid \in [Threads -> Fusionees]
  /\ DOMAIN Dispatcher \subseteq Fusionees
  /\ \A f \in DOMAIN Dispatcher : Dispatcher[f] \in Threads /\ Fid[Dispatcher[f]] = f
  /\ Callers \cup Interrupted \subseteq Threads
ASSUME SkirmishAssumption == Lend \cup Cond \subseteq Skirmishes
ASSUME BoundAssumption ==
  MaxDepth \in Nat \ {0} /\ MaxNotify \in Nat /\ MaxCalls \in Nat

Servers == DOMAIN Dispatcher
Calls == 1 .. MaxCalls

LoanType == [to : Servers, from : Threads, count : 1 .. MaxDepth]
WaitType == [s : Skirmishes, lock_count : 1 .. MaxDepth, notify_count : 0 .. MaxNotify]
ExecutionType ==
  [call : Servers, caller : Threads \cup {NULL}, listed : BOOLEAN]

ASSUME NullAssumption ==
  /\ NULL \notin Threads \cup Fusionees \cup Skirmishes \cup Nat
  /\ NULL \notin LoanType \cup WaitType \cup ExecutionType

VARIABLES
  live,        \* skirmishes that have not been destroyed
  lock_pid,    \* skirmish -> the thread that holds it, or NULL
  lock_count,  \* skirmish -> how often
  lent,        \* skirmish -> transfer_to, transfer_from_pid and transfer_count, or NULL
  notify_count,
  pc,          \* thread -> what it is doing
  on,          \* thread -> the skirmish or the execution it sleeps on
  asleep,      \* thread -> whether it is on the wait queue
  signal,      \* thread -> signal_pending()
  wait,        \* thread -> lock_count and notify_count of its FusionSkirmishWait
  execution,   \* call number -> its FusionCallExecution, or NULL before the call
  messages,    \* fusionee -> call messages not read yet
  serving,     \* fusionee -> call that its dispatcher handles
  dispatcher,  \* fusionee -> dispatcher_pid
  stage,       \* fusionee -> how far its death has come
  depth,       \* thread -> skirmish -> how often it has locked it, as it knows
  bug          \* whether a FUSION_ASSERT of transfer_all() has failed

lock == <<lock_pid, lock_count, lent>>
thread == <<pc, on, asleep>>
calls == <<execution, messages, serving, dispatcher>>
vars == <<live, lock, notify_count, thread, signal, wait, calls, stage, depth, bug>>

Init ==
  /\ live = Skirmishes
  /\ lock_pid = [s \in Skirmishes |-> NULL]
  /\ lock_count = [s \in Skirmishes |-> 0]
  /\ lent = [s \in Skirmishes |-> NULL]
  /\ notify_count = [s \in Skirmishes |-> 0]
  /\ pc = [t \in Threads |-> "user"]
  /\ on = [t \in Threads |-> NULL]
  /\ asleep = [t \in Threads |-> FALSE]
  /\ signal = [t \in Threads |-> FALSE]
  /\ wait = [t \in Threads |-> NULL]
  /\ execution = [n \in Calls |-> NULL]
  /\ messages = [f \in Servers |-> <<>>]
  /\ serving = [f \in Servers |-> NULL]
  /\ dispatcher = [f \in Servers |-> NULL]
  /\ stage = [f \in Fusionees |-> "up"]
  /\ depth = [t \in Threads |-> [s \in Skirmishes |-> 0]]
  /\ bug = FALSE

-----------------------------------------------------------------------------
(***************************************************************************)
(* fusion_sleep_on() and the wake-ups.  A thread with a signal pending     *)
(* does not sleep.                                                         *)
(***************************************************************************)
SleepOn(t, where, x) ==
  /\ pc' = [pc EXCEPT ![t] = where]
  /\ on' = [on EXCEPT ![t] = x]
  /\ asleep' = [asleep EXCEPT ![t] = ~signal[t]]

\* wake_up_interruptible_all() on the wait queues of the skirmishes ss
Awake(sleeping, ss) ==
  [t \in Threads |-> sleeping[t] /\ ~(pc[t] \in {"prevail", "wait", "relock"} /\ on[t] \in ss)]

\* the system call returns; a signal that does not kill has been handled
ToUser(t) ==
  /\ pc' = [pc EXCEPT ![t] = "user"]
  /\ on' = [on EXCEPT ![t] = NULL]
  /\ asleep' = [asleep EXCEPT ![t] = FALSE]
  /\ signal' = [signal EXCEPT ![t] = stage[Fid[t]] # "up"]

\* fusionee_dispatcher_pid(): NULL when the fusionee is not on the list
DispatcherPid(f) ==
  IF f \in Servers /\ stage[f] \in {"up", "killed", "flushed"} THEN dispatcher[f] ELSE NULL

\* Mutant: the loan is not looked at.
LentToAnyone(t, s) == FALSE

\* Nobody holds the skirmish, but it is lent to someone else than t.
LentPast(t, s) == lent[s] # NULL /\ DispatcherPid(lent[s].to) # t

Take(t, s, n) ==
  /\ lock_pid' = [lock_pid EXCEPT ![s] = t]
  /\ lock_count' = [lock_count EXCEPT ![s] = n]
  /\ UNCHANGED lent

-----------------------------------------------------------------------------
(***************************************************************************)
(* Locking: fusion_skirmish_prevail() sleeps until nobody holds the        *)
(* skirmish, fusion_skirmish_swoop() gives up at once.                     *)
(***************************************************************************)
Deeper(t, s) == depth' = [depth EXCEPT ![t][s] = @ + 1]

\* The handlers of a dispatcher run while it serves a call.
InUser(t) ==
  /\ pc[t] = "user" /\ wait[t] = NULL
  /\ stage[Fid[t]] = "up"
  /\ \A f \in Servers : Dispatcher[f] = t => serving[f] # NULL

Again(t, s) ==
  /\ lock_pid[s] = t
  /\ lock_count[s] < MaxDepth
  /\ Take(t, s, lock_count[s] + 1)
  /\ Deeper(t, s)
  /\ UNCHANGED thread

PrevailTest(t, s) ==
  \/ /\ lock_pid[s] # NULL \/ LentPast(t, s)
     /\ SleepOn(t, "prevail", s)
     /\ UNCHANGED <<lock, depth, signal>>
  \/ /\ lock_pid[s] = NULL /\ ~LentPast(t, s)
     /\ Take(t, s, 1)
     /\ Deeper(t, s)
     /\ ToUser(t)

prevail(t, s) ==
  /\ InUser(t) /\ s \in live
  /\ \/ Again(t, s) /\ UNCHANGED signal
     \/ lock_pid[s] # t /\ PrevailTest(t, s)
  /\ UNCHANGED <<live, notify_count, wait, calls, stage, bug>>

\* fusion_entry_wait() returns to prevail(): -EINTR, -EIDRM or one more test.
prevail_woken(t) ==
  /\ pc[t] = "prevail" /\ ~asleep[t]
  /\ IF signal[t] \/ on[t] \notin live
     THEN ToUser(t) /\ UNCHANGED <<lock, depth>>
     ELSE PrevailTest(t, on[t])
  /\ UNCHANGED <<live, notify_count, wait, calls, stage, bug>>

swoop(t, s) ==
  /\ InUser(t) /\ s \in live
  /\ \/ Again(t, s)
     \/ /\ lock_pid[s] = NULL /\ ~LentPast(t, s)
        /\ Take(t, s, 1)
        /\ Deeper(t, s)
        /\ UNCHANGED thread
  /\ UNCHANGED <<live, notify_count, signal, wait, calls, stage, bug>>

dismiss(t, s) ==
  /\ InUser(t) /\ s \in live
  /\ lock_pid[s] = t
  /\ lock_count' = [lock_count EXCEPT ![s] = @ - 1]
  /\ depth' = [depth EXCEPT ![t][s] = @ - 1]
  /\ IF lock_count[s] = 1
     THEN /\ lock_pid' = [lock_pid EXCEPT ![s] = NULL]
          /\ asleep' = Awake(asleep, {s})
     ELSE UNCHANGED <<lock_pid, asleep>>
  /\ UNCHANGED <<live, lent, notify_count, pc, on, signal, wait, calls, stage, bug>>

\* fusion_skirmish_destroy() by the thread that holds it; sleepers get -EIDRM.
destroy(t, s) ==
  /\ InUser(t) /\ s \in live
  /\ lock_pid[s] = t /\ lent[s] = NULL
  /\ live' = live \ {s}
  /\ lock_pid' = [lock_pid EXCEPT ![s] = NULL]
  /\ lock_count' = [lock_count EXCEPT ![s] = 0]
  /\ depth' = [depth EXCEPT ![t][s] = 0]
  /\ asleep' = Awake(asleep, {s})
  /\ UNCHANGED <<lent, notify_count, pc, on, signal, wait, calls, stage, bug>>

-----------------------------------------------------------------------------
(***************************************************************************)
(* Condition variables: fusion_skirmish_wait_() gives the skirmish up      *)
(* until it has been notified, then takes it again as often as before.     *)
(* A wait that a signal interrupted is resumed by the client, which hands  *)
(* its FusionSkirmishWait in again.                                        *)
(***************************************************************************)
wait_(t, s) ==
  /\ InUser(t) /\ s \in live \cap Cond
  /\ lock_pid[s] = t
  /\ wait' = [wait EXCEPT ![t] = [s |-> s, lock_count |-> lock_count[s],
                                  notify_count |-> notify_count[s]]]
  /\ lock_pid' = [lock_pid EXCEPT ![s] = NULL]
  /\ lock_count' = [lock_count EXCEPT ![s] = 0]
  /\ pc' = [pc EXCEPT ![t] = "wait"]
  /\ on' = [on EXCEPT ![t] = s]
  /\ asleep' = [Awake(asleep, {s}) EXCEPT ![t] = ~signal[t]]
  /\ UNCHANGED <<live, lent, notify_count, signal, calls, stage, depth, bug>>

\* Mutant: the skirmish is taken once, however often it was held.
RelockOnce(t, s) == Take(t, s, 1)

\* The skirmish is taken again as often as it was held before the wait.
Relock(t, s) == Take(t, s, wait[t].lock_count)

\* What a waiter does under the lock of the entry: sleep for the notification,
\* sleep for the lock, or take it.  lent is not looked at.
WaitTest(t, s, timeout) ==
  \/ /\ wait[t].notify_count = notify_count[s] /\ ~timeout
     /\ SleepOn(t, "wait", s)
     /\ UNCHANGED <<lock, wait, signal>>
  \/ /\ wait[t].notify_count # notify_count[s] \/ timeout
     /\ lock_pid[s] # NULL
     /\ SleepOn(t, "relock", s)
     /\ UNCHANGED <<lock, wait, signal>>
  \/ /\ wait[t].notify_count # notify_count[s] \/ timeout
     /\ lock_pid[s] = NULL
     /\ Relock(t, s)
     /\ wait' = [wait EXCEPT ![t] = NULL]
     /\ ToUser(t)

\* The entry is gone: -EIDRM or -EINVAL, and the client gives up the wait.
WaitGone(t) ==
  /\ wait' = [wait EXCEPT ![t] = NULL]
  /\ depth' = [depth EXCEPT ![t][wait[t].s] = 0]
  /\ ToUser(t)
  /\ UNCHANGED lock

wait_woken(t) ==
  /\ pc[t] \in {"wait", "relock"} /\ ~asleep[t]
  /\ \/ signal[t] /\ ToUser(t) /\ UNCHANGED <<lock, wait, depth>>
     \/ ~signal[t] /\ on[t] \notin live /\ WaitGone(t)
     \/ ~signal[t] /\ on[t] \in live /\ UNCHANGED depth /\ WaitTest(t, on[t], pc[t] = "relock")
  /\ UNCHANGED <<live, notify_count, calls, stage, bug>>

\* schedule_timeout() expires: the entry is locked again and the relock loop begins.
wait_timeout(t) ==
  /\ pc[t] = "wait" /\ asleep[t]
  /\ \/ on[t] \notin live /\ WaitGone(t)
     \/ on[t] \in live /\ UNCHANGED depth /\ WaitTest(t, on[t], TRUE)
  /\ UNCHANGED <<live, notify_count, calls, stage, bug>>

wait_resume(t) ==
  /\ pc[t] = "user" /\ stage[Fid[t]] = "up" /\ wait[t] # NULL
  /\ \/ wait[t].s \notin live /\ WaitGone(t)
     \/ wait[t].s \in live /\ UNCHANGED depth /\ WaitTest(t, wait[t].s, FALSE)
  /\ UNCHANGED <<live, notify_count, calls, stage, bug>>

notify_(t, s) ==
  /\ InUser(t) /\ s \in live \cap Cond
  /\ lock_pid[s] = t
  /\ notify_count[s] < MaxNotify
  /\ notify_count' = [notify_count EXCEPT ![s] = @ + 1]
  /\ asleep' = Awake(asleep, {s})
  /\ UNCHANGED <<live, lock, pc, on, signal, wait, calls, stage, depth, bug>>

-----------------------------------------------------------------------------
(***************************************************************************)
(* Calls.  fusion_call_execute() holds the lock of the call from adding    *)
(* the execution until it sleeps; in between, the callee can already read  *)
(* the message and run the handler.  fusion_call_return() holds it too,    *)
(* but a caller that gets a signal clears execution->caller without it.    *)
(* The memory of an execution is left out: whose turn it is to free it,    *)
(* and that caller and callee both do when the callee dies.                *)
(***************************************************************************)
CallLocked(f) ==
  \/ \E t \in Threads : pc[t] = "send" /\ execution[on[t]].call = f
  \/ f \in Servers /\ pc[Dispatcher[f]] \in {"return", "oops"}

execute(t, f, n) ==
  /\ t \in Callers /\ InUser(t) /\ f # Fid[t]
  /\ \A s \in live : depth[t][s] > 0 => s \in Lend
  /\ stage[f] \in {"up", "killed", "flushed"} /\ ~CallLocked(f)
  /\ execution[n] = NULL /\ \A k \in 1 .. n - 1 : execution[k] # NULL
  /\ execution' = [execution EXCEPT ![n] =
       [call |-> f, caller |-> t, listed |-> TRUE]]
  /\ messages' = [messages EXCEPT ![f] = Append(@, n)]
  /\ pc' = [pc EXCEPT ![t] = "send"]
  /\ on' = [on EXCEPT ![t] = n]
  /\ UNCHANGED <<live, lock, notify_count, asleep, signal, wait, serving, dispatcher,
                 stage, depth, bug>>

\* What the threads ts hold
HeldBy(ts) == {s \in live : lock_pid[s] \in ts}

\* fusion_skirmish_transfer_all() and fusion_sleep_on()
transfer_all(t) ==
  LET held == HeldBy({t})
      to == execution[on[t]].call
  IN  /\ pc[t] = "send"
      /\ bug' = (bug \/ \E s \in held : lent[s] # NULL)
      /\ lent' = [s \in Skirmishes |->
           IF s \in held THEN [to |-> to, from |-> t, count |-> lock_count[s]] ELSE lent[s]]
      /\ lock_pid' = [s \in Skirmishes |-> IF s \in held THEN NULL ELSE lock_pid[s]]
      /\ lock_count' = [s \in Skirmishes |-> IF s \in held THEN 0 ELSE lock_count[s]]
      /\ pc' = [pc EXCEPT ![t] = "call"]
      /\ asleep' = [Awake(asleep, held) EXCEPT ![t] = ~signal[t]]
      /\ UNCHANGED <<live, notify_count, on, signal, wait, calls, stage, depth>>

\* What t has lent and not got back
LentBy(ts) == {s \in live : lent[s] # NULL /\ lent[s].from \in ts}

\* Mutant: the skirmish is taken back but stays lent.
ReclaimKeepsLoan(t) ==
  /\ lock_pid' = [s \in Skirmishes |-> IF s \in LentBy({t}) THEN t ELSE lock_pid[s]]
  /\ lock_count' = [s \in Skirmishes |->
       IF s \in LentBy({t}) THEN lent[s].count ELSE lock_count[s]]
  /\ UNCHANGED lent

\* fusion_skirmish_reclaim_all(): whoever holds what t has lent loses it.
reclaim_all(t) ==
  /\ lock_pid' = [s \in Skirmishes |-> IF s \in LentBy({t}) THEN t ELSE lock_pid[s]]
  /\ lock_count' = [s \in Skirmishes |->
       IF s \in LentBy({t}) THEN lent[s].count ELSE lock_count[s]]
  /\ lent' = [s \in Skirmishes |-> IF s \in LentBy({t}) THEN NULL ELSE lent[s]]

\* The rest of fusion_call_execute()
call_woken(t) ==
  /\ pc[t] = "call" /\ ~asleep[t]
  /\ IF signal[t]
     THEN /\ execution' = [execution EXCEPT ![on[t]].caller = NULL]
          /\ UNCHANGED lock
     ELSE reclaim_all(t) /\ UNCHANGED execution
  /\ ToUser(t)
  /\ UNCHANGED <<live, notify_count, wait, messages, serving, dispatcher, stage, depth, bug>>

\* fusionee_get_messages(): the dispatcher makes itself known; its buffer
\* holds one message.
get_messages(f) ==
  /\ pc[Dispatcher[f]] = "user" /\ stage[f] = "up" /\ serving[f] = NULL
  /\ dispatcher[f] = NULL \/ messages[f] # <<>>
  /\ dispatcher' = [dispatcher EXCEPT ![f] = Dispatcher[f]]
  /\ IF messages[f] = <<>>
     THEN UNCHANGED <<messages, serving>>
     ELSE /\ serving' = [serving EXCEPT ![f] = Head(messages[f])]
          /\ messages' = [messages EXCEPT ![f] = Tail(@)]
  /\ UNCHANGED <<live, lock, notify_count, thread, signal, wait, execution, stage, depth, bug>>

\* The caller of execution n, on its wait queue, is woken.
CallerAwake(ns) ==
  [t \in Threads |-> asleep[t] /\ ~(pc[t] = "call" /\ on[t] \in ns)]

\* fusion_call_return() finds the execution: it is removed if the caller has
\* given up, and will be answered otherwise.
call_return(f) ==
  LET t == Dispatcher[f]
      n == serving[f]
  IN  /\ n # NULL /\ InUser(t) /\ ~CallLocked(f)
      /\ \A s \in live : depth[t][s] = 0
      /\ IF execution[n].caller = NULL
         THEN /\ execution' = [execution EXCEPT ![n].listed = FALSE]
              /\ serving' = [serving EXCEPT ![f] = NULL]
              /\ UNCHANGED pc
         ELSE pc' = [pc EXCEPT ![t] = "return"] /\ UNCHANGED <<execution, serving>>
      /\ UNCHANGED <<live, lock, notify_count, on, asleep, signal, wait, messages, dispatcher,
                     stage, depth, bug>>

\* The execution is removed and the caller woken.  FUSION_ASSERT() fails if the
\* caller has given up since: the thread dies with the call locked.
call_answer(f) ==
  LET t == Dispatcher[f]
      n == serving[f]
  IN  /\ pc[t] = "return"
      /\ execution' = [execution EXCEPT ![n].listed = FALSE]
      /\ serving' = [serving EXCEPT ![f] = NULL]
      /\ \/ /\ execution[n].caller # NULL
            /\ pc' = [pc EXCEPT ![t] = "user"]
            /\ asleep' = CallerAwake({n})
         \/ /\ execution[n].caller = NULL
            /\ pc' = [pc EXCEPT ![t] = "oops"]
            /\ UNCHANGED asleep
      /\ UNCHANGED <<live, lock, notify_count, on, signal, wait, messages, dispatcher, stage,
                     depth, bug>>

-----------------------------------------------------------------------------
(***************************************************************************)
(* Signals and death.  A fusionee is killed, its threads leave the kernel  *)
(* and exit, the last one flushes the file and releases it:                *)
(* fusionee_destroy() takes the fusionee off the list, destroys its calls, *)
(* and dismisses what any of its threads holds or has lent.                *)
(***************************************************************************)
\* A signal matters to a thread that sleeps or is about to.
Signal(t) ==
  /\ t \in Interrupted /\ stage[Fid[t]] = "up"
  /\ pc[t] \notin {"user", "return", "oops"} /\ ~signal[t]
  /\ signal' = [signal EXCEPT ![t] = TRUE]
  /\ asleep' = [asleep EXCEPT ![t] = FALSE]
  /\ UNCHANGED <<live, lock, notify_count, pc, on, wait, calls, stage, depth, bug>>

Kill(f) ==
  /\ f \in Killable /\ stage[f] = "up"
  /\ stage' = [stage EXCEPT ![f] = "killed"]
  /\ signal' = [t \in Threads |-> signal[t] \/ Fid[t] = f]
  /\ asleep' = [t \in Threads |-> asleep[t] /\ Fid[t] # f]
  /\ UNCHANGED <<live, lock, notify_count, pc, on, wait, calls, depth, bug>>

\* Mutant: giving up a loan wakes nobody.
WakesHeld(gone) == HeldBy(gone)

\* the skirmishes whose sleepers are woken
Wakes(gone) == HeldBy(gone) \cup LentBy(gone)

\* What dismiss_all() and dismiss_all_from_pid() do for threads that are gone
Dismiss(gone) ==
  /\ lock_pid' = [s \in Skirmishes |-> IF s \in HeldBy(gone) THEN NULL ELSE lock_pid[s]]
  /\ lock_count' = [s \in Skirmishes |-> IF s \in HeldBy(gone) THEN 0 ELSE lock_count[s]]
  /\ lent' = [s \in Skirmishes |-> IF s \in LentBy(gone) THEN NULL ELSE lent[s]]
  /\ asleep' = Awake(asleep, Wakes(gone))

\* A thread exits, or has died with a failed assertion; the last one closes the
\* file: fusion_flush(), with fusion_skirmish_dismiss_all_from_pid() for this
\* thread alone.
Exit(t) ==
  LET f == Fid[t]
      last == \A u \in Threads \ {t} : Fid[u] = f => pc[u] \in {"exited", "oops"}
  IN  /\ \/ stage[f] = "killed" /\ pc[t] = "user" /\ pc' = [pc EXCEPT ![t] = "exited"]
         \/ stage[f] \in {"up", "killed"} /\ pc[t] = "oops" /\ last /\ UNCHANGED pc
      /\ IF last
         THEN stage' = [stage EXCEPT ![f] = "flushed"] /\ Dismiss({t})
         ELSE UNCHANGED <<stage, lock, asleep>>
      /\ wait' = [wait EXCEPT ![t] = NULL]
      /\ depth' = [depth EXCEPT ![t] = [s \in Skirmishes |-> 0]]
      /\ UNCHANGED <<live, notify_count, on, signal, calls, bug>>

fusionee_destroy(f) ==
  /\ stage[f] = "flushed"
  /\ stage' = [stage EXCEPT ![f] = "unlisted"]
  /\ UNCHANGED <<live, lock, notify_count, thread, signal, wait, calls, depth, bug>>

\* Mutant: the callers are not woken.
DestroyCallsSilently(f) ==
  /\ stage[f] = "unlisted" /\ ~CallLocked(f)
  /\ stage' = [stage EXCEPT ![f] = "uncalled"]
  /\ UNCHANGED <<live, lock, notify_count, thread, signal, wait, calls, depth, bug>>

\* fusion_call_destroy_all(), with free_all_executions()
call_destroy_all(f) ==
  LET mine == {n \in Calls : execution[n] # NULL /\ execution[n].call = f /\ execution[n].listed}
  IN  /\ stage[f] = "unlisted" /\ ~CallLocked(f)
      /\ stage' = [stage EXCEPT ![f] = "uncalled"]
      /\ execution' = [n \in Calls |->
           IF n \in mine THEN [execution[n] EXCEPT !.listed = FALSE] ELSE execution[n]]
      /\ asleep' = CallerAwake(mine)
      /\ UNCHANGED <<live, lock, notify_count, pc, on, signal, wait, messages, serving,
                     dispatcher, depth, bug>>

\* Mutant: what the other threads of the fusionee hold is forgotten.
DismissNothing(f) ==
  /\ stage[f] = "uncalled"
  /\ stage' = [stage EXCEPT ![f] = "gone"]
  /\ UNCHANGED <<live, lock, notify_count, thread, signal, wait, calls, depth, bug>>

dismiss_all(f) ==
  /\ stage[f] = "uncalled"
  /\ stage' = [stage EXCEPT ![f] = "gone"]
  /\ Dismiss({t \in Threads : Fid[t] = f})
  /\ UNCHANGED <<live, notify_count, pc, on, signal, wait, calls, depth, bug>>

-----------------------------------------------------------------------------
ThreadStep(t) ==
  \/ \E s \in Skirmishes :
       prevail(t, s) \/ swoop(t, s) \/ dismiss(t, s) \/ destroy(t, s)
         \/ wait_(t, s) \/ notify_(t, s)
  \/ prevail_woken(t) \/ wait_woken(t) \/ wait_timeout(t) \/ wait_resume(t)
  \/ \E f \in Servers, n \in Calls : execute(t, f, n)
  \/ transfer_all(t) \/ call_woken(t)
  \/ Signal(t) \/ Exit(t)

FusioneeStep(f) ==
  \/ f \in Servers /\ (get_messages(f) \/ call_return(f) \/ call_answer(f))
  \/ Kill(f) \/ fusionee_destroy(f) \/ dismiss_all(f) \/ call_destroy_all(f)

Next ==
  \/ \E t \in Threads : ThreadStep(t)
  \/ \E f \in Fusionees : FusioneeStep(f)

Spec == Init /\ [][Next]_vars

-----------------------------------------------------------------------------
Stages == {"up", "killed", "flushed", "unlisted", "uncalled", "gone"}

\* The variables stay within their types.
TypeOK ==
  /\ live \subseteq Skirmishes
  /\ lock_pid \in [Skirmishes -> Threads \cup {NULL}]
  /\ lock_count \in [Skirmishes -> 0 .. MaxDepth]
  /\ lent \in [Skirmishes -> LoanType \cup {NULL}]
  /\ notify_count \in [Skirmishes -> 0 .. MaxNotify]
  /\ pc \in [Threads -> {"user", "prevail", "wait", "relock", "send", "call", "return", "oops",
                         "exited"}]
  /\ on \in [Threads -> Skirmishes \cup Calls \cup {NULL}]
  /\ asleep \in [Threads -> BOOLEAN]
  /\ signal \in [Threads -> BOOLEAN]
  /\ wait \in [Threads -> WaitType \cup {NULL}]
  /\ execution \in [Calls -> ExecutionType \cup {NULL}]
  /\ messages \in [Servers -> Seq(Calls)]
  /\ serving \in [Servers -> Calls \cup {NULL}]
  /\ dispatcher \in [Servers -> Threads \cup {NULL}]
  /\ stage \in [Fusionees -> Stages]
  /\ depth \in [Threads -> [Skirmishes -> 0 .. MaxDepth]]
  /\ bug \in BOOLEAN

\* What a thread of a living fusionee believes to hold, having locked, unlocked,
\* waited for and lent out skirmishes and got them back, is what the driver
\* records: no two threads believe to hold the same one.
RecordMatches ==
  \A t \in Threads, s \in live :
    (pc[t] = "user" /\ wait[t] = NULL /\ stage[Fid[t]] = "up") =>
      depth[t][s] = IF lock_pid[s] = t THEN lock_count[s] ELSE 0

\* A thread that sleeps in prevail() or in wait_() has something to wait for:
\* whoever made the skirmish available, notified, destroyed, lent or returned
\* it, or died with it, has woken its sleepers.
NoLostWakeup ==
  \A t \in Threads : (asleep[t] /\ pc[t] # "call") =>
    /\ on[t] \in live
    /\ pc[t] = "prevail" => lock_pid[on[t]] # NULL \/ LentPast(t, on[t])
    /\ pc[t] = "relock" => lock_pid[on[t]] # NULL
    /\ pc[t] = "wait" => wait[t].notify_count = notify_count[on[t]]

\* A caller that sleeps in fusion_call_execute() will be woken: its execution
\* is on the list of the call, and its message is queued at the callee or
\* being handled, and if the callee is dying it has its calls still to destroy.
\* (A callee whose dispatcher has died in fusion_call_return() does neither.)
AnswerOwed ==
  \A t \in Threads : (pc[t] = "call" /\ asleep[t]) =>
    LET f == execution[on[t]].call IN
    /\ execution[on[t]].listed /\ execution[on[t]].caller = t
    /\ stage[f] \notin {"uncalled", "gone"}
    /\ serving[f] = on[t] \/ \E i \in DOMAIN messages[f] : messages[f][i] = on[t]

\* While a skirmish is lent to a callee nobody but its dispatcher holds it, and
\* the caller that lent it is still inside the call or its fusionee is dying.
LentToCallee ==
  \A s \in live : lent[s] # NULL =>
    /\ lock_pid[s] \in {NULL, Dispatcher[lent[s].to]}
    /\ \/ pc[lent[s].from] = "call" /\ execution[on[lent[s].from]].call = lent[s].to
       \/ stage[Fid[lent[s].from]] \notin {"up", "gone"}

\* Once fusionee_destroy() is through, the fusionee holds and lends nothing, and
\* nobody waits for an answer from it.
GoneHoldsNothing ==
  \A f \in Fusionees : stage[f] = "gone" =>
    /\ \A s \in live : /\ lock_pid[s] # NULL => Fid[lock_pid[s]] # f
                       /\ lent[s] # NULL => Fid[lent[s].from] # f
    /\ \A t \in Threads : pc[t] = "call" /\ execution[on[t]].call = f => ~asleep[t]

\* No FUSION_ASSERT of fusion_skirmish_transfer_all() fails: what a caller
\* lends is not lent already.
NoBug == ~bug

\* FUSION_ASSUME(skirmish->lock_pid == 0) of fusion_skirmish_reclaim_all(): when
\* a call returns, nobody holds what was lent for it.
ReclaimFindsFree ==
  \A t \in Threads : (pc[t] = "call" /\ ~asleep[t] /\ ~signal[t]) =>
    \A s \in live : (lent[s] # NULL /\ lent[s].from = t) => lock_pid[s] = NULL
=============================================================================
