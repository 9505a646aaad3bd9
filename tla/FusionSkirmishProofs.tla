------------------------ MODULE FusionSkirmishProofs ------------------------
(***************************************************************************)
(* Proofs about FusionSkirmish, for any threads, fusionees, skirmishes and *)
(* bounds, whoever is killed or interrupted.                               *)
(***************************************************************************)
EXTENDS FusionSkirmish, SequenceTheorems, TLAPS

-----------------------------------------------------------------------------
(* The inductive invariants.                                               *)

LockTyped ==
  /\ lock_pid \in [Skirmishes -> Threads \cup {NULL}]
  /\ lock_count \in [Skirmishes -> 0 .. MaxDepth]
  /\ lent \in [Skirmishes -> LoanType \cup {NULL}]
ThreadTyped ==
  /\ pc \in [Threads -> {"user", "prevail", "wait", "relock", "send", "call", "return", "oops",
                         "exited"}]
  /\ on \in [Threads -> Skirmishes \cup Calls \cup {NULL}]
  /\ asleep \in [Threads -> BOOLEAN]
  /\ signal \in [Threads -> BOOLEAN]
  /\ wait \in [Threads -> WaitType \cup {NULL}]
CallTyped ==
  /\ execution \in [Calls -> ExecutionType \cup {NULL}]
  /\ messages \in [Servers -> Seq(Calls)]
  /\ serving \in [Servers -> Calls \cup {NULL}]
  /\ dispatcher \in [Servers -> Threads \cup {NULL}]

\* The types, but for what the clients believe.
Typed ==
  /\ live \subseteq Skirmishes
  /\ notify_count \in [Skirmishes -> 0 .. MaxNotify]
  /\ stage \in [Fusionees -> Stages]
  /\ LockTyped /\ ThreadTyped /\ CallTyped

\* Who holds a skirmish has locked it once at least.
Held == \A s \in Skirmishes : lock_pid[s] # NULL => lock_count[s] # 0

OnSkirmish == {"prevail", "wait", "relock"}
InCall == {"send", "call"}

\* Where threads sleep, and that a waiter has its FusionSkirmishWait.
Placed ==
  \A t \in Threads :
    /\ asleep[t] => pc[t] \in OnSkirmish \cup {"call"}
    /\ pc[t] \in OnSkirmish => on[t] \in Skirmishes
    /\ pc[t] \in {"wait", "relock"} => wait[t] # NULL /\ wait[t].s = on[t]
    /\ wait[t] # NULL => pc[t] \in {"user", "wait", "relock"}

\* A fusionee that offers a call is dispatched by its dispatcher.
Dispatched == \A f \in Servers : dispatcher[f] \in {NULL, Dispatcher[f]}

\* A fusionee is flushed when its threads have exited or died.
Exited ==
  \A t \in Threads :
    /\ stage[Fid[t]] \notin {"up", "killed"} => pc[t] \in {"exited", "oops"}
    /\ pc[t] = "exited" => stage[Fid[t]] # "up"
    /\ stage[Fid[t]] # "up" => signal[t] \/ pc[t] = "oops"

\* Once it is gone the fusionee holds and lends nothing.
GoneLocks ==
  \A s \in live :
    /\ lock_pid[s] # NULL => stage[Fid[lock_pid[s]]] # "gone"
    /\ lent[s] # NULL => stage[Fid[lent[s].from]] # "gone"

LockInv == Typed /\ Held /\ Placed /\ Dispatched /\ Exited /\ GoneLocks /\ NoLostWakeup

Ended == {"uncalled", "gone"}
In(m, n) == \E i \in DOMAIN m : m[i] = n
Once(m) == \A i, j \in DOMAIN m : m[i] = m[j] => i = j
Queued(f, n) == In(messages[f], n)

\* A thread inside fusion_call_execute() is the caller of its execution.
Calling ==
  \A t \in Threads : pc[t] \in InCall =>
    on[t] \in Calls /\ execution[on[t]] # NULL /\ execution[on[t]].caller = t

\* An answer is owed to whoever sleeps, and to whoever is about to.
Owed(t) ==
  LET f == execution[on[t]].call IN
  /\ execution[on[t]].listed
  /\ stage[f] \notin Ended
  /\ serving[f] = on[t] \/ Queued(f, on[t])
AllOwed == \A t \in Threads : pc[t] = "send" \/ (pc[t] = "call" /\ asleep[t]) => Owed(t)

\* Who is awake and has no signal has been answered.
Answered ==
  \A t \in Threads : (pc[t] = "call" /\ ~asleep[t] /\ ~signal[t]) => ~execution[on[t]].listed

\* A call is queued or handled once, by its callee, which has not removed the
\* execution yet; and while the execution is listed, a caller that has not
\* given up is inside it.
CallsOnce ==
  \A f \in Servers :
    /\ Once(messages[f])
    /\ serving[f] # NULL => ~Queued(f, serving[f])
CallsListed ==
  \A f \in Servers, n \in Calls : serving[f] = n \/ Queued(f, n) =>
    /\ execution[n] # NULL /\ execution[n].call = f
    /\ stage[f] \notin Ended => execution[n].listed
CallerInside ==
  \A n \in Calls : (execution[n] # NULL /\ execution[n].listed /\ execution[n].caller # NULL) =>
    LET t == execution[n].caller IN pc[t] \in InCall /\ on[t] = n

\* While the dispatcher is inside fusion_call_return() it has the call locked.
Returning ==
  \A f \in Servers : pc[Dispatcher[f]] = "return" =>
    /\ serving[f] # NULL
    /\ \A t \in Threads : ~(pc[t] = "send" /\ execution[on[t]].call = f)

CallInv ==
  Calling /\ AllOwed /\ Answered /\ CallsOnce /\ CallsListed /\ CallerInside /\ Returning

SafeInv == LockInv /\ CallInv

-----------------------------------------------------------------------------
(* Types.                                                                  *)

Pcs == {"user", "prevail", "wait", "relock", "send", "call", "return", "oops", "exited"}

LEMMA NullFacts ==
  /\ NULL \notin Threads /\ NULL \notin Fusionees /\ NULL \notin Skirmishes
  /\ NULL \notin Calls /\ NULL \notin LoanType /\ NULL \notin WaitType
  /\ NULL \notin ExecutionType
<1>1. \A n \in Calls : n \in Nat
  BY BoundAssumption DEF Calls
<1> QED
  BY <1>1, NullAssumption

LEMMA SetLock ==
  ASSUME LockTyped, NEW s \in Skirmishes, NEW t \in Threads \cup {NULL}, NEW n \in 0 .. MaxDepth,
         lock_pid' = [lock_pid EXCEPT ![s] = t], lock_count' = [lock_count EXCEPT ![s] = n],
         lent' = lent
  PROVE  LockTyped'
BY DEF LockTyped

LEMMA SetSleep ==
  ASSUME ThreadTyped, NEW t \in Threads, NEW where \in Pcs, NEW x \in Skirmishes \cup Calls \cup {NULL},
         SleepOn(t, where, x), signal' = signal, wait' = wait
  PROVE  ThreadTyped'
<1>1. asleep' \in [Threads -> BOOLEAN]
  BY DEF ThreadTyped, SleepOn
<1> QED
  BY <1>1 DEF ThreadTyped, SleepOn, Pcs

LEMMA SetUser ==
  ASSUME ThreadTyped, NEW t \in Threads, ToUser(t), wait' \in [Threads -> WaitType \cup {NULL}]
  PROVE  ThreadTyped'
<1>1. asleep' \in [Threads -> BOOLEAN] /\ signal' \in [Threads -> BOOLEAN]
  BY DEF ThreadTyped, ToUser
<1> QED
  BY <1>1 DEF ThreadTyped, ToUser

LEMMA SetAwake ==
  ASSUME NEW ss, NEW a \in [Threads -> BOOLEAN]
  PROVE  /\ Awake(a, ss) \in [Threads -> BOOLEAN]
         /\ \A u \in Threads : Awake(a, ss)[u] <=>
              a[u] /\ ~(pc[u] \in OnSkirmish /\ on[u] \in ss)
BY DEF Awake, OnSkirmish

LEMMA SetCallerAwake ==
  ASSUME ThreadTyped, NEW ns
  PROVE  /\ CallerAwake(ns) \in [Threads -> BOOLEAN]
         /\ \A u \in Threads : CallerAwake(ns)[u] <=> asleep[u] /\ ~(pc[u] = "call" /\ on[u] \in ns)
BY DEF CallerAwake, ThreadTyped

\* transfer_all, reclaim_all, dismiss_all: a map of skirmishes to what it was
\* or a new value.
LEMMA SetLocks ==
  ASSUME LockTyped, NEW S, NEW p \in [Skirmishes -> Threads \cup {NULL}],
         NEW n \in [Skirmishes -> 0 .. MaxDepth], NEW l \in [Skirmishes -> LoanType \cup {NULL}],
         lock_pid' = p, lock_count' = n, lent' = l
  PROVE  LockTyped'
BY DEF LockTyped

-----------------------------------------------------------------------------
(* The kinds of steps, as far as locks are concerned.                      *)

\* The parts of Placed and of NoLostWakeup that are about one thread
PlacedAt(t) ==
  /\ asleep[t] => pc[t] \in OnSkirmish \cup {"call"}
  /\ pc[t] \in OnSkirmish => on[t] \in Skirmishes
  /\ pc[t] \in {"wait", "relock"} => wait[t] # NULL /\ wait[t].s = on[t]
  /\ wait[t] # NULL => pc[t] \in {"user", "wait", "relock"}
Waits(t) ==
  (asleep[t] /\ pc[t] # "call") =>
    /\ on[t] \in live
    /\ pc[t] = "prevail" => lock_pid[on[t]] # NULL \/ LentPast(t, on[t])
    /\ pc[t] = "relock" => lock_pid[on[t]] # NULL
    /\ pc[t] = "wait" => wait[t].notify_count = notify_count[on[t]]

\* u does nothing, but may be woken.
Still(u) ==
  /\ pc'[u] = pc[u] /\ on'[u] = on[u] /\ wait'[u] = wait[u]
  /\ asleep'[u] => asleep[u]

\* Who sleeps on s has as much reason to as before.
Firm(s) ==
  /\ s \in live'
  /\ lock_pid[s] # NULL => lock_pid'[s] # NULL
  /\ lent'[s] = lent[s] \/ lock_pid'[s] # NULL
  /\ notify_count'[s] = notify_count[s]

\* What a step of thread t does to the other threads and may do to skirmishes.
StepOf(t) ==
  /\ live' \subseteq live /\ dispatcher' = dispatcher /\ stage' = stage
  /\ \A u \in Threads \ {t} :
       /\ Still(u) /\ signal'[u] = signal[u]
       /\ pc[u] = "call" => asleep'[u] = asleep[u]
       /\ asleep'[u] /\ pc[u] \in OnSkirmish => Firm(on[u])
  /\ pc[t] \notin {"return", "oops", "exited"} /\ pc'[t] \notin {"return", "oops", "exited"}
  /\ stage[Fid[t]] # "up" => signal'[t]
  /\ \A s \in live' :
       /\ lock_pid'[s] \in {lock_pid[s], NULL, t}
       /\ lent'[s] \in {lent[s], NULL} \/ lent'[s].from = t

Good(t) == Typed' /\ Held' /\ StepOf(t) /\ PlacedAt(t)' /\ Waits(t)'

\* Whoever sleeps on goes on doing so for a reason.
LEMMA StillWaits ==
  ASSUME LockInv, NEW u \in Threads, Still(u),
         asleep'[u] /\ pc[u] \in OnSkirmish => Firm(on[u]),
         asleep[u] => \A f \in Fusionees : DispatcherPid(f)' = u => DispatcherPid(f) = u
  PROVE  PlacedAt(u)' /\ Waits(u)'
<1>1. PlacedAt(u) /\ Waits(u)
  BY DEF LockInv, Placed, PlacedAt, NoLostWakeup, Waits
<1>2. PlacedAt(u)'
  BY <1>1 DEF PlacedAt, Still
<1>3. ASSUME asleep'[u], pc'[u] # "call" PROVE
        /\ on'[u] \in live'
        /\ pc'[u] = "prevail" => lock_pid'[on'[u]] # NULL \/ LentPast(u, on[u])'
        /\ pc'[u] = "relock" => lock_pid'[on'[u]] # NULL
        /\ pc'[u] = "wait" => wait'[u].notify_count = notify_count'[on'[u]]
  <2>1. PICK s \in Skirmishes : s = on[u] /\ s \in live /\ on'[u] = s
    BY <1>1, <1>3 DEF PlacedAt, Waits, Still, LockInv, Typed
  <2>2. asleep[u] /\ pc[u] # "call" /\ pc[u] \in OnSkirmish
    BY <1>1, <1>3 DEF PlacedAt, Still
  <2>3. Firm(s)
    BY <1>3, <2>1, <2>2
  <2>4. CASE pc[u] = "prevail"
    <3>1. lock_pid[s] # NULL \/ LentPast(u, s)
      BY <1>1, <2>1, <2>2, <2>4 DEF Waits
    <3>2. CASE lock_pid'[s] # NULL
      BY <2>1, <2>3, <2>4, <3>2 DEF Still, Firm
    <3>3. CASE lock_pid'[s] = NULL
      <4>1. lent'[s] = lent[s] /\ lent[s] # NULL /\ DispatcherPid(lent[s].to) # u
        BY <2>3, <3>1, <3>3 DEF Firm, LentPast
      <4>2. PICK f \in Fusionees : f = lent[s].to
        <5>1. lent[s] \in LoanType
          BY <4>1 DEF LockInv, Typed, LockTyped
        <5> QED
          BY <5>1, ThreadsAssumption DEF LoanType, Servers
      <4>3. DispatcherPid(f)' # u
        BY <2>2, <4>1, <4>2
      <4>4. LentPast(u, on[u])'
        BY <2>1, <4>1, <4>2, <4>3 DEF LentPast, DispatcherPid
      <4> QED
        BY <2>1, <2>3, <2>4, <4>4 DEF Still, Firm
    <3> QED
      BY <3>2, <3>3
  <2>5. CASE pc[u] # "prevail"
    BY <1>1, <2>1, <2>2, <2>3, <2>5 DEF Waits, Still, Firm
  <2> QED
    BY <2>4, <2>5
<1> QED
  BY <1>2, <1>3 DEF Waits

\* A step of a thread that is good for locks and for itself is good for all.
LEMMA GoodStep ==
  ASSUME LockInv, NEW t \in Threads, Good(t)
  PROVE  LockInv'
<1>1. ASSUME NEW u \in Threads PROVE PlacedAt(u)' /\ Waits(u)'
  <2>1. \A f \in Fusionees : DispatcherPid(f)' = DispatcherPid(f)
    BY DEF Good, StepOf, DispatcherPid
  <2>2. CASE u = t
    BY <2>2 DEF Good
  <2>3. CASE u # t
    BY <2>1, <2>3, StillWaits DEF Good, StepOf
  <2> QED
    BY <2>2, <2>3
<1>2. Placed' /\ NoLostWakeup'
  BY <1>1 DEF Placed, PlacedAt, NoLostWakeup, Waits
<1>3. Dispatched'
  BY DEF LockInv, Dispatched, Good, StepOf
<1>4. Exited'
  BY DEF LockInv, Exited, Good, StepOf, Still
<1>5. GoneLocks'
  <2>1. stage[Fid[t]] # "gone"
    BY DEF LockInv, Exited, Good, StepOf
  <2>2. ASSUME NEW s \in live'
        PROVE  /\ lock_pid'[s] # NULL => stage[Fid[lock_pid'[s]]] # "gone"
               /\ lent'[s] # NULL => stage[Fid[lent'[s].from]] # "gone"
    <3>1. s \in live
      BY <2>2 DEF Good, StepOf
    <3>2. /\ lock_pid[s] # NULL => stage[Fid[lock_pid[s]]] # "gone"
          /\ lent[s] # NULL => stage[Fid[lent[s].from]] # "gone"
      BY <3>1 DEF LockInv, GoneLocks
    <3> QED
      BY <2>1, <2>2, <3>2 DEF Good, StepOf
  <2> QED
    BY <2>2 DEF GoneLocks, Good, StepOf
<1> QED
  BY <1>2, <1>3, <1>4, <1>5 DEF LockInv, Good

-----------------------------------------------------------------------------
(* Locking.                                                                *)

\* What is left alone by the steps that lock and wait
Rest == UNCHANGED <<live, notify_count, calls, stage>>

LEMMA RestTyped ==
  ASSUME Typed, Rest, LockTyped', ThreadTyped'
  PROVE  Typed'
<1>1. CallTyped'
  BY DEF Typed, CallTyped, Rest, calls
<1> QED
  BY <1>1 DEF Typed, Rest

LEMMA Sleeps ==
  ASSUME LockInv, NEW t \in Threads, NEW where \in OnSkirmish, NEW s \in live,
         SleepOn(t, where, s), Rest, UNCHANGED <<lock, wait, signal>>, pc[t] \notin {"return", "oops", "exited"},
         where = "prevail" => wait[t] = NULL /\ (lock_pid[s] # NULL \/ LentPast(t, s)),
         where # "prevail" => wait[t] # NULL /\ wait[t].s = s,
         where = "relock" => lock_pid[s] # NULL,
         where = "wait" => wait[t].notify_count = notify_count[s]
  PROVE  Good(t)
<1>0. s \in Skirmishes /\ where \in Pcs
  BY DEF LockInv, Typed, OnSkirmish, Pcs
<1>1. ThreadTyped'
  BY <1>0, SetSleep DEF LockInv, Typed
<1>2. LockTyped'
  BY DEF LockInv, Typed, LockTyped, lock
<1>3. Typed'
  BY <1>1, <1>2, RestTyped DEF LockInv
<1>4. Held'
  BY DEF LockInv, Held, lock
<1>5. /\ pc'[t] = where /\ on'[t] = s /\ wait'[t] = wait[t]
      /\ \A u \in Threads \ {t} : Still(u) /\ asleep'[u] = asleep[u]
  BY DEF SleepOn, Still, LockInv, Typed, ThreadTyped
<1>6. StepOf(t)
  <2>1. \A u \in Threads \ {t} : asleep'[u] /\ pc[u] \in OnSkirmish => Firm(on[u])
    <3>1. \A u \in Threads : asleep[u] /\ pc[u] \in OnSkirmish => on[u] \in live
      BY DEF LockInv, NoLostWakeup, OnSkirmish
    <3> QED
      BY <1>5, <3>1 DEF Firm, Rest, lock
  <2>2. stage[Fid[t]] # "up" => signal[t]
    BY DEF LockInv, Exited
  <2> QED
    BY <1>5, <2>1, <2>2 DEF StepOf, Rest, calls, lock, OnSkirmish
<1>7. PlacedAt(t)'
  BY <1>0, <1>5 DEF PlacedAt, OnSkirmish
<1>8. Waits(t)'
  <2>1. where = "prevail" => lock_pid[s] # NULL \/ LentPast(t, on[t])'
    BY <1>5 DEF LentPast, DispatcherPid, Rest, calls, lock
  <2> QED
    BY <1>5, <2>1 DEF Waits, Rest, lock, OnSkirmish
<1> QED
  BY <1>3, <1>4, <1>6, <1>7, <1>8 DEF Good

\* The call returns without having changed a skirmish.
LEMMA Leaves ==
  ASSUME LockInv, NEW t \in Threads, ToUser(t), Rest, UNCHANGED lock, pc[t] \notin {"return", "oops", "exited"},
         wait' = wait \/ wait' = [wait EXCEPT ![t] = NULL]
  PROVE  Good(t)
<1>1. wait' \in [Threads -> WaitType \cup {NULL}] /\ \A u \in Threads \ {t} : wait'[u] = wait[u]
  BY DEF LockInv, Typed, ThreadTyped
<1>2. ThreadTyped'
  BY <1>1, SetUser DEF LockInv, Typed
<1>3. LockTyped'
  BY DEF LockInv, Typed, LockTyped, lock
<1>4. Typed'
  BY <1>2, <1>3, RestTyped DEF LockInv
<1>5. Held'
  BY DEF LockInv, Held, lock
<1>6. /\ pc'[t] = "user" /\ asleep'[t] = FALSE
      /\ \A u \in Threads \ {t} : Still(u) /\ asleep'[u] = asleep[u] /\ signal'[u] = signal[u]
  BY <1>1 DEF ToUser, Still, LockInv, Typed, ThreadTyped
<1>7. signal'[t] = (stage[Fid[t]] # "up")
  BY DEF ToUser, LockInv, Typed, ThreadTyped
<1>8. StepOf(t)
  <2>1. \A u \in Threads \ {t} : asleep'[u] /\ pc[u] \in OnSkirmish => Firm(on[u])
    <3>1. \A u \in Threads : asleep[u] /\ pc[u] \in OnSkirmish => on[u] \in live
      BY DEF LockInv, NoLostWakeup, OnSkirmish
    <3> QED
      BY <1>6, <3>1 DEF Firm, Rest, lock
  <2> QED
    BY <1>6, <1>7, <2>1 DEF StepOf, Rest, calls, lock
<1>9. PlacedAt(t)' /\ Waits(t)'
  BY <1>6 DEF PlacedAt, Waits, OnSkirmish
<1> QED
  BY <1>4, <1>5, <1>8, <1>9 DEF Good

\* t takes a skirmish that nobody holds, or one that it has once more, and is
\* back in user mode.
LEMMA Takes ==
  ASSUME LockInv, NEW t \in Threads, NEW s \in live, NEW n \in 1 .. MaxDepth,
         Take(t, s, n), lock_pid[s] \in {NULL, t}, Rest, pc[t] \notin {"return", "oops", "exited"},
         wait' = wait \/ wait' = [wait EXCEPT ![t] = NULL],
         ToUser(t) \/ (UNCHANGED <<thread, signal>> /\ pc[t] = "user")
  PROVE  Good(t)
<1>0. s \in Skirmishes /\ n \in 0 .. MaxDepth /\ t # NULL
  BY NullFacts, BoundAssumption DEF LockInv, Typed
<1>1. wait' \in [Threads -> WaitType \cup {NULL}] /\ \A u \in Threads \ {t} : wait'[u] = wait[u]
  BY DEF LockInv, Typed, ThreadTyped
<1>2. ThreadTyped'
  <2>1. CASE ToUser(t)
    BY <1>1, <2>1, SetUser DEF LockInv, Typed
  <2>2. CASE UNCHANGED <<thread, signal>>
    BY <1>1, <2>2 DEF LockInv, Typed, ThreadTyped, thread
  <2> QED
    BY <2>1, <2>2
<1>3. LockTyped'
  BY <1>0, SetLock DEF LockInv, Typed, Take
<1>4. Typed'
  BY <1>2, <1>3, RestTyped DEF LockInv
<1>5. /\ lock_pid'[s] = t /\ lock_count'[s] = n /\ lent' = lent
      /\ \A r \in Skirmishes \ {s} : lock_pid'[r] = lock_pid[r] /\ lock_count'[r] = lock_count[r]
  BY <1>0 DEF Take, LockInv, Typed, LockTyped
<1>6. Held'
  BY <1>5 DEF LockInv, Held
<1>7. /\ pc'[t] = "user" /\ asleep'[t] = FALSE
      /\ \A u \in Threads \ {t} : Still(u) /\ asleep'[u] = asleep[u] /\ signal'[u] = signal[u]
  <2>1. CASE ToUser(t)
    BY <1>1, <2>1 DEF ToUser, Still, LockInv, Typed, ThreadTyped
  <2>2. CASE UNCHANGED <<thread, signal>> /\ pc[t] = "user"
    <3>1. asleep[t] = FALSE
      BY <2>2 DEF LockInv, Placed, OnSkirmish, Typed, ThreadTyped
    <3> QED
      BY <1>1, <2>2, <3>1 DEF thread, Still
  <2> QED
    BY <2>1, <2>2
<1>8. stage[Fid[t]] # "up" => signal'[t]
  <2>1. CASE ToUser(t)
    BY <2>1 DEF ToUser, LockInv, Typed, ThreadTyped
  <2>2. CASE UNCHANGED <<thread, signal>>
    BY <2>2 DEF LockInv, Exited
  <2> QED
    BY <2>1, <2>2
<1>9. StepOf(t)
  <2>1. \A r \in Skirmishes : lock_pid'[r] \in {lock_pid[r], t}
    BY <1>5
  <2>2. \A u \in Threads \ {t} : asleep'[u] /\ pc[u] \in OnSkirmish => Firm(on[u])
    <3>1. \A u \in Threads : asleep[u] /\ pc[u] \in OnSkirmish => on[u] \in live
      BY DEF LockInv, NoLostWakeup, OnSkirmish
    <3>2. \A r \in live : Firm(r)
      BY <1>0, <1>5, <2>1 DEF Firm, Rest, LockInv, Typed
    <3> QED
      BY <1>7, <3>1, <3>2
  <2> QED
    BY <1>5, <1>7, <1>8, <2>1, <2>2 DEF StepOf, Rest, calls, LockInv, Typed
<1>10. PlacedAt(t)' /\ Waits(t)'
  BY <1>7 DEF PlacedAt, Waits, OnSkirmish
<1> QED
  BY <1>4, <1>6, <1>9, <1>10 DEF Good

\* In user mode, and not in the middle of a wait.
LEMMA UserFacts ==
  ASSUME NEW t, InUser(t)
  PROVE  pc[t] = "user" /\ wait[t] = NULL /\ stage[Fid[t]] = "up"
BY DEF InUser

LEMMA AgainGood ==
  ASSUME LockInv, NEW t \in Threads, NEW s \in live, Again(t, s), InUser(t), Rest,
         UNCHANGED <<wait, signal>>
  PROVE  Good(t)
<1>1. lock_pid[s] = t /\ t # NULL /\ s \in Skirmishes
  BY NullFacts DEF Again, LockInv, Typed
<1>2. lock_count[s] + 1 \in 1 .. MaxDepth
  BY <1>1, BoundAssumption DEF Again, LockInv, Typed, LockTyped
<1> QED
  BY <1>1, <1>2, Takes, UserFacts DEF Again

LEMMA PrevailTestGood ==
  ASSUME LockInv, NEW t \in Threads, NEW s \in live, PrevailTest(t, s), Rest, UNCHANGED wait,
         pc[t] \in {"user", "prevail"}, wait[t] = NULL
  PROVE  Good(t)
<1>1. CASE /\ lock_pid[s] # NULL \/ LentPast(t, s)
           /\ SleepOn(t, "prevail", s)
           /\ UNCHANGED <<lock, depth, signal>>
  BY <1>1, Sleeps DEF OnSkirmish
<1>2. CASE lock_pid[s] = NULL /\ Take(t, s, 1) /\ ToUser(t)
  <2>1. 1 \in 1 .. MaxDepth
    BY BoundAssumption
  <2> QED
    BY <1>2, <2>1, Takes
<1> QED
  BY <1>1, <1>2 DEF PrevailTest

LEMMA PrevailGood ==
  ASSUME LockInv, NEW t \in Threads, NEW s \in Skirmishes, prevail(t, s)
  PROVE  Good(t)
<1>1. InUser(t) /\ s \in live /\ Rest /\ wait' = wait
  BY DEF prevail, Rest
<1>2. CASE Again(t, s) /\ UNCHANGED signal
  BY <1>1, <1>2, AgainGood
<1>3. CASE PrevailTest(t, s)
  BY <1>1, <1>3, PrevailTestGood, UserFacts
<1> QED
  BY <1>2, <1>3 DEF prevail

LEMMA PrevailWokenGood ==
  ASSUME LockInv, NEW t \in Threads, prevail_woken(t)
  PROVE  Good(t)
<1>1. pc[t] = "prevail" /\ Rest /\ wait' = wait
  BY DEF prevail_woken, Rest
<1>2. wait[t] = NULL
  BY <1>1 DEF LockInv, Placed
<1>3. CASE ToUser(t) /\ UNCHANGED lock
  BY <1>1, <1>3, Leaves
<1>4. CASE on[t] \in live /\ PrevailTest(t, on[t])
  BY <1>1, <1>2, <1>4, PrevailTestGood
<1> QED
  BY <1>3, <1>4 DEF prevail_woken

LEMMA SwoopGood ==
  ASSUME LockInv, NEW t \in Threads, NEW s \in Skirmishes, swoop(t, s)
  PROVE  Good(t)
<1>1. InUser(t) /\ s \in live /\ Rest /\ wait' = wait /\ signal' = signal
  BY DEF swoop, Rest
<1>2. CASE Again(t, s)
  BY <1>1, <1>2, AgainGood
<1>3. CASE lock_pid[s] = NULL /\ Take(t, s, 1) /\ UNCHANGED thread
  <2>1. 1 \in 1 .. MaxDepth
    BY BoundAssumption
  <2> QED
    BY <1>1, <1>3, <2>1, Takes, UserFacts
<1> QED
  BY <1>2, <1>3 DEF swoop

-----------------------------------------------------------------------------
(* Waiting.                                                                *)

LEMMA WaitTestGood ==
  ASSUME LockInv, NEW t \in Threads, NEW s \in live, NEW timeout \in BOOLEAN,
         WaitTest(t, s, timeout), Rest, pc[t] \notin {"return", "oops", "exited"}, wait[t] # NULL, wait[t].s = s
  PROVE  Good(t)
<1>1. CASE /\ wait[t].notify_count = notify_count[s]
           /\ SleepOn(t, "wait", s)
           /\ UNCHANGED <<lock, wait, signal>>
  BY <1>1, Sleeps DEF OnSkirmish
<1>2. CASE lock_pid[s] # NULL /\ SleepOn(t, "relock", s) /\ UNCHANGED <<lock, wait, signal>>
  BY <1>2, Sleeps DEF OnSkirmish
<1>3. CASE /\ lock_pid[s] = NULL /\ Relock(t, s)
           /\ wait' = [wait EXCEPT ![t] = NULL]
           /\ ToUser(t)
  <2>1. wait[t].lock_count \in 1 .. MaxDepth
    BY DEF LockInv, Typed, ThreadTyped, WaitType
  <2> QED
    BY <1>3, <2>1, Takes DEF Relock
<1> QED
  BY <1>1, <1>2, <1>3 DEF WaitTest

LEMMA WaitGoneGood ==
  ASSUME LockInv, NEW t \in Threads, WaitGone(t), Rest, pc[t] \notin {"return", "oops", "exited"}
  PROVE  Good(t)
BY Leaves DEF WaitGone

LEMMA WaitWokenGood ==
  ASSUME LockInv, NEW t \in Threads, wait_woken(t)
  PROVE  Good(t)
<1>1. pc[t] \in {"wait", "relock"} /\ Rest
  BY DEF wait_woken, Rest
<1>2. wait[t] # NULL /\ wait[t].s = on[t]
  BY <1>1 DEF LockInv, Placed
<1>3. CASE ToUser(t) /\ UNCHANGED <<lock, wait>>
  BY <1>1, <1>3, Leaves
<1>4. CASE WaitGone(t)
  BY <1>1, <1>4, WaitGoneGood
<1>5. CASE on[t] \in live /\ WaitTest(t, on[t], pc[t] = "relock")
  <2>1. PICK b \in BOOLEAN : b = (pc[t] = "relock")
    OBVIOUS
  <2>2. WaitTest(t, on[t], b)
    BY <1>5, <2>1
  <2> QED
    BY <1>1, <1>2, <1>5, <2>2, WaitTestGood
<1> QED
  BY <1>3, <1>4, <1>5 DEF wait_woken

LEMMA WaitTimeoutGood ==
  ASSUME LockInv, NEW t \in Threads, wait_timeout(t)
  PROVE  Good(t)
<1>1. pc[t] = "wait" /\ Rest
  BY DEF wait_timeout, Rest
<1>2. wait[t] # NULL /\ wait[t].s = on[t]
  BY <1>1 DEF LockInv, Placed
<1>3. CASE WaitGone(t)
  BY <1>1, <1>3, WaitGoneGood
<1>4. CASE on[t] \in live /\ WaitTest(t, on[t], TRUE)
  BY <1>1, <1>2, <1>4, WaitTestGood
<1> QED
  BY <1>3, <1>4 DEF wait_timeout

LEMMA WaitResumeGood ==
  ASSUME LockInv, NEW t \in Threads, wait_resume(t)
  PROVE  Good(t)
<1>1. pc[t] = "user" /\ Rest /\ wait[t] # NULL
  BY DEF wait_resume, Rest
<1>2. CASE WaitGone(t)
  BY <1>1, <1>2, WaitGoneGood
<1>3. CASE wait[t].s \in live /\ WaitTest(t, wait[t].s, FALSE)
  BY <1>1, <1>3, WaitTestGood
<1> QED
  BY <1>2, <1>3 DEF wait_resume

-----------------------------------------------------------------------------
(* Unlocking, notifying, lending.                                          *)

\* The sleepers of the skirmishes ss have been woken; the other skirmishes are
\* as they were, or held.
LEMMA WokenFirm ==
  ASSUME LockInv, NEW ss, NEW t \in Threads,
         \A u \in Threads \ {t} : Still(u) /\ (asleep'[u] => ~(pc[u] \in OnSkirmish /\ on[u] \in ss)),
         \A s \in live \ ss : Firm(s)
  PROVE  \A u \in Threads \ {t} : asleep'[u] /\ pc[u] \in OnSkirmish => Firm(on[u])
<1>1. \A u \in Threads : asleep[u] /\ pc[u] \in OnSkirmish => on[u] \in live
  BY DEF LockInv, NoLostWakeup, OnSkirmish
<1> QED
  BY <1>1 DEF Still

\* dismiss() and destroy(): t holds s and goes on in user mode.
LEMMA ReleaseGood ==
  ASSUME LockInv, NEW t \in Threads, NEW s \in live, NEW n \in 0 .. MaxDepth, InUser(t),
         lock_pid[s] = t,
         lock_count' = [lock_count EXCEPT ![s] = n],
         \/ /\ lock_pid' = [lock_pid EXCEPT ![s] = NULL]
            /\ asleep' = Awake(asleep, {s})
         \/ n # 0 /\ UNCHANGED <<live, lock_pid, asleep>>,
         live' \in {live, live \ {s}},
         UNCHANGED <<lent, notify_count, pc, on, signal, wait, calls, stage>>
  PROVE  Good(t)
<1>1. s \in Skirmishes /\ t # NULL
  BY NullFacts DEF LockInv, Typed
<1>2. asleep \in [Threads -> BOOLEAN]
  BY DEF LockInv, Typed, ThreadTyped
<1>3. asleep' \in [Threads -> BOOLEAN] /\ \A u \in Threads : asleep'[u] => asleep[u]
  BY <1>2, SetAwake
<1>4. ThreadTyped'
  BY <1>3 DEF LockInv, Typed, ThreadTyped
<1>5. LockTyped'
  BY <1>1 DEF LockInv, Typed, LockTyped
<1>6. Typed'
  BY <1>4, <1>5 DEF LockInv, Typed, CallTyped, calls
<1>7. /\ lock_pid'[s] = NULL \/ (n # 0 /\ lock_pid'[s] = t) 
      /\ lock_count'[s] = n
      /\ \A r \in Skirmishes \ {s} : lock_pid'[r] = lock_pid[r] /\ lock_count'[r] = lock_count[r]
  BY <1>1 DEF LockInv, Typed, LockTyped
<1>8. Held'
  BY <1>7 DEF LockInv, Held
<1>9. \A u \in Threads : Still(u)
  BY <1>3 DEF Still
<1>10. \A u \in Threads \ {t} : asleep'[u] /\ pc[u] \in OnSkirmish => Firm(on[u])
  <2>1. CASE lock_pid'[s] = NULL
    <3>1. \A u \in Threads : asleep'[u] => ~(pc[u] \in OnSkirmish /\ on[u] \in {s})
      <4>1. asleep' = Awake(asleep, {s})
        BY <1>1, <2>1
      <4> QED
        BY <1>2, <4>1, SetAwake
    <3>2. \A r \in live \ {s} : Firm(r)
      BY <1>7 DEF Firm, LockInv, Typed
    <3> QED
      BY <1>9, <3>1, <3>2, WokenFirm
  <2>2. CASE lock_pid'[s] = t
    <3>1. live' = live /\ asleep' = asleep
      BY <1>1, <2>2 DEF LockInv, Typed, LockTyped
    <3>2. \A r \in live : Firm(r)
      BY <1>1, <1>7, <2>2, <3>1 DEF Firm, LockInv, Typed
    <3>3. \A u \in Threads : asleep[u] /\ pc[u] \in OnSkirmish => on[u] \in live
      BY DEF LockInv, NoLostWakeup, OnSkirmish
    <3> QED
      BY <3>1, <3>2, <3>3
  <2> QED
    BY <1>7, <2>1, <2>2
<1>11. \A u \in Threads : pc[u] = "call" => asleep'[u] = asleep[u]
  <2>1. CASE asleep' = Awake(asleep, {s})
    <3>1. \A u \in Threads : pc[u] = "call" => (asleep'[u] <=> asleep[u])
      BY <1>2, <2>1, SetAwake DEF OnSkirmish
    <3> QED
      BY <1>2, <1>3, <3>1
  <2> QED
    BY <2>1
<1>12. StepOf(t)
  BY <1>1, <1>7, <1>9, <1>10, <1>11, UserFacts DEF StepOf, calls, LockInv, Typed
<1>13. PlacedAt(t)' /\ Waits(t)'
  <2>1. asleep'[t] = FALSE
    BY <1>3, UserFacts DEF LockInv, Placed, OnSkirmish
  <2> QED
    BY <2>1, UserFacts DEF PlacedAt, Waits, OnSkirmish
<1> QED
  BY <1>6, <1>8, <1>12, <1>13 DEF Good

LEMMA DismissGood ==
  ASSUME LockInv, NEW t \in Threads, NEW s \in Skirmishes, dismiss(t, s)
  PROVE  Good(t)
<1>1. InUser(t) /\ s \in live /\ lock_pid[s] = t /\ t # NULL
  BY NullFacts DEF dismiss
<1>2. lock_count[s] \in 1 .. MaxDepth
  BY <1>1, BoundAssumption DEF LockInv, Held, Typed, LockTyped
<1>3. PICK n \in 0 .. MaxDepth : n = lock_count[s] - 1 /\ (n = 0 <=> lock_count[s] = 1)
  BY <1>2, BoundAssumption
<1>4. lock_count' = [lock_count EXCEPT ![s] = n]
  BY <1>3 DEF dismiss
<1>5. CASE lock_count[s] = 1
  BY <1>1, <1>4, <1>5, ReleaseGood DEF dismiss
<1>6. CASE lock_count[s] # 1
  BY <1>1, <1>3, <1>4, <1>6, ReleaseGood DEF dismiss
<1> QED
  BY <1>5, <1>6

LEMMA DestroyGood ==
  ASSUME LockInv, NEW t \in Threads, NEW s \in Skirmishes, destroy(t, s)
  PROVE  Good(t)
<1>1. InUser(t) /\ s \in live /\ lock_pid[s] = t /\ 0 \in 0 .. MaxDepth
  BY BoundAssumption DEF destroy
<1> QED
  BY <1>1, ReleaseGood DEF destroy

LEMMA NotifyGood ==
  ASSUME LockInv, NEW t \in Threads, NEW s \in Skirmishes, notify_(t, s)
  PROVE  Good(t)
<1>1. InUser(t) /\ s \in live
  BY DEF notify_
<1>2. asleep \in [Threads -> BOOLEAN]
  BY DEF LockInv, Typed, ThreadTyped
<1>3. /\ asleep' \in [Threads -> BOOLEAN]
      /\ \A u \in Threads : asleep'[u] <=> asleep[u] /\ ~(pc[u] \in OnSkirmish /\ on[u] \in {s})
  BY <1>2, SetAwake DEF notify_
<1>4. notify_count' \in [Skirmishes -> 0 .. MaxNotify]
  <2>1. notify_count[s] + 1 \in 0 .. MaxNotify
    BY BoundAssumption DEF notify_, LockInv, Typed
  <2> QED
    BY <2>1 DEF notify_, LockInv, Typed
<1>5. Typed'
  <2>1. ThreadTyped'
    BY <1>3 DEF notify_, LockInv, Typed, ThreadTyped
  <2>2. LockTyped' /\ CallTyped'
    BY DEF notify_, LockInv, Typed, LockTyped, CallTyped, lock, calls
  <2> QED
    BY <1>4, <2>1, <2>2 DEF notify_, LockInv, Typed
<1>6. Held'
  BY DEF LockInv, Held, notify_, lock
<1>7. \A u \in Threads : Still(u) /\ (pc[u] = "call" => asleep'[u] = asleep[u])
  BY <1>2, <1>3 DEF Still, notify_, OnSkirmish
<1>8. \A u \in Threads \ {t} : asleep'[u] /\ pc[u] \in OnSkirmish => Firm(on[u])
  <2>1. \A r \in live \ {s} : Firm(r)
    BY DEF Firm, LockInv, Typed, notify_, lock
  <2> QED
    BY <1>3, <1>7, <2>1, WokenFirm
<1>9. StepOf(t)
  BY <1>1, <1>7, <1>8, UserFacts DEF StepOf, notify_, calls, lock
<1>10. PlacedAt(t)' /\ Waits(t)'
  <2>1. asleep'[t] = FALSE
    BY <1>1, <1>3, UserFacts DEF LockInv, Placed, OnSkirmish
  <2> QED
    BY <1>1, <2>1, UserFacts DEF PlacedAt, Waits, OnSkirmish, notify_
<1> QED
  BY <1>5, <1>6, <1>9, <1>10 DEF Good

LEMMA WaitGood ==
  ASSUME LockInv, NEW t \in Threads, NEW s \in Skirmishes, wait_(t, s)
  PROVE  Good(t)
<1>1. InUser(t) /\ s \in live /\ lock_pid[s] = t /\ t # NULL
  BY NullFacts DEF wait_
<1>2. asleep \in [Threads -> BOOLEAN] /\ signal[t] \in BOOLEAN
  BY DEF LockInv, Typed, ThreadTyped
<1>3. /\ asleep' \in [Threads -> BOOLEAN]
      /\ \A u \in Threads \ {t} :
           asleep'[u] <=> asleep[u] /\ ~(pc[u] \in OnSkirmish /\ on[u] \in {s})
  BY <1>2, SetAwake DEF wait_
<1>4. PICK w \in WaitType :
        w = [s |-> s, lock_count |-> lock_count[s], notify_count |-> notify_count[s]]
  <2>1. lock_count[s] \in 1 .. MaxDepth
    BY <1>1, BoundAssumption DEF LockInv, Held, Typed, LockTyped
  <2>2. notify_count[s] \in 0 .. MaxNotify
    BY DEF LockInv, Typed
  <2> QED
    BY <2>1, <2>2 DEF WaitType
<1>5. wait' = [wait EXCEPT ![t] = w] /\ w # NULL /\ w.s = s /\ w.notify_count = notify_count[s]
  BY <1>4, NullFacts DEF wait_
<1>6. /\ pc'[t] = "wait" /\ on'[t] = s /\ wait'[t] = w
      /\ \A u \in Threads \ {t} : Still(u)
  <2>1. pc' = [pc EXCEPT ![t] = "wait"] /\ on' = [on EXCEPT ![t] = s]
    BY DEF wait_
  <2>2. \A u \in Threads \ {t} : asleep'[u] => asleep[u]
    BY <1>3
  <2> QED
    BY <1>5, <2>1, <2>2 DEF Still, LockInv, Typed, ThreadTyped
<1>7. ThreadTyped'
  <2>1. /\ pc' = [pc EXCEPT ![t] = "wait"] /\ on' = [on EXCEPT ![t] = s]
        /\ signal' = signal
    BY DEF wait_
  <2> QED
    BY <1>3, <1>5, <2>1 DEF LockInv, Typed, ThreadTyped
<1>8. LockTyped'
  <2>1. 0 \in 0 .. MaxDepth
    BY BoundAssumption
  <2> QED
    BY <2>1, SetLock DEF wait_, LockInv, Typed
<1>9. Typed'
  BY <1>7, <1>8 DEF wait_, LockInv, Typed, CallTyped, calls
<1>10. /\ lock_pid'[s] = NULL
       /\ \A r \in Skirmishes \ {s} : lock_pid'[r] = lock_pid[r] /\ lock_count'[r] = lock_count[r]
  BY DEF wait_, LockInv, Typed, LockTyped
<1>11. Held'
  BY <1>10 DEF LockInv, Held
<1>12. \A u \in Threads \ {t} : asleep'[u] /\ pc[u] \in OnSkirmish => Firm(on[u])
  <2>1. \A r \in live \ {s} : Firm(r)
    BY <1>10 DEF Firm, LockInv, Typed, wait_
  <2> QED
    BY <1>3, <1>6, <2>1, WokenFirm
<1>13. \A u \in Threads \ {t} : pc[u] = "call" => asleep'[u] = asleep[u]
  BY <1>2, <1>3 DEF OnSkirmish
<1>14. StepOf(t)
  BY <1>1, <1>6, <1>10, <1>12, <1>13, UserFacts DEF StepOf, wait_, calls, LockInv, Typed
<1>15. PlacedAt(t)' /\ Waits(t)'
  BY <1>1, <1>5, <1>6 DEF PlacedAt, Waits, OnSkirmish, wait_
<1> QED
  BY <1>9, <1>11, <1>14, <1>15 DEF Good

-----------------------------------------------------------------------------
(* Calls and signals.                                                      *)

\* The execution of a new call
Fresh(f, t) == [call |-> f, caller |-> t, listed |-> TRUE]

LEMMA FreshType ==
  ASSUME NEW f \in Servers, NEW t \in Threads
  PROVE  Fresh(f, t) \in ExecutionType
BY DEF Fresh, ExecutionType

LEMMA ExecuteGood ==
  ASSUME LockInv, NEW t \in Threads, NEW f \in Servers, NEW n \in Calls, execute(t, f, n)
  PROVE  Good(t)
<1>1. InUser(t) /\ UNCHANGED <<live, notify_count, stage, lock, asleep, signal, wait, dispatcher>>
  BY DEF execute
<1>2. pc' = [pc EXCEPT ![t] = "send"] /\ on' = [on EXCEPT ![t] = n]
  BY DEF execute
<1>3. CallTyped'
  <2>1. execution' = [execution EXCEPT ![n] = Fresh(f, t)]
    BY DEF execute, Fresh
  <2>2. execution' \in [Calls -> ExecutionType \cup {NULL}]
    BY <2>1, FreshType DEF LockInv, Typed, CallTyped
  <2>3. messages' \in [Servers -> Seq(Calls)]
    <3>1. messages[f] \in Seq(Calls) /\ Append(messages[f], n) \in Seq(Calls)
      BY DEF LockInv, Typed, CallTyped
    <3> QED
      BY <3>1 DEF execute, LockInv, Typed, CallTyped
  <2> QED
    BY <2>2, <2>3 DEF execute, LockInv, Typed, CallTyped
<1>4. Typed'
  BY <1>1, <1>2, <1>3 DEF LockInv, Typed, LockTyped, ThreadTyped, lock
<1>5. Held'
  BY <1>1 DEF LockInv, Held, lock
<1>6. /\ pc'[t] = "send" /\ \A u \in Threads \ {t} : Still(u)
  BY <1>1, <1>2 DEF Still, LockInv, Typed, ThreadTyped
<1>7. StepOf(t)
  <2>1. \A u \in Threads : asleep[u] /\ pc[u] \in OnSkirmish => on[u] \in live
    BY DEF LockInv, NoLostWakeup, OnSkirmish
  <2>2. \A r \in live : Firm(r)
    BY <1>1 DEF Firm, lock
  <2> QED
    BY <1>1, <1>6, <2>1, <2>2, UserFacts DEF StepOf, lock
<1>8. PlacedAt(t)' /\ Waits(t)'
  <2>1. asleep'[t] = FALSE /\ wait'[t] = NULL
    BY <1>1, UserFacts DEF LockInv, Placed, OnSkirmish, Typed, ThreadTyped
  <2> QED
    BY <1>6, <2>1 DEF PlacedAt, Waits, OnSkirmish
<1> QED
  BY <1>4, <1>5, <1>7, <1>8 DEF Good

\* What transfer_all() does to each skirmish
LEMMA TransferEffect ==
  ASSUME Typed, Held, Calling, NEW t \in Threads, transfer_all(t)
  PROVE  /\ LockTyped' /\ execution[on[t]].call \in Servers
         /\ \A s \in Skirmishes :
              IF s \in HeldBy({t})
              THEN /\ s \in live /\ lock_pid[s] = t /\ lock_pid'[s] = NULL
                   /\ lent'[s] # NULL /\ lent'[s].to = execution[on[t]].call
                   /\ lent'[s].from = t /\ lent'[s].count = lock_count[s]
              ELSE lock_pid'[s] = lock_pid[s] /\ lock_count'[s] = lock_count[s] /\ lent'[s] = lent[s]
         /\ HeldBy({t}) \subseteq Skirmishes
<1> DEFINE held == HeldBy({t})
           to == execution[on[t]].call
<1>1. pc[t] = "send"
  BY DEF transfer_all
<1>2. to \in Servers
  <2>1. execution[on[t]] \in ExecutionType
    BY <1>1 DEF Calling, InCall, Typed, CallTyped
  <2> QED
    BY <2>1 DEF ExecutionType
<1>3. held \subseteq Skirmishes /\ \A s \in held : s \in live /\ lock_pid[s] = t
  BY DEF HeldBy, Typed
<1>4. /\ lent' = [s \in Skirmishes |->
           IF s \in held THEN [to |-> to, from |-> t, count |-> lock_count[s]] ELSE lent[s]]
      /\ lock_pid' = [s \in Skirmishes |-> IF s \in held THEN NULL ELSE lock_pid[s]]
      /\ lock_count' = [s \in Skirmishes |-> IF s \in held THEN 0 ELSE lock_count[s]]
  BY DEF transfer_all
<1> HIDE DEF held, to
<1>5. \A s \in held : lock_count[s] \in 1 .. MaxDepth
  BY <1>3, NullFacts, BoundAssumption DEF Held, Typed, LockTyped
<1>6. \A s \in held : [to |-> to, from |-> t, count |-> lock_count[s]] \in LoanType
  BY <1>2, <1>5 DEF LoanType
<1>7. LockTyped'
  <2>1. 0 \in 0 .. MaxDepth
    BY BoundAssumption
  <2>2. lock_pid' \in [Skirmishes -> Threads \cup {NULL}]
    BY <1>4 DEF Typed, LockTyped
  <2>3. lock_count' \in [Skirmishes -> 0 .. MaxDepth]
    BY <1>4, <2>1 DEF Typed, LockTyped
  <2>4. lent' \in [Skirmishes -> LoanType \cup {NULL}]
    BY <1>4, <1>6 DEF Typed, LockTyped
  <2> QED
    BY <2>2, <2>3, <2>4 DEF LockTyped
<1>8. ASSUME NEW s \in held
      PROVE  /\ lock_pid'[s] = NULL /\ lent'[s] # NULL
             /\ lent'[s].to = to /\ lent'[s].from = t /\ lent'[s].count = lock_count[s]
  <2>1. lent'[s] = [to |-> to, from |-> t, count |-> lock_count[s]] /\ lock_pid'[s] = NULL
    BY <1>3, <1>4
  <2>2. lent'[s] # NULL
    BY <1>6, <2>1, NullFacts
  <2> QED
    BY <2>1, <2>2
<1>9. \A s \in Skirmishes \ held :
        lock_pid'[s] = lock_pid[s] /\ lock_count'[s] = lock_count[s] /\ lent'[s] = lent[s]
  BY <1>4
<1> QED
  BY <1>2, <1>3, <1>7, <1>8, <1>9 DEF held, to

LEMMA TransferGood ==
  ASSUME LockInv, Calling, NEW t \in Threads, transfer_all(t)
  PROVE  Good(t)
<1>1. /\ pc[t] = "send"
      /\ UNCHANGED <<live, notify_count, on, signal, wait, calls, stage>>
      /\ pc' = [pc EXCEPT ![t] = "call"]
      /\ asleep' = [Awake(asleep, HeldBy({t})) EXCEPT ![t] = ~signal[t]]
  BY DEF transfer_all
<1>2. PICK held \in SUBSET Skirmishes : held = HeldBy({t})
  BY DEF HeldBy, LockInv, Typed
<1>3. /\ LockTyped'
      /\ \A s \in Skirmishes :
           IF s \in held
           THEN lock_pid'[s] = NULL /\ lent'[s].from = t
           ELSE lock_pid'[s] = lock_pid[s] /\ lock_count'[s] = lock_count[s] /\ lent'[s] = lent[s]
  BY <1>2, TransferEffect DEF LockInv
<1>8. asleep \in [Threads -> BOOLEAN] /\ signal[t] \in BOOLEAN
  BY DEF LockInv, Typed, ThreadTyped
<1>9. /\ asleep' \in [Threads -> BOOLEAN]
      /\ \A u \in Threads \ {t} :
           asleep'[u] <=> asleep[u] /\ ~(pc[u] \in OnSkirmish /\ on[u] \in held)
  BY <1>1, <1>2, <1>8, SetAwake
<1>10. ThreadTyped'
  BY <1>1, <1>9 DEF LockInv, Typed, ThreadTyped
<1>11. Typed'
  BY <1>1, <1>3, <1>10 DEF LockInv, Typed, CallTyped, calls
<1>13. Held'
  BY <1>3 DEF LockInv, Held
<1>14. pc'[t] = "call" /\ \A u \in Threads \ {t} : Still(u)
  BY <1>1, <1>9 DEF Still, LockInv, Typed, ThreadTyped
<1>15. \A u \in Threads \ {t} : asleep'[u] /\ pc[u] \in OnSkirmish => Firm(on[u])
  <2>1. \A r \in live \ held : Firm(r)
    BY <1>1, <1>3 DEF Firm, LockInv, Typed
  <2> QED
    BY <1>9, <1>14, <2>1, WokenFirm
<1>16. \A u \in Threads \ {t} : pc[u] = "call" => asleep'[u] = asleep[u]
  BY <1>8, <1>9 DEF OnSkirmish
<1>17. StepOf(t)
  <2>1. stage[Fid[t]] # "up" => signal'[t]
    BY <1>1 DEF LockInv, Exited
  <2>2. \A s \in live' :
       /\ lock_pid'[s] \in {lock_pid[s], NULL, t}
       /\ lent'[s] \in {lent[s], NULL} \/ lent'[s].from = t
    BY <1>1, <1>3 DEF LockInv, Typed
  <2> QED
    BY <1>1, <1>14, <1>15, <1>16, <2>1, <2>2 DEF StepOf, calls
<1>18. PlacedAt(t)' /\ Waits(t)'
  <2>1. wait'[t] = NULL
    BY <1>1 DEF LockInv, Placed
  <2> QED
    BY <1>14, <2>1 DEF PlacedAt, Waits, OnSkirmish
<1> QED
  BY <1>11, <1>13, <1>17, <1>18 DEF Good

\* What becomes of the record of an execution
LEMMA GiveUpRecord ==
  ASSUME NEW x \in ExecutionType
  PROVE  LET y == [x EXCEPT !.caller = NULL]
         IN  y \in ExecutionType /\ y.call = x.call /\ y.caller = NULL /\ y.listed = x.listed
BY DEF ExecutionType

LEMMA UnlistRecord ==
  ASSUME NEW x \in ExecutionType
  PROVE  LET y == [x EXCEPT !.listed = FALSE]
         IN  y \in ExecutionType /\ y.call = x.call /\ y.caller = x.caller /\ ~y.listed
BY DEF ExecutionType

\* What reclaim_all() does to each skirmish
LEMMA ReclaimEffect ==
  ASSUME Typed, NEW t \in Threads, reclaim_all(t)
  PROVE  /\ LockTyped'
         /\ \A s \in Skirmishes :
              IF s \in LentBy({t})
              THEN /\ s \in live /\ lent[s] \in LoanType /\ lent[s] # NULL /\ lent[s].from = t
                   /\ lock_pid'[s] = t /\ lock_count'[s] = lent[s].count /\ lent'[s] = NULL
                   /\ lock_count'[s] \in 1 .. MaxDepth
              ELSE lock_pid'[s] = lock_pid[s] /\ lock_count'[s] = lock_count[s] /\ lent'[s] = lent[s]
         /\ LentBy({t}) \subseteq Skirmishes
<1> DEFINE mine == LentBy({t})
<1>1. mine \subseteq Skirmishes /\ \A s \in mine : s \in live /\ lent[s] # NULL /\ lent[s].from = t
  BY DEF LentBy, Typed
<1>2. /\ lock_pid' = [s \in Skirmishes |-> IF s \in mine THEN t ELSE lock_pid[s]]
      /\ lock_count' = [s \in Skirmishes |-> IF s \in mine THEN lent[s].count ELSE lock_count[s]]
      /\ lent' = [s \in Skirmishes |-> IF s \in mine THEN NULL ELSE lent[s]]
  BY DEF reclaim_all
<1> HIDE DEF mine
<1>3. \A s \in mine : lent[s] \in LoanType /\ lent[s].count \in 1 .. MaxDepth
  <2>1. \A s \in mine : lent[s] \in LoanType
    BY <1>1 DEF Typed, LockTyped
  <2> QED
    BY <2>1 DEF LoanType
<1>4. LockTyped'
  <2>1. lock_pid' \in [Skirmishes -> Threads \cup {NULL}]
    BY <1>2 DEF Typed, LockTyped
  <2>2. lock_count' \in [Skirmishes -> 0 .. MaxDepth]
    <3>1. \A s \in Skirmishes : lock_count[s] \in 0 .. MaxDepth
      BY DEF Typed, LockTyped
    <3>2. \A s \in mine : lent[s].count \in 0 .. MaxDepth
      BY <1>3
    <3> QED
      BY <1>2, <3>1, <3>2
  <2>3. lent' \in [Skirmishes -> LoanType \cup {NULL}]
    BY <1>2 DEF Typed, LockTyped
  <2> QED
    BY <2>1, <2>2, <2>3 DEF LockTyped
<1>5. \A s \in mine : /\ lock_pid'[s] = t /\ lock_count'[s] = lent[s].count /\ lent'[s] = NULL
                      /\ lock_count'[s] \in 1 .. MaxDepth
  BY <1>1, <1>2, <1>3
<1>6. \A s \in Skirmishes \ mine :
        lock_pid'[s] = lock_pid[s] /\ lock_count'[s] = lock_count[s] /\ lent'[s] = lent[s]
  BY <1>2
<1> QED
  BY <1>1, <1>3, <1>4, <1>5, <1>6 DEF mine

\* The caller leaves fusion_call_execute().
LEMMA CallWokenExecution ==
  ASSUME Typed, Calling, NEW t \in Threads, call_woken(t)
  PROVE  /\ on[t] \in Calls /\ execution[on[t]] \in ExecutionType /\ execution[on[t]].caller = t
         /\ execution' \in [Calls -> ExecutionType \cup {NULL}]
         /\ \A n \in Calls \ {on[t]} : execution'[n] = execution[n]
         /\ LET x == execution[on[t]] y == execution'[on[t]]
            IN  /\ y # NULL /\ y.call = x.call /\ y.listed = x.listed
                /\ y.caller = IF signal[t] THEN NULL ELSE t
<1>1. PICK n \in Calls, x \in ExecutionType :
        n = on[t] /\ x = execution[n] /\ x.caller = t
  BY DEF call_woken, Calling, InCall, Typed, CallTyped
<1>2. execution \in [Calls -> ExecutionType \cup {NULL}]
  BY DEF Typed, CallTyped
<1>3. PICK y \in ExecutionType :
        /\ execution' = [execution EXCEPT ![n] = y]
        /\ y.call = x.call /\ y.listed = x.listed /\ y.caller = IF signal[t] THEN NULL ELSE t
  <2>1. CASE signal[t]
    <3>1. execution' = [execution EXCEPT ![n] = [x EXCEPT !.caller = NULL]]
      BY <1>1, <2>1 DEF call_woken
    <3>2. PICK y \in ExecutionType :
            /\ y = [x EXCEPT !.caller = NULL]
            /\ y.call = x.call /\ y.caller = NULL /\ y.listed = x.listed
      BY GiveUpRecord
    <3> QED
      BY <2>1, <3>1, <3>2
  <2>2. CASE ~signal[t]
    <3>1. execution' = [execution EXCEPT ![n] = x]
      BY <1>1, <1>2, <2>2 DEF call_woken
    <3> QED
      BY <1>1, <2>2, <3>1
  <2> QED
    BY <2>1, <2>2
<1>4. y # NULL
  BY NullFacts
<1> QED
  BY <1>1, <1>2, <1>3, <1>4

LEMMA CallWokenGood ==
  ASSUME LockInv, Calling, NEW t \in Threads, call_woken(t)
  PROVE  Good(t)
<1>1. /\ pc[t] = "call" /\ ToUser(t)
      /\ UNCHANGED <<live, notify_count, wait, messages, serving, dispatcher, stage>>
  BY DEF call_woken
<1>2. CallTyped'
  BY <1>1, CallWokenExecution DEF LockInv, Typed, CallTyped
<1>3. ThreadTyped'
  BY <1>1, SetUser DEF LockInv, Typed, ThreadTyped
<1>4. /\ LockTyped'
      /\ \A s \in Skirmishes :
           \/ lock_pid'[s] = t /\ lock_count'[s] # 0 /\ lent'[s] = NULL
           \/ lock_pid'[s] = lock_pid[s] /\ lock_count'[s] = lock_count[s] /\ lent'[s] = lent[s]
  <2>1. CASE UNCHANGED lock
    BY <2>1 DEF lock, LockInv, Typed, LockTyped
  <2>2. CASE reclaim_all(t)
    <3>1. \A n \in 1 .. MaxDepth : n # 0
      OBVIOUS
    <3> QED
      BY <2>2, <3>1, ReclaimEffect DEF LockInv
  <2> QED
    BY <2>1, <2>2 DEF call_woken
<1>5. Typed'
  BY <1>1, <1>2, <1>3, <1>4 DEF LockInv, Typed
<1>6. Held'
  BY <1>4 DEF LockInv, Held
<1>7. /\ pc'[t] = "user" /\ asleep'[t] = FALSE
      /\ \A u \in Threads \ {t} : Still(u) /\ asleep'[u] = asleep[u] /\ signal'[u] = signal[u]
  BY <1>1 DEF ToUser, Still, LockInv, Typed, ThreadTyped
<1>8. signal'[t] = (stage[Fid[t]] # "up")
  BY <1>1 DEF ToUser, LockInv, Typed, ThreadTyped
<1>9. StepOf(t)
  <2>1. \A u \in Threads : asleep[u] /\ pc[u] \in OnSkirmish => on[u] \in live
    BY DEF LockInv, NoLostWakeup, OnSkirmish
  <2>2. \A r \in live : Firm(r)
    BY <1>1, <1>4, NullFacts DEF Firm, LockInv, Typed
  <2>3. \A s \in live' :
       /\ lock_pid'[s] \in {lock_pid[s], NULL, t}
       /\ lent'[s] \in {lent[s], NULL} \/ lent'[s].from = t
    BY <1>1, <1>4 DEF LockInv, Typed
  <2> QED
    BY <1>1, <1>7, <1>8, <2>1, <2>2, <2>3 DEF StepOf
<1>10. PlacedAt(t)' /\ Waits(t)'
  <2>1. wait'[t] = NULL
    BY <1>1 DEF LockInv, Placed
  <2> QED
    BY <1>7, <2>1 DEF PlacedAt, Waits, OnSkirmish
<1> QED
  BY <1>5, <1>6, <1>9, <1>10 DEF Good

LEMMA SignalGood ==
  ASSUME LockInv, NEW t \in Threads, Signal(t)
  PROVE  Good(t)
<1>1. /\ stage[Fid[t]] = "up" /\ UNCHANGED <<lock, pc, on, wait>> /\ Rest
      /\ signal' = [signal EXCEPT ![t] = TRUE] /\ asleep' = [asleep EXCEPT ![t] = FALSE]
  BY DEF Signal, Rest
<1>2. ThreadTyped'
  BY <1>1 DEF LockInv, Typed, ThreadTyped
<1>3. LockTyped'
  BY <1>1 DEF LockInv, Typed, LockTyped, lock
<1>4. Typed'
  BY <1>1, <1>2, <1>3, RestTyped DEF LockInv
<1>5. Held'
  BY <1>1 DEF LockInv, Held, lock
<1>6. /\ pc'[t] = pc[t] /\ pc[t] \notin {"return", "oops", "exited"} /\ asleep'[t] = FALSE
      /\ \A u \in Threads \ {t} : Still(u) /\ asleep'[u] = asleep[u] /\ signal'[u] = signal[u]
  BY <1>1 DEF Signal, Still, LockInv, Typed, ThreadTyped, Exited
<1>7. StepOf(t)
  <2>1. \A u \in Threads : asleep[u] /\ pc[u] \in OnSkirmish => on[u] \in live
    BY DEF LockInv, NoLostWakeup, OnSkirmish
  <2>2. \A r \in live : Firm(r)
    BY <1>1 DEF Firm, lock, Rest
  <2> QED
    BY <1>1, <1>6, <2>1, <2>2 DEF StepOf, lock, Rest, calls
<1>8. PlacedAt(t)' /\ Waits(t)'
  <2>1. PlacedAt(t)
    BY DEF LockInv, Placed, PlacedAt
  <2> QED
    BY <1>1, <1>6, <2>1 DEF PlacedAt, Waits
<1> QED
  BY <1>4, <1>5, <1>7, <1>8 DEF Good

-----------------------------------------------------------------------------
(* Steps of fusionees, and the exit of a thread.                           *)

\* No thread moves; the rest of the invariant is about stages and dispatchers.
LEMMA StillStep ==
  ASSUME LockInv, Typed', Held', Dispatched', Exited', GoneLocks',
         \A u \in Threads : Still(u) /\ (asleep'[u] /\ pc[u] \in OnSkirmish => Firm(on[u])),
         \A u \in Threads : asleep[u] =>
           \A f \in Fusionees : DispatcherPid(f)' = u => DispatcherPid(f) = u
  PROVE  LockInv'
<1>1. ASSUME NEW u \in Threads PROVE PlacedAt(u)' /\ Waits(u)'
  BY <1>1, StillWaits
<1>2. Placed' /\ NoLostWakeup'
  BY <1>1 DEF Placed, PlacedAt, NoLostWakeup, Waits
<1> QED
  BY <1>2 DEF LockInv

\* One thread moves, and does not go to sleep.
LEMMA MoveStep ==
  ASSUME LockInv, Typed', Held', Dispatched', Exited', GoneLocks', NEW t \in Threads,
         PlacedAt(t)', ~asleep'[t],
         \A u \in Threads \ {t} : Still(u) /\ (asleep'[u] /\ pc[u] \in OnSkirmish => Firm(on[u])),
         \A u \in Threads : asleep[u] =>
           \A f \in Fusionees : DispatcherPid(f)' = u => DispatcherPid(f) = u
  PROVE  LockInv'
<1>1. ASSUME NEW u \in Threads PROVE PlacedAt(u)' /\ Waits(u)'
  <2>1. CASE u = t
    BY <2>1 DEF Waits
  <2>2. CASE u # t
    BY <2>2, StillWaits
  <2> QED
    BY <2>1, <2>2
<1>2. Placed' /\ NoLostWakeup'
  BY <1>1 DEF Placed, PlacedAt, NoLostWakeup, Waits
<1> QED
  BY <1>2 DEF LockInv

LEMMA OnLive ==
  ASSUME LockInv
  PROVE  \A u \in Threads : asleep[u] /\ pc[u] \in OnSkirmish => on[u] \in live
BY DEF LockInv, NoLostWakeup, OnSkirmish

LEMMA GetMessagesSafe ==
  ASSUME LockInv, NEW f \in Servers, get_messages(f)
  PROVE  LockInv'
<1>1. /\ pc[Dispatcher[f]] = "user" /\ Dispatcher[f] \in Threads /\ f \in Fusionees
      /\ dispatcher' = [dispatcher EXCEPT ![f] = Dispatcher[f]]
      /\ UNCHANGED <<live, lock, notify_count, thread, signal, wait, execution, stage>>
  BY ThreadsAssumption DEF get_messages, Servers
<1>2. CallTyped'
  <2>1. /\ messages[f] \in Seq(Calls)
        /\ messages[f] # <<>> => Head(messages[f]) \in Calls /\ Tail(messages[f]) \in Seq(Calls)
    BY DEF LockInv, Typed, CallTyped
  <2>2. messages' \in [Servers -> Seq(Calls)] /\ serving' \in [Servers -> Calls \cup {NULL}]
    BY <2>1 DEF get_messages, LockInv, Typed, CallTyped
  <2> QED
    BY <1>1, <2>2 DEF LockInv, Typed, CallTyped
<1>3. Typed'
  BY <1>1, <1>2 DEF LockInv, Typed, LockTyped, ThreadTyped, lock, thread
<1>4. Held' /\ Exited' /\ GoneLocks'
  BY <1>1 DEF LockInv, Held, Exited, GoneLocks, lock, thread
<1>5. Dispatched'
  BY <1>1 DEF LockInv, Dispatched, Typed, CallTyped
<1>6. \A u \in Threads : Still(u) /\ asleep'[u] = asleep[u]
  BY <1>1 DEF Still, thread
<1>7. \A s \in live : Firm(s)
  BY <1>1 DEF Firm, lock
<1>8. ASSUME NEW u \in Threads, asleep[u], NEW g \in Fusionees, DispatcherPid(g)' = u
      PROVE  DispatcherPid(g) = u
  <2>1. u # Dispatcher[f]
    BY <1>1, <1>8 DEF LockInv, Placed, OnSkirmish
  <2>2. g # f
    BY <1>1, <1>8, <2>1, NullFacts DEF DispatcherPid, LockInv, Typed, CallTyped
  <2> QED
    BY <1>1, <1>8, <2>2 DEF DispatcherPid, LockInv, Typed, CallTyped
<1> QED
  BY <1>3, <1>4, <1>5, <1>6, <1>7, <1>8, OnLive, StillStep

\* The execution that the dispatcher handles
LEMMA Handled ==
  ASSUME LockInv, CallsListed, NEW f \in Servers, serving[f] # NULL,
         stage[f] \in {"up", "killed"}
  PROVE  /\ serving[f] \in Calls /\ execution[serving[f]] \in ExecutionType
         /\ execution[serving[f]] # NULL
         /\ execution[serving[f]].call = f /\ execution[serving[f]].listed
<1>1. PICK n \in Calls : n = serving[f]
  BY DEF LockInv, Typed, CallTyped
<1>2. execution[n] # NULL /\ execution[n].call = f /\ execution[n].listed
  BY <1>1 DEF CallsListed, Ended
<1>3. execution[n] \in ExecutionType
  BY <1>2 DEF LockInv, Typed, CallTyped
<1> QED
  BY <1>1, <1>2, <1>3

\* Both halves of fusion_call_return() find it.
LEMMA HandledByReturn ==
  ASSUME LockInv, CallsListed, Returning, NEW f \in Servers, call_return(f) \/ call_answer(f)
  PROVE  /\ Dispatcher[f] \in Threads /\ f \in Fusionees /\ Fid[Dispatcher[f]] = f
         /\ pc[Dispatcher[f]] \in {"user", "return"} /\ wait[Dispatcher[f]] = NULL
         /\ stage[f] \in {"up", "killed"}
         /\ serving[f] \in Calls /\ execution[serving[f]] \in ExecutionType
         /\ execution[serving[f]] # NULL
         /\ execution[serving[f]].call = f /\ execution[serving[f]].listed
         /\ \A t \in Threads : ~(pc[t] = "send" /\ execution[on[t]].call = f)
<1>1. Dispatcher[f] \in Threads /\ f \in Fusionees /\ Fid[Dispatcher[f]] = f
  BY ThreadsAssumption DEF Servers
<1>2. CASE call_return(f)
  <2>1. /\ pc[Dispatcher[f]] = "user" /\ wait[Dispatcher[f]] = NULL /\ stage[f] = "up"
        /\ serving[f] # NULL /\ ~CallLocked(f)
    BY <1>1, <1>2 DEF call_return, InUser
  <2> QED
    BY <1>1, <2>1, Handled DEF CallLocked
<1>3. CASE call_answer(f)
  <2>1. pc[Dispatcher[f]] = "return"
    BY <1>3 DEF call_answer
  <2>2. wait[Dispatcher[f]] = NULL /\ stage[f] \in {"up", "killed"}
    BY <1>1, <2>1 DEF LockInv, Placed, Exited
  <2> QED
    BY <1>1, <2>1, <2>2, Handled DEF Returning
<1> QED
  BY <1>2, <1>3

\* The execution is taken off the list, or left alone.
LEMMA ReturnedExecution ==
  ASSUME LockInv, CallsListed, Returning, NEW f \in Servers, call_return(f) \/ call_answer(f)
  PROVE  /\ execution' \in [Calls -> ExecutionType \cup {NULL}]
         /\ serving' \in [Servers -> Calls \cup {NULL}]
         /\ \A k \in Calls \ {serving[f]} : execution'[k] = execution[k]
         /\ LET x == execution[serving[f]] y == execution'[serving[f]]
            IN  /\ y # NULL /\ y.call = f /\ y.caller = x.caller
                /\ \/ ~y.listed /\ serving' = [serving EXCEPT ![f] = NULL]
                   \/ UNCHANGED <<execution, serving>>
<1>1. PICK n \in Calls, x \in ExecutionType :
        n = serving[f] /\ x = execution[n] /\ x # NULL /\ x.call = f
  BY HandledByReturn
<1>2. execution \in [Calls -> ExecutionType \cup {NULL}] /\ serving \in [Servers -> Calls \cup {NULL}]
  BY DEF LockInv, Typed, CallTyped
<1>3. CASE UNCHANGED <<execution, serving>>
  BY <1>1, <1>2, <1>3
<1>4. CASE /\ execution' = [execution EXCEPT ![n].listed = FALSE]
           /\ serving' = [serving EXCEPT ![f] = NULL]
  <2>1. PICK y \in ExecutionType :
          y = [x EXCEPT !.listed = FALSE] /\ y.call = x.call /\ y.caller = x.caller /\ ~y.listed
    BY UnlistRecord
  <2>2. execution' = [execution EXCEPT ![n] = y]
    BY <1>1, <1>4, <2>1
  <2>3. y # NULL
    BY NullFacts
  <2> QED
    BY <1>1, <1>2, <1>4, <2>1, <2>2, <2>3
<1> QED
  BY <1>1, <1>3, <1>4 DEF call_return, call_answer

LEMMA ReturnSafe ==
  ASSUME LockInv, CallsListed, Returning, NEW f \in Servers, call_return(f) \/ call_answer(f)
  PROVE  LockInv'
<1>1. PICK t \in Threads :
        t = Dispatcher[f] /\ Fid[t] = f /\ pc[t] \in {"user", "return"} /\ wait[t] = NULL
  BY HandledByReturn
<1>2. /\ UNCHANGED <<live, lock, notify_count, on, signal, wait, messages, dispatcher, stage>>
      /\ pc' \in {pc, [pc EXCEPT ![t] = "return"], [pc EXCEPT ![t] = "user"],
                  [pc EXCEPT ![t] = "oops"]}
      /\ asleep' \in {asleep, CallerAwake({serving[f]})}
  BY <1>1 DEF call_return, call_answer
<1>3. CallTyped'
  BY <1>2, ReturnedExecution DEF LockInv, Typed, CallTyped
<1>4. asleep' \in [Threads -> BOOLEAN] /\ \A u \in Threads : asleep'[u] => asleep[u]
  <2>1. CASE asleep' = asleep
    BY <2>1 DEF LockInv, Typed, ThreadTyped
  <2>2. CASE asleep' = CallerAwake({serving[f]})
    BY <2>2, SetCallerAwake DEF LockInv, Typed
  <2> QED
    BY <1>2, <2>1, <2>2
<1>5. /\ pc'[t] \in {"user", "return", "oops"} /\ \A u \in Threads \ {t} : pc'[u] = pc[u]
      /\ pc' \in [Threads -> Pcs]
  BY <1>1, <1>2 DEF LockInv, Typed, ThreadTyped, Pcs
<1>6. Typed'
  BY <1>2, <1>3, <1>4, <1>5 DEF LockInv, Typed, LockTyped, ThreadTyped, lock, Pcs
<1>7. Held' /\ GoneLocks' /\ Dispatched'
  BY <1>2 DEF LockInv, Held, GoneLocks, Dispatched, lock
<1>8. Exited'
  BY <1>1, <1>2, <1>5 DEF LockInv, Exited
<1>9. PlacedAt(t)' /\ ~asleep'[t]
  BY <1>1, <1>2, <1>4, <1>5 DEF LockInv, Placed, PlacedAt, OnSkirmish
<1>10. \A u \in Threads \ {t} : Still(u)
  BY <1>2, <1>4, <1>5 DEF Still
<1>11. \A s \in live : Firm(s)
  BY <1>2 DEF Firm, lock
<1>12. \A g \in Fusionees : DispatcherPid(g)' = DispatcherPid(g)
  BY <1>2 DEF DispatcherPid
<1> QED
  BY <1>4, <1>6, <1>7, <1>8, <1>9, <1>10, <1>11, <1>12, OnLive, MoveStep

LEMMA KillSafe ==
  ASSUME LockInv, NEW f \in Fusionees, Kill(f)
  PROVE  LockInv'
<1>1. /\ stage[f] = "up" /\ stage' = [stage EXCEPT ![f] = "killed"]
      /\ signal' = [t \in Threads |-> signal[t] \/ Fid[t] = f]
      /\ asleep' = [t \in Threads |-> asleep[t] /\ Fid[t] # f]
      /\ UNCHANGED <<live, lock, notify_count, pc, on, wait, calls>>
  BY DEF Kill
<1>2. /\ \A g \in Fusionees : stage'[g] = IF g = f THEN "killed" ELSE stage[g]
      /\ stage' \in [Fusionees -> Stages]
  BY <1>1 DEF LockInv, Typed, Stages
<1>3. ThreadTyped'
  BY <1>1 DEF LockInv, Typed, ThreadTyped
<1>4. Typed'
  BY <1>1, <1>2, <1>3 DEF LockInv, Typed, LockTyped, CallTyped, lock, calls
<1>5. Held' /\ Dispatched'
  BY <1>1 DEF LockInv, Held, Dispatched, lock, calls
<1>6. Exited'
  <2>1. \A t \in Threads : Fid[t] \in Fusionees
    BY ThreadsAssumption
  <2>2. \A t \in Threads : signal'[t] <=> signal[t] \/ Fid[t] = f
    BY <1>1
  <2> QED
    BY <1>1, <1>2, <2>1, <2>2 DEF LockInv, Exited
<1>7. GoneLocks'
  <2>1. \A g \in Fusionees : stage'[g] = "gone" => stage[g] = "gone"
    BY <1>2
  <2>2. \A s \in live : lock_pid[s] # NULL => Fid[lock_pid[s]] \in Fusionees
    BY ThreadsAssumption DEF LockInv, Typed, LockTyped
  <2>3. \A s \in live : lent[s] # NULL => Fid[lent[s].from] \in Fusionees
    BY ThreadsAssumption DEF LockInv, Typed, LockTyped, LoanType
  <2> QED
    BY <1>1, <2>1, <2>2, <2>3 DEF LockInv, GoneLocks, lock
<1>8. \A u \in Threads : Still(u)
  BY <1>1 DEF Still
<1>9. \A s \in live : Firm(s)
  BY <1>1 DEF Firm, lock
<1>10. \A g \in Fusionees : DispatcherPid(g)' = DispatcherPid(g)
  BY <1>1, <1>2 DEF DispatcherPid, calls
<1> QED
  BY <1>4, <1>5, <1>6, <1>7, <1>8, <1>9, <1>10, OnLive, StillStep DEF Still

LEMMA FusioneeDestroySafe ==
  ASSUME LockInv, NEW f \in Fusionees, fusionee_destroy(f)
  PROVE  LockInv'
<1>1. /\ stage[f] = "flushed" /\ stage' = [stage EXCEPT ![f] = "unlisted"]
      /\ UNCHANGED <<live, lock, notify_count, thread, signal, wait, calls>>
  BY DEF fusionee_destroy
<1>2. /\ \A g \in Fusionees : stage'[g] = IF g = f THEN "unlisted" ELSE stage[g]
      /\ stage' \in [Fusionees -> Stages]
  BY <1>1 DEF LockInv, Typed, Stages
<1>3. Typed'
  BY <1>1, <1>2 DEF LockInv, Typed, LockTyped, ThreadTyped, CallTyped, lock, calls, thread
<1>4. Held' /\ Dispatched'
  BY <1>1 DEF LockInv, Held, Dispatched, lock, calls
<1>5. Exited'
  <2>1. \A t \in Threads : Fid[t] \in Fusionees
    BY ThreadsAssumption
  <2> QED
    BY <1>1, <1>2, <2>1 DEF LockInv, Exited, thread
<1>6. GoneLocks'
  <2>1. \A g \in Fusionees : stage'[g] = "gone" => stage[g] = "gone"
    BY <1>2
  <2>2. \A s \in live : lock_pid[s] # NULL => Fid[lock_pid[s]] \in Fusionees
    BY ThreadsAssumption DEF LockInv, Typed, LockTyped
  <2>3. \A s \in live : lent[s] # NULL => Fid[lent[s].from] \in Fusionees
    BY ThreadsAssumption DEF LockInv, Typed, LockTyped, LoanType
  <2> QED
    BY <1>1, <2>1, <2>2, <2>3 DEF LockInv, GoneLocks, lock
<1>7. \A u \in Threads : Still(u) /\ asleep'[u] = asleep[u]
  BY <1>1 DEF Still, thread
<1>8. \A s \in live : Firm(s)
  BY <1>1 DEF Firm, lock
<1>9. \A u \in Threads, g \in Fusionees : DispatcherPid(g)' = u => DispatcherPid(g) = u
  BY <1>1, <1>2, NullFacts DEF DispatcherPid, calls
<1> QED
  BY <1>3, <1>4, <1>5, <1>6, <1>7, <1>8, <1>9, OnLive, StillStep

\* What free_all_executions() removes
Listed(f) == {n \in Calls : execution[n] # NULL /\ execution[n].call = f /\ execution[n].listed}

LEMMA DestroyedExecutions ==
  ASSUME Typed, NEW f \in Fusionees, call_destroy_all(f)
  PROVE  /\ execution' \in [Calls -> ExecutionType \cup {NULL}]
         /\ asleep' = CallerAwake(Listed(f))
         /\ \A n \in Calls :
              LET x == execution[n] y == execution'[n] IN
              IF n \in Listed(f)
              THEN x # NULL /\ y # NULL /\ y.call = f /\ y.caller = x.caller /\ ~y.listed
              ELSE y = x
<1>1. asleep' = CallerAwake(Listed(f))
  BY DEF call_destroy_all, Listed
<1>2. execution' = [n \in Calls |->
           IF n \in Listed(f) THEN [execution[n] EXCEPT !.listed = FALSE] ELSE execution[n]]
  BY DEF call_destroy_all, Listed
<1>3. ASSUME NEW n \in Calls, n \in Listed(f)
      PROVE  LET x == execution[n] y == execution'[n] IN
              /\ x # NULL /\ y \in ExecutionType
              /\ y # NULL /\ y.call = f /\ y.caller = x.caller /\ ~y.listed
  <2>1. PICK x \in ExecutionType : x = execution[n] /\ x.call = f /\ x.listed /\ x # NULL
    BY <1>3 DEF Listed, Typed, CallTyped
  <2>2. execution'[n] = [x EXCEPT !.listed = FALSE]
    BY <1>2, <1>3, <2>1
  <2>3. PICK y \in ExecutionType :
          y = execution'[n] /\ y.call = x.call /\ y.caller = x.caller /\ ~y.listed
    BY <2>2, UnlistRecord
  <2> QED
    BY <2>1, <2>3, NullFacts
<1>4. \A n \in Calls : n \notin Listed(f) => execution'[n] = execution[n]
  BY <1>2
<1>5. execution' \in [Calls -> ExecutionType \cup {NULL}]
  <2>1. \A n \in Calls : execution'[n] \in ExecutionType \cup {NULL}
    BY <1>3, <1>4 DEF Typed, CallTyped
  <2> QED
    BY <1>2, <2>1
<1> QED
  BY <1>1, <1>3, <1>4, <1>5

LEMMA CallDestroySafe ==
  ASSUME LockInv, NEW f \in Fusionees, call_destroy_all(f)
  PROVE  LockInv'
<1>1. /\ stage[f] = "unlisted" /\ stage' = [stage EXCEPT ![f] = "uncalled"]
      /\ UNCHANGED <<live, lock, notify_count, pc, on, signal, wait, messages, serving, dispatcher>>
  BY DEF call_destroy_all
<1>2. /\ \A g \in Fusionees : stage'[g] = IF g = f THEN "uncalled" ELSE stage[g]
      /\ stage' \in [Fusionees -> Stages]
  BY <1>1 DEF LockInv, Typed, Stages
<1>3. asleep' \in [Threads -> BOOLEAN] /\ \A u \in Threads : asleep'[u] => asleep[u]
  BY DestroyedExecutions, SetCallerAwake DEF LockInv, Typed
<1>4. Typed'
  <2>1. CallTyped'
    BY <1>1, DestroyedExecutions DEF LockInv, Typed, CallTyped
  <2> QED
    BY <1>1, <1>2, <1>3, <2>1 DEF LockInv, Typed, LockTyped, ThreadTyped, lock
<1>5. Held' /\ Dispatched'
  BY <1>1 DEF LockInv, Held, Dispatched, lock
<1>6. Exited'
  <2>1. \A t \in Threads : Fid[t] \in Fusionees
    BY ThreadsAssumption
  <2> QED
    BY <1>1, <1>2, <2>1 DEF LockInv, Exited
<1>7. GoneLocks'
  <2>1. \A g \in Fusionees : stage'[g] = "gone" => stage[g] = "gone"
    BY <1>2
  <2>2. \A s \in live : lock_pid[s] # NULL => Fid[lock_pid[s]] \in Fusionees
    BY ThreadsAssumption DEF LockInv, Typed, LockTyped
  <2>3. \A s \in live : lent[s] # NULL => Fid[lent[s].from] \in Fusionees
    BY ThreadsAssumption DEF LockInv, Typed, LockTyped, LoanType
  <2> QED
    BY <1>1, <2>1, <2>2, <2>3 DEF LockInv, GoneLocks, lock
<1>8. \A u \in Threads : Still(u)
  BY <1>1, <1>3 DEF Still
<1>9. \A s \in live : Firm(s)
  BY <1>1 DEF Firm, lock
<1>10. \A u \in Threads, g \in Fusionees : DispatcherPid(g)' = u => DispatcherPid(g) = u
  BY <1>1, <1>2, NullFacts DEF DispatcherPid
<1> QED
  BY <1>3, <1>4, <1>5, <1>6, <1>7, <1>8, <1>9, <1>10, OnLive, StillStep

\* What Dismiss() does to each skirmish, and to the sleepers
LEMMA DismissEffect ==
  ASSUME Typed, NEW gone \in SUBSET Threads, Dismiss(gone)
  PROVE  /\ LockTyped'
         /\ \A s \in live :
              /\ lock_pid'[s] = IF lock_pid[s] \in gone THEN NULL ELSE lock_pid[s]
              /\ lent'[s] = IF lent[s] # NULL /\ lent[s].from \in gone THEN NULL ELSE lent[s]
         /\ \A s \in Skirmishes :
              /\ lock_pid'[s] # NULL => lock_pid'[s] = lock_pid[s] /\ lock_count'[s] = lock_count[s]
         /\ asleep' \in [Threads -> BOOLEAN]
         /\ \A u \in Threads : asleep'[u] <=> asleep[u] /\ ~(pc[u] \in OnSkirmish /\ on[u] \in Wakes(gone))
         /\ \A s \in live \ Wakes(gone) : lock_pid'[s] = lock_pid[s] /\ lent'[s] = lent[s]
<1> DEFINE held == HeldBy(gone)
           ours == LentBy(gone)
<1>1. /\ held \subseteq Skirmishes /\ ours \subseteq Skirmishes /\ Wakes(gone) = held \cup ours
      /\ \A s \in live : s \in held <=> lock_pid[s] \in gone
      /\ \A s \in live : s \in ours <=> lent[s] # NULL /\ lent[s].from \in gone
  BY DEF HeldBy, LentBy, Typed, Wakes
<1>2. /\ lock_pid' = [s \in Skirmishes |-> IF s \in held THEN NULL ELSE lock_pid[s]]
      /\ lock_count' = [s \in Skirmishes |-> IF s \in held THEN 0 ELSE lock_count[s]]
      /\ lent' = [s \in Skirmishes |-> IF s \in ours THEN NULL ELSE lent[s]]
      /\ asleep' = Awake(asleep, Wakes(gone))
  BY DEF Dismiss
<1> HIDE DEF held, ours
<1>3. LockTyped'
  <2>1. 0 \in 0 .. MaxDepth
    BY BoundAssumption
  <2>2. lock_pid' \in [Skirmishes -> Threads \cup {NULL}]
    BY <1>2 DEF Typed, LockTyped
  <2>3. lock_count' \in [Skirmishes -> 0 .. MaxDepth]
    BY <1>2, <2>1 DEF Typed, LockTyped
  <2>4. lent' \in [Skirmishes -> LoanType \cup {NULL}]
    BY <1>2 DEF Typed, LockTyped
  <2> QED
    BY <2>2, <2>3, <2>4 DEF LockTyped
<1>4. \A s \in live :
        /\ lock_pid'[s] = IF lock_pid[s] \in gone THEN NULL ELSE lock_pid[s]
        /\ lent'[s] = IF lent[s] # NULL /\ lent[s].from \in gone THEN NULL ELSE lent[s]
  BY <1>1, <1>2 DEF Typed
<1>5. \A s \in Skirmishes :
        lock_pid'[s] # NULL => lock_pid'[s] = lock_pid[s] /\ lock_count'[s] = lock_count[s]
  BY <1>2
<1>6. /\ asleep' \in [Threads -> BOOLEAN]
      /\ \A u \in Threads : asleep'[u] <=> asleep[u] /\ ~(pc[u] \in OnSkirmish /\ on[u] \in Wakes(gone))
  BY <1>2, SetAwake DEF Typed, ThreadTyped
<1>7. \A s \in live \ Wakes(gone) : lock_pid'[s] = lock_pid[s] /\ lent'[s] = lent[s]
  BY <1>1, <1>2 DEF Typed
<1> QED
  BY <1>3, <1>4, <1>5, <1>6, <1>7

LEMMA DismissAllSafe ==
  ASSUME LockInv, NEW f \in Fusionees, dismiss_all(f)
  PROVE  LockInv'
<1>1. /\ stage[f] = "uncalled" /\ stage' = [stage EXCEPT ![f] = "gone"]
      /\ UNCHANGED <<live, notify_count, pc, on, signal, wait, calls>>
  BY DEF dismiss_all
<1>2. PICK gone \in SUBSET Threads : gone = {t \in Threads : Fid[t] = f} /\ Dismiss(gone)
  BY DEF dismiss_all
<1>3. /\ \A g \in Fusionees : stage'[g] = IF g = f THEN "gone" ELSE stage[g]
      /\ stage' \in [Fusionees -> Stages]
  BY <1>1 DEF LockInv, Typed, Stages
<1>4. /\ LockTyped'
      /\ \A s \in live :
           /\ lock_pid'[s] = IF lock_pid[s] \in gone THEN NULL ELSE lock_pid[s]
           /\ lent'[s] = IF lent[s] # NULL /\ lent[s].from \in gone THEN NULL ELSE lent[s]
      /\ \A s \in Skirmishes :
           lock_pid'[s] # NULL => lock_pid'[s] = lock_pid[s] /\ lock_count'[s] = lock_count[s]
      /\ asleep' \in [Threads -> BOOLEAN]
      /\ \A u \in Threads :
           asleep'[u] <=> asleep[u] /\ ~(pc[u] \in OnSkirmish /\ on[u] \in Wakes(gone))
      /\ \A s \in live \ Wakes(gone) : lock_pid'[s] = lock_pid[s] /\ lent'[s] = lent[s]
  BY <1>2, DismissEffect DEF LockInv
<1>5. Typed'
  BY <1>1, <1>3, <1>4 DEF LockInv, Typed, ThreadTyped, CallTyped, calls
<1>6. Held'
  BY <1>4 DEF LockInv, Held
<1>7. Dispatched'
  BY <1>1 DEF LockInv, Dispatched, calls
<1>8. Exited'
  <2>1. \A t \in Threads : Fid[t] \in Fusionees
    BY ThreadsAssumption
  <2> QED
    BY <1>1, <1>3, <2>1 DEF LockInv, Exited
<1>9. GoneLocks'
  <2>1. ASSUME NEW s \in live, lock_pid'[s] # NULL PROVE stage'[Fid[lock_pid'[s]]] # "gone"
    <3>1. PICK t \in Threads : t = lock_pid[s] /\ lock_pid'[s] = t /\ t \notin gone
      BY <1>4, <2>1 DEF LockInv, Typed, LockTyped
    <3>2. Fid[t] # f /\ Fid[t] \in Fusionees
      BY <1>2, <3>1, ThreadsAssumption
    <3>3. stage[Fid[t]] # "gone"
      BY <3>1, NullFacts DEF LockInv, GoneLocks
    <3> QED
      BY <1>3, <3>1, <3>2, <3>3
  <2>2. ASSUME NEW s \in live, lent'[s] # NULL PROVE stage'[Fid[lent'[s].from]] # "gone"
    <3>1. lent'[s] = lent[s] /\ lent[s] \in LoanType /\ lent[s].from \notin gone
      BY <1>4, <2>2 DEF LockInv, Typed, LockTyped
    <3>2. PICK t \in Threads : t = lent[s].from /\ t \notin gone
      BY <3>1 DEF LoanType
    <3>3. Fid[t] # f /\ Fid[t] \in Fusionees
      BY <1>2, <3>2, ThreadsAssumption
    <3>4. stage[Fid[t]] # "gone"
      BY <2>2, <3>1, <3>2 DEF LockInv, GoneLocks
    <3> QED
      BY <1>3, <3>1, <3>2, <3>3, <3>4
  <2> QED
    BY <1>1, <2>1, <2>2 DEF GoneLocks
<1>10. \A u \in Threads : Still(u)
  BY <1>1, <1>4 DEF Still
<1>11. \A u \in Threads : asleep'[u] /\ pc[u] \in OnSkirmish => Firm(on[u])
  <2>1. \A r \in live \ Wakes(gone) : Firm(r)
    BY <1>1, <1>4 DEF Firm
  <2> QED
    BY <1>4, <2>1, OnLive
<1>12. \A u \in Threads, g \in Fusionees : DispatcherPid(g)' = u => DispatcherPid(g) = u
  BY <1>1, <1>3, NullFacts DEF DispatcherPid, calls
<1> QED
  BY <1>5, <1>6, <1>7, <1>8, <1>9, <1>10, <1>11, <1>12, StillStep

LEMMA ExitSafe ==
  ASSUME LockInv, NEW t \in Threads, Exit(t)
  PROVE  LockInv'
<1> DEFINE f == Fid[t]
           last == \A u \in Threads \ {t} : Fid[u] = f => pc[u] \in {"exited", "oops"}
<1>1. /\ f \in Fusionees /\ stage[f] \in {"up", "killed"} /\ pc[t] \in {"user", "oops"}
      /\ \/ stage[f] = "killed" /\ pc[t] = "user" /\ pc' = [pc EXCEPT ![t] = "exited"]
         \/ pc[t] = "oops" /\ last /\ pc' = pc
      /\ wait' = [wait EXCEPT ![t] = NULL]
      /\ UNCHANGED <<live, notify_count, on, signal, calls>>
  BY ThreadsAssumption DEF Exit
<1>2. \/ last /\ stage' = [stage EXCEPT ![f] = "flushed"] /\ Dismiss({t})
      \/ ~last /\ UNCHANGED <<stage, lock, asleep>>
  BY DEF Exit
<1>3. /\ LockTyped'
      /\ \A s \in live :
           /\ lock_pid'[s] \in {NULL, lock_pid[s]}
           /\ lent'[s] \in {NULL, lent[s]}
      /\ \A s \in Skirmishes :
           lock_pid'[s] # NULL => lock_pid'[s] = lock_pid[s] /\ lock_count'[s] = lock_count[s]
      /\ asleep' \in [Threads -> BOOLEAN]
      /\ \A u \in Threads : asleep'[u] => asleep[u]
  <2>1. CASE Dismiss({t})
    <3>1. PICK gone \in SUBSET Threads : gone = {t} /\ Dismiss(gone)
      BY <2>1
    <3>2. /\ LockTyped'
          /\ \A s \in live :
               /\ lock_pid'[s] = IF lock_pid[s] \in gone THEN NULL ELSE lock_pid[s]
               /\ lent'[s] = IF lent[s] # NULL /\ lent[s].from \in gone THEN NULL ELSE lent[s]
          /\ \A s \in Skirmishes :
               lock_pid'[s] # NULL => lock_pid'[s] = lock_pid[s] /\ lock_count'[s] = lock_count[s]
          /\ asleep' \in [Threads -> BOOLEAN]
          /\ \A u \in Threads : asleep'[u] =>
               asleep[u] /\ ~(pc[u] \in OnSkirmish /\ on[u] \in Wakes(gone))
      BY <3>1, DismissEffect DEF LockInv
    <3> QED
      BY <3>2
  <2>2. CASE UNCHANGED <<lock, asleep>>
    BY <2>2 DEF LockInv, Typed, LockTyped, ThreadTyped, lock
  <2> QED
    BY <1>2, <2>1, <2>2
<1>4. \A u \in Threads : asleep'[u] /\ pc[u] \in OnSkirmish => Firm(on[u])
  <2>1. CASE Dismiss({t})
    <3>1. PICK gone \in SUBSET Threads : gone = {t} /\ Dismiss(gone)
      BY <2>1
    <3>2. /\ \A u \in Threads :
               asleep'[u] <=> asleep[u] /\ ~(pc[u] \in OnSkirmish /\ on[u] \in Wakes(gone))
          /\ \A s \in live \ Wakes(gone) : lock_pid'[s] = lock_pid[s] /\ lent'[s] = lent[s]
      BY <3>1, DismissEffect DEF LockInv
    <3>3. \A r \in live \ Wakes(gone) : Firm(r)
      BY <1>1, <3>2 DEF Firm
    <3> QED
      BY <3>2, <3>3, OnLive
  <2>2. CASE UNCHANGED <<lock, asleep>>
    <3>1. \A r \in live : Firm(r)
      BY <1>1, <2>2 DEF Firm, lock
    <3> QED
      BY <2>2, <3>1, OnLive
  <2> QED
    BY <1>2, <2>1, <2>2
<1>5. /\ \A g \in Fusionees \ {f} : stage'[g] = stage[g]
      /\ stage'[f] = "killed" \/ (last /\ stage'[f] = "flushed")
      /\ stage' \in [Fusionees -> Stages]
  BY <1>1, <1>2 DEF LockInv, Typed, Stages
<1>6. ThreadTyped'
  BY <1>1, <1>3 DEF LockInv, Typed, ThreadTyped
<1>7. Typed'
  BY <1>1, <1>3, <1>5, <1>6 DEF LockInv, Typed, CallTyped, calls
<1>8. Held'
  BY <1>3 DEF LockInv, Held
<1>9. Dispatched'
  BY <1>1 DEF LockInv, Dispatched, calls
<1>10. /\ pc'[t] \in {"exited", "oops"} /\ wait'[t] = NULL
       /\ pc'[t] = "exited" => stage[f] = "killed"
       /\ pc[t] = "oops" => pc'[t] = "oops"
       /\ stage[f] = "up" => last /\ pc'[t] = "oops"
       /\ \A u \in Threads \ {t} : Still(u)
  BY <1>1, <1>3 DEF Still, LockInv, Typed, ThreadTyped
<1>11. Exited'
  <2>1. ASSUME NEW u \in Threads
        PROVE  /\ stage'[Fid[u]] \notin {"up", "killed"} => pc'[u] \in {"exited", "oops"}
               /\ pc'[u] = "exited" => stage'[Fid[u]] # "up"
               /\ stage'[Fid[u]] # "up" => signal'[u] \/ pc'[u] = "oops"
    <3>1. /\ stage[Fid[u]] \notin {"up", "killed"} => pc[u] \in {"exited", "oops"}
          /\ pc[u] = "exited" => stage[Fid[u]] # "up"
          /\ stage[Fid[u]] # "up" => signal[u] \/ pc[u] = "oops"
      BY DEF LockInv, Exited
    <3>2. Fid[u] \in Fusionees
      BY ThreadsAssumption
    <3>3. CASE Fid[u] # f
      BY <1>1, <1>5, <1>10, <3>1, <3>2, <3>3 DEF Still
    <3>4. CASE Fid[u] = f /\ u = t
      BY <1>1, <1>5, <1>10, <3>1, <3>4
    <3>5. CASE Fid[u] = f /\ u # t
      <4>1. /\ pc'[u] = pc[u] /\ signal'[u] = signal[u]
            /\ last => pc[u] \in {"exited", "oops"}
        BY <1>1, <1>10, <3>5 DEF Still
      <4> HIDE DEF last
      <4> QED
        BY <1>1, <1>5, <1>10, <3>1, <3>5, <4>1
    <3> QED
      BY <3>3, <3>4, <3>5
  <2> QED
    BY <2>1 DEF Exited
<1>12. GoneLocks'
  <2>1. \A g \in Fusionees : stage'[g] = "gone" => stage[g] = "gone"
    BY <1>5
  <2>2. \A s \in live : lock_pid[s] # NULL => Fid[lock_pid[s]] \in Fusionees
    BY ThreadsAssumption DEF LockInv, Typed, LockTyped
  <2>3. \A s \in live : lent[s] # NULL => Fid[lent[s].from] \in Fusionees
    BY ThreadsAssumption DEF LockInv, Typed, LockTyped, LoanType
  <2> QED
    BY <1>1, <1>3, <2>1, <2>2, <2>3 DEF LockInv, GoneLocks
<1>13. \A u \in Threads, g \in Fusionees : DispatcherPid(g)' = u => DispatcherPid(g) = u
  BY <1>1, <1>5, NullFacts DEF DispatcherPid, calls
<1>14. ASSUME NEW u \in Threads PROVE PlacedAt(u)' /\ Waits(u)'
  <2>1. CASE u = t
    <3>1. asleep'[t] = FALSE
      BY <1>1, <1>3 DEF LockInv, Placed, OnSkirmish
    <3> QED
      BY <1>10, <2>1, <3>1 DEF PlacedAt, Waits, OnSkirmish
  <2>2. CASE u # t
    BY <1>4, <1>10, <1>13, <2>2, StillWaits
  <2> QED
    BY <2>1, <2>2
<1>15. Placed' /\ NoLostWakeup'
  BY <1>14 DEF Placed, PlacedAt, NoLostWakeup, Waits
<1> QED
  BY <1>7, <1>8, <1>9, <1>11, <1>12, <1>15 DEF LockInv

-----------------------------------------------------------------------------
\* A step in which a thread does something keeps the locks in order.
LEMMA ThreadGood ==
  ASSUME LockInv, CallInv, NEW t \in Threads, ThreadStep(t), ~Exit(t)
  PROVE  Good(t)
<1>1. Calling
  BY DEF CallInv
<1>2. ASSUME NEW s \in Skirmishes,
             prevail(t, s) \/ swoop(t, s) \/ dismiss(t, s) \/ destroy(t, s)
               \/ wait_(t, s) \/ notify_(t, s)
      PROVE  Good(t)
  BY <1>2, PrevailGood, SwoopGood, DismissGood, DestroyGood, WaitGood, NotifyGood
<1>3. CASE prevail_woken(t) \/ wait_woken(t) \/ wait_timeout(t) \/ wait_resume(t)
  BY <1>3, PrevailWokenGood, WaitWokenGood, WaitTimeoutGood, WaitResumeGood
<1>4. ASSUME NEW f \in Servers, NEW n \in Calls, execute(t, f, n) PROVE Good(t)
  BY <1>4, ExecuteGood
<1>5. CASE transfer_all(t) \/ call_woken(t) \/ Signal(t)
  BY <1>1, <1>5, TransferGood, CallWokenGood, SignalGood
<1> QED
  BY <1>2, <1>3, <1>4, <1>5 DEF ThreadStep

LEMMA LockStep ==
  ASSUME LockInv, CallInv, [Next]_vars
  PROVE  LockInv'
<1>1. ASSUME NEW t \in Threads, ThreadStep(t) PROVE LockInv'
  <2>1. CASE Exit(t)
    BY <2>1, ExitSafe
  <2>2. CASE ~Exit(t)
    BY <1>1, <2>2, ThreadGood, GoodStep
  <2> QED
    BY <2>1, <2>2
<1>2. ASSUME NEW f \in Fusionees, FusioneeStep(f) PROVE LockInv'
  BY <1>2, GetMessagesSafe, ReturnSafe, KillSafe, FusioneeDestroySafe, DismissAllSafe,
     CallDestroySafe DEF FusioneeStep, CallInv
<1>3. CASE UNCHANGED vars
  <2>1. Typed'
    BY <1>3 DEF LockInv, Typed, LockTyped, ThreadTyped, CallTyped, vars, lock, thread, calls
  <2>2. NoLostWakeup'
    BY <1>3 DEF LockInv, NoLostWakeup, LentPast, DispatcherPid, vars, lock, thread, calls
  <2> QED
    BY <1>3, <2>1, <2>2
    DEF LockInv, Held, Placed, Dispatched, Exited, GoneLocks, vars, lock, thread, calls
<1> QED
  BY <1>1, <1>2, <1>3 DEF Next

-----------------------------------------------------------------------------
(* The calls.  First, queues of messages.                                  *)

LEMMA AppendMessage ==
  ASSUME NEW m \in Seq(Calls), NEW n \in Calls
  PROVE  /\ \A k : In(Append(m, n), k) <=> In(m, k) \/ k = n
         /\ Once(m) /\ ~In(m, n) => Once(Append(m, n))
<1>1. /\ DOMAIN m = 1 .. Len(m) /\ Len(m) \in Nat
      /\ DOMAIN Append(m, n) = 1 .. Len(m) + 1
      /\ \A i \in 1 .. Len(m) : Append(m, n)[i] = m[i]
      /\ Append(m, n)[Len(m) + 1] = n
  OBVIOUS
<1>2. \A i \in 1 .. Len(m) + 1 : i \in 1 .. Len(m) \/ i = Len(m) + 1
  BY <1>1
<1>3. 1 .. Len(m) \subseteq 1 .. Len(m) + 1 /\ Len(m) + 1 \in 1 .. Len(m) + 1
  BY <1>1
<1>4. ASSUME NEW k PROVE In(Append(m, n), k) <=> In(m, k) \/ k = n
  BY <1>1, <1>2, <1>3 DEF In
<1>5. ASSUME Once(m), ~In(m, n) PROVE Once(Append(m, n))
  <2> SUFFICES ASSUME NEW i \in 1 .. Len(m) + 1, NEW j \in 1 .. Len(m) + 1,
                      Append(m, n)[i] = Append(m, n)[j]
               PROVE  i = j
    BY <1>1 DEF Once
  <2> QED
    BY <1>1, <1>2, <1>5 DEF Once, In
<1> QED
  BY <1>4, <1>5

LEMMA TakeMessage ==
  ASSUME NEW m \in Seq(Calls), m # <<>>
  PROVE  /\ Head(m) \in Calls /\ Tail(m) \in Seq(Calls)
         /\ \A k : In(m, k) <=> In(Tail(m), k) \/ k = Head(m)
         /\ Once(m) => Once(Tail(m)) /\ ~In(Tail(m), Head(m))
<1>1. Len(m) \in Nat /\ Len(m) >= 1 /\ DOMAIN m = 1 .. Len(m) /\ Head(m) = m[1]
  OBVIOUS
<1>2. /\ Tail(m) \in Seq(Calls) /\ Head(m) \in Calls
      /\ DOMAIN Tail(m) = 1 .. Len(m) - 1
      /\ \A i \in 1 .. Len(m) - 1 : Tail(m)[i] = m[i + 1]
  BY <1>1
<1>3. ASSUME NEW k PROVE In(m, k) <=> In(Tail(m), k) \/ k = Head(m)
  <2>1. ASSUME In(m, k), k # Head(m) PROVE In(Tail(m), k)
    <3>1. PICK i \in 1 .. Len(m) : m[i] = k
      BY <1>1, <2>1 DEF In
    <3>2. i - 1 \in 1 .. Len(m) - 1 /\ (i - 1) + 1 = i
      BY <1>1, <2>1, <3>1
    <3>3. Tail(m)[i - 1] = k
      BY <1>2, <3>1, <3>2
    <3> QED
      BY <1>2, <3>2, <3>3 DEF In
  <2>2. ASSUME In(Tail(m), k) PROVE In(m, k)
    <3>1. PICK i \in 1 .. Len(m) - 1 : Tail(m)[i] = k
      BY <1>2, <2>2 DEF In
    <3>2. i + 1 \in 1 .. Len(m) /\ m[i + 1] = k
      BY <1>1, <1>2, <3>1
    <3> QED
      BY <1>1, <3>2 DEF In
  <2>3. In(m, Head(m))
    <3>1. 1 \in 1 .. Len(m)
      BY <1>1
    <3> QED
      BY <1>1, <3>1 DEF In
  <2> QED
    BY <2>1, <2>2, <2>3
<1>4. ASSUME Once(m) PROVE Once(Tail(m))
  <2> SUFFICES ASSUME NEW i \in 1 .. Len(m) - 1, NEW j \in 1 .. Len(m) - 1,
                      Tail(m)[i] = Tail(m)[j]
               PROVE  i = j
    BY <1>2 DEF Once
  <2>1. i + 1 \in 1 .. Len(m) /\ j + 1 \in 1 .. Len(m) /\ m[i + 1] = m[j + 1]
    BY <1>1, <1>2
  <2>2. i + 1 = j + 1
    BY <1>1, <1>4, <2>1 DEF Once
  <2> QED
    BY <2>2
<1>5. ASSUME Once(m), In(Tail(m), Head(m)) PROVE FALSE
  <2>1. PICK i \in 1 .. Len(m) - 1 : Tail(m)[i] = m[1]
    BY <1>1, <1>2, <1>5 DEF In
  <2>2. i + 1 \in 1 .. Len(m) /\ 1 \in 1 .. Len(m) /\ m[i + 1] = m[1] /\ i + 1 # 1
    BY <1>1, <1>2, <2>1
  <2> QED
    BY <1>1, <1>5, <2>2 DEF Once
<1> QED
  BY <1>2, <1>3, <1>4, <1>5

\* Steps that do nothing to calls but wake callers by a signal
Steady ==
  /\ UNCHANGED <<execution, messages, serving>>
  /\ \A g \in Fusionees : stage'[g] \in Ended <=> stage[g] \in Ended
  /\ \A u \in Threads :
       /\ pc'[u] \in InCall <=> pc[u] \in InCall
       /\ pc[u] \in InCall =>
            /\ pc'[u] = pc[u] /\ on'[u] = on[u]
            /\ asleep'[u] => asleep[u]
            /\ ~asleep'[u] /\ ~signal'[u] => ~asleep[u] /\ ~signal[u]
Quiet == Steady /\ \A u \in Threads : pc'[u] = "return" => pc[u] = "return"

\* Executions have callees, which are fusionees.
LEMMA Callee ==
  ASSUME Typed
  PROVE  /\ \A n \in Calls : execution[n] # NULL =>
              execution[n] \in ExecutionType /\ execution[n].call \in Servers
         /\ \A f \in Servers : f \in Fusionees /\ Dispatcher[f] \in Threads
BY ThreadsAssumption DEF Typed, CallTyped, ExecutionType, Servers

LEMMA SteadyStep ==
  ASSUME Typed, CallInv, Steady
  PROVE  /\ Calling' /\ AllOwed' /\ Answered' /\ CallsOnce' /\ CallsListed' /\ CallerInside'
<1>1. Calling'
  BY DEF CallInv, Calling, Steady
<1>2. ASSUME NEW t \in Threads, pc'[t] \in InCall
      PROVE  /\ pc[t] = pc'[t] /\ on'[t] = on[t] /\ on[t] \in Calls
             /\ Owed(t) => Owed(t)'
  <2>1. pc[t] \in InCall /\ pc[t] = pc'[t] /\ on'[t] = on[t] /\ on[t] \in Calls
        /\ execution[on[t]] # NULL
    BY <1>2 DEF Steady, CallInv, Calling
  <2>2. execution[on[t]].call \in Fusionees
    BY <2>1, Callee
  <2> QED
    BY <2>1, <2>2 DEF Owed, Steady, Queued
<1>3. AllOwed'
  BY <1>2 DEF CallInv, AllOwed, Steady, InCall
<1>4. Answered'
  BY <1>2 DEF CallInv, Answered, Steady, InCall
<1>5. CallsOnce'
  BY DEF CallInv, CallsOnce, Steady, Queued
<1>6. CallsListed'
  BY Callee DEF CallInv, CallsListed, Steady, Queued
<1>7. CallerInside'
  <2>1. \A n \in Calls : execution[n] # NULL /\ execution[n].caller # NULL => execution[n].caller \in Threads
    BY DEF Typed, CallTyped, ExecutionType
  <2> QED
    BY <2>1 DEF CallInv, CallerInside, Steady
<1> QED
  BY <1>1, <1>3, <1>4, <1>5, <1>6, <1>7

LEMMA QuietStep ==
  ASSUME Typed, CallInv, Quiet
  PROVE  CallInv'
<1>1. Returning'
  <2>1. \A f \in Servers : Dispatcher[f] \in Threads
    BY Callee
  <2> QED
    BY <2>1 DEF CallInv, Returning, Quiet, Steady, InCall
<1> QED
  BY <1>1, SteadyStep DEF CallInv, Quiet

\* A thread outside calls that stays outside
LEMMA OutsideQuiet ==
  ASSUME LockInv, NEW t \in Threads, StepOf(t), pc[t] \notin InCall, pc'[t] \notin InCall,
         UNCHANGED <<execution, messages, serving>>
  PROVE  Quiet
<1>1. ASSUME NEW u \in Threads
      PROVE  /\ pc'[u] \in InCall <=> pc[u] \in InCall
             /\ pc[u] \in InCall =>
                  /\ pc'[u] = pc[u] /\ on'[u] = on[u]
                  /\ asleep'[u] => asleep[u]
                  /\ ~asleep'[u] /\ ~signal'[u] => ~asleep[u] /\ ~signal[u]
  <2>1. CASE u = t
    BY <2>1
  <2>2. CASE u # t
    <3>1. /\ Still(u) /\ signal'[u] = signal[u]
          /\ pc[u] = "call" => asleep'[u] = asleep[u]
      BY <2>2 DEF StepOf
    <3>2. pc[u] = "send" => ~asleep[u]
      BY DEF LockInv, Placed, OnSkirmish
    <3> QED
      BY <3>1, <3>2 DEF Still, InCall
  <2> QED
    BY <2>1, <2>2
<1> QED
  BY <1>1 DEF Quiet, Steady, StepOf, Still

\* The steps of a thread that have nothing to do with calls
LEMMA LockingQuiet ==
  ASSUME LockInv, NEW t \in Threads, Good(t),
         \/ \E s \in Skirmishes :
              prevail(t, s) \/ swoop(t, s) \/ dismiss(t, s) \/ destroy(t, s)
                \/ wait_(t, s) \/ notify_(t, s)
         \/ prevail_woken(t) \/ wait_woken(t) \/ wait_timeout(t) \/ wait_resume(t)
  PROVE  Quiet
<1>0. pc \in [Threads -> Pcs]
  BY DEF LockInv, Typed, ThreadTyped, Pcs
<1>1. ASSUME NEW s, SleepOn(t, "prevail", s) \/ SleepOn(t, "wait", s) \/ SleepOn(t, "relock", s)
               \/ ToUser(t) \/ UNCHANGED thread
      PROVE  pc'[t] \in OnSkirmish \cup {"user", pc[t]}
  BY <1>0, <1>1 DEF SleepOn, ToUser, OnSkirmish, thread
<1>2. ASSUME NEW s \in Skirmishes,
             prevail(t, s) \/ swoop(t, s) \/ dismiss(t, s) \/ destroy(t, s)
               \/ wait_(t, s) \/ notify_(t, s)
      PROVE  pc[t] = "user" /\ pc'[t] \in OnSkirmish \cup {"user", pc[t]}
             /\ UNCHANGED <<execution, messages, serving>>
  <2>1. pc[t] = "user" /\ UNCHANGED calls
    BY <1>2 DEF prevail, swoop, dismiss, destroy, wait_, notify_, InUser
  <2>2. ASSUME prevail(t, s)
      PROVE  pc'[t] \in OnSkirmish \cup {"user", pc[t]}
    BY <1>1, <2>2 DEF prevail, PrevailTest, Again
  <2>3. ASSUME swoop(t, s)
      PROVE  pc'[t] \in OnSkirmish \cup {"user", pc[t]}
    BY <1>1, <2>3 DEF swoop, Again
  <2>4. ASSUME dismiss(t, s) \/ destroy(t, s) \/ wait_(t, s) \/ notify_(t, s)
      PROVE  pc'[t] \in OnSkirmish \cup {"user", pc[t]}
    BY <1>0, <2>4 DEF dismiss, destroy, wait_, notify_, OnSkirmish
  <2> QED
    BY <1>2, <2>1, <2>2, <2>3, <2>4 DEF calls
<1>3. ASSUME prevail_woken(t) \/ wait_woken(t) \/ wait_timeout(t) \/ wait_resume(t)
      PROVE  pc[t] \in OnSkirmish \cup {"user"} /\ pc'[t] \in OnSkirmish \cup {"user", pc[t]}
             /\ UNCHANGED <<execution, messages, serving>>
  <2>1. pc[t] \in OnSkirmish \cup {"user"} /\ UNCHANGED calls
    BY <1>3 DEF prevail_woken, wait_woken, wait_timeout, wait_resume, OnSkirmish
  <2>2. ASSUME prevail_woken(t)
      PROVE  pc'[t] \in OnSkirmish \cup {"user", pc[t]}
    BY <1>1, <2>2 DEF prevail_woken, PrevailTest
  <2>3. ASSUME NEW s, NEW b, WaitTest(t, s, b) PROVE pc'[t] \in OnSkirmish \cup {"user", pc[t]}
    BY <1>1, <2>3 DEF WaitTest
  <2>4. ASSUME WaitGone(t) PROVE pc'[t] \in OnSkirmish \cup {"user", pc[t]}
    BY <1>1, <2>4 DEF WaitGone
  <2>5. ASSUME wait_woken(t) \/ wait_timeout(t) \/ wait_resume(t)
      PROVE  pc'[t] \in OnSkirmish \cup {"user", pc[t]}
    BY <1>1, <2>3, <2>4, <2>5 DEF wait_woken, wait_timeout, wait_resume
  <2> QED
    BY <1>3, <2>1, <2>2, <2>5 DEF calls
<1> QED
  BY <1>2, <1>3, OutsideQuiet DEF Good, OnSkirmish, InCall

LEMMA SignalQuiet ==
  ASSUME LockInv, NEW t \in Threads, Signal(t)
  PROVE  Quiet
<1>1. /\ UNCHANGED <<pc, on, execution, messages, serving, stage>>
      /\ signal'[t] = TRUE /\ asleep'[t] = FALSE
      /\ \A u \in Threads \ {t} : signal'[u] = signal[u] /\ asleep'[u] = asleep[u]
  BY DEF Signal, calls, LockInv, Typed, ThreadTyped
<1> QED
  BY <1>1 DEF Quiet, Steady

LEMMA KillQuiet ==
  ASSUME LockInv, NEW f \in Fusionees, Kill(f)
  PROVE  Quiet
<1>1. /\ UNCHANGED <<pc, on, execution, messages, serving>>
      /\ stage[f] = "up"
      /\ \A g \in Fusionees : stage'[g] = IF g = f THEN "killed" ELSE stage[g]
      /\ \A u \in Threads : /\ signal'[u] <=> signal[u] \/ Fid[u] = f
                            /\ asleep'[u] <=> asleep[u] /\ Fid[u] # f
  BY DEF Kill, calls, LockInv, Typed, ThreadTyped
<1> QED
  BY <1>1 DEF Quiet, Steady, Ended

LEMMA ExitQuiet ==
  ASSUME LockInv, NEW t \in Threads, Exit(t)
  PROVE  Quiet
<1>1. /\ UNCHANGED <<on, signal, execution, messages, serving>>
      /\ pc[t] \in {"user", "oops"} /\ stage[Fid[t]] \in {"up", "killed"}
      /\ pc'[t] \in {"exited", "oops"} /\ \A u \in Threads \ {t} : pc'[u] = pc[u]
  BY DEF Exit, calls, LockInv, Typed, ThreadTyped
<1>2. \/ Dismiss({t}) /\ stage' = [stage EXCEPT ![Fid[t]] = "flushed"]
      \/ UNCHANGED <<stage, asleep>>
  BY DEF Exit
<1>3. \A g \in Fusionees : stage'[g] \in Ended <=> stage[g] \in Ended
  BY <1>1, <1>2, ThreadsAssumption DEF Ended, LockInv, Typed, Stages
<1>4. \A u \in Threads : pc[u] = "call" => asleep'[u] = asleep[u]
  <2>1. CASE Dismiss({t})
    BY <2>1 DEF Dismiss, Awake, LockInv, Typed, ThreadTyped
  <2> QED
    BY <1>2, <2>1
<1>5. \A u \in Threads : pc[u] = "send" => ~asleep[u] /\ ~asleep'[u]
  <2>1. \A u \in Threads : pc[u] = "send" => ~asleep[u]
    BY DEF LockInv, Placed, OnSkirmish
  <2>2. CASE Dismiss({t})
    BY <2>1, <2>2 DEF Dismiss, Awake
  <2> QED
    BY <1>2, <2>1, <2>2
<1> QED
  BY <1>1, <1>3, <1>4, <1>5 DEF Quiet, Steady, InCall

LEMMA DeathQuiet ==
  ASSUME LockInv, NEW f \in Fusionees, fusionee_destroy(f) \/ dismiss_all(f)
  PROVE  Quiet
<1>1. UNCHANGED <<pc, on, signal, execution, messages, serving>>
  BY DEF fusionee_destroy, dismiss_all, thread, calls
<1>2. \A g \in Fusionees : stage'[g] \in Ended <=> stage[g] \in Ended
  BY DEF fusionee_destroy, dismiss_all, Ended, LockInv, Typed
<1>3. \A u \in Threads : pc[u] \in InCall => asleep'[u] = asleep[u]
  BY DEF fusionee_destroy, dismiss_all, Dismiss, Awake, thread, InCall, LockInv, Typed, ThreadTyped
<1> QED
  BY <1>1, <1>2, <1>3 DEF Quiet, Steady

\* A new call: nobody handles or awaits its number yet.
LEMMA ExecuteCalls ==
  ASSUME LockInv, CallInv, NEW t \in Threads, NEW f \in Servers, NEW n \in Calls, execute(t, f, n)
  PROVE  CallInv'
<1>1. /\ pc[t] = "user" /\ execution[n] = NULL /\ stage[f] \notin Ended
      /\ UNCHANGED <<asleep, signal, serving, stage>>
  BY DEF execute, InUser, Ended
<1>2. /\ execution'[n] = Fresh(f, t)
      /\ \A k \in Calls \ {n} : execution'[k] = execution[k]
  BY DEF execute, Fresh, LockInv, Typed, CallTyped
<1>3. Fresh(f, t) # NULL /\ Fresh(f, t).call = f /\ Fresh(f, t).caller = t
      /\ Fresh(f, t).listed
  <2>1. Fresh(f, t) # NULL
    BY FreshType, NullFacts
  <2> QED
    BY <2>1 DEF Fresh
<1>4. /\ pc'[t] = "send" /\ on'[t] = n
      /\ \A u \in Threads \ {t} : pc'[u] = pc[u] /\ on'[u] = on[u]
  BY DEF execute, LockInv, Typed, ThreadTyped
<1>5. \A g \in Servers, k \in Calls : Queued(g, k)' <=> Queued(g, k) \/ (g = f /\ k = n)
  <2>1. messages[f] \in Seq(Calls)
        /\ messages'[f] = Append(messages[f], n)
        /\ \A g \in Servers \ {f} : messages'[g] = messages[g]
    BY DEF execute, LockInv, Typed, CallTyped
  <2>2. \A k : In(Append(messages[f], n), k) <=> In(messages[f], k) \/ k = n
    BY <2>1, AppendMessage
  <2> QED
    BY <2>1, <2>2 DEF Queued
<1>6. \A g \in Servers : serving[g] # n /\ ~Queued(g, n)
  BY <1>1 DEF CallInv, CallsListed
<1>7. \A u \in Threads : pc[u] \in InCall =>
        u # t /\ on[u] \in Calls \ {n} /\ execution'[on[u]] = execution[on[u]]
        /\ execution[on[u]].call \in Servers
  BY <1>1, <1>2, Callee DEF CallInv, Calling, InCall, LockInv
<1>8. Calling'
  BY <1>2, <1>3, <1>4, <1>7 DEF CallInv, Calling, InCall
<1>9. AllOwed'
  <2>1. Owed(t)'
    BY <1>1, <1>2, <1>3, <1>4, <1>5 DEF Owed
  <2>2. ASSUME NEW u \in Threads, u # t, pc[u] = "send" \/ (pc[u] = "call" /\ asleep[u])
        PROVE  Owed(u)'
    <3>1. Owed(u)
      BY <2>2 DEF CallInv, AllOwed
    <3>2. /\ on'[u] = on[u] /\ on[u] \in Calls /\ execution'[on[u]] = execution[on[u]]
          /\ execution[on[u]].call \in Servers
      BY <1>4, <1>7, <2>2 DEF InCall
    <3> QED
      BY <1>1, <1>5, <3>1, <3>2 DEF Owed
  <2> QED
    BY <1>1, <1>4, <2>1, <2>2 DEF AllOwed
<1>10. Answered'
  BY <1>1, <1>4, <1>7 DEF CallInv, Answered, InCall
<1>11. CallsOnce'
  <2>1. ASSUME NEW g \in Servers PROVE Once(messages'[g])
    <3>1. Once(messages[g]) /\ messages[g] \in Seq(Calls)
      BY DEF CallInv, CallsOnce, LockInv, Typed, CallTyped
    <3>2. messages'[g] = IF g = f THEN Append(messages[g], n) ELSE messages[g]
      BY DEF execute, LockInv, Typed, CallTyped
    <3>3. ~In(messages[g], n)
      BY <1>6 DEF Queued
    <3> QED
      BY <3>1, <3>2, <3>3, AppendMessage
  <2>2. ASSUME NEW g \in Servers, serving[g] # NULL PROVE ~Queued(g, serving[g])'
    <3>1. PICK k \in Calls : k = serving[g] /\ k # n /\ ~Queued(g, k)
      BY <1>6, <2>2 DEF CallInv, CallsOnce, LockInv, Typed, CallTyped
    <3>2. ~Queued(g, k)'
      BY <1>5, <3>1
    <3> QED
      BY <1>1, <3>1, <3>2 DEF Queued
  <2> QED
    BY <1>1, <2>1, <2>2 DEF CallsOnce, Queued
<1>12. CallsListed'
  BY <1>1, <1>2, <1>3, <1>5, <1>6 DEF CallInv, CallsListed
<1>13. CallerInside'
  <2>1. \A k \in Calls : execution[k] # NULL /\ execution[k].listed /\ execution[k].caller # NULL =>
          execution[k].caller \in Threads \ {t}
    BY <1>1 DEF CallInv, CallerInside, InCall, LockInv, Typed, CallTyped, ExecutionType
  <2> QED
    BY <1>2, <1>3, <1>4, <2>1 DEF CallInv, CallerInside, InCall
<1>14. Returning'
  <2>1. ASSUME NEW g \in Servers, pc'[Dispatcher[g]] = "return"
        PROVE  serving[g] # NULL /\ \A u \in Threads : ~(pc'[u] = "send" /\ execution'[on'[u]].call = g)
    <3>1. Dispatcher[g] \in Threads \ {t} /\ pc[Dispatcher[g]] = "return"
      BY <1>4, <2>1, Callee DEF LockInv
    <3>2. g # f
      BY <3>1 DEF execute, CallLocked
    <3>3. \A u \in Threads \ {t} : ~(pc[u] = "send" /\ execution[on[u]].call = g)
      BY <3>1 DEF CallInv, Returning
    <3> QED
      BY <1>2, <1>3, <1>4, <1>7, <3>1, <3>2, <3>3 DEF CallInv, Returning, InCall
  <2> QED
    BY <1>1, <2>1 DEF Returning
<1> QED
  BY <1>8, <1>9, <1>10, <1>11, <1>12, <1>13, <1>14 DEF CallInv

\* The caller goes to sleep.
LEMMA TransferCalls ==
  ASSUME LockInv, CallInv, NEW t \in Threads, transfer_all(t)
  PROVE  CallInv'
<1>1. /\ pc[t] = "send" /\ UNCHANGED <<on, signal, execution, messages, serving, stage>>
      /\ \A u \in Threads : pc'[u] = IF u = t THEN "call" ELSE pc[u]
  BY DEF transfer_all, calls, LockInv, Typed, ThreadTyped
<1>2. /\ asleep'[t] <=> ~signal[t]
      /\ \A u \in Threads \ {t} : pc[u] = "call" => asleep'[u] = asleep[u]
  <2>1. asleep' = [Awake(asleep, HeldBy({t})) EXCEPT ![t] = ~signal[t]]
    BY DEF transfer_all
  <2>2. \A u \in Threads : pc[u] = "call" => Awake(asleep, HeldBy({t}))[u] = asleep[u]
    BY DEF Awake, LockInv, Typed, ThreadTyped
  <2> QED
    BY <2>1, <2>2 DEF Awake, LockInv, Typed, ThreadTyped
<1>3. Calling'
  BY <1>1 DEF CallInv, Calling, InCall
<1>4. \A u \in Threads : Owed(u) => Owed(u)'
  BY <1>1 DEF Owed, Queued
<1>5. Owed(t)
  BY <1>1 DEF CallInv, AllOwed
<1>6. AllOwed'
  BY <1>1, <1>2, <1>4, <1>5 DEF CallInv, AllOwed
<1>7. Answered'
  BY <1>1, <1>2 DEF CallInv, Answered
<1>8. CallsOnce' /\ CallsListed'
  BY <1>1 DEF CallInv, CallsOnce, CallsListed, Queued
<1>9. CallerInside'
  <2>1. \A n \in Calls : execution[n] # NULL /\ execution[n].caller # NULL => execution[n].caller \in Threads
    BY DEF LockInv, Typed, CallTyped, ExecutionType
  <2> QED
    BY <1>1, <2>1 DEF CallInv, CallerInside, InCall
<1>10. Returning'
  <2>1. \A g \in Servers : Dispatcher[g] \in Threads
    BY Callee DEF LockInv
  <2> QED
    BY <1>1, <2>1 DEF CallInv, Returning
<1> QED
  BY <1>3, <1>6, <1>7, <1>8, <1>9, <1>10 DEF CallInv

\* The caller leaves: answered, or because of a signal.
LEMMA CallWokenCalls ==
  ASSUME LockInv, CallInv, NEW t \in Threads, call_woken(t)
  PROVE  CallInv'
<1>1. /\ pc[t] = "call" /\ ~asleep[t]
      /\ UNCHANGED <<messages, serving, stage>>
      /\ pc'[t] = "user"
      /\ \A u \in Threads \ {t} : /\ pc'[u] = pc[u] /\ on'[u] = on[u]
                                  /\ asleep'[u] = asleep[u] /\ signal'[u] = signal[u]
  BY DEF call_woken, ToUser, LockInv, Typed, ThreadTyped
<1>2. PICK n \in Calls : n = on[t]
  BY <1>1 DEF CallInv, Calling, InCall
<1>3. /\ execution[n] # NULL /\ execution[n].caller = t
      /\ \A k \in Calls \ {n} : execution'[k] = execution[k]
      /\ execution'[n] # NULL /\ execution'[n].call = execution[n].call
      /\ execution'[n].listed = execution[n].listed
      /\ execution'[n].caller = IF signal[t] THEN NULL ELSE t
  BY <1>2, CallWokenExecution, NullFacts DEF CallInv, LockInv
<1>4. ~signal[t] => ~execution[n].listed
  BY <1>1, <1>2 DEF CallInv, Answered
<1>5. \A u \in Threads \ {t} : pc[u] \in InCall =>
        on[u] \in Calls \ {n} /\ execution'[on[u]] = execution[on[u]]
  BY <1>3 DEF CallInv, Calling
<1>6. Calling'
  BY <1>1, <1>5 DEF CallInv, Calling, InCall
<1>7. \A u \in Threads \ {t} : pc[u] \in InCall => (Owed(u) => Owed(u)')
  BY <1>1, <1>5 DEF Owed, Queued
<1>8. AllOwed'
  BY <1>1, <1>7 DEF CallInv, AllOwed, InCall
<1>9. Answered'
  BY <1>1, <1>5 DEF CallInv, Answered, InCall
<1>10. CallsOnce'
  BY <1>1 DEF CallInv, CallsOnce, Queued
<1>11. CallsListed'
  BY <1>1, <1>3 DEF CallInv, CallsListed, Queued
<1>12. CallerInside'
  <2>1. \A k \in Calls \ {n} :
          execution[k] # NULL /\ execution[k].listed /\ execution[k].caller # NULL =>
            execution[k].caller \in Threads \ {t}
    BY <1>2 DEF CallInv, CallerInside, LockInv, Typed, CallTyped, ExecutionType
  <2> QED
    BY <1>1, <1>3, <1>4, <2>1 DEF CallInv, CallerInside
<1>13. Returning'
  <2>1. \A g \in Servers : Dispatcher[g] \in Threads
    BY Callee DEF LockInv
  <2>2. \A u \in Threads : pc'[u] = "send" =>
          pc[u] = "send" /\ on'[u] = on[u] /\ execution'[on[u]] = execution[on[u]]
    BY <1>1, <1>5 DEF InCall
  <2> QED
    BY <1>1, <2>1, <2>2 DEF CallInv, Returning
<1> QED
  BY <1>6, <1>8, <1>9, <1>10, <1>11, <1>12, <1>13 DEF CallInv

\* The dispatcher reads a message.
LEMMA GetMessagesCalls ==
  ASSUME LockInv, CallInv, NEW f \in Servers, get_messages(f)
  PROVE  CallInv'
<1>1. /\ serving[f] = NULL
      /\ UNCHANGED <<pc, on, asleep, signal, execution, stage>>
  BY DEF get_messages, thread
<1>2. CASE messages[f] = <<>>
  <2>1. UNCHANGED <<messages, serving>>
    BY <1>2 DEF get_messages
  <2> QED
    BY <1>1, <2>1, QuietStep DEF Quiet, Steady, LockInv
<1>3. CASE messages[f] # <<>>
  <2>1. PICK n \in Calls, m \in Seq(Calls) :
          /\ n = Head(messages[f]) /\ m = Tail(messages[f])
          /\ \A k : In(messages[f], k) <=> In(m, k) \/ k = n
          /\ Once(m) /\ ~In(m, n)
    <3>1. messages[f] \in Seq(Calls) /\ Once(messages[f])
      BY DEF CallInv, CallsOnce, LockInv, Typed, CallTyped
    <3> QED
      BY <1>3, <3>1, TakeMessage
  <2>2. /\ serving'[f] = n /\ messages'[f] = m
        /\ \A g \in Servers \ {f} : serving'[g] = serving[g] /\ messages'[g] = messages[g]
    BY <1>3, <2>1 DEF get_messages, LockInv, Typed, CallTyped
  <2>3. \A g \in Servers, k \in Calls :
          serving'[g] = k \/ Queued(g, k)' <=> serving[g] = k \/ Queued(g, k)
    BY <1>1, <2>1, <2>2, NullFacts DEF Queued
  <2>4. \A u \in Threads : pc[u] \in InCall => (Owed(u) => Owed(u)')
    <3>1. ASSUME NEW u \in Threads, pc[u] \in InCall, Owed(u) PROVE Owed(u)'
      <4>1. on[u] \in Calls /\ execution[on[u]].call \in Servers
        BY <3>1, Callee DEF CallInv, Calling, LockInv
      <4> QED
        BY <1>1, <2>3, <3>1, <4>1 DEF Owed
    <3> QED
      BY <3>1
  <2>5. Calling' /\ Answered' /\ CallerInside' /\ Returning'
    BY <1>1, <2>2 DEF CallInv, Calling, Answered, CallerInside, Returning, get_messages
  <2>6. AllOwed'
    BY <1>1, <2>4 DEF CallInv, AllOwed, InCall
  <2>7. CallsOnce'
    <3>1. Once(messages'[f]) /\ ~Queued(f, serving[f])'
      BY <2>1, <2>2 DEF Queued
    <3>2. \A g \in Servers \ {f} : Once(messages'[g]) /\ (serving'[g] # NULL => ~In(messages'[g], serving'[g]))
      BY <2>2 DEF CallInv, CallsOnce, Queued
    <3> QED
      BY <3>1, <3>2 DEF CallsOnce, Queued
  <2>8. CallsListed'
    BY <1>1, <2>3 DEF CallInv, CallsListed
  <2> QED
    BY <2>5, <2>6, <2>7, <2>8 DEF CallInv
<1> QED
  BY <1>2, <1>3

\* The dispatcher takes the execution off the list.
LEMMA RemoveCalls ==
  ASSUME LockInv, CallInv, NEW f \in Servers, call_return(f) \/ call_answer(f),
         serving' = [serving EXCEPT ![f] = NULL], ~execution'[serving[f]].listed
  PROVE  CallInv'
<1> DEFINE d == Dispatcher[f]
<1>0. CallsListed /\ Returning
  BY DEF CallInv
<1>1. PICK n \in Calls :
        /\ n = serving[f] /\ execution[n] # NULL /\ execution[n].call = f /\ execution[n].listed
  BY <1>0, HandledByReturn
<1>2. /\ d \in Threads /\ pc[d] \in {"user", "return"} /\ wait[d] = NULL /\ stage[f] \notin Ended
      /\ \A u \in Threads : ~(pc[u] = "send" /\ execution[on[u]].call = f)
  BY <1>0, HandledByReturn DEF Ended
<1>3. /\ UNCHANGED <<on, signal, messages, stage>>
      /\ pc'[d] # "return" /\ pc'[d] \notin InCall
      /\ \A u \in Threads \ {d} : pc'[u] = pc[u]
  <2>1. CASE call_return(f)
    BY <1>1, <1>2, <2>1, NullFacts DEF call_return, InCall, InUser, LockInv, Typed, CallTyped
  <2>2. CASE call_answer(f)
    BY <1>2, <2>2 DEF call_answer, InCall, LockInv, Typed, ThreadTyped
  <2> QED
    BY <2>1, <2>2
<1>4. /\ execution'[n] # NULL /\ execution'[n].call = f /\ ~execution'[n].listed
      /\ execution'[n].caller = execution[n].caller
      /\ \A k \in Calls \ {n} : execution'[k] = execution[k]
  BY <1>0, <1>1, ReturnedExecution
<1>5. serving'[f] = NULL /\ \A g \in Servers \ {f} : serving'[g] = serving[g]
  BY DEF LockInv, Typed, CallTyped
<1>6. \A u \in Threads : (pc'[u] \in InCall <=> pc[u] \in InCall) /\ (pc[u] \in InCall => pc'[u] = pc[u])
  BY <1>2, <1>3 DEF InCall
<1>7. /\ \A u \in Threads : pc[u] = "call" /\ on[u] # n => asleep'[u] = asleep[u]
      /\ \A u \in Threads : pc[u] = "call" /\ on[u] = n => ~asleep'[u]
  <2>1. CASE execution[n].caller = NULL
    <3>1. \A u \in Threads : ~(pc[u] = "call" /\ on[u] = n)
      BY <1>1, <2>1, NullFacts DEF CallInv, Calling, InCall
    <3>2. asleep' = asleep
      BY <1>1, <2>1 DEF call_return, call_answer
    <3> QED
      BY <3>1, <3>2
  <2>2. CASE execution[n].caller # NULL
    <3>1. asleep' = CallerAwake({n})
      <4>1. ~call_return(f)
        BY <1>1, <1>2, <1>5, <2>2, NullFacts DEF call_return
      <4> QED
        BY <1>1, <2>2, <4>1 DEF call_answer
    <3> QED
      BY <3>1 DEF CallerAwake, LockInv, Typed, ThreadTyped
  <2> QED
    BY <2>1, <2>2
<1>8. \A u \in Threads : pc[u] = "send" => on[u] # n
  BY <1>1, <1>2
<1> HIDE DEF d
<1>9. Calling'
  BY <1>3, <1>4, <1>6 DEF CallInv, Calling
<1>10. AllOwed'
  <2>1. ASSUME NEW u \in Threads, pc[u] = "send" \/ (pc[u] = "call" /\ asleep'[u])
        PROVE  Owed(u)'
    <3>1. on[u] # n /\ Owed(u)
      BY <1>7, <1>8, <2>1 DEF CallInv, AllOwed
    <3>2. on[u] \in Calls /\ execution[on[u]].call \in Servers
      BY <2>1, Callee DEF CallInv, Calling, InCall, LockInv
    <3> QED
      BY <1>1, <1>3, <1>4, <1>5, <3>1, <3>2 DEF Owed, Queued
  <2> QED
    BY <1>6, <2>1 DEF AllOwed, InCall
<1>11. Answered'
  <2>1. ASSUME NEW u \in Threads, pc[u] = "call", ~asleep'[u], ~signal[u]
        PROVE  ~execution'[on[u]].listed
    <3>1. CASE on[u] = n
      BY <1>4, <3>1
    <3>2. CASE on[u] # n
      BY <1>4, <1>7, <2>1, <3>2 DEF CallInv, Answered, Calling, InCall
    <3> QED
      BY <3>1, <3>2
  <2> QED
    BY <1>3, <1>6, <2>1 DEF Answered, InCall
<1>12. CallsOnce'
  BY <1>3, <1>5 DEF CallInv, CallsOnce, Queued
<1>13. CallsListed'
  <2>1. ASSUME NEW g \in Servers, NEW k \in Calls, serving'[g] = k \/ Queued(g, k)
        PROVE  k # n /\ (serving[g] = k \/ Queued(g, k))
    <3>1. serving[g] = k \/ Queued(g, k)
      BY <1>5, <2>1, NullFacts
    <3>2. g # f => k # n
      BY <1>1, <3>1 DEF CallInv, CallsListed
    <3>3. g = f => Queued(f, k) /\ ~Queued(f, n)
      BY <1>1, <1>5, <2>1, NullFacts DEF CallInv, CallsOnce
    <3> QED
      BY <3>1, <3>2, <3>3
  <2> QED
    BY <1>3, <1>4, <2>1 DEF CallInv, CallsListed, Queued
<1>14. CallerInside'
  <2>1. \A k \in Calls : execution[k] # NULL /\ execution[k].caller # NULL => execution[k].caller \in Threads
    BY DEF LockInv, Typed, CallTyped, ExecutionType
  <2> QED
    BY <1>3, <1>4, <1>6, <2>1 DEF CallInv, CallerInside
<1>15. Returning'
  <2>1. ASSUME NEW g \in Servers, pc'[Dispatcher[g]] = "return"
        PROVE  serving'[g] # NULL /\ \A u \in Threads : ~(pc'[u] = "send" /\ execution'[on[u]].call = g)
    <3>1. g # f /\ Dispatcher[g] \in Threads \ {d}
      BY <1>3, <2>1, Callee DEF LockInv, d
    <3>2. serving[g] # NULL /\ \A u \in Threads : ~(pc[u] = "send" /\ execution[on[u]].call = g)
      BY <1>3, <2>1, <3>1 DEF CallInv, Returning
    <3>3. \A u \in Threads : pc'[u] = "send" =>
            pc[u] = "send" /\ on[u] \in Calls \ {n}
      BY <1>6, <1>8 DEF InCall, CallInv, Calling
    <3> QED
      BY <1>4, <1>5, <3>1, <3>2, <3>3
  <2> QED
    BY <1>3, <2>1 DEF Returning
<1> QED
  BY <1>9, <1>10, <1>11, <1>12, <1>13, <1>14, <1>15 DEF CallInv

LEMMA ReturnCalls ==
  ASSUME LockInv, CallInv, NEW f \in Servers, call_return(f) \/ call_answer(f)
  PROVE  CallInv'
<1>0. CallsListed /\ Returning
  BY DEF CallInv
<1>1. CASE serving' = [serving EXCEPT ![f] = NULL] /\ ~execution'[serving[f]].listed
  BY <1>1, RemoveCalls
<1>2. CASE UNCHANGED <<execution, serving>>
  <2>1. serving[f] \in Calls /\ Dispatcher[f] \in Threads /\ serving[f] # NULL
    BY <1>0, HandledByReturn, NullFacts
  <2>2. /\ call_return(f) /\ pc[Dispatcher[f]] = "user"
        /\ pc'[Dispatcher[f]] = "return" /\ \A u \in Threads \ {Dispatcher[f]} : pc'[u] = pc[u]
        /\ UNCHANGED <<on, asleep, signal, messages, stage>>
    <3>1. serving'[f] # NULL
      BY <1>2, <2>1
    <3>2. call_return(f) /\ pc' = [pc EXCEPT ![Dispatcher[f]] = "return"]
      BY <3>1 DEF call_return, call_answer, LockInv, Typed, CallTyped
    <3> QED
      BY <2>1, <3>2 DEF call_return, InUser, LockInv, Typed, ThreadTyped
  <2>3. Steady
    BY <1>2, <2>2 DEF Steady, InCall
  <2>4. Returning'
    <3>1. ASSUME NEW g \in Servers, pc'[Dispatcher[g]] = "return"
          PROVE  serving[g] # NULL /\ \A u \in Threads : ~(pc'[u] = "send" /\ execution[on[u]].call = g)
      <4>1. \A u \in Threads : pc'[u] = "send" => pc[u] = "send"
        BY <2>1, <2>2
      <4>2. CASE g = f
        BY <1>0, <2>1, <4>1, <4>2, HandledByReturn
      <4>3. CASE g # f
        <5>1. Dispatcher[g] \in Threads \ {Dispatcher[f]}
          BY <4>3, ThreadsAssumption DEF Servers
        <5> QED
          BY <2>2, <3>1, <4>1, <5>1 DEF CallInv, Returning
      <4> QED
        BY <4>2, <4>3
    <3> QED
      BY <1>2, <2>2, <3>1 DEF Returning
  <2> QED
    BY <2>3, <2>4, SteadyStep DEF CallInv, LockInv
<1> QED
  BY <1>0, <1>1, <1>2, ReturnedExecution

\* The calls of a dying fusionee are destroyed.
LEMMA CallDestroyCalls ==
  ASSUME LockInv, CallInv, NEW f \in Fusionees, call_destroy_all(f)
  PROVE  CallInv'
<1>1. /\ stage[f] = "unlisted" /\ ~CallLocked(f)
      /\ UNCHANGED <<pc, on, signal, messages, serving>>
      /\ \A g \in Fusionees : stage'[g] = IF g = f THEN "uncalled" ELSE stage[g]
  BY DEF call_destroy_all, LockInv, Typed
<1>2. PICK mine \in {Listed(f)} : TRUE
  OBVIOUS
<1>3. \A n \in Calls :
        /\ n \in mine => /\ execution[n] # NULL /\ execution[n].call = f
                         /\ execution'[n] # NULL /\ execution'[n].call = f
                         /\ execution'[n].caller = execution[n].caller
                         /\ ~execution'[n].listed
        /\ n \notin mine => /\ execution'[n] = execution[n]
                            /\ ~(execution[n] # NULL /\ execution[n].call = f /\ execution[n].listed)
  BY <1>2, DestroyedExecutions DEF CallInv, LockInv, Listed
<1>4. \A u \in Threads : asleep'[u] <=> asleep[u] /\ ~(pc[u] = "call" /\ on[u] \in mine)
  BY <1>2, DestroyedExecutions, SetCallerAwake DEF CallInv, LockInv, Typed
<1>5. \A u \in Threads : pc[u] \in InCall =>
        on[u] \in Calls /\ execution[on[u]] # NULL /\ execution[on[u]].caller = u
        /\ execution[on[u]].call \in Fusionees
  BY Callee DEF CallInv, Calling, LockInv
<1>6. Calling'
  BY <1>1, <1>3, <1>5 DEF Calling
<1>7. AllOwed'
  <2>1. ASSUME NEW u \in Threads, pc[u] = "send" \/ (pc[u] = "call" /\ asleep'[u])
        PROVE  Owed(u)'
    <3>1. Owed(u) /\ on[u] \in Calls /\ execution[on[u]].call \in Fusionees /\ execution[on[u]] # NULL
      BY <1>4, <1>5, <2>1 DEF CallInv, AllOwed, InCall
    <3>2. execution[on[u]].call # f
      <4>1. CASE pc[u] = "send"
        BY <1>1, <4>1 DEF CallLocked
      <4>2. CASE pc[u] = "call" /\ asleep'[u]
        BY <1>3, <1>4, <3>1, <4>2 DEF Owed
      <4> QED
        BY <2>1, <4>1, <4>2
    <3>3. execution'[on[u]] = execution[on[u]]
      BY <1>3, <3>1, <3>2
    <3> QED
      BY <1>1, <3>1, <3>2, <3>3 DEF Owed, Queued
  <2> QED
    BY <1>1, <2>1 DEF AllOwed
<1>8. Answered'
  BY <1>1, <1>3, <1>4, <1>5 DEF CallInv, Answered, InCall
<1>9. CallsOnce'
  BY <1>1 DEF CallInv, CallsOnce, Queued
<1>10. CallsListed'
  BY <1>1, <1>3, Callee DEF CallInv, CallsListed, Queued, LockInv, Ended
<1>11. CallerInside'
  BY <1>1, <1>3 DEF CallInv, CallerInside
<1>12. Returning'
  BY <1>1, <1>3, <1>5 DEF CallInv, Returning, InCall
<1> QED
  BY <1>6, <1>7, <1>8, <1>9, <1>10, <1>11, <1>12 DEF CallInv

LEMMA CallStep ==
  ASSUME LockInv, CallInv, [Next]_vars
  PROVE  CallInv'
<1>1. ASSUME NEW t \in Threads, ThreadStep(t) PROVE CallInv'
  <2>1. CASE Exit(t)
    BY <2>1, ExitQuiet, QuietStep DEF LockInv
  <2>2. CASE Signal(t)
    BY <2>2, SignalQuiet, QuietStep DEF LockInv
  <2>3. CASE call_woken(t) \/ transfer_all(t) \/ \E f \in Servers, n \in Calls : execute(t, f, n)
    BY <2>3, CallWokenCalls, TransferCalls, ExecuteCalls
  <2>4. CASE \/ \E s \in Skirmishes :
                  prevail(t, s) \/ swoop(t, s) \/ dismiss(t, s) \/ destroy(t, s)
                    \/ wait_(t, s) \/ notify_(t, s)
             \/ prevail_woken(t) \/ wait_woken(t) \/ wait_timeout(t) \/ wait_resume(t)
    <3>1. Good(t)
      <4>1. CASE ~Exit(t)
        BY <1>1, <4>1, ThreadGood
      <4>2. CASE Exit(t)
        BY <2>4, PrevailGood, SwoopGood, DismissGood, DestroyGood, WaitGood, NotifyGood,
           PrevailWokenGood, WaitWokenGood, WaitTimeoutGood, WaitResumeGood
      <4> QED
        BY <4>1, <4>2
    <3> QED
      BY <2>4, <3>1, LockingQuiet, QuietStep DEF LockInv
  <2> QED
    BY <1>1, <2>1, <2>2, <2>3, <2>4 DEF ThreadStep
<1>2. ASSUME NEW f \in Fusionees, FusioneeStep(f) PROVE CallInv'
  BY <1>2, GetMessagesCalls, ReturnCalls, KillQuiet, DeathQuiet, CallDestroyCalls, QuietStep
  DEF FusioneeStep, LockInv
<1>3. CASE UNCHANGED vars
  <2>1. Quiet
    BY <1>3 DEF Quiet, Steady, vars, thread, calls
  <2> QED
    BY <2>1, QuietStep DEF LockInv
<1> QED
  BY <1>1, <1>2, <1>3 DEF Next

-----------------------------------------------------------------------------
LEMMA SafeInit ==
  ASSUME Init
  PROVE  SafeInv
<1>1. Typed
  <2>1. 0 \in 0 .. MaxDepth /\ 0 \in 0 .. MaxNotify
    BY BoundAssumption
  <2>2. LockTyped /\ ThreadTyped
    BY <2>1 DEF Init, LockTyped, ThreadTyped
  <2>3. CallTyped
    BY DEF Init, CallTyped
  <2> QED
    BY <2>1, <2>2, <2>3 DEF Init, Typed, Stages
<1>2. LockInv
  <2>1. Held /\ Dispatched /\ GoneLocks
    BY DEF Init, Held, Dispatched, GoneLocks
  <2>2. Placed /\ Exited /\ NoLostWakeup
    BY ThreadsAssumption DEF Init, Placed, Exited, NoLostWakeup, OnSkirmish
  <2> QED
    BY <1>1, <2>1, <2>2 DEF LockInv
<1>3. CallInv
  <2>1. Calling /\ AllOwed /\ Answered
    BY DEF Init, Calling, AllOwed, Answered, InCall
  <2>2. CallsOnce /\ CallsListed
    BY NullFacts DEF Init, CallsOnce, CallsListed, Queued, In, Once
  <2>3. CallerInside /\ Returning
    BY ThreadsAssumption DEF Init, CallerInside, Returning, Servers
  <2> QED
    BY <2>1, <2>2, <2>3 DEF CallInv
<1> QED
  BY <1>2, <1>3 DEF SafeInv

\* Whatever the threads lock, lend, wait for and call, whoever is killed or
\* interrupted, the records of the driver stay in order.
THEOREM SkirmishInvariant == Spec => []SafeInv
<1>1. Init => SafeInv
  BY SafeInit
<1>2. SafeInv /\ [Next]_vars => SafeInv'
  BY LockStep, CallStep DEF SafeInv
<1> QED
  BY <1>1, <1>2, PTL DEF Spec

\* Whoever makes a skirmish available has woken who sleeps on it.
THEOREM SleepersAreWoken == Spec => []NoLostWakeup
<1>1. SafeInv => NoLostWakeup
  BY DEF SafeInv, LockInv
<1> QED
  BY <1>1, SkirmishInvariant, PTL

\* A sleeping caller has an answer coming.
THEOREM CallersAreOwed == Spec => []AnswerOwed
<1>1. SafeInv => AnswerOwed
  <2> SUFFICES ASSUME SafeInv PROVE AnswerOwed
    OBVIOUS
  <2>1. \A t \in Threads : (pc[t] = "call" /\ asleep[t]) => Owed(t) /\ execution[on[t]].caller = t
    BY DEF SafeInv, CallInv, AllOwed, Calling, InCall
  <2> QED
    BY <2>1 DEF AnswerOwed, Owed, Queued, In, Ended
<1> QED
  BY <1>1, SkirmishInvariant, PTL

\* Nothing is left behind by a fusionee that is gone.
THEOREM TheDeadHoldNothing == Spec => []GoneHoldsNothing
<1>1. SafeInv => GoneHoldsNothing
  <2> SUFFICES ASSUME SafeInv PROVE GoneHoldsNothing
    OBVIOUS
  <2>1. \A t \in Threads : pc[t] = "call" /\ asleep[t] => stage[execution[on[t]].call] \notin Ended
    BY DEF SafeInv, CallInv, AllOwed, Owed
  <2>2. GoneLocks
    BY DEF SafeInv, LockInv
  <2> QED
    BY <2>1, <2>2 DEF GoneHoldsNothing, GoneLocks, Ended
<1> QED
  BY <1>1, SkirmishInvariant, PTL

-----------------------------------------------------------------------------
(* What is lent, and what clients believe, under assumptions on them.      *)

\* Dispatchers make no calls, callers get no signals that they survive, and
\* nothing that is lent is waited for.
Orderly ==
  /\ \A f \in Servers : Dispatcher[f] \notin Callers
  /\ Callers \cap Interrupted = {}
  /\ Lend \cap Cond = {}

DepthTyped == depth \in [Threads -> [Skirmishes -> Nat]]

\* How often t will lock s again when its wait ends
Waited(t, s) == IF wait[t] # NULL /\ wait[t].s = s THEN wait[t].lock_count ELSE 0

\* What is lent is of Lend, by a caller, to a callee; what is waited for is not.
LentOut ==
  /\ \A t \in Threads : pc[t] \in InCall => t \in Callers
  /\ \A t \in Threads : pc[t] = "send" => \A s \in live : lock_pid[s] = t => s \in Lend
  /\ \A s \in live : lent[s] # NULL => s \in Lend /\ lent[s].from \in Callers
  /\ \A t \in Threads : wait[t] # NULL => wait[t].s \in Cond
  /\ \A t \in Threads : signal[t] => t \in Interrupted \/ stage[Fid[t]] # "up"

\* A thread knows of what it has locked.
KnownAt(t, s) ==
  /\ lock_pid[s] = t => depth[t][s] >= lock_count[s]
  /\ (lent[s] # NULL /\ lent[s].from = t) => depth[t][s] >= lent[s].count
  /\ depth[t][s] >= Waited(t, s)
Known == \A t \in Threads, s \in live : stage[Fid[t]] = "up" => KnownAt(t, s)

LoanInv == DepthTyped /\ LentOut /\ Known /\ LentToCallee /\ NoBug

\* What a step of t that locks, unlocks or waits does to s and what t knows of
\* it: nothing, lock it once more, unlock it once, give it up for a wait, or
\* take it again.
Accounted(t, s) ==
  \/ /\ lock_pid'[s] = lock_pid[s] /\ lock_count'[s] = lock_count[s]
     /\ depth'[t][s] = depth[t][s] /\ Waited(t, s)' = Waited(t, s)
  \/ /\ stage[Fid[t]] = "up" /\ wait[t] = NULL /\ wait'[t] = NULL
     /\ \/ lock_pid[s] = t /\ lock_count'[s] = lock_count[s] + 1
        \/ lock_pid[s] = NULL /\ ~LentPast(t, s) /\ lock_count'[s] = 1
     /\ lock_pid'[s] = t /\ depth'[t][s] = depth[t][s] + 1
  \/ /\ stage[Fid[t]] = "up" /\ wait[t] = NULL /\ wait'[t] = NULL
     /\ lock_pid[s] = t /\ depth'[t][s] = depth[t][s] - 1
     /\ \/ lock_count[s] = 1 /\ lock_pid'[s] = NULL
        \/ lock_pid'[s] = t /\ lock_count'[s] = lock_count[s] - 1
  \/ /\ wait[t] = NULL /\ lock_pid[s] = t
     /\ lock_pid'[s] = NULL
     /\ depth'[t][s] = depth[t][s] /\ Waited(t, s)' = lock_count[s]
  \/ /\ lock_pid[s] = NULL /\ wait[t] # NULL /\ wait[t].s = s
     /\ lock_pid'[s] = t /\ lock_count'[s] = Waited(t, s)
     /\ depth'[t][s] = depth[t][s] /\ wait'[t] = NULL

Locking(t) ==
  /\ UNCHANGED <<lent, execution, serving, bug>>
  /\ depth' \in [Threads -> [Skirmishes -> Int]]
  /\ \A u \in Threads \ {t} : depth'[u] = depth[u]
  /\ \A s \in Skirmishes \ live' : depth'[t][s] \in {depth[t][s], 0}
  /\ \A s \in live' : Accounted(t, s)
  /\ wait'[t] = NULL \/ wait'[t] = wait[t] \/ wait'[t].s \in Cond
  /\ signal'[t] => signal[t] \/ stage[Fid[t]] # "up"
  /\ pc[t] \notin InCall /\ pc'[t] \notin InCall
  /\ pc[t] = "user" /\ wait[t] = NULL => InUser(t)

\* What EXCEPT does to depth
LEMMA SetDepth ==
  ASSUME DepthTyped, NEW t \in Threads, NEW s \in Skirmishes, NEW d \in Int,
         depth' = [depth EXCEPT ![t][s] = d]
  PROVE  /\ depth' \in [Threads -> [Skirmishes -> Int]]
         /\ \A u \in Threads \ {t} : depth'[u] = depth[u]
         /\ \A r \in Skirmishes : depth'[t][r] = IF r = s THEN d ELSE depth[t][r]
<1>1. \A u \in Threads : depth[u] \in [Skirmishes -> Nat] /\ depth[u] \in [Skirmishes -> Int]
  BY DEF DepthTyped
<1>2. depth' = [u \in Threads |-> IF u = t THEN [depth[t] EXCEPT ![s] = d] ELSE depth[u]]
  BY DEF DepthTyped
<1>3. [depth[t] EXCEPT ![s] = d] \in [Skirmishes -> Int]
  BY <1>1
<1>4. \A u \in Threads : depth'[u] = IF u = t THEN [depth[t] EXCEPT ![s] = d] ELSE depth[u]
  BY <1>2
<1>5. depth' \in [Threads -> [Skirmishes -> Int]]
  BY <1>1, <1>2, <1>3
<1> QED
  BY <1>1, <1>4, <1>5

LEMMA SameDepth ==
  ASSUME DepthTyped, depth' = depth
  PROVE  depth' \in [Threads -> [Skirmishes -> Int]]
BY DEF DepthTyped

\* A thread that has got no further
LEMMA IdleLocking ==
  ASSUME LockInv, DepthTyped, NEW t \in Threads, UNCHANGED <<lock, wait, depth>>,
         UNCHANGED <<execution, serving, bug>>,
         signal'[t] => signal[t] \/ stage[Fid[t]] # "up",
         pc[t] \notin InCall, pc'[t] \notin InCall, pc[t] = "user" /\ wait[t] = NULL => InUser(t)
  PROVE  Locking(t)
<1>1. \A s \in live' : Accounted(t, s)
  BY DEF Accounted, Waited, lock
<1> QED
  BY <1>1, SameDepth DEF Locking, lock

\* Once more, or for the first time
LEMMA DeeperLocking ==
  ASSUME LockInv, DepthTyped, NEW t \in Threads, NEW s \in live, live' = live, Deeper(t, s), NEW n,
         Take(t, s, n),
         \/ lock_pid[s] = t /\ n = lock_count[s] + 1
         \/ lock_pid[s] = NULL /\ ~LentPast(t, s) /\ n = 1,
         UNCHANGED <<wait, execution, serving, bug>>,
         wait[t] = NULL, stage[Fid[t]] = "up", signal'[t] => signal[t],
         pc[t] \notin InCall, pc'[t] \notin InCall, pc[t] = "user" => InUser(t)
  PROVE  Locking(t)
<1>1. s \in Skirmishes /\ live \subseteq Skirmishes
  BY DEF LockInv, Typed
<1>2. depth[t][s] + 1 \in Int
  BY <1>1 DEF DepthTyped
<1>3. depth' = [depth EXCEPT ![t][s] = depth[t][s] + 1]
  BY DEF Deeper
<1>4. /\ depth' \in [Threads -> [Skirmishes -> Int]]
      /\ \A u \in Threads \ {t} : depth'[u] = depth[u]
      /\ \A r \in Skirmishes : depth'[t][r] = IF r = s THEN depth[t][s] + 1 ELSE depth[t][r]
  BY <1>1, <1>2, <1>3, SetDepth
<1>5. /\ lock_pid'[s] = t /\ lock_count'[s] = n /\ lent' = lent
      /\ \A r \in Skirmishes \ {s} : lock_pid'[r] = lock_pid[r] /\ lock_count'[r] = lock_count[r]
  BY <1>1 DEF Take, LockInv, Typed, LockTyped
<1>6. Accounted(t, s)
  BY <1>1, <1>4, <1>5 DEF Accounted
<1>7. \A r \in live \ {s} : Accounted(t, r)
  BY <1>1, <1>4, <1>5 DEF Accounted, Waited
<1>8. \A r \in Skirmishes \ live : depth'[t][r] = depth[t][r]
  BY <1>4
<1> QED
  BY <1>4, <1>5, <1>6, <1>7, <1>8 DEF Locking

LEMMA PrevailTestLocking ==
  ASSUME LockInv, DepthTyped, NEW t \in Threads, NEW s \in live, live' = live, PrevailTest(t, s),
         UNCHANGED <<wait, execution, serving, bug>>,
         wait[t] = NULL, stage[Fid[t]] = "up",
         pc[t] \notin InCall, pc[t] = "user" => InUser(t)
  PROVE  Locking(t)
<1>0. pc \in [Threads -> Pcs] /\ signal \in [Threads -> BOOLEAN]
  BY DEF LockInv, Typed, ThreadTyped, Pcs
<1>1. CASE SleepOn(t, "prevail", s) /\ UNCHANGED <<lock, depth, signal>>
  <2>1. pc'[t] \notin InCall /\ signal'[t] = signal[t]
    BY <1>0, <1>1 DEF SleepOn, InCall
  <2> QED
    BY <1>1, <2>1, IdleLocking
<1>2. CASE lock_pid[s] = NULL /\ ~LentPast(t, s) /\ Take(t, s, 1) /\ Deeper(t, s) /\ ToUser(t)
  <2>1. pc'[t] \notin InCall /\ signal'[t] = FALSE
    BY <1>0, <1>2 DEF ToUser, InCall
  <2> QED
    BY <1>2, <2>1, DeeperLocking
<1> QED
  BY <1>1, <1>2 DEF PrevailTest

LEMMA PrevailLocking ==
  ASSUME LockInv, DepthTyped, NEW t \in Threads, NEW s \in Skirmishes, prevail(t, s)
  PROVE  Locking(t)
<1>1. /\ InUser(t) /\ s \in live /\ live' = live /\ UNCHANGED <<wait, execution, serving, bug>>
      /\ pc[t] = "user" /\ wait[t] = NULL /\ stage[Fid[t]] = "up" /\ pc[t] \notin InCall
  BY DEF prevail, InUser, calls, InCall
<1>2. CASE Again(t, s) /\ UNCHANGED signal
  BY <1>1, <1>2, DeeperLocking DEF Again, thread
<1>3. CASE PrevailTest(t, s)
  BY <1>1, <1>3, PrevailTestLocking
<1> QED
  BY <1>2, <1>3 DEF prevail

LEMMA SwoopLocking ==
  ASSUME LockInv, DepthTyped, NEW t \in Threads, NEW s \in Skirmishes, swoop(t, s)
  PROVE  Locking(t)
<1>1. /\ InUser(t) /\ s \in live /\ live' = live /\ UNCHANGED <<wait, execution, serving, bug>>
      /\ pc[t] = "user" /\ wait[t] = NULL /\ stage[Fid[t]] = "up" /\ pc[t] \notin InCall
      /\ UNCHANGED <<signal, pc>>
  BY DEF swoop, InUser, calls, InCall, Again, thread
<1>2. PICK n : /\ Deeper(t, s) /\ Take(t, s, n)
               /\ \/ lock_pid[s] = t /\ n = lock_count[s] + 1
                  \/ lock_pid[s] = NULL /\ ~LentPast(t, s) /\ n = 1
  BY DEF swoop, Again
<1> QED
  BY <1>1, <1>2, DeeperLocking

LEMMA PrevailWokenLocking ==
  ASSUME LockInv, DepthTyped, NEW t \in Threads, prevail_woken(t)
  PROVE  Locking(t)
<1>1. /\ pc[t] = "prevail" /\ live' = live /\ UNCHANGED <<wait, execution, serving, bug>>
      /\ wait[t] = NULL /\ pc[t] \notin InCall
  BY DEF prevail_woken, calls, InCall, LockInv, Placed
<1>2. CASE ToUser(t) /\ UNCHANGED <<lock, depth>>
  <2>1. pc'[t] \notin InCall /\ (signal'[t] => stage[Fid[t]] # "up")
    BY <1>2 DEF ToUser, InCall, LockInv, Typed, ThreadTyped
  <2> QED
    BY <1>1, <1>2, <2>1, IdleLocking
<1>3. CASE ~signal[t] /\ on[t] \in live /\ PrevailTest(t, on[t])
  <2>1. stage[Fid[t]] = "up"
    BY <1>1, <1>3 DEF LockInv, Exited
  <2> QED
    BY <1>1, <1>3, <2>1, PrevailTestLocking
<1> QED
  BY <1>2, <1>3 DEF prevail_woken

LEMMA DismissLocking ==
  ASSUME LockInv, DepthTyped, NEW t \in Threads, NEW s \in Skirmishes, dismiss(t, s)
  PROVE  Locking(t)
<1>1. /\ InUser(t) /\ s \in live /\ live' = live
      /\ UNCHANGED <<wait, execution, serving, bug, lent, pc, signal>>
      /\ pc[t] = "user" /\ wait[t] = NULL /\ stage[Fid[t]] = "up" /\ pc[t] \notin InCall
      /\ lock_pid[s] = t
  BY DEF dismiss, InUser, calls, InCall
<1>2. depth[t][s] - 1 \in Int /\ depth' = [depth EXCEPT ![t][s] = depth[t][s] - 1]
  BY DEF dismiss, DepthTyped
<1>3. /\ depth' \in [Threads -> [Skirmishes -> Int]]
      /\ \A u \in Threads \ {t} : depth'[u] = depth[u]
      /\ \A r \in Skirmishes : depth'[t][r] = IF r = s THEN depth[t][s] - 1 ELSE depth[t][r]
  BY <1>2, SetDepth
<1>4. /\ lock_count'[s] = lock_count[s] - 1
      /\ lock_pid'[s] = IF lock_count[s] = 1 THEN NULL ELSE t
      /\ \A r \in Skirmishes \ {s} : lock_pid'[r] = lock_pid[r] /\ lock_count'[r] = lock_count[r]
  BY <1>1 DEF dismiss, LockInv, Typed, LockTyped
<1>5. Accounted(t, s)
  BY <1>1, <1>3, <1>4 DEF Accounted
<1>6. \A r \in Skirmishes \ {s} : Accounted(t, r)
  BY <1>1, <1>3, <1>4 DEF Accounted, Waited
<1>7. live \subseteq Skirmishes /\ \A r \in Skirmishes \ live : depth'[t][r] = depth[t][r]
  BY <1>1, <1>3 DEF LockInv, Typed
<1> QED
  BY <1>1, <1>3, <1>5, <1>6, <1>7 DEF Locking

LEMMA DestroyLocking ==
  ASSUME LockInv, DepthTyped, NEW t \in Threads, NEW s \in Skirmishes, destroy(t, s)
  PROVE  Locking(t)
<1>1. /\ InUser(t) /\ s \in live /\ live' = live \ {s}
      /\ UNCHANGED <<wait, execution, serving, bug, lent, pc, signal>>
      /\ pc[t] = "user" /\ wait[t] = NULL /\ stage[Fid[t]] = "up" /\ pc[t] \notin InCall
      /\ lock_pid[s] = t
  BY DEF destroy, InUser, calls, InCall
<1>2. /\ depth' \in [Threads -> [Skirmishes -> Int]]
      /\ \A u \in Threads \ {t} : depth'[u] = depth[u]
      /\ \A r \in Skirmishes : depth'[t][r] = IF r = s THEN 0 ELSE depth[t][r]
  <2>1. PICK d \in Int : d = 0
    OBVIOUS
  <2>2. depth' = [depth EXCEPT ![t][s] = d]
    BY <2>1 DEF destroy
  <2> QED
    BY <2>1, <2>2, SetDepth
<1>3. \A r \in Skirmishes \ {s} : lock_pid'[r] = lock_pid[r] /\ lock_count'[r] = lock_count[r]
  BY DEF destroy, LockInv, Typed, LockTyped
<1>4. \A r \in Skirmishes \ {s} : Accounted(t, r)
  BY <1>1, <1>2, <1>3 DEF Accounted, Waited
<1>5. live \subseteq Skirmishes
  BY DEF LockInv, Typed
<1> QED
  BY <1>1, <1>2, <1>4, <1>5 DEF Locking

LEMMA WaitLocking ==
  ASSUME LockInv, DepthTyped, NEW t \in Threads, NEW s \in Skirmishes, wait_(t, s)
  PROVE  Locking(t)
<1>1. /\ InUser(t) /\ s \in live \cap Cond /\ live' = live
      /\ UNCHANGED <<execution, serving, bug, lent, signal, depth>>
      /\ pc[t] = "user" /\ wait[t] = NULL /\ pc[t] \notin InCall
      /\ lock_pid[s] = t
  BY DEF wait_, InUser, calls, InCall
<1>2. /\ pc'[t] \notin InCall
      /\ wait'[t] = [s |-> s, lock_count |-> lock_count[s], notify_count |-> notify_count[s]]
  BY DEF wait_, InCall, LockInv, Typed, ThreadTyped
<1>3. wait'[t] # NULL
  <2>1. lock_count[s] \in 1 .. MaxDepth
    BY <1>1, NullFacts, BoundAssumption DEF LockInv, Held, Typed, LockTyped
  <2>2. wait'[t] \in WaitType
    BY <1>2, <2>1 DEF WaitType, LockInv, Typed
  <2> QED
    BY <2>2, NullFacts
<1>4. /\ lock_pid'[s] = NULL
      /\ \A r \in Skirmishes \ {s} : lock_pid'[r] = lock_pid[r] /\ lock_count'[r] = lock_count[r]
  BY DEF wait_, LockInv, Typed, LockTyped
<1>5. wait'[t].s = s /\ Waited(t, s)' = lock_count[s]
      /\ \A r \in Skirmishes \ {s} : Waited(t, r)' = 0 /\ Waited(t, r) = 0
  BY <1>1, <1>2, <1>3 DEF Waited
<1>6. Accounted(t, s)
  BY <1>1, <1>4, <1>5 DEF Accounted
<1>7. \A r \in Skirmishes \ {s} : Accounted(t, r)
  BY <1>1, <1>4, <1>5 DEF Accounted
<1>8. live \subseteq Skirmishes
  BY DEF LockInv, Typed
<1> QED
  BY <1>1, <1>2, <1>5, <1>6, <1>7, <1>8, SameDepth DEF Locking

LEMMA NotifyLocking ==
  ASSUME LockInv, DepthTyped, NEW t \in Threads, NEW s \in Skirmishes, notify_(t, s)
  PROVE  Locking(t)
BY IdleLocking DEF notify_, InUser, calls, InCall

LEMMA WaitTestLocking ==
  ASSUME LockInv, DepthTyped, NEW t \in Threads, NEW s \in live, NEW timeout,
         WaitTest(t, s, timeout), UNCHANGED <<live, depth, execution, serving, bug>>,
         wait[t] # NULL, wait[t].s = s, pc[t] \notin InCall
  PROVE  Locking(t)
<1>1. CASE (SleepOn(t, "wait", s) \/ SleepOn(t, "relock", s)) /\ UNCHANGED <<lock, wait, signal>>
  <2>1. pc'[t] \notin InCall
    BY <1>1 DEF SleepOn, InCall, LockInv, Typed, ThreadTyped
  <2> QED
    BY <1>1, <2>1, IdleLocking
<1>2. CASE /\ lock_pid[s] = NULL /\ Relock(t, s)
           /\ wait' = [wait EXCEPT ![t] = NULL]
           /\ ToUser(t)
  <2>1. /\ pc'[t] \notin InCall /\ wait'[t] = NULL /\ (signal'[t] => stage[Fid[t]] # "up")
    BY <1>2 DEF ToUser, InCall, LockInv, Typed, ThreadTyped
  <2>2. s \in Skirmishes /\ live \subseteq Skirmishes
    BY DEF LockInv, Typed
  <2>3. /\ lock_pid'[s] = t /\ lock_count'[s] = Waited(t, s) /\ lent' = lent
        /\ \A r \in Skirmishes \ {s} : lock_pid'[r] = lock_pid[r] /\ lock_count'[r] = lock_count[r]
    BY <1>2, <2>2 DEF Relock, Take, LockInv, Typed, LockTyped, Waited
  <2>4. \A r \in Skirmishes \ {s} : Waited(t, r)' = 0 /\ Waited(t, r) = 0
    BY <2>1 DEF Waited
  <2>5. Accounted(t, s)
    BY <1>2, <2>1, <2>3 DEF Accounted
  <2>6. \A r \in Skirmishes \ {s} : Accounted(t, r)
    BY <2>3, <2>4 DEF Accounted
  <2> QED
    BY <2>1, <2>2, <2>3, <2>5, <2>6, SameDepth DEF Locking
<1> QED
  BY <1>1, <1>2 DEF WaitTest

\* What t waited for has been destroyed.
LEMMA WaitGoneLocking ==
  ASSUME LockInv, DepthTyped, NEW t \in Threads, WaitGone(t),
         UNCHANGED <<live, execution, serving, bug>>,
         wait[t] # NULL, wait[t].s \notin live, pc[t] \notin InCall
  PROVE  Locking(t)
<1>1. PICK s \in Skirmishes : s = wait[t].s /\ s \notin live
  BY DEF LockInv, Typed, ThreadTyped, WaitType
<1>2. /\ pc'[t] \notin InCall /\ wait'[t] = NULL /\ (signal'[t] => stage[Fid[t]] # "up")
      /\ UNCHANGED lock
  BY DEF WaitGone, ToUser, InCall, LockInv, Typed, ThreadTyped
<1>3. /\ depth' \in [Threads -> [Skirmishes -> Int]]
      /\ \A u \in Threads \ {t} : depth'[u] = depth[u]
      /\ \A r \in Skirmishes : depth'[t][r] = IF r = s THEN 0 ELSE depth[t][r]
  <2>1. PICK d \in Int : d = 0
    OBVIOUS
  <2>2. depth' = [depth EXCEPT ![t][s] = d]
    BY <1>1, <2>1 DEF WaitGone
  <2> QED
    BY <2>1, <2>2, SetDepth
<1>4. \A r \in Skirmishes \ {s} : Accounted(t, r)
  BY <1>1, <1>2, <1>3 DEF Accounted, Waited, lock
<1>5. live \subseteq Skirmishes
  BY DEF LockInv, Typed
<1> QED
  BY <1>1, <1>2, <1>3, <1>4, <1>5 DEF Locking, lock

LEMMA WaitsLocking ==
  ASSUME LockInv, DepthTyped, NEW t \in Threads, wait_woken(t) \/ wait_timeout(t) \/ wait_resume(t)
  PROVE  Locking(t)
<1>1. /\ wait[t] # NULL /\ pc[t] \notin InCall /\ UNCHANGED <<live, execution, serving, bug>>
      /\ pc[t] \in {"wait", "relock"} => wait[t].s = on[t]
  BY DEF wait_woken, wait_timeout, wait_resume, calls, InCall, LockInv, Placed
<1>2. CASE ToUser(t) /\ UNCHANGED <<lock, wait, depth>>
  <2>1. pc'[t] \notin InCall /\ (signal'[t] => stage[Fid[t]] # "up")
    BY <1>2 DEF ToUser, InCall, LockInv, Typed, ThreadTyped
  <2> QED
    BY <1>1, <1>2, <2>1, IdleLocking
<1>3. CASE wait[t].s \notin live /\ WaitGone(t)
  BY <1>1, <1>3, WaitGoneLocking
<1>4. CASE \E b : wait[t].s \in live /\ UNCHANGED depth /\ WaitTest(t, wait[t].s, b)
  BY <1>1, <1>4, WaitTestLocking
<1>5. CASE wait_woken(t)
  BY <1>1, <1>2, <1>3, <1>4, <1>5 DEF wait_woken
<1>6. CASE wait_timeout(t)
  BY <1>1, <1>2, <1>3, <1>4, <1>6 DEF wait_timeout
<1>7. CASE wait_resume(t)
  BY <1>1, <1>2, <1>3, <1>4, <1>7 DEF wait_resume
<1> QED
  BY <1>5, <1>6, <1>7

\* The steps of a thread other than its calls, its signals and its exit
LockingStep(t) ==
  \/ \E s \in Skirmishes :
       prevail(t, s) \/ swoop(t, s) \/ dismiss(t, s) \/ destroy(t, s)
         \/ wait_(t, s) \/ notify_(t, s)
  \/ prevail_woken(t) \/ wait_woken(t) \/ wait_timeout(t) \/ wait_resume(t)

LEMMA AllLocking ==
  ASSUME LockInv, DepthTyped, NEW t \in Threads, LockingStep(t)
  PROVE  Locking(t)
BY PrevailLocking, SwoopLocking, DismissLocking, DestroyLocking, WaitLocking, NotifyLocking,
   PrevailWokenLocking, WaitsLocking DEF LockingStep

\* A thread that lends something is in its call, if it is alive.
LEMMA LenderInCall ==
  ASSUME LockInv, LentToCallee, NEW s \in live, lent[s] # NULL
  PROVE  /\ lent[s] \in LoanType /\ lent[s].from \in Threads /\ lent[s].to \in Servers
         /\ lent[s].count \in Nat \ {0}
         /\ stage[Fid[lent[s].from]] = "up" => pc[lent[s].from] = "call"
<1>1. lent[s] \in LoanType
  BY DEF LockInv, Typed, LockTyped
<1>2. lent[s].count \in Nat \ {0} /\ lent[s].from \in Threads /\ lent[s].to \in Servers
  BY <1>1, BoundAssumption DEF LoanType
<1> QED
  BY <1>1, <1>2 DEF LentToCallee

LEMMA LockCounts ==
  ASSUME LockInv
  PROVE  /\ \A s \in Skirmishes : lock_count[s] \in Nat
         /\ \A s \in Skirmishes, t \in Threads : lock_pid[s] = t => lock_count[s] >= 1
<1>1. \A s \in Skirmishes : lock_count[s] \in Nat
  BY BoundAssumption DEF LockInv, Typed, LockTyped
<1>2. \A s \in Skirmishes, t \in Threads : lock_pid[s] = t => lock_count[s] # 0
  BY NullFacts DEF LockInv, Held
<1> QED
  BY <1>1, <1>2

LEMMA WaitedNat ==
  ASSUME Typed
  PROVE  \A t \in Threads, s \in Skirmishes : Waited(t, s) \in Nat
<1>1. ASSUME NEW t \in Threads, wait[t] # NULL PROVE wait[t].lock_count \in Nat
  <2>1. wait[t] \in WaitType
    BY <1>1 DEF Typed, ThreadTyped
  <2> QED
    BY <2>1, BoundAssumption DEF WaitType
<1> QED
  BY <1>1 DEF Waited

\* The others see of a locking step what the driver lets them.
LEMMA OthersLocks ==
  ASSUME NEW t \in Threads, NEW u \in Threads, u # t, NEW s, Accounted(t, s)
  PROVE  /\ lock_pid'[s] = u <=> lock_pid[s] = u
         /\ lock_pid[s] = u => lock_count'[s] = lock_count[s]
BY NullFacts DEF Accounted

LEMMA LockingLoans ==
  ASSUME LockInv, LoanInv, Orderly, NEW t \in Threads, Good(t), Locking(t)
  PROVE  LoanInv'
<1>0. /\ live' \subseteq live /\ live \subseteq Skirmishes /\ stage' = stage /\ lent' = lent
      /\ \A u \in Threads \ {t} : pc'[u] = pc[u] /\ on'[u] = on[u] /\ wait'[u] = wait[u]
                                  /\ signal'[u] = signal[u] /\ depth'[u] = depth[u]
  BY DEF LockInv, Typed, Good, StepOf, Still, Locking
<1>1. \A u \in Threads, s \in Skirmishes : depth[u][s] \in Nat
  BY DEF LoanInv, DepthTyped
<1>2. \A s \in live' : Accounted(t, s)
  BY DEF Locking
<1>3. ASSUME NEW s \in live', stage[Fid[t]] = "up"
      PROVE  lent[s] # NULL => lent[s].from # t
  BY <1>0, <1>3, LenderInCall DEF LoanInv, Locking, InCall
<1>4. ASSUME NEW s \in live', stage[Fid[t]] = "up"
      PROVE  /\ KnownAt(t, s)' /\ depth'[t][s] \in Nat
  <2>1. /\ lock_pid[s] = t => depth[t][s] >= lock_count[s]
        /\ depth[t][s] >= Waited(t, s)
    BY <1>0, <1>4 DEF LoanInv, Known, KnownAt
  <2>2. PICK d \in Nat, n \in Nat, w \in Nat :
          /\ d = depth[t][s] /\ n = lock_count[s] /\ w = Waited(t, s)
          /\ lock_pid[s] = t => n >= 1
    BY <1>0, <1>1, <1>4, LockCounts, WaitedNat DEF LockInv
  <2>3. \A k : Waited(t, s)' = k /\ wait'[t] = NULL => k = 0
    BY DEF Waited
  <2>4. ~(lent'[s] # NULL /\ lent'[s].from = t)
    BY <1>0, <1>3, <1>4
  <2>5. depth'[t][s] \in Nat /\ (lock_pid'[s] = t => depth'[t][s] >= lock_count'[s])
    BY <1>2, <1>4, <2>1, <2>2, NullFacts DEF Accounted
  <2>6. depth'[t][s] >= Waited(t, s)'
    BY <1>2, <1>4, <2>1, <2>2, <2>3, <2>5, NullFacts DEF Accounted
  <2> QED
    BY <2>4, <2>5, <2>6 DEF KnownAt
<1>5. DepthTyped'
  <2>1. depth' \in [Threads -> [Skirmishes -> Int]]
    BY DEF Locking
  <2>2. ASSUME NEW s \in Skirmishes PROVE depth'[t][s] \in Nat
    <3>1. CASE s \notin live'
      BY <1>1, <3>1 DEF Locking
    <3>2. CASE s \in live' /\ stage[Fid[t]] = "up"
      BY <1>4, <3>2
    <3>3. CASE s \in live' /\ stage[Fid[t]] # "up"
      BY <1>1, <1>2, <3>3 DEF Accounted
    <3> QED
      BY <3>1, <3>2, <3>3
  <2>3. \A u \in Threads, s \in Skirmishes : depth'[u][s] \in Nat
    BY <1>0, <1>1, <2>2
  <2>4. \A u \in Threads : depth'[u] \in [Skirmishes -> Nat]
    BY <2>1, <2>3
  <2> QED
    BY <2>1, <2>4 DEF DepthTyped
<1>6. Known'
  <2>1. ASSUME NEW u \in Threads, u # t, NEW s \in live', stage[Fid[u]] = "up" PROVE KnownAt(u, s)'
    <3>1. KnownAt(u, s)
      BY <1>0, <2>1 DEF LoanInv, Known
    <3>2. Waited(u, s)' = Waited(u, s)
      BY <1>0, <2>1 DEF Waited
    <3>3. /\ lock_pid'[s] = u <=> lock_pid[s] = u
          /\ lock_pid[s] = u => lock_count'[s] = lock_count[s]
      BY <1>2, <2>1, OthersLocks
    <3> QED
      BY <1>0, <2>1, <3>1, <3>2, <3>3 DEF KnownAt
  <2> QED
    BY <1>0, <1>4, <2>1 DEF Known
<1>7. LentOut'
  <2>1. \A u \in Threads : pc'[u] \in InCall => u # t /\ pc[u] = pc'[u]
    BY <1>0 DEF Locking
  <2>2. \A u \in Threads : pc'[u] \in InCall => u \in Callers
    BY <2>1 DEF LoanInv, LentOut
  <2>3. \A u \in Threads : pc'[u] = "send" => \A s \in live' : lock_pid'[s] = u => s \in Lend
    BY <1>0, <1>2, <2>1, OthersLocks DEF LoanInv, LentOut, InCall
  <2>4. \A s \in live' : lent'[s] # NULL => s \in Lend /\ lent'[s].from \in Callers
    BY <1>0 DEF LoanInv, LentOut
  <2>5. \A u \in Threads : wait'[u] # NULL => wait'[u].s \in Cond
    BY <1>0 DEF LoanInv, LentOut, Locking
  <2>6. \A u \in Threads : signal'[u] => u \in Interrupted \/ stage'[Fid[u]] # "up"
    BY <1>0 DEF LoanInv, LentOut, Locking
  <2> QED
    BY <2>2, <2>3, <2>4, <2>5, <2>6 DEF LentOut
<1>8. LentToCallee'
  <2>1. ASSUME NEW s \in live', lent[s] # NULL
        PROVE  /\ lock_pid'[s] \in {NULL, Dispatcher[lent[s].to]}
               /\ \/ pc'[lent[s].from] = "call" /\ execution'[on'[lent[s].from]].call = lent[s].to
                  \/ stage[Fid[lent[s].from]] \notin {"up", "gone"}
    <3>1. /\ lock_pid[s] \in {NULL, Dispatcher[lent[s].to]}
          /\ \/ pc[lent[s].from] = "call" /\ execution[on[lent[s].from]].call = lent[s].to
             \/ stage[Fid[lent[s].from]] \notin {"up", "gone"}
      BY <1>0, <2>1 DEF LoanInv, LentToCallee
    <3>2. lent[s].from \in Threads /\ lent[s].to \in Servers
      BY <1>0, <2>1, LenderInCall DEF LoanInv
    <3>3. ~LentPast(t, s) => t = Dispatcher[lent[s].to]
      BY <2>1, <3>2, NullFacts DEF LentPast, DispatcherPid, LockInv, Dispatched
    <3>4. wait[t] # NULL => wait[t].s # s
      BY <1>0, <2>1 DEF LoanInv, LentOut, Orderly
    <3>5. lock_pid'[s] \in {NULL, Dispatcher[lent[s].to]}
      BY <1>2, <2>1, <3>1, <3>3, <3>4, NullFacts DEF Accounted
    <3>6. \/ pc'[lent[s].from] = "call" /\ execution'[on'[lent[s].from]].call = lent[s].to
          \/ stage[Fid[lent[s].from]] \notin {"up", "gone"}
      BY <1>0, <3>1, <3>2 DEF Locking, InCall
    <3> QED
      BY <3>5, <3>6
  <2> QED
    BY <1>0, <2>1 DEF LentToCallee
<1>9. NoBug'
  BY DEF LoanInv, NoBug, Locking
<1> QED
  BY <1>5, <1>6, <1>7, <1>8, <1>9 DEF LoanInv

\* Steps that give nobody anything: what a thread loses of its locks and loans
\* it loses by dying.
Kept ==
  /\ live' = live /\ bug' = bug /\ DepthTyped'
  /\ \A s \in live :
       /\ \/ lock_pid'[s] = lock_pid[s] /\ (lock_pid[s] # NULL => lock_count'[s] = lock_count[s])
          \/ lock_pid'[s] = NULL /\ stage'[Fid[lock_pid[s]]] # "up"
       /\ \/ lent'[s] = lent[s]
          \/ lent'[s] = NULL /\ stage'[Fid[lent[s].from]] # "up"
  /\ \A u \in Threads :
       /\ stage'[Fid[u]] = "up" => stage[Fid[u]] = "up" /\ depth'[u] = depth[u] /\ wait'[u] = wait[u]
       /\ wait'[u] \in {wait[u], NULL}
       /\ signal'[u] => signal[u] \/ u \in Interrupted \/ stage'[Fid[u]] # "up"
       /\ pc'[u] \in InCall =>
            pc'[u] = pc[u] \/ (u \in Callers /\ \A s \in live : lock_pid[s] = u => s \in Lend)
       /\ pc[u] = "call" =>
            stage[Fid[u]] # "up" \/ (pc'[u] = "call" /\ execution'[on'[u]].call = execution[on[u]].call)

LEMMA KeptLoans ==
  ASSUME LockInv, LockInv', LoanInv, Kept
  PROVE  LoanInv'
<1>1. \A s \in live' :
        /\ s \in live
        /\ lock_pid'[s] # NULL => lock_pid'[s] = lock_pid[s] /\ lock_count'[s] = lock_count[s]
        /\ lent'[s] # NULL => lent'[s] = lent[s]
  BY DEF Kept
<1>2. LentOut'
  <2>1. \A u \in Threads : pc'[u] \in InCall => u \in Callers
    BY DEF LoanInv, LentOut, Kept
  <2>2. \A u \in Threads : pc'[u] = "send" => \A s \in live' : lock_pid'[s] = u => s \in Lend
    BY <1>1, NullFacts DEF LoanInv, LentOut, Kept, InCall
  <2>3. \A s \in live' : lent'[s] # NULL => s \in Lend /\ lent'[s].from \in Callers
    BY <1>1 DEF LoanInv, LentOut
  <2>4. \A u \in Threads : wait'[u] # NULL => wait'[u].s \in Cond
    BY DEF LoanInv, LentOut, Kept
  <2>5. \A u \in Threads : signal'[u] => u \in Interrupted \/ stage'[Fid[u]] # "up"
    BY DEF LoanInv, LentOut, Kept
  <2> QED
    BY <2>1, <2>2, <2>3, <2>4, <2>5 DEF LentOut
<1>3. Known'
  <2>1. ASSUME NEW u \in Threads, NEW s \in live', stage'[Fid[u]] = "up" PROVE KnownAt(u, s)'
    <3>1. KnownAt(u, s) /\ depth'[u] = depth[u] /\ wait'[u] = wait[u]
      BY <1>1, <2>1 DEF LoanInv, Known, Kept
    <3>2. Waited(u, s)' = Waited(u, s)
      BY <3>1 DEF Waited
    <3> QED
      BY <1>1, <2>1, <3>1, <3>2, NullFacts DEF KnownAt
  <2> QED
    BY <2>1 DEF Known
<1>4. LentToCallee'
  <2>1. ASSUME NEW s \in live', lent'[s] # NULL
        PROVE  /\ lock_pid'[s] \in {NULL, Dispatcher[lent'[s].to]}
               /\ \/ pc'[lent'[s].from] = "call" /\ execution'[on'[lent'[s].from]].call = lent'[s].to
                  \/ stage'[Fid[lent'[s].from]] \notin {"up", "gone"}
    <3>1. lent'[s] = lent[s] /\ s \in live
      BY <1>1, <2>1
    <3>2. /\ lock_pid[s] \in {NULL, Dispatcher[lent[s].to]}
          /\ \/ pc[lent[s].from] = "call" /\ execution[on[lent[s].from]].call = lent[s].to
             \/ stage[Fid[lent[s].from]] \notin {"up", "gone"}
      BY <2>1, <3>1 DEF LoanInv, LentToCallee
    <3>3. lent[s].from \in Threads
      BY <2>1, <3>1, LenderInCall DEF LoanInv
    <3>4. stage'[Fid[lent[s].from]] # "gone"
      BY <2>1, <3>1 DEF LockInv, GoneLocks
    <3> QED
      BY <1>1, <2>1, <3>1, <3>2, <3>3, <3>4 DEF Kept
  <2> QED
    BY <2>1 DEF LentToCallee
<1>5. NoBug' /\ DepthTyped'
  BY DEF LoanInv, NoBug, Kept
<1> QED
  BY <1>2, <1>3, <1>4, <1>5 DEF LoanInv

LEMMA ExecuteKept ==
  ASSUME LockInv, CallInv, LoanInv, NEW t \in Threads, NEW f \in Servers, NEW n \in Calls,
         execute(t, f, n)
  PROVE  Kept
<1>1. /\ t \in Callers /\ pc[t] = "user" /\ stage[Fid[t]] = "up" /\ execution[n] = NULL
      /\ UNCHANGED <<live, lock_pid, lock_count, lent, signal, wait, stage, depth, bug>>
      /\ \A s \in live : depth[t][s] > 0 => s \in Lend
  BY DEF execute, InUser, lock
<1>2. /\ pc'[t] = "send" /\ \A u \in Threads \ {t} : pc'[u] = pc[u] /\ on'[u] = on[u]
      /\ \A k \in Calls \ {n} : execution'[k] = execution[k]
  BY DEF execute, LockInv, Typed, ThreadTyped, CallTyped
<1>3. \A u \in Threads : pc[u] = "call" => u # t /\ on[u] \in Calls \ {n}
  BY <1>1 DEF CallInv, Calling, InCall
<1>4. \A s \in live : lock_pid[s] = t => s \in Lend
  <2>1. ASSUME NEW s \in live, lock_pid[s] = t PROVE depth[t][s] > 0
    <3>1. s \in Skirmishes /\ depth[t][s] \in Nat /\ depth[t][s] >= lock_count[s]
      BY <1>1, <2>1 DEF LoanInv, DepthTyped, Known, KnownAt, LockInv, Typed
    <3>2. lock_count[s] \in Nat /\ lock_count[s] >= 1
      BY <2>1, <3>1, LockCounts
    <3> QED
      BY <3>1, <3>2
  <2> QED
    BY <1>1, <2>1
<1>5. DepthTyped'
  BY <1>1 DEF LoanInv, DepthTyped
<1> QED
  BY <1>1, <1>2, <1>3, <1>4, <1>5 DEF Kept

LEMMA SignalKept ==
  ASSUME LockInv, LoanInv, NEW t \in Threads, Signal(t)
  PROVE  Kept
<1>1. /\ UNCHANGED <<live, lock_pid, lock_count, lent, pc, on, wait, execution, stage, depth, bug>>
      /\ t \in Interrupted /\ \A u \in Threads \ {t} : signal'[u] = signal[u]
  BY DEF Signal, lock, calls, LockInv, Typed, ThreadTyped
<1>2. DepthTyped'
  BY <1>1 DEF LoanInv, DepthTyped
<1> QED
  BY <1>1, <1>2 DEF Kept

LEMMA ExitKept ==
  ASSUME LockInv, LoanInv, NEW t \in Threads, Exit(t)
  PROVE  Kept
<1>1. /\ pc[t] \in {"user", "oops"} /\ Fid[t] \in Fusionees
      /\ UNCHANGED <<live, on, signal, execution, bug>>
      /\ pc'[t] \in {"exited", "oops"} /\ \A u \in Threads \ {t} : pc'[u] = pc[u]
      /\ wait'[t] = NULL /\ \A u \in Threads \ {t} : wait'[u] = wait[u]
  BY ThreadsAssumption DEF Exit, calls, LockInv, Typed, ThreadTyped
<1>2. DepthTyped' /\ \A u \in Threads \ {t} : depth'[u] = depth[u]
  BY DEF Exit, LoanInv, DepthTyped
<1>3. \/ stage' = [stage EXCEPT ![Fid[t]] = "flushed"] /\ Dismiss({t})
      \/ stage[Fid[t]] = "killed" /\ UNCHANGED <<stage, lock>>
  BY DEF Exit
<1>4. stage'[Fid[t]] # "up" /\ \A g \in Fusionees : stage'[g] = "up" => stage[g] = "up"
  BY <1>1, <1>3 DEF LockInv, Typed
<1>5. \A u \in Threads : stage'[Fid[u]] = "up" => stage[Fid[u]] = "up" /\ u # t
  BY <1>1, <1>4, ThreadsAssumption
<1>6. stage'[Fid[t]] # "up"
  BY <1>4
<1>7. \A s \in live :
        /\ \/ lock_pid'[s] = lock_pid[s] /\ (lock_pid[s] # NULL => lock_count'[s] = lock_count[s])
           \/ lock_pid'[s] = NULL /\ lock_pid[s] = t
        /\ \/ lent'[s] = lent[s]
           \/ lent'[s] = NULL /\ lent[s].from = t
  <2>1. CASE Dismiss({t})
    <3>1. PICK gone \in SUBSET Threads : gone = {t} /\ Dismiss(gone)
      BY <2>1
    <3>2. /\ \A s \in live :
               /\ lock_pid'[s] = IF lock_pid[s] \in gone THEN NULL ELSE lock_pid[s]
               /\ lent'[s] = IF lent[s] # NULL /\ lent[s].from \in gone THEN NULL ELSE lent[s]
          /\ \A s \in Skirmishes :
               lock_pid'[s] # NULL => lock_pid'[s] = lock_pid[s] /\ lock_count'[s] = lock_count[s]
      BY <3>1, DismissEffect DEF LockInv
    <3> QED
      BY <3>1, <3>2 DEF LockInv, Typed
  <2> QED
    BY <1>3, <2>1 DEF lock
<1> QED
  BY <1>1, <1>2, <1>5, <1>6, <1>7 DEF Kept, InCall

LEMMA DismissAllKept ==
  ASSUME LockInv, LoanInv, NEW f \in Fusionees, dismiss_all(f)
  PROVE  Kept
<1>1. /\ stage[f] = "uncalled" /\ UNCHANGED <<live, pc, on, signal, wait, execution, depth, bug>>
      /\ \A g \in Fusionees : stage'[g] = IF g = f THEN "gone" ELSE stage[g]
  BY DEF dismiss_all, calls, LockInv, Typed
<1>2. PICK gone \in SUBSET Threads : gone = {t \in Threads : Fid[t] = f} /\ Dismiss(gone)
  BY DEF dismiss_all
<1>3. /\ \A s \in live :
           /\ lock_pid'[s] = IF lock_pid[s] \in gone THEN NULL ELSE lock_pid[s]
           /\ lent'[s] = IF lent[s] # NULL /\ lent[s].from \in gone THEN NULL ELSE lent[s]
      /\ \A s \in Skirmishes :
           lock_pid'[s] # NULL => lock_pid'[s] = lock_pid[s] /\ lock_count'[s] = lock_count[s]
  BY <1>2, DismissEffect DEF LockInv
<1>4. \A u \in Threads : stage'[Fid[u]] = "up" => stage[Fid[u]] = "up"
  BY <1>1, ThreadsAssumption
<1>5. \A u \in gone : stage'[Fid[u]] # "up"
  BY <1>1, <1>2
<1>6. DepthTyped'
  BY <1>1 DEF LoanInv, DepthTyped
<1>7. \A s \in live :
        /\ \/ lock_pid'[s] = lock_pid[s] /\ (lock_pid[s] # NULL => lock_count'[s] = lock_count[s])
           \/ lock_pid'[s] = NULL /\ stage'[Fid[lock_pid[s]]] # "up"
        /\ \/ lent'[s] = lent[s]
           \/ lent'[s] = NULL /\ stage'[Fid[lent[s].from]] # "up"
  BY <1>3, <1>5 DEF LockInv, Typed
<1> QED
  BY <1>1, <1>4, <1>6, <1>7 DEF Kept

\* Where the dispatcher is before and after the two halves of a return
LEMMA ReturnMoves ==
  ASSUME LockInv, CallInv, NEW f \in Servers, call_return(f) \/ call_answer(f)
  PROVE  /\ UNCHANGED <<live, wait, depth>>
         /\ \A u \in Threads \ {Dispatcher[f]} : pc'[u] = pc[u]
         /\ \A u \in Threads : pc'[u] = pc[u] \/ (pc[u] \notin InCall /\ pc'[u] \notin InCall)
         /\ \/ /\ pc[Dispatcher[f]] = "user" /\ pc'[Dispatcher[f]] \in {"user", "return"}
               /\ wait[Dispatcher[f]] = NULL /\ \A s \in live : depth[Dispatcher[f]][s] = 0
            \/ pc[Dispatcher[f]] = "return" /\ pc'[Dispatcher[f]] \in {"user", "oops"}
<1>1. Dispatcher[f] \in Threads
  BY ThreadsAssumption DEF Servers
<1>2. pc \in [Threads -> Pcs]
  BY DEF LockInv, Typed, ThreadTyped, Pcs
<1>3. CASE call_return(f)
  BY <1>1, <1>2, <1>3 DEF call_return, InUser, InCall
<1>4. CASE call_answer(f)
  BY <1>1, <1>2, <1>4 DEF call_answer, InCall
<1> QED
  BY <1>3, <1>4

\* The fusionee's other steps leave skirmishes alone.
LEMMA FusioneeKept ==
  ASSUME LockInv, CallInv, LoanInv, NEW f \in Fusionees, FusioneeStep(f)
  PROVE  Kept
<1>1. CASE dismiss_all(f)
  BY <1>1, DismissAllKept
<1>2. CASE \/ f \in Servers /\ (get_messages(f) \/ call_return(f) \/ call_answer(f))
           \/ Kill(f) \/ fusionee_destroy(f) \/ call_destroy_all(f)
  <2>1. UNCHANGED <<live, lock_pid, lock_count, lent, on, wait, depth, bug>>
    BY <1>2 DEF get_messages, call_return, call_answer, Kill, fusionee_destroy, call_destroy_all,
                lock, thread
  <2>2. \A g \in Fusionees : stage'[g] = "up" => stage[g] = "up"
    BY <1>2 DEF get_messages, call_return, call_answer, Kill, fusionee_destroy, call_destroy_all,
                LockInv, Typed
  <2>3. \A u \in Threads : stage'[Fid[u]] = "up" => stage[Fid[u]] = "up"
    BY <2>2, ThreadsAssumption
  <2>4. \A u \in Threads : signal'[u] => signal[u] \/ stage'[Fid[u]] # "up"
    BY <1>2 DEF get_messages, call_return, call_answer, Kill, fusionee_destroy, call_destroy_all,
                LockInv, Typed
  <2>5. \A n \in Calls : execution[n] # NULL => execution'[n].call = execution[n].call
    <3>1. CASE f \in Servers /\ (call_return(f) \/ call_answer(f))
      BY <3>1, ReturnedExecution, HandledByReturn DEF CallInv
    <3>2. CASE call_destroy_all(f)
      BY <3>2, DestroyedExecutions DEF LockInv, Listed
    <3>3. CASE execution' = execution
      BY <3>3
    <3> QED
      BY <1>2, <3>1, <3>2, <3>3 DEF get_messages, Kill, fusionee_destroy, calls
  <2>6. DepthTyped'
    BY <2>1 DEF LoanInv, DepthTyped
  <2>7. \A u \in Threads : pc[u] = "call" => execution'[on[u]].call = execution[on[u]].call
    BY <2>5 DEF CallInv, Calling, InCall
  <2>8. \A u \in Threads : pc'[u] = pc[u] \/ (pc[u] \notin InCall /\ pc'[u] \notin InCall)
    <3>1. CASE f \in Servers /\ (call_return(f) \/ call_answer(f))
      BY <3>1, ReturnMoves
    <3>2. CASE pc' = pc
      BY <3>2
    <3> QED
      BY <1>2, <3>1, <3>2 DEF get_messages, Kill, fusionee_destroy, call_destroy_all, thread
  <2> QED
    BY <2>1, <2>3, <2>4, <2>6, <2>7, <2>8 DEF Kept, InCall
<1> QED
  BY <1>1, <1>2 DEF FusioneeStep

\* A caller that a signal takes out of its call is dying.
LEMMA GiveUpKept ==
  ASSUME LockInv, CallInv, LoanInv, Orderly, NEW t \in Threads, call_woken(t), signal[t]
  PROVE  Kept /\ stage[Fid[t]] # "up"
<1>1. /\ pc[t] = "call"
      /\ UNCHANGED <<live, lock_pid, lock_count, lent, wait, stage, depth, bug>>
      /\ pc'[t] = "user" /\ (signal'[t] => stage[Fid[t]] # "up")
      /\ \A u \in Threads \ {t} : pc'[u] = pc[u] /\ on'[u] = on[u] /\ signal'[u] = signal[u]
  BY DEF call_woken, ToUser, lock, LockInv, Typed, ThreadTyped
<1>2. stage[Fid[t]] # "up"
  BY <1>1 DEF LoanInv, LentOut, Orderly, InCall
<1>3. \A n \in Calls : execution[n] # NULL => execution'[n].call = execution[n].call
  BY CallWokenExecution DEF CallInv, LockInv
<1>4. \A u \in Threads \ {t} : pc[u] = "call" => execution'[on'[u]].call = execution[on[u]].call
  BY <1>1, <1>3 DEF CallInv, Calling, InCall
<1>5. DepthTyped'
  BY <1>1 DEF LoanInv, DepthTyped
<1> QED
  BY <1>1, <1>2, <1>4, <1>5 DEF Kept, InCall

\* Everything that t holds is lent to the callee.
LEMMA TransferLoans ==
  ASSUME LockInv, CallInv, LoanInv, Orderly, NEW t \in Threads, transfer_all(t)
  PROVE  LoanInv'
<1>1. /\ pc[t] = "send" /\ t \in Callers
      /\ UNCHANGED <<live, on, signal, wait, execution, stage, depth>>
      /\ pc'[t] = "call" /\ \A u \in Threads \ {t} : pc'[u] = pc[u]
      /\ live \subseteq Skirmishes
  BY DEF transfer_all, calls, LockInv, Typed, ThreadTyped, LoanInv, LentOut, InCall
<1>2. PICK to : to = execution[on[t]].call
  OBVIOUS
<1>3. \A s \in live :
        \/ /\ lock_pid[s] = t /\ lock_pid'[s] = NULL
           /\ lent'[s] # NULL /\ lent'[s].to = to
           /\ lent'[s].from = t /\ lent'[s].count = lock_count[s]
        \/ /\ lock_pid[s] # t
           /\ lock_pid'[s] = lock_pid[s] /\ lock_count'[s] = lock_count[s] /\ lent'[s] = lent[s]
  <2>1. \A s \in live : s \in HeldBy({t}) <=> lock_pid[s] = t
    BY DEF HeldBy
  <2> QED
    BY <1>1, <1>2, <2>1, TransferEffect DEF CallInv, LockInv
<1>4. \A s \in live : lent[s] # NULL => lock_pid[s] # t /\ lent[s].from \in Threads
  <2>1. ASSUME NEW s \in live, lent[s] # NULL PROVE lock_pid[s] # t /\ lent[s].from \in Threads
    <3>1. lock_pid[s] \in {NULL, Dispatcher[lent[s].to]} /\ lent[s].to \in Servers
          /\ lent[s].from \in Threads
      BY <2>1, LenderInCall DEF LoanInv, LentToCallee
    <3> QED
      BY <1>1, <3>1, NullFacts DEF Orderly
  <2> QED
    BY <2>1
<1>5. NoBug'
  BY <1>4 DEF transfer_all, HeldBy, NoBug, LoanInv
<1>6. LentOut'
  <2>1. \A u \in Threads : pc'[u] = "send" => u # t /\ pc[u] = "send"
    BY <1>1
  <2> QED
    BY <1>1, <1>3, <2>1, NullFacts DEF LoanInv, LentOut, InCall
<1>7. Known'
  <2>1. ASSUME NEW u \in Threads, NEW s \in live, stage[Fid[u]] = "up" PROVE KnownAt(u, s)'
    <3>1. KnownAt(u, s)
      BY <2>1 DEF LoanInv, Known
    <3>2. Waited(u, s)' = Waited(u, s)
      BY <1>1 DEF Waited
    <3> QED
      BY <1>1, <1>3, <2>1, <3>1, <3>2, NullFacts DEF KnownAt
  <2> QED
    BY <1>1, <2>1 DEF Known
<1>8. LentToCallee'
  <2>1. ASSUME NEW s \in live, lent'[s] # NULL
        PROVE  /\ lock_pid'[s] \in {NULL, Dispatcher[lent'[s].to]}
               /\ \/ pc'[lent'[s].from] = "call" /\ execution'[on'[lent'[s].from]].call = lent'[s].to
                  \/ stage'[Fid[lent'[s].from]] \notin {"up", "gone"}
    <3>1. CASE lock_pid[s] = t
      BY <1>1, <1>2, <1>3, <2>1, <3>1
    <3>2. CASE lock_pid[s] # t
      BY <1>1, <1>3, <1>4, <2>1, <3>2 DEF LoanInv, LentToCallee
    <3> QED
      BY <3>1, <3>2
  <2> QED
    BY <1>1, <2>1 DEF LentToCallee
<1>9. DepthTyped'
  BY <1>1 DEF LoanInv, DepthTyped
<1> QED
  BY <1>5, <1>6, <1>7, <1>8, <1>9 DEF LoanInv

\* What reclaim_all() does, and what else happens when a call has been answered
LEMMA ReclaimForm ==
  ASSUME LockInv, CallInv, NEW t \in Threads, call_woken(t), ~signal[t]
  PROVE  /\ pc[t] = "call" /\ ~asleep[t]
         /\ UNCHANGED <<live, wait, serving, stage, depth, bug>>
         /\ pc'[t] = "user" /\ (signal'[t] => stage[Fid[t]] # "up")
         /\ \A u \in Threads \ {t} : pc'[u] = pc[u] /\ on'[u] = on[u] /\ signal'[u] = signal[u]
         /\ \A n \in Calls : execution[n] # NULL =>
              execution'[n].call = execution[n].call /\ execution'[n].caller = execution[n].caller
         /\ \A n \in Calls : execution'[n] # NULL => execution[n] # NULL
         /\ \A s \in live :
              \/ /\ lent[s] # NULL /\ lent[s].from = t
                 /\ lock_pid'[s] = t /\ lock_count'[s] = lent[s].count /\ lent'[s] = NULL
              \/ /\ ~(lent[s] # NULL /\ lent[s].from = t)
                 /\ lock_pid'[s] = lock_pid[s] /\ lock_count'[s] = lock_count[s] /\ lent'[s] = lent[s]
<1>1. /\ pc[t] = "call" /\ ~asleep[t] /\ reclaim_all(t)
      /\ UNCHANGED <<live, wait, serving, stage, depth, bug>>
      /\ pc'[t] = "user" /\ (signal'[t] => stage[Fid[t]] # "up")
      /\ \A u \in Threads \ {t} : pc'[u] = pc[u] /\ on'[u] = on[u] /\ signal'[u] = signal[u]
  BY DEF call_woken, ToUser, LockInv, Typed, ThreadTyped
<1>2. /\ \A n \in Calls : execution[n] # NULL =>
           execution'[n].call = execution[n].call /\ execution'[n].caller = execution[n].caller
      /\ \A n \in Calls : execution'[n] # NULL => execution[n] # NULL
  BY CallWokenExecution, NullFacts DEF CallInv, LockInv
<1>3. live \subseteq Skirmishes /\ \A s \in live : s \in LentBy({t}) <=> lent[s] # NULL /\ lent[s].from = t
  BY DEF LentBy, LockInv, Typed
<1>4. \A s \in live :
              \/ /\ lent[s] # NULL /\ lent[s].from = t
                 /\ lock_pid'[s] = t /\ lock_count'[s] = lent[s].count /\ lent'[s] = NULL
              \/ /\ ~(lent[s] # NULL /\ lent[s].from = t)
                 /\ lock_pid'[s] = lock_pid[s] /\ lock_count'[s] = lock_count[s] /\ lent'[s] = lent[s]
  BY <1>1, <1>3, ReclaimEffect DEF LockInv
<1> QED
  BY <1>1, <1>2, <1>4

LEMMA ReclaimLoans ==
  ASSUME LockInv, CallInv, LoanInv, NEW t \in Threads, call_woken(t), ~signal[t]
  PROVE  LoanInv'
<1>1. /\ pc[t] = "call" /\ UNCHANGED <<live, wait, stage, depth, bug>>
      /\ pc'[t] = "user" /\ (signal'[t] => stage[Fid[t]] # "up")
      /\ \A u \in Threads \ {t} : pc'[u] = pc[u] /\ on'[u] = on[u] /\ signal'[u] = signal[u]
  BY ReclaimForm
<1>2. \A u \in Threads \ {t} : pc[u] = "call" => execution'[on[u]].call = execution[on[u]].call
  BY ReclaimForm DEF CallInv, Calling, InCall
<1>3. \A s \in live :
        \/ /\ lent[s] # NULL /\ lent[s].from = t
           /\ lock_pid'[s] = t /\ lock_count'[s] = lent[s].count /\ lent'[s] = NULL
        \/ /\ ~(lent[s] # NULL /\ lent[s].from = t)
           /\ lock_pid'[s] = lock_pid[s] /\ lock_count'[s] = lock_count[s] /\ lent'[s] = lent[s]
  BY ReclaimForm
<1>4. \A s \in live : lent[s] # NULL => lent[s].from \in Threads
  BY LenderInCall DEF LoanInv
<1>5. LentOut'
  <2>1. \A u \in Threads : pc'[u] \in InCall => u # t /\ pc[u] = pc'[u]
    BY <1>1 DEF InCall
  <2>2. \A u \in Threads : pc'[u] = "send" => \A s \in live' : lock_pid'[s] = u => s \in Lend
    BY <1>1, <1>3, <2>1 DEF LoanInv, LentOut, InCall
  <2> QED
    BY <1>1, <1>3, <2>1, <2>2 DEF LoanInv, LentOut
<1>6. Known'
  <2>1. ASSUME NEW u \in Threads, NEW s \in live, stage[Fid[u]] = "up" PROVE KnownAt(u, s)'
    <3>1. KnownAt(u, s)
      BY <2>1 DEF LoanInv, Known
    <3>2. Waited(u, s)' = Waited(u, s)
      BY <1>1 DEF Waited
    <3> QED
      BY <1>1, <1>3, <2>1, <3>1, <3>2, NullFacts DEF KnownAt
  <2> QED
    BY <1>1, <2>1 DEF Known
<1>7. LentToCallee'
  BY <1>1, <1>2, <1>3, <1>4 DEF LoanInv, LentToCallee
<1>8. NoBug' /\ DepthTyped'
  BY <1>1 DEF LoanInv, NoBug, DepthTyped
<1> QED
  BY <1>5, <1>6, <1>7, <1>8 DEF LoanInv

\* The same steps move dispatchers and executions on only as calls do.
Resting(f) ==
  LET u == Dispatcher[f] IN
  pc[u] \in {"user", "return", "oops"} /\ wait[u] = NULL /\ \A s \in live : depth[u][s] = 0
\* The dispatcher has handled its call, or none.
Through(f) == serving[f] = NULL \/ pc[Dispatcher[f]] = "return"
Calm ==
  /\ \A u \in Threads, s \in Skirmishes : depth'[u][s] \in {depth[u][s], 0}
  /\ \A f \in Servers : (stage'[f] = "up" /\ Through(f)') =>
       \/ /\ Through(f)
          /\ \/ pc'[Dispatcher[f]] = pc[Dispatcher[f]]
             \/ pc[Dispatcher[f]] = "return" /\ pc'[Dispatcher[f]] \in {"user", "oops"}
       \/ Resting(f)'
  /\ \A n \in Calls : execution'[n] # NULL =>
       \/ execution[n] # NULL /\ execution'[n].caller = execution[n].caller
       \/ execution'[n].caller \in Callers
       \/ execution'[n].caller = NULL /\ \E t \in Callers : stage'[Fid[t]] # "up"

\* What most of them have in common: other threads than t stay where they are.
LEMMA CalmOthers ==
  ASSUME NEW t \in Threads, serving' = serving, \A u \in Threads \ {t} : pc'[u] = pc[u],
         \A f \in Servers : Dispatcher[f] = t => stage'[f] # "up",
         \A u \in Threads, s \in Skirmishes : depth'[u][s] \in {depth[u][s], 0},
         \A n \in Calls : execution'[n] # NULL =>
           \/ execution[n] # NULL /\ execution'[n].caller = execution[n].caller
           \/ execution'[n].caller \in Callers
           \/ execution'[n].caller = NULL /\ \E c \in Callers : stage'[Fid[c]] # "up"
  PROVE  Calm
<1>1. \A f \in Servers : Dispatcher[f] \in Threads
  BY ThreadsAssumption DEF Servers
<1> QED
  BY <1>1 DEF Calm, Through

LEMMA ThreadCalm ==
  ASSUME LockInv, CallInv, LoanInv, Orderly, NEW t \in Threads,
         \/ \E f \in Servers, n \in Calls : execute(t, f, n)
         \/ Signal(t) \/ Exit(t) \/ (call_woken(t) /\ signal[t])
  PROVE  Calm
<1>1. CASE \E f \in Servers, n \in Calls : execute(t, f, n)
  <2>1. PICK f \in Servers, n \in Calls : execute(t, f, n)
    BY <1>1
  <2>2. /\ t \in Callers /\ UNCHANGED <<serving, depth>>
        /\ \A u \in Threads \ {t} : pc'[u] = pc[u]
        /\ execution'[n] = Fresh(f, t) /\ \A k \in Calls \ {n} : execution'[k] = execution[k]
    BY <2>1 DEF execute, Fresh, LockInv, Typed, ThreadTyped, CallTyped
  <2>3. Fresh(f, t).caller = t
    BY DEF Fresh
  <2> QED
    BY <2>2, <2>3, CalmOthers DEF Orderly
<1>2. CASE Signal(t)
  <2>1. UNCHANGED <<serving, depth, pc, execution>>
    BY <1>2 DEF Signal, calls
  <2> QED
    BY <2>1 DEF Calm, Through
<1>3. CASE Exit(t)
  <2>1. /\ UNCHANGED <<serving, execution>> /\ \A u \in Threads \ {t} : pc'[u] = pc[u]
    BY <1>3 DEF Exit, calls, LockInv, Typed, ThreadTyped
  <2>2. \A u \in Threads, s \in Skirmishes : depth'[u][s] \in {depth[u][s], 0}
    BY <1>3 DEF Exit, LoanInv, DepthTyped
  <2>3. stage'[Fid[t]] # "up"
    <3>1. \/ stage[Fid[t]] = "killed" /\ stage' = stage
          \/ stage' = [stage EXCEPT ![Fid[t]] = "flushed"]
      BY <1>3 DEF Exit
    <3> QED
      BY <3>1, ThreadsAssumption DEF LockInv, Typed
  <2>4. \A f \in Servers : Dispatcher[f] = t => stage'[f] # "up"
    BY <2>3, ThreadsAssumption DEF Servers
  <2> QED
    BY <2>1, <2>2, <2>4, CalmOthers
<1>4. CASE call_woken(t) /\ signal[t]
  <2>1. /\ UNCHANGED <<serving, depth, stage>> /\ \A u \in Threads \ {t} : pc'[u] = pc[u]
        /\ pc[t] = "call"
    BY <1>4 DEF call_woken, ToUser, LockInv, Typed, ThreadTyped
  <2>2. t \in Callers /\ stage'[Fid[t]] # "up"
    BY <1>4, <2>1, GiveUpKept DEF LoanInv, LentOut, InCall
  <2>3. \A n \in Calls : execution'[n] # NULL =>
          \/ execution[n] # NULL /\ execution'[n].caller = execution[n].caller
          \/ execution'[n].caller = NULL
    BY <1>4, CallWokenExecution, NullFacts DEF CallInv, LockInv
  <2> QED
    BY <2>1, <2>2, <2>3, CalmOthers DEF Orderly
<1> QED
  BY <1>1, <1>2, <1>3, <1>4

LEMMA FusioneeCalm ==
  ASSUME LockInv, CallInv, NEW f \in Fusionees, FusioneeStep(f)
  PROVE  Calm
<1>1. CASE f \in Servers /\ (call_return(f) \/ call_answer(f))
  <2>1. \A n \in Calls : execution'[n] # NULL =>
          execution[n] # NULL /\ execution'[n].caller = execution[n].caller
    BY <1>1, ReturnedExecution, HandledByReturn DEF CallInv
  <2>2. \A g \in Servers \ {f} : serving'[g] = serving[g] /\ pc'[Dispatcher[g]] = pc[Dispatcher[g]]
    <3>1. \A g \in Servers \ {f} : Dispatcher[g] \in Threads \ {Dispatcher[f]}
      BY <1>1, ThreadsAssumption DEF Servers
    <3>2. \A g \in Servers \ {f} : serving'[g] = serving[g]
      <4>1. serving' = [serving EXCEPT ![f] = NULL] \/ serving' = serving
        BY <1>1, ReturnedExecution DEF CallInv
      <4>2. serving \in [Servers -> Calls \cup {NULL}]
        BY DEF LockInv, Typed, CallTyped
      <4> QED
        BY <4>1, <4>2
    <3> QED
      BY <1>1, <3>1, <3>2, ReturnMoves
  <2>3. \/ Resting(f)'
        \/ pc[Dispatcher[f]] = "return" /\ pc'[Dispatcher[f]] \in {"user", "oops"}
    BY <1>1, ReturnMoves DEF Resting
  <2> QED
    BY <1>1, <2>1, <2>2, <2>3, ReturnMoves DEF Calm, Through
<1>2. CASE ~(f \in Servers /\ (call_return(f) \/ call_answer(f)))
  <2>1. UNCHANGED <<pc, depth, live, wait>>
    BY <1>2 DEF FusioneeStep, get_messages, Kill, fusionee_destroy, dismiss_all, call_destroy_all,
                thread
  <2>2. \A n \in Calls : execution'[n] # NULL =>
          execution[n] # NULL /\ execution'[n].caller = execution[n].caller
    <3>1. CASE call_destroy_all(f)
      BY <3>1, DestroyedExecutions DEF LockInv
    <3>2. CASE execution' = execution
      BY <3>2
    <3> QED
      BY <1>2, <3>1, <3>2 DEF FusioneeStep, get_messages, Kill, fusionee_destroy, dismiss_all, calls
  <2>3. \A g \in Servers : serving'[g] = NULL => serving[g] = NULL
    <3>1. CASE f \in Servers /\ get_messages(f)
      BY <3>1 DEF get_messages, LockInv, Typed, CallTyped
    <3>2. CASE serving' = serving
      BY <3>2
    <3> QED
      BY <1>2, <3>1, <3>2 DEF FusioneeStep, Kill, fusionee_destroy, dismiss_all, call_destroy_all,
                              calls
  <2> QED
    BY <2>1, <2>2, <2>3 DEF Calm, Through
<1> QED
  BY <1>1, <1>2

\* The steps, by what they do to locks and loans
LEMMA StepKinds ==
  ASSUME LockInv, CallInv, LoanInv, Orderly, [Next]_vars
  PROVE  \/ \E t \in Threads : Good(t) /\ Locking(t)
         \/ Kept /\ Calm
         \/ \E t \in Threads : transfer_all(t)
         \/ \E t \in Threads : call_woken(t) /\ ~signal[t]
<1>1. ASSUME NEW t \in Threads, LockingStep(t) PROVE Good(t) /\ Locking(t)
  <2>1. Good(t)
    BY <1>1, PrevailGood, SwoopGood, DismissGood, DestroyGood, WaitGood, NotifyGood,
       PrevailWokenGood, WaitWokenGood, WaitTimeoutGood, WaitResumeGood DEF LockingStep
  <2> QED
    BY <1>1, <2>1, AllLocking DEF LoanInv
<1>2. ASSUME NEW t \in Threads, ThreadStep(t), ~LockingStep(t), ~transfer_all(t),
             ~(call_woken(t) /\ ~signal[t])
      PROVE  Kept /\ Calm
  <2>1. \/ \E f \in Servers, n \in Calls : execute(t, f, n)
        \/ Signal(t) \/ Exit(t) \/ (call_woken(t) /\ signal[t])
    BY <1>2 DEF ThreadStep, LockingStep
  <2> QED
    BY <2>1, ThreadCalm, ExecuteKept, SignalKept, ExitKept, GiveUpKept
<1>3. ASSUME NEW f \in Fusionees, FusioneeStep(f) PROVE Kept /\ Calm
  BY <1>3, FusioneeKept, FusioneeCalm
<1>4. CASE UNCHANGED vars
  <2>1. DepthTyped'
    BY <1>4 DEF LoanInv, DepthTyped, vars
  <2> QED
    BY <1>4, <2>1 DEF Kept, Calm, Through, vars, lock, thread, calls
<1> QED
  BY <1>1, <1>2, <1>3, <1>4 DEF Next

LEMMA LoanStep ==
  ASSUME LockInv, CallInv, LoanInv, Orderly, [Next]_vars
  PROVE  LoanInv'
<1>1. LockInv'
  BY LockStep
<1> QED
  BY <1>1, StepKinds, LockingLoans, KeptLoans, TransferLoans, ReclaimLoans

LEMMA LoanInit ==
  ASSUME Init
  PROVE  LoanInv
<1>1. DepthTyped /\ NoBug /\ LentToCallee
  BY DEF Init, DepthTyped, NoBug, LentToCallee
<1>2. LentOut
  BY DEF Init, LentOut, InCall
<1>3. Known
  <2>1. ASSUME NEW t \in Threads, NEW s \in Skirmishes
        PROVE  lock_pid[s] # t /\ lent[s] = NULL /\ wait[t] = NULL /\ depth[t][s] = 0
    BY NullFacts DEF Init
  <2> QED
    BY <2>1 DEF Init, Known, KnownAt, Waited
<1> QED
  BY <1>1, <1>2, <1>3 DEF LoanInv

\* With orderly clients, loans stay between a caller in its call and its callee.
THEOREM LoansInvariant ==
  ASSUME Orderly
  PROVE  Spec => [](SafeInv /\ LoanInv)
<1>1. Init => SafeInv /\ LoanInv
  BY SafeInit, LoanInit
<1>2. SafeInv /\ LoanInv /\ [Next]_vars => (SafeInv /\ LoanInv)'
  BY Orderly, LockStep, CallStep, LoanStep DEF SafeInv
<1> QED
  BY <1>1, <1>2, PTL DEF Spec

\* What is lent nobody but the callee's dispatcher holds, until it is back.
THEOREM LoansStayWithCallee ==
  ASSUME Orderly
  PROVE  Spec => []LentToCallee
<1>1. SafeInv /\ LoanInv => LentToCallee
  BY DEF LoanInv
<1>2. Spec => [](SafeInv /\ LoanInv)
  BY Orderly, LoansInvariant
<1> QED
  BY <1>1, <1>2, PTL

\* The assertion in fusion_skirmish_transfer_all() does not fire.
THEOREM TransferNeverBugs ==
  ASSUME Orderly
  PROVE  Spec => []NoBug
<1>1. SafeInv /\ LoanInv => NoBug
  BY DEF LoanInv
<1>2. Spec => [](SafeInv /\ LoanInv)
  BY Orderly, LoansInvariant
<1> QED
  BY <1>1, <1>2, PTL

-----------------------------------------------------------------------------
(* What clients believe to hold.                                           *)

\* There is one caller at most, the case in which a callee that is done with
\* one call cannot have begun the next before the caller takes back what it lent.
OneCaller == \A t, u \in Callers : t = u

\* What the driver has recorded for t: a lock, a loan or a wait
Recorded(t, s) ==
  IF lock_pid[s] = t THEN lock_count[s]
  ELSE IF lent[s] # NULL /\ lent[s].from = t THEN lent[s].count
  ELSE Waited(t, s)
Exact ==
  \A t \in Threads, s \in live : stage[Fid[t]] = "up" => depth[t][s] = Recorded(t, s)

Bounded == \A t \in Threads, s \in Skirmishes : depth[t][s] \in 0 .. MaxDepth

\* Between two calls the dispatcher is outside the driver and holds nothing; a
\* caller that has given up is dead.
AtRest == \A f \in Servers : (stage[f] = "up" /\ Through(f)) => Resting(f)
GaveUp ==
  \A n \in Calls : execution[n] # NULL =>
    \/ execution[n].caller \in Callers
    \/ execution[n].caller = NULL /\ \E t \in Callers : stage[Fid[t]] # "up"

BeliefInv == Bounded /\ Exact /\ AtRest /\ GaveUp

LEMMA LockingBeliefs ==
  ASSUME LockInv, LoanInv, LoanInv', BeliefInv, NEW t \in Threads, Good(t), Locking(t)
  PROVE  BeliefInv'
<1>0. /\ live' \subseteq live /\ live \subseteq Skirmishes /\ stage' = stage /\ lent' = lent
      /\ execution' = execution /\ serving' = serving
      /\ \A u \in Threads \ {t} : pc'[u] = pc[u] /\ wait'[u] = wait[u] /\ depth'[u] = depth[u]
  BY DEF LockInv, Typed, Good, StepOf, Still, Locking
<1>1. \A s \in live' : Accounted(t, s)
  BY DEF Locking
<1>2. ASSUME NEW s \in live', stage[Fid[t]] = "up" PROVE depth'[t][s] = Recorded(t, s)'
  <2>1. ~(lent[s] # NULL /\ lent[s].from = t)
    BY <1>0, <1>2, LenderInCall DEF LoanInv, Locking, InCall
  <2>2. PICK d \in Nat, n \in Nat, w \in Nat :
          d = depth[t][s] /\ n = lock_count[s] /\ w = Waited(t, s)
    BY <1>0, <1>2, LockCounts, WaitedNat DEF LockInv, LoanInv, DepthTyped
  <2>3. d = IF lock_pid[s] = t THEN n ELSE w
    BY <1>0, <1>2, <2>1, <2>2 DEF BeliefInv, Exact, Recorded
  <2>4. Recorded(t, s)' = IF lock_pid'[s] = t THEN lock_count'[s] ELSE Waited(t, s)'
    BY <1>0, <2>1 DEF Recorded
  <2>5. /\ wait'[t] = NULL => Waited(t, s)' = 0
        /\ wait[t] = NULL => w = 0
    BY <2>2 DEF Waited
  <2> QED
    <3>1. CASE /\ lock_pid'[s] = lock_pid[s] /\ lock_count'[s] = lock_count[s]
               /\ depth'[t][s] = depth[t][s] /\ Waited(t, s)' = Waited(t, s)
      BY <2>2, <2>3, <2>4, <3>1
    <3>2. CASE /\ wait[t] = NULL
               /\ \/ lock_pid[s] = t /\ lock_count'[s] = lock_count[s] + 1
                  \/ lock_pid[s] = NULL /\ lock_count'[s] = 1
               /\ lock_pid'[s] = t /\ depth'[t][s] = depth[t][s] + 1
      <4>1. CASE lock_pid[s] = t
        <5>1. depth'[t][s] = n + 1 /\ lock_count'[s] = n + 1
          BY <2>2, <2>3, <3>2, <4>1, NullFacts
        <5> QED
          BY <2>4, <3>2, <5>1
      <4>2. CASE lock_pid[s] = NULL
        <5>1. depth'[t][s] = w + 1 /\ w = 0 /\ lock_count'[s] = 1
          BY <2>2, <2>3, <2>5, <3>2, <4>2, NullFacts
        <5> QED
          BY <2>4, <3>2, <5>1
      <4> QED
        BY <3>2, <4>1, <4>2
    <3>3. CASE /\ wait'[t] = NULL
               /\ lock_pid[s] = t /\ depth'[t][s] = depth[t][s] - 1
               /\ \/ lock_count[s] = 1 /\ lock_pid'[s] = NULL
                  \/ lock_pid'[s] = t /\ lock_count'[s] = lock_count[s] - 1
      <4>1. depth'[t][s] = n - 1
        BY <2>2, <2>3, <3>3
      <4>2. CASE n = 1 /\ lock_pid'[s] = NULL
        <5>1. Recorded(t, s)' = 0
          BY <2>4, <2>5, <3>3, <4>2, NullFacts
        <5> QED
          BY <4>1, <4>2, <5>1
      <4>3. CASE lock_pid'[s] = t /\ lock_count'[s] = n - 1
        BY <2>4, <4>1, <4>3
      <4> QED
        BY <2>2, <3>3, <4>2, <4>3
    <3>4. CASE /\ lock_pid[s] = t /\ lock_pid'[s] = NULL
               /\ depth'[t][s] = depth[t][s] /\ Waited(t, s)' = lock_count[s]
      BY <2>2, <2>3, <2>4, <3>4, NullFacts
    <3>5. CASE /\ lock_pid[s] = NULL
               /\ lock_pid'[s] = t /\ lock_count'[s] = Waited(t, s)
               /\ depth'[t][s] = depth[t][s]
      BY <2>2, <2>3, <2>4, <3>5, NullFacts
    <3> QED
      BY <1>1, <1>2, <3>1, <3>2, <3>3, <3>4, <3>5 DEF Accounted
<1>3. Exact'
  <2>1. ASSUME NEW u \in Threads, u # t, NEW s \in live', stage[Fid[u]] = "up"
        PROVE  depth'[u][s] = Recorded(u, s)'
    <3>1. depth[u][s] = Recorded(u, s)
      BY <1>0, <2>1 DEF BeliefInv, Exact
    <3>2. Waited(u, s)' = Waited(u, s)
      BY <1>0, <2>1 DEF Waited
    <3>3. /\ lock_pid'[s] = u <=> lock_pid[s] = u
          /\ lock_pid[s] = u => lock_count'[s] = lock_count[s]
      BY <1>1, <2>1, OthersLocks
    <3> QED
      BY <1>0, <2>1, <3>1, <3>2, <3>3 DEF Recorded
  <2> QED
    BY <1>0, <1>2, <2>1 DEF Exact
<1>4. Bounded'
  <2>1. ASSUME NEW s \in Skirmishes PROVE depth'[t][s] \in 0 .. MaxDepth
    <3>1. depth[t][s] \in 0 .. MaxDepth /\ 0 \in 0 .. MaxDepth
      BY BoundAssumption DEF BeliefInv, Bounded
    <3>2. CASE depth'[t][s] \in {depth[t][s], 0}
      BY <3>1, <3>2
    <3>3. CASE depth'[t][s] \notin {depth[t][s], 0}
      <4>1. s \in live' /\ stage[Fid[t]] = "up" /\ wait'[t] = NULL
        BY <1>1, <3>3 DEF Locking, Accounted
      <4>2. Waited(t, s)' = 0
        BY <4>1 DEF Waited
      <4>3. ~(lent'[s] # NULL /\ lent'[s].from = t)
        BY <1>0, <4>1, LenderInCall DEF LoanInv, Locking, InCall
      <4>4. depth'[t][s] = lock_count'[s]
        BY <1>2, <3>3, <4>1, <4>2, <4>3 DEF Recorded
      <4> QED
        BY <4>4 DEF Good, Typed, LockTyped
    <3> QED
      BY <3>2, <3>3
  <2> QED
    BY <1>0, <2>1 DEF BeliefInv, Bounded
<1>5. AtRest'
  <2>1. ASSUME NEW f \in Servers, stage[f] = "up", Through(f)' PROVE Resting(f)'
    <3>1. pc[t] \notin {"return", "oops"} /\ pc'[t] # "return"
      BY DEF Good, StepOf
    <3>2. Dispatcher[f] \in Threads
      BY ThreadsAssumption DEF Servers
    <3>3. Resting(f)
      BY <1>0, <2>1, <3>1, <3>2 DEF BeliefInv, AtRest, Through
    <3>4. Dispatcher[f] # t
      <4>1. Dispatcher[f] = t => serving[f] = NULL /\ pc[t] = "user" /\ wait[t] = NULL
        BY <1>0, <2>1, <3>1, <3>3 DEF Through, Resting
      <4> QED
        BY <2>1, <4>1 DEF Locking, InUser
    <3> QED
      BY <1>0, <3>2, <3>3, <3>4 DEF Resting
  <2> QED
    BY <1>0, <2>1 DEF AtRest
<1>6. GaveUp'
  BY <1>0 DEF BeliefInv, GaveUp
<1> QED
  BY <1>3, <1>4, <1>5, <1>6 DEF BeliefInv

LEMMA KeptBeliefs ==
  ASSUME LockInv, LoanInv, BeliefInv, Kept, Calm
  PROVE  BeliefInv'
<1>1. Bounded'
  <2>1. 0 \in 0 .. MaxDepth
    BY BoundAssumption
  <2> QED
    BY <2>1 DEF BeliefInv, Bounded, Calm
<1>2. Exact'
  <2>1. ASSUME NEW u \in Threads, NEW s \in live, stage'[Fid[u]] = "up"
        PROVE  depth'[u][s] = Recorded(u, s)'
    <3>1. stage[Fid[u]] = "up" /\ depth'[u] = depth[u] /\ wait'[u] = wait[u]
      BY <2>1 DEF Kept
    <3>2. depth[u][s] = Recorded(u, s)
      BY <2>1, <3>1 DEF BeliefInv, Exact
    <3>3. Waited(u, s)' = Waited(u, s)
      BY <3>1 DEF Waited
    <3>4. /\ lock_pid'[s] = u <=> lock_pid[s] = u
          /\ lock_pid[s] = u => lock_count'[s] = lock_count[s]
      BY <2>1, NullFacts DEF Kept
    <3>5. lent'[s] = lent[s] \/ (lent'[s] = NULL /\ lent[s].from # u)
      BY <2>1 DEF Kept
    <3> QED
      BY <3>1, <3>2, <3>3, <3>4, <3>5 DEF Recorded
  <2> QED
    BY <2>1 DEF Exact, Kept
<1>3. AtRest'
  <2>1. ASSUME NEW f \in Servers, stage'[f] = "up", Through(f),
               \/ pc'[Dispatcher[f]] = pc[Dispatcher[f]]
               \/ pc[Dispatcher[f]] = "return" /\ pc'[Dispatcher[f]] \in {"user", "oops"}
        PROVE  Resting(f)'
    <3>1. Dispatcher[f] \in Threads /\ Fid[Dispatcher[f]] = f
      BY ThreadsAssumption DEF Servers
    <3>2. /\ stage[f] = "up" /\ depth'[Dispatcher[f]] = depth[Dispatcher[f]]
          /\ wait'[Dispatcher[f]] = wait[Dispatcher[f]] /\ live' = live
      BY <2>1, <3>1 DEF Kept
    <3>3. Resting(f)
      BY <2>1, <3>2 DEF BeliefInv, AtRest
    <3> QED
      BY <2>1, <3>2, <3>3 DEF Resting
  <2> QED
    BY <2>1 DEF AtRest, Calm
<1>4. GaveUp'
  <2>1. \A t \in Callers : stage[Fid[t]] # "up" => stage'[Fid[t]] # "up"
    BY ThreadsAssumption DEF Kept
  <2> QED
    BY <2>1 DEF BeliefInv, GaveUp, Calm
<1> QED
  BY <1>1, <1>2, <1>3, <1>4 DEF BeliefInv

LEMMA TransferBeliefs ==
  ASSUME LockInv, CallInv, LoanInv, Orderly, BeliefInv, NEW t \in Threads, transfer_all(t)
  PROVE  BeliefInv'
<1>1. /\ pc[t] = "send" /\ t \in Callers
      /\ UNCHANGED <<live, wait, execution, serving, stage, depth>>
      /\ \A u \in Threads \ {t} : pc'[u] = pc[u]
      /\ live \subseteq Skirmishes
  BY DEF transfer_all, calls, LockInv, Typed, ThreadTyped, LoanInv, LentOut, InCall
<1>2. \A s \in live :
        \/ /\ lock_pid[s] = t /\ lock_pid'[s] = NULL
           /\ lent'[s] # NULL /\ lent'[s].from = t /\ lent'[s].count = lock_count[s]
        \/ /\ lock_pid[s] # t
           /\ lock_pid'[s] = lock_pid[s] /\ lock_count'[s] = lock_count[s] /\ lent'[s] = lent[s]
  <2>1. \A s \in live : s \in HeldBy({t}) <=> lock_pid[s] = t
    BY DEF HeldBy
  <2> QED
    BY <1>1, <2>1, TransferEffect DEF CallInv, LockInv
<1>3. \A s \in live : lock_pid[s] = t => lent[s] = NULL
  <2>1. ASSUME NEW s \in live, lent[s] # NULL PROVE lock_pid[s] # t
    <3>1. lock_pid[s] \in {NULL, Dispatcher[lent[s].to]} /\ lent[s].to \in Servers
      BY <2>1, LenderInCall DEF LoanInv, LentToCallee
    <3> QED
      BY <1>1, <3>1, NullFacts DEF Orderly
  <2> QED
    BY <2>1
<1>4. Exact'
  <2>1. ASSUME NEW u \in Threads, NEW s \in live, stage[Fid[u]] = "up"
        PROVE  depth[u][s] = Recorded(u, s)'
    <3>1. depth[u][s] = Recorded(u, s)
      BY <2>1 DEF BeliefInv, Exact
    <3>2. Waited(u, s)' = Waited(u, s)
      BY <1>1 DEF Waited
    <3> QED
      BY <1>2, <1>3, <3>1, <3>2, NullFacts DEF Recorded
  <2> QED
    BY <1>1, <2>1 DEF Exact
<1>5. AtRest'
  <2>1. \A f \in Servers : Dispatcher[f] # t /\ Dispatcher[f] \in Threads
    BY <1>1, ThreadsAssumption DEF Orderly, Servers
  <2> QED
    BY <1>1, <2>1 DEF BeliefInv, AtRest, Resting, Through
<1>6. Bounded' /\ GaveUp'
  BY <1>1 DEF BeliefInv, Bounded, GaveUp
<1> QED
  BY <1>4, <1>5, <1>6 DEF BeliefInv

\* When a caller has been answered, no living thread holds what it has lent.
LEMMA LoanIsFree ==
  ASSUME LockInv, CallInv, LoanInv, OneCaller, BeliefInv, NEW t \in Threads,
         pc[t] = "call", ~asleep[t], ~signal[t],
         NEW s \in live, lent[s] # NULL, lent[s].from = t,
         NEW u \in Threads, lock_pid[s] = u
  PROVE  stage[Fid[u]] # "up"
<1> SUFFICES ASSUME stage[Fid[u]] = "up" PROVE FALSE
  OBVIOUS
<1>1. PICK f \in Servers : u = Dispatcher[f]
  BY LenderInCall, NullFacts DEF LoanInv, LentToCallee
<1>2. stage[f] = "up"
  BY <1>1, ThreadsAssumption DEF Servers
<1>3. t \in Callers /\ stage[Fid[t]] = "up"
  BY DEF LoanInv, LentOut, LockInv, Exited
<1>4. serving[f] # NULL
  <2>1. s \in Skirmishes /\ lock_count[s] >= 1 /\ lock_count[s] \in Nat
    BY LockCounts DEF LockInv, Typed
  <2>2. depth[u][s] = lock_count[s]
    BY DEF BeliefInv, Exact, Recorded
  <2>3. Resting(f) => depth[u][s] = 0
    BY <1>1 DEF Resting
  <2> QED
    BY <1>2, <2>1, <2>2, <2>3 DEF BeliefInv, AtRest, Through
<1>5. PICK k \in Calls : k = serving[f]
  BY <1>4 DEF LockInv, Typed, CallTyped
<1>6. execution[k] # NULL /\ execution[k].listed
  BY <1>2, <1>5 DEF CallInv, CallsListed, Ended
<1>7. execution[k].caller = t
  BY <1>3, <1>6 DEF BeliefInv, GaveUp, OneCaller
<1>8. on[t] = k
  BY <1>6, <1>7, NullFacts DEF CallInv, CallerInside
<1> QED
  BY <1>6, <1>8 DEF CallInv, Answered

LEMMA ReclaimBeliefs ==
  ASSUME LockInv, CallInv, LoanInv, Orderly, OneCaller, BeliefInv, NEW t \in Threads,
         call_woken(t), ~signal[t]
  PROVE  BeliefInv'
<1>1. /\ pc[t] = "call" /\ ~asleep[t] /\ t \in Callers
      /\ UNCHANGED <<live, wait, serving, stage, depth>>
      /\ \A u \in Threads \ {t} : pc'[u] = pc[u]
      /\ \A n \in Calls : execution'[n] # NULL =>
           execution[n] # NULL /\ execution'[n].caller = execution[n].caller
  BY ReclaimForm DEF LoanInv, LentOut, InCall
<1>2. \A s \in live :
        \/ /\ lent[s] # NULL /\ lent[s].from = t
           /\ lock_pid'[s] = t /\ lock_count'[s] = lent[s].count /\ lent'[s] = NULL
        \/ /\ ~(lent[s] # NULL /\ lent[s].from = t)
           /\ lock_pid'[s] = lock_pid[s] /\ lock_count'[s] = lock_count[s] /\ lent'[s] = lent[s]
  BY ReclaimForm
<1>3. \A s \in live, u \in Threads :
        lent[s] # NULL /\ lent[s].from = t /\ stage[Fid[u]] = "up" => lock_pid[s] # u
  BY <1>1, LoanIsFree
<1>4. Exact'
  <2>1. ASSUME NEW u \in Threads, NEW s \in live, stage[Fid[u]] = "up"
        PROVE  depth[u][s] = Recorded(u, s)'
    <3>1. depth[u][s] = Recorded(u, s)
      BY <2>1 DEF BeliefInv, Exact
    <3>2. Waited(u, s)' = Waited(u, s)
      BY <1>1 DEF Waited
    <3>3. lent[s] # NULL /\ lent[s].from = t => lock_pid[s] # u
      BY <1>3, <2>1
    <3> QED
      BY <1>2, <3>1, <3>2, <3>3 DEF Recorded
  <2> QED
    BY <1>1, <2>1 DEF Exact
<1>5. AtRest'
  <2>1. \A f \in Servers : Dispatcher[f] # t /\ Dispatcher[f] \in Threads
    BY <1>1, ThreadsAssumption DEF Orderly, Servers
  <2> QED
    BY <1>1, <2>1 DEF BeliefInv, AtRest, Resting, Through
<1>6. Bounded' /\ GaveUp'
  BY <1>1 DEF BeliefInv, Bounded, GaveUp
<1> QED
  BY <1>4, <1>5, <1>6 DEF BeliefInv

LEMMA BeliefInit ==
  ASSUME Init
  PROVE  BeliefInv
<1>1. Bounded /\ GaveUp
  BY BoundAssumption DEF Init, Bounded, GaveUp
<1>2. Exact
  <2>1. ASSUME NEW t \in Threads, NEW s \in Skirmishes
        PROVE  lock_pid[s] # t /\ lent[s] = NULL /\ wait[t] = NULL /\ depth[t][s] = 0
    BY NullFacts DEF Init
  <2> QED
    BY <2>1 DEF Init, Exact, Recorded, Waited
<1>3. AtRest
  BY ThreadsAssumption DEF Init, AtRest, Resting, Servers
<1> QED
  BY <1>1, <1>2, <1>3 DEF BeliefInv

LEMMA BeliefStep ==
  ASSUME LockInv, CallInv, LoanInv, Orderly, OneCaller, BeliefInv, [Next]_vars
  PROVE  BeliefInv'
<1>1. LoanInv'
  BY LoanStep
<1> QED
  BY <1>1, StepKinds, LockingBeliefs, KeptBeliefs, TransferBeliefs, ReclaimBeliefs

\* With orderly clients of which one makes calls, threads know what they hold.
THEOREM BeliefsInvariant ==
  ASSUME Orderly, OneCaller
  PROVE  Spec => [](SafeInv /\ LoanInv /\ BeliefInv)
<1>1. Init => SafeInv /\ LoanInv /\ BeliefInv
  BY SafeInit, LoanInit, BeliefInit
<1>2. SafeInv /\ LoanInv /\ BeliefInv /\ [Next]_vars => (SafeInv /\ LoanInv /\ BeliefInv)'
  BY Orderly, OneCaller, LockStep, CallStep, LoanStep, BeliefStep DEF SafeInv
<1> QED
  BY <1>1, <1>2, PTL DEF Spec

\* What a thread believes to hold is what the driver records.
THEOREM RecordsMatch ==
  ASSUME Orderly, OneCaller
  PROVE  Spec => []RecordMatches
<1>1. SafeInv /\ LoanInv /\ BeliefInv => RecordMatches
  <2> SUFFICES ASSUME SafeInv, LoanInv, BeliefInv, NEW t \in Threads, NEW s \in live,
                      pc[t] = "user" /\ wait[t] = NULL /\ stage[Fid[t]] = "up"
               PROVE  depth[t][s] = IF lock_pid[s] = t THEN lock_count[s] ELSE 0
    BY DEF RecordMatches
  <2>1. depth[t][s] = Recorded(t, s)
    BY DEF BeliefInv, Exact
  <2>2. ~(lent[s] # NULL /\ lent[s].from = t)
    BY LenderInCall DEF SafeInv, LoanInv
  <2> QED
    BY <2>1, <2>2 DEF Recorded, Waited
<1>2. Spec => [](SafeInv /\ LoanInv /\ BeliefInv)
  BY Orderly, OneCaller, BeliefsInvariant
<1> QED
  BY <1>1, <1>2, PTL

BugTyped == bug \in BOOLEAN

\* No variable leaves its type: what a thread believes stays within MaxDepth.
THEOREM TypesKept ==
  ASSUME Orderly, OneCaller
  PROVE  Spec => []TypeOK
<1>1. SafeInv /\ LoanInv /\ BeliefInv /\ BugTyped => TypeOK
  <2> SUFFICES ASSUME SafeInv, LoanInv, BeliefInv, BugTyped PROVE TypeOK
    OBVIOUS
  <2>1. depth \in [Threads -> [Skirmishes -> 0 .. MaxDepth]]
    BY DEF LoanInv, DepthTyped, BeliefInv, Bounded
  <2> QED
    BY <2>1 DEF TypeOK, SafeInv, LockInv, Typed, LockTyped, ThreadTyped, CallTyped, BugTyped
<1>2. Spec => [](SafeInv /\ LoanInv /\ BeliefInv)
  BY Orderly, OneCaller, BeliefsInvariant
<1>3. Init => BugTyped
  BY DEF Init, BugTyped
<1>4. BugTyped /\ [Next]_vars => BugTyped'
  <2> SUFFICES ASSUME BugTyped, [Next]_vars PROVE BugTyped'
    OBVIOUS
  <2>1. ASSUME NEW t \in Threads, transfer_all(t) PROVE BugTyped'
    BY <2>1 DEF transfer_all, BugTyped
  <2>2. ASSUME NEW t \in Threads, ThreadStep(t), ~transfer_all(t) PROVE bug' = bug
    BY <2>2 DEF ThreadStep, prevail, swoop, dismiss, destroy, wait_, notify_, prevail_woken,
                wait_woken, wait_timeout, wait_resume, execute, call_woken, Signal, Exit
  <2>3. ASSUME NEW f \in Fusionees, FusioneeStep(f) PROVE bug' = bug
    BY <2>3 DEF FusioneeStep, get_messages, call_return, call_answer, Kill, fusionee_destroy, dismiss_all,
                call_destroy_all
  <2>4. CASE UNCHANGED vars
    BY <2>4 DEF vars, BugTyped
  <2> QED
    BY <2>1, <2>2, <2>3, <2>4 DEF Next, BugTyped
<1> QED
  BY <1>1, <1>2, <1>3, <1>4, PTL DEF Spec
=============================================================================
