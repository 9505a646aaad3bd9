--------------------------- MODULE TeeCallsProofs ---------------------------
(***************************************************************************)
(* Proofs about TeeCalls, for any clients, supplicants, number of secure   *)
(* threads and bounds.  What is proved of the channel and of the wait for  *)
(* a secure thread holds whatever is lost and whatever fails; what is      *)
(* proved of the wait queues, until the allocation of an entry fails.      *)
(***************************************************************************)
EXTENDS TeeCalls, FiniteSetTheorems, TLAPS

-----------------------------------------------------------------------------
(* The inductive invariant.  First, the numbers of calls and requests.     *)

\* A thread in call_tee() has a call number, one on its way to the supplicant
\* has a request number.
Numbered ==
  \A t \in Clients :
    /\ pc[t] # "idle" => number[t] > 0
    /\ pc[t] \in {"invoke", "send", "answer"} => rpcs[t] > 0

-----------------------------------------------------------------------------
(* The channel to the supplicant.                                          *)

Busy(s) == supp[s] = "busy"

\* A request is in one place at a time: in commToUser, with one supplicant, or
\* answered in commFromUser.  Wherever it is, it is the request of the thread
\* that has thrd_mutex, which is the one that waits for the answer.
Channel ==
  /\ \A t \in Clients : thrd_mutex = t <=> pc[t] = "answer"
  /\ datatouser \in {0, 1} /\ datafromuser \in {0, 1}
  /\ datatouser = 1 =>
       /\ thrd_mutex \in Clients /\ commToUser = Cmd(thrd_mutex)
       /\ datafromuser = 0 /\ \A s \in Supplicants : ~Busy(s)
  /\ \A s \in Supplicants : Busy(s) =>
       /\ thrd_mutex \in Clients /\ request[s] = Cmd(thrd_mutex)
       /\ datafromuser = 0 /\ \A r \in Supplicants : Busy(r) => r = s
  /\ datafromuser = 1 => thrd_mutex \in Clients /\ commFromUser = Cmd(thrd_mutex)

\* An answer is there only on the way back into the trusted world.
Answers ==
  \A t \in Clients : answer[t] # NULL => pc[t] = "resume" /\ answer[t] = Cmd(t)

-----------------------------------------------------------------------------
(* The wait queues.                                                        *)

InQueue == {"sleep", "sleeping"}
Waking == {"wakeup", "complete"}

\* Who wakes somebody knows whom.
Paired == \A t \in Clients : woken[t] # NULL <=> pc[t] \in Waking

\* The waiters of the mutex sleep on their entries and have not been woken; who
\* has been chosen to be woken still sleeps, is no waiter any more, and has one
\* waker; an entry exists only while its sleeper is on its way through
\* tee_wait_queue_sleep(), and is completed at most once.
Wakers ==
  /\ \A u \in sleepers : pc[u] \in InQueue /\ Entry(u) = 0
  /\ \A t \in Clients : pc[t] \in Waking =>
       /\ pc[woken[t]] \in InQueue /\ woken[t] \notin sleepers /\ Entry(woken[t]) = 0
       /\ \A v \in Clients : pc[v] \in Waking /\ woken[v] = woken[t] => v = t
  /\ \A u \in Clients : queue[u] # NULL => pc[u] \in InQueue \cup {"delete"}
  /\ \A t \in Clients : pc[t] = "complete" => queue[woken[t]] # NULL

\* A sleeper is a waiter of the mutex, has a waker, or has been woken.
NoLostWake ==
  \A u \in Clients : pc[u] \in InQueue =>
    u \in sleepers \/ Entry(u) = 1 \/ \E t \in Clients : pc[t] \in Waking /\ woken[t] = u

-----------------------------------------------------------------------------
(* The wait for a secure thread.                                           *)

InWait == {t \in Clients : pc[t] \in {"wait", "retry"}}

\* c_waiters counts the threads between the two halves of
\* e_lock_wait_completion_teez(), and a thread of the trusted world belongs to
\* a thread that is on its way through call_tee().
Counted ==
  /\ IsFiniteSet(InWait) /\ c_waiters = Cardinality(InWait)
  /\ \A t \in Clients : pc[t] \in {"idle", "enter", "retry", "wait"} => ta[t] = "out"

-----------------------------------------------------------------------------
(* The use count of the supplicant.                                        *)

Using == {s \in Supplicants : supp[s] # "closed"}

\* rpc->used is not less than the number of supplicants that are counted in.
InUse == IsFiniteSet(Using) /\ Cardinality(Using) <= used

IndInv ==
  /\ TypeOK /\ Numbered /\ InUse
  /\ Channel /\ Answers
  /\ Paired /\ (failed = 0 => Wakers /\ NoLostWake)
  /\ Counted /\ WaiterIsTold

-----------------------------------------------------------------------------
(* Types.                                                                  *)

\* Whoever comes back from the wait for a secure thread is counted.
LEMMA WaitersCounted ==
  ASSUME TypeOK, Counted, NEW t \in Clients
  PROVE  /\ Waiters(t) \in Nat
         /\ \A u \in InWait \ {t} : Waiters(t) > 0
<1>1. CASE pc[t] = "retry"
  <2>1. t \in InWait
    BY <1>1 DEF InWait
  <2>2. IsFiniteSet(InWait \ {t}) /\ Cardinality(InWait \ {t}) = Cardinality(InWait) - 1
    BY <2>1, FS_RemoveElement DEF Counted
  <2>3. Cardinality(InWait \ {t}) \in Nat
    BY <2>2, FS_CardinalityType
  <2>4. InWait \ {t} # {} => Cardinality(InWait \ {t}) # 0
    BY <2>2, FS_EmptySet
  <2>5. Waiters(t) = Cardinality(InWait \ {t})
    BY <1>1, <2>2 DEF Waiters, Counted
  <2> QED
    BY <2>3, <2>4, <2>5
<1>2. CASE pc[t] # "retry"
  <2>1. Cardinality(InWait) \in Nat
    BY FS_CardinalityType DEF Counted
  <2>2. InWait # {} => Cardinality(InWait) # 0
    BY FS_EmptySet DEF Counted
  <2> QED
    BY <1>2, <2>1, <2>2 DEF Waiters, Counted
<1> QED
  BY <1>1, <1>2

\* Whoever leaves the device has been counted in.
LEMMA UsersCounted ==
  ASSUME InUse, used \in Nat, NEW s \in Using
  PROVE  used > 0 /\ IsFiniteSet(Using \ {s}) /\ Cardinality(Using \ {s}) <= used - 1
<1>1. IsFiniteSet(Using \ {s}) /\ Cardinality(Using \ {s}) = Cardinality(Using) - 1
  BY FS_RemoveElement DEF InUse
<1>2. Cardinality(Using \ {s}) \in Nat /\ Cardinality(Using) \in Nat
  BY <1>1, FS_CardinalityType DEF InUse
<1> QED
  BY <1>1, <1>2 DEF InUse

\* The visit of a thread to the trusted world leaves the types alone.
LEMMA VisitTypes ==
  ASSUME TypeOK, Numbered, Counted, NEW t \in Clients, smc(t)
  PROVE  TypeOK' /\ Numbered'
<1> USE BoundsAssumption
<1>1. c_waiters' \in Nat /\ done' \in Nat
  BY WaitersCounted DEF smc, e_unlock, TypeOK
<1>2. answer' \in [Clients -> Requests]
  BY DEF smc, TypeOK, Requests
<1>3. UNCHANGED <<number, wq, rpc, supplicant>> /\ number[t] > 0
  BY DEF smc, CanEnter, Numbered
<1> USE DEF smc, Goto, wq, rpc, supplicant, TypeOK, Numbered
<1>4. CASE Return(t)
  BY <1>1, <1>2, <1>3, <1>4 DEF Return
<1>5. CASE AskSupplicant(t)
  BY <1>1, <1>2, <1>3, <1>5 DEF AskSupplicant, Where
<1>6. CASE AskToSleep(t)
  BY <1>1, <1>2, <1>3, <1>6 DEF AskToSleep
<1>7. CASE Interrupted(t)
  BY <1>1, <1>2, <1>3, <1>7 DEF Interrupted
<1>8. CASE AskToWake(t)
  BY <1>1, <1>2, <1>3, <1>8 DEF AskToWake
<1> QED
  BY <1>4, <1>5, <1>6, <1>7, <1>8

\* The variables of the driver and of its clients keep their types.
LEMMA TypeStep ==
  ASSUME TypeOK, Numbered, InUse, Paired, Counted, [Next]_vars
  PROVE  TypeOK' /\ Numbered'
<1> USE BoundsAssumption
<1>1. CASE UNCHANGED vars
  BY <1>1 DEF vars, client, tz, secure, wq, rpc, supplicant, TypeOK, Numbered, Requests
<1>2. ASSUME NEW t \in Clients, call_tee(t) PROVE TypeOK' /\ Numbered'
  BY <1>2 DEF call_tee, Goto, tz, secure, wq, rpc, supplicant, TypeOK, Numbered
<1>3. ASSUME NEW t \in Clients, e_lock_wait_completion(t) PROVE TypeOK' /\ Numbered'
  BY <1>3 DEF e_lock_wait_completion, Waiters, Goto, tz, secure, wq, rpc, supplicant, TypeOK, Numbered
<1>4. ASSUME NEW t \in Clients, wait_for_completion(t) \/ wait_timeout(t) PROVE TypeOK' /\ Numbered'
  BY <1>4 DEF wait_for_completion, wait_timeout, Goto, tz, secure, wq, rpc, supplicant, TypeOK, Numbered
<1>5. ASSUME NEW t \in Clients, smc(t) PROVE TypeOK' /\ Numbered'
  BY <1>5, VisitTypes
<1>6. ASSUME NEW t \in Clients, wait_queue_sleep(t) PROVE TypeOK' /\ Numbered'
  BY <1>6 DEF wait_queue_sleep, wait_queue_get, Entry, Goto, tz, secure, wq, rpc, supplicant, TypeOK, Numbered
<1>7. ASSUME NEW t \in Clients, wait_queue_woken(t) PROVE TypeOK' /\ Numbered'
  BY <1>7 DEF wait_queue_woken, Entry, Goto, tz, secure, wq, rpc, supplicant, TypeOK, Numbered
<1>8. ASSUME NEW t \in Clients, wait_queue_delete(t) PROVE TypeOK' /\ Numbered'
  BY <1>8 DEF wait_queue_delete, Goto, tz, secure, wq, rpc, supplicant, TypeOK, Numbered
<1>9. ASSUME NEW t \in Clients, wait_queue_wakeup(t) PROVE TypeOK' /\ Numbered'
  BY <1>9 DEF wait_queue_wakeup, wait_queue_get, Entry, Goto, tz, secure, wq, rpc, supplicant, TypeOK, Numbered
<1>10. ASSUME NEW t \in Clients, wait_queue_complete(t) PROVE TypeOK' /\ Numbered'
  <2>1. woken[t] \in Clients
    BY <1>10 DEF wait_queue_complete, Paired, Waking, TypeOK
  <2>2. queue[woken[t]] # NULL => queue[woken[t]] + 1 \in Nat
    BY <2>1 DEF TypeOK
  <2> QED
    BY <1>10, <2>1, <2>2 DEF wait_queue_complete, Goto, tz, secure, wq, rpc, supplicant, TypeOK, Numbered
<1>11. ASSUME NEW t \in Clients, supp_cmd(t) PROVE TypeOK' /\ Numbered'
  BY <1>11 DEF supp_cmd, Goto, tz, secure, wq, rpc, supplicant, TypeOK, Numbered
<1>12. ASSUME NEW t \in Clients, supp_send(t) PROVE TypeOK' /\ Numbered'
  <2>1. Cmd(t) \in Requests
    BY <1>12 DEF supp_send, Cmd, Requests, TypeOK, Numbered
  <2> QED
    BY <1>12, <2>1 DEF supp_send, Goto, tz, secure, wq, supplicant, TypeOK, Numbered
<1>13. ASSUME NEW t \in Clients, supp_receive(t) PROVE TypeOK' /\ Numbered'
  BY <1>13 DEF supp_receive, Goto, tz, secure, wq, supplicant, TypeOK, Numbered
<1>14. ASSUME NEW s \in Supplicants, supp_read(s) PROVE TypeOK' /\ Numbered'
  BY <1>14 DEF supp_read, client, tz, secure, wq, TypeOK, Numbered
<1>15. ASSUME NEW s \in Supplicants, supp_write(s) PROVE TypeOK' /\ Numbered'
  BY <1>15 DEF supp_write, client, tz, secure, wq, TypeOK, Numbered, Requests
<1>16. ASSUME NEW s \in Supplicants, supp_open(s) PROVE TypeOK' /\ Numbered'
  BY <1>16 DEF supp_open, client, tz, secure, wq, rpc, TypeOK, Numbered
<1>17. ASSUME NEW s \in Supplicants, supp_refused(s) \/ supp_released(s) PROVE TypeOK' /\ Numbered'
  <2>1. used > 0
    BY <1>17, UsersCounted DEF supp_refused, supp_released, Using, TypeOK
  <2> QED
    BY <1>17, <2>1 DEF supp_refused, supp_released, client, tz, secure, wq, rpc, TypeOK, Numbered
<1>18. ASSUME NEW s \in Supplicants, supp_release(s) PROVE TypeOK' /\ Numbered'
  BY <1>18 DEF supp_release, client, tz, secure, wq, rpc, TypeOK, Numbered, Requests
<1> QED
  BY <1>1, <1>2, <1>3, <1>4, <1>5, <1>6, <1>7, <1>8, <1>9, <1>10, <1>11, <1>12, <1>13, <1>14, <1>15,
     <1>16, <1>17, <1>18
  DEF Next, ClientStep, Serve

-----------------------------------------------------------------------------
(* The use count and the channel.                                          *)

\* Only the steps of supplicants count them in and out.
LEMMA InUseStep ==
  ASSUME TypeOK, InUse, [Next]_vars
  PROVE  InUse'
<1>1. ASSUME UNCHANGED <<used, supp>> PROVE InUse'
  BY <1>1 DEF InUse, Using
<1>2. ASSUME NEW s \in Supplicants, supp_read(s) \/ supp_write(s) PROVE InUse'
  <2>1. used' = used /\ Using' = Using
    BY <1>2 DEF supp_read, supp_write, Using, TypeOK
  <2> QED
    BY <2>1 DEF InUse
<1>3. ASSUME NEW s \in Supplicants, supp_open(s) PROVE InUse'
  <2>1. used' = used + 1 /\ s \notin Using /\ Using' = Using \cup {s}
    BY <1>3 DEF supp_open, Using, TypeOK
  <2>2. IsFiniteSet(Using') /\ Cardinality(Using') = Cardinality(Using) + 1
    BY <2>1, FS_AddElement DEF InUse
  <2>3. Cardinality(Using) \in Nat
    BY FS_CardinalityType DEF InUse
  <2> QED
    BY <2>1, <2>2, <2>3 DEF InUse, TypeOK
<1>4. ASSUME NEW s \in Supplicants, supp_refused(s) \/ supp_released(s) PROVE InUse'
  <2>1. used' = used - 1 /\ s \in Using /\ Using' = Using \ {s}
    BY <1>4 DEF supp_refused, supp_released, Using, TypeOK
  <2> QED
    BY <2>1, UsersCounted DEF InUse, TypeOK
<1>5. ASSUME NEW s \in Supplicants, supp_release(s) PROVE InUse'
  <2>1. used' = used /\ s \in Using /\ Using' \in {Using, Using \ {s}}
    BY <1>5 DEF supp_release, Using, TypeOK
  <2>2. CASE Using' = Using
    BY <2>1, <2>2 DEF InUse
  <2>3. CASE Using' = Using \ {s}
    <3>1. IsFiniteSet(Using \ {s}) /\ Cardinality(Using \ {s}) <= used - 1
      BY <2>1, UsersCounted DEF TypeOK
    <3>2. Cardinality(Using \ {s}) \in Nat
      BY <3>1, FS_CardinalityType
    <3> QED
      BY <2>1, <2>3, <3>1, <3>2 DEF InUse, TypeOK
  <2> QED
    BY <2>1, <2>2, <2>3
<1>6. ASSUME NEW t \in Clients, call_tee(t) \/ wait_timeout(t) \/ ClientStep(t)
      PROVE  UNCHANGED <<used, supp>>
  BY <1>6 DEF call_tee, wait_timeout, ClientStep, e_lock_wait_completion, wait_for_completion, smc,
     wait_queue_sleep, wait_queue_woken, wait_queue_delete, wait_queue_wakeup, wait_queue_complete,
     supp_cmd, supp_send, supp_receive, supplicant
<1> QED
  BY <1>1, <1>2, <1>3, <1>4, <1>5, <1>6 DEF Next, Serve, vars, supplicant

\* What the step of a client leaves alone.
OthersStay(t) ==
  \A u \in Clients \ {t} :
    /\ pc'[u] = pc[u] /\ number'[u] = number[u] /\ rpcs'[u] = rpcs[u]
    /\ answer'[u] = answer[u] /\ woken'[u] = woken[u] /\ ta'[u] = ta[u]

\* A client changes nothing of another one.
LEMMA ClientsApart ==
  ASSUME TypeOK, NEW t \in Clients, call_tee(t) \/ wait_timeout(t) \/ ClientStep(t)
  PROVE  OthersStay(t)
<1> USE DEF OthersStay, Goto, secure, TypeOK
<1>1. CASE call_tee(t) \/ wait_timeout(t) \/ e_lock_wait_completion(t) \/ wait_for_completion(t)
  BY <1>1 DEF call_tee, wait_timeout, e_lock_wait_completion, wait_for_completion
<1>2. CASE smc(t)
  BY <1>2 DEF smc, Return, AskSupplicant, AskToSleep, Interrupted, AskToWake
<1>3. CASE \/ wait_queue_sleep(t) \/ wait_queue_woken(t) \/ wait_queue_delete(t)
           \/ wait_queue_wakeup(t) \/ wait_queue_complete(t)
  BY <1>3 DEF wait_queue_sleep, wait_queue_woken, wait_queue_delete, wait_queue_wakeup,
     wait_queue_complete
<1>4. CASE supp_cmd(t) \/ supp_send(t) \/ supp_receive(t)
  BY <1>4 DEF supp_cmd, supp_send, supp_receive
<1> QED
  BY <1>1, <1>2, <1>3, <1>4 DEF ClientStep

\* The channel is not touched by a client that neither has nor takes it.
LEMMA ChannelStays ==
  ASSUME Channel, NEW t \in Clients, OthersStay(t), pc[t] # "answer", pc'[t] # "answer",
         UNCHANGED <<rpc, supplicant>>
  PROVE  Channel'
<1>1. thrd_mutex # t /\ UNCHANGED <<thrd_mutex, commToUser, datatouser, commFromUser, datafromuser>>
  BY DEF Channel, rpc
<1>2. thrd_mutex \in Clients => Cmd(thrd_mutex)' = Cmd(thrd_mutex)
  BY <1>1 DEF Cmd, OthersStay
<1>3. \A s \in Supplicants : request'[s] = request[s] /\ (Busy(s)' <=> Busy(s))
  BY DEF Busy, supplicant
<1> QED
  BY <1>1, <1>2, <1>3 DEF Channel, OthersStay

\* Sending, reading, writing and receiving move the one request along.
LEMMA ChannelStep ==
  ASSUME TypeOK, Channel, [Next]_vars
  PROVE  Channel'
<1> USE TeeNullAssumption
<1>1. CASE UNCHANGED vars
  BY <1>1 DEF vars, client, rpc, supplicant, Channel, Busy, Cmd
<1>2. ASSUME NEW t \in Clients, supp_send(t) PROVE Channel'
  <2>1. thrd_mutex = NULL /\ thrd_mutex' = t /\ datatouser' = datatouser + 1 /\ commToUser' = Cmd(t)
    BY <1>2 DEF supp_send, ChannelFree
  <2>2. datatouser = 0 /\ datafromuser = 0 /\ \A s \in Supplicants : ~Busy(s)
    BY <2>1 DEF Channel
  <2>3. Cmd(t)' = Cmd(t) /\ datafromuser' = datafromuser /\ \A s \in Supplicants : Busy(s)' <=> Busy(s)
    BY <1>2 DEF supp_send, Cmd, Busy, supplicant
  <2>4. \A u \in Clients : u = t <=> pc'[u] = "answer"
    BY <1>2, <2>1 DEF supp_send, Goto, Channel, TypeOK
  <2> QED
    BY <2>1, <2>2, <2>3, <2>4 DEF Channel
<1>3. ASSUME NEW t \in Clients, supp_receive(t) PROVE Channel'
  <2>1. thrd_mutex = t /\ thrd_mutex' = NULL /\ datafromuser = 1 /\ datafromuser' = 0
    BY <1>3 DEF supp_receive, Channel
  <2>2. datatouser' = datatouser /\ datatouser = 0 /\ \A s \in Supplicants : ~Busy(s)
    BY <1>3, <2>1 DEF supp_receive, Channel
  <2>3. \A s \in Supplicants : Busy(s)' <=> Busy(s)
    BY <1>3 DEF supp_receive, Busy, supplicant
  <2>4. \A u \in Clients : pc'[u] # "answer"
    BY <1>3, <2>1 DEF supp_receive, Goto, Channel, TypeOK
  <2> QED
    BY <2>1, <2>2, <2>3, <2>4 DEF Channel
<1>4. ASSUME NEW t \in Clients, call_tee(t) \/ wait_timeout(t) \/ ClientStep(t),
             ~supp_send(t), ~supp_receive(t)
      PROVE  Channel'
  <2>1. OthersStay(t)
    BY <1>4, ClientsApart
  <2>2. pc[t] # "answer" /\ pc'[t] # "answer" /\ UNCHANGED <<rpc, supplicant>>
    <3> USE DEF Goto, TypeOK
    <3>1. CASE call_tee(t) \/ wait_timeout(t) \/ e_lock_wait_completion(t) \/ wait_for_completion(t)
      BY <3>1 DEF call_tee, wait_timeout, e_lock_wait_completion, wait_for_completion
    <3>2. CASE smc(t)
      BY <3>2 DEF smc, CanEnter, Return, AskSupplicant, AskToSleep, Interrupted, AskToWake
    <3>3. CASE \/ wait_queue_sleep(t) \/ wait_queue_woken(t) \/ wait_queue_delete(t)
               \/ wait_queue_wakeup(t) \/ wait_queue_complete(t)
      BY <3>3 DEF wait_queue_sleep, wait_queue_woken, wait_queue_delete, wait_queue_wakeup,
         wait_queue_complete
    <3>4. CASE supp_cmd(t)
      BY <3>4 DEF supp_cmd
    <3> QED
      BY <1>4, <3>1, <3>2, <3>3, <3>4 DEF ClientStep
  <2> QED
    BY <2>1, <2>2, ChannelStays
<1>5. ASSUME NEW s \in Supplicants, supp_read(s) PROVE Channel'
  <2>1. datatouser = 1 /\ datatouser' = 0
    BY <1>5 DEF supp_read, Channel, TypeOK
  <2>2. /\ thrd_mutex \in Clients /\ commToUser = Cmd(thrd_mutex) /\ datafromuser = 0
        /\ \A r \in Supplicants : ~Busy(r)
    BY <2>1 DEF Channel
  <2>3. /\ UNCHANGED <<pc, thrd_mutex, commToUser, commFromUser, datafromuser>>
        /\ \A u \in Clients : Cmd(u)' = Cmd(u)
    BY <1>5 DEF supp_read, client, Cmd
  <2>4. \A r \in Supplicants : Busy(r)' => r = s /\ request'[r] = commToUser
    BY <1>5, <2>2 DEF supp_read, Busy, TypeOK
  <2> QED
    BY <2>1, <2>2, <2>3, <2>4 DEF Channel
<1>6. ASSUME NEW s \in Supplicants, supp_write(s) PROVE Channel'
  <2>1. /\ thrd_mutex \in Clients /\ request[s] = Cmd(thrd_mutex) /\ datafromuser = 0
        /\ datatouser = 0 /\ \A r \in Supplicants : Busy(r) => r = s
    BY <1>6 DEF supp_write, Channel, Busy
  <2>2. /\ UNCHANGED <<pc, thrd_mutex, commToUser, datatouser>>
        /\ \A u \in Clients : Cmd(u)' = Cmd(u)
        /\ \A r \in Supplicants : ~Busy(r)'
    BY <1>6, <2>1 DEF supp_write, client, Cmd, Busy, TypeOK
  <2>3. \/ datafromuser' = 0
        \/ datafromuser' = 1 /\ commFromUser' = request[s]
    BY <1>6, <2>1 DEF supp_write
  <2> QED
    BY <2>1, <2>2, <2>3 DEF Channel
<1>7. ASSUME NEW s \in Supplicants,
             supp_open(s) \/ supp_refused(s) \/ supp_released(s) \/ supp_release(s)
      PROVE  Channel'
  <2>1. \A r \in Supplicants : Busy(r)' => Busy(r) /\ request'[r] = request[r]
    BY <1>7 DEF supp_open, supp_refused, supp_released, supp_release, Busy, TypeOK
  <2>2. /\ UNCHANGED <<pc, thrd_mutex, commToUser, datatouser, commFromUser, datafromuser>>
        /\ \A u \in Clients : Cmd(u)' = Cmd(u)
    BY <1>7 DEF supp_open, supp_refused, supp_released, supp_release, client, rpc, Cmd
  <2> QED
    BY <2>1, <2>2 DEF Channel
<1> QED
  BY <1>1, <1>2, <1>3, <1>4, <1>5, <1>6, <1>7 DEF Next, Serve

\* The answer that a thread receives is to its request, and is dropped when the
\* thread goes back into the trusted world.
LEMMA AnswersStep ==
  ASSUME TypeOK, Channel, Answers, [Next]_vars
  PROVE  Answers'
<1>1. CASE UNCHANGED client
  BY <1>1 DEF client, Answers, Cmd
<1>2. ASSUME NEW t \in Clients, call_tee(t) \/ wait_timeout(t) \/ ClientStep(t)
      PROVE  Answers'
  <2>1. \A u \in Clients \ {t} : answer'[u] # NULL => pc'[u] = "resume" /\ answer'[u] = Cmd(u)'
    BY <1>2, ClientsApart DEF OthersStay, Answers, Cmd
  <2>2. CASE smc(t)
    BY <2>1, <2>2 DEF smc, Answers, TypeOK
  <2>3. CASE supp_receive(t)
    <3>1. thrd_mutex = t /\ datafromuser = 1
      BY <2>3 DEF supp_receive, Channel
    <3>2. commFromUser = Cmd(t) /\ Cmd(t)' = Cmd(t)
      BY <2>3, <3>1 DEF supp_receive, Channel, Cmd
    <3>3. answer'[t] = Cmd(t) /\ pc'[t] = "resume"
      BY <2>3, <3>2 DEF supp_receive, Goto, TypeOK
    <3> QED
      BY <2>1, <3>2, <3>3 DEF Answers
  <2>4. CASE ~smc(t) /\ ~supp_receive(t)
    <3>1. pc[t] # "resume" /\ answer'[t] = answer[t]
      BY <1>2, <2>4 DEF call_tee, wait_timeout, ClientStep, e_lock_wait_completion, wait_for_completion,
         wait_queue_sleep, wait_queue_woken, wait_queue_delete, wait_queue_wakeup,
         wait_queue_complete, supp_cmd, supp_send
    <3> QED
      BY <2>1, <3>1 DEF Answers
  <2> QED
    BY <2>2, <2>3, <2>4
<1>3. ASSUME NEW s \in Supplicants, supp_read(s) \/ supp_release(s) \/ Serve(s)
      PROVE  UNCHANGED client
  BY <1>3 DEF Serve, supp_read, supp_release, supp_open, supp_refused, supp_write, supp_released
<1> QED
  BY <1>1, <1>2, <1>3 DEF Next, vars

-----------------------------------------------------------------------------
(* The wait queues.                                                        *)

\* The steps of a client that neither sleeps nor wakes.
Elsewhere == {"idle", "enter", "retry", "resume", "wait", "invoke", "send", "answer"}

\* A step outside the wait queues.
LEMMA ElsewhereStays ==
  ASSUME TypeOK, Wakers, NoLostWake, NEW t \in Clients, OthersStay(t),
         pc[t] \in Elsewhere, pc'[t] \in Elsewhere, woken'[t] = woken[t],
         UNCHANGED <<queue, sleepers>>, Paired
  PROVE  Wakers' /\ NoLostWake'
<1> USE DEF InQueue, Waking, Elsewhere
<1>1. \A u \in Clients : Entry(u)' = Entry(u) /\ woken'[u] = woken[u]
  BY DEF Entry, OthersStay
<1>2. \A u \in Clients : \/ pc'[u] = pc[u]
                         \/ pc[u] \in Elsewhere /\ pc'[u] \in Elsewhere
  BY DEF OthersStay
<1>3. sleepers \subseteq Clients /\ \A u \in Clients : pc[u] \in Waking => woken[u] \in Clients
  BY DEF TypeOK, Paired
<1> QED
  BY <1>1, <1>2, <1>3 DEF Wakers, NoLostWake

\* Knowing whom to wake is not lost on the way.
LEMMA PairedStep ==
  ASSUME TypeOK, Paired, [Next]_vars
  PROVE  Paired'
<1> USE TeeNullAssumption DEF Waking
<1>1. CASE UNCHANGED client
  BY <1>1 DEF client, Paired
<1>2. ASSUME NEW t \in Clients, call_tee(t) \/ wait_timeout(t) \/ ClientStep(t)
      PROVE  Paired'
  <2>1. OthersStay(t)
    BY <1>2, ClientsApart
  <2>2. woken'[t] # NULL <=> pc'[t] \in Waking
    <3> USE DEF Goto, Paired, TypeOK
    <3>1. CASE call_tee(t) \/ wait_timeout(t) \/ e_lock_wait_completion(t) \/ wait_for_completion(t)
      BY <3>1 DEF call_tee, wait_timeout, e_lock_wait_completion, wait_for_completion
    <3>2. CASE smc(t)
      BY <3>2 DEF smc, CanEnter, Return, AskSupplicant, AskToSleep, Interrupted, AskToWake
    <3>3. CASE \/ wait_queue_sleep(t) \/ wait_queue_woken(t) \/ wait_queue_delete(t)
               \/ wait_queue_wakeup(t) \/ wait_queue_complete(t)
      BY <3>3 DEF wait_queue_sleep, wait_queue_woken, wait_queue_delete, wait_queue_wakeup,
         wait_queue_complete
    <3>4. CASE supp_cmd(t) \/ supp_send(t) \/ supp_receive(t)
      BY <3>4 DEF supp_cmd, supp_send, supp_receive
    <3> QED
      BY <1>2, <3>1, <3>2, <3>3, <3>4 DEF ClientStep
  <2> QED
    BY <2>1, <2>2 DEF Paired, OthersStay
<1>3. ASSUME NEW s \in Supplicants, supp_read(s) \/ supp_release(s) \/ Serve(s)
      PROVE  UNCHANGED client
  BY <1>3 DEF Serve, supp_read, supp_release, supp_open, supp_refused, supp_write, supp_released
<1> QED
  BY <1>1, <1>2, <1>3 DEF Next, vars

\* A failure of an allocation stays on record.
LEMMA FailuresCount ==
  ASSUME TypeOK, [Next]_vars
  PROVE  UNCHANGED failed \/ failed' > 0
<1>1. CASE UNCHANGED vars
  BY <1>1 DEF vars, wq
<1>2. ASSUME NEW t \in Clients, call_tee(t) \/ wait_timeout(t) \/ ClientStep(t)
      PROVE  UNCHANGED failed \/ failed' > 0
  <2>1. CASE wait_queue_sleep(t) \/ wait_queue_wakeup(t)
    BY <2>1, BoundsAssumption DEF wait_queue_sleep, wait_queue_wakeup, wait_queue_get, TypeOK
  <2> QED
    BY <1>2, <2>1 DEF ClientStep, call_tee, wait_timeout, e_lock_wait_completion,
       wait_for_completion, smc, wait_queue_woken, wait_queue_delete, wait_queue_complete,
       supp_cmd, supp_send, supp_receive, wq
<1>3. ASSUME NEW s \in Supplicants, supp_read(s) \/ supp_release(s) \/ Serve(s)
      PROVE  UNCHANGED failed
  BY <1>3 DEF Serve, supp_read, supp_release, supp_open, supp_refused, supp_write, supp_released,
     wq
<1> QED
  BY <1>1, <1>2, <1>3 DEF Next

\* An allocation that does not fail gives an entry.
LEMMA Allocated ==
  ASSUME TypeOK, NEW key \in Clients, wait_queue_get(key), UNCHANGED failed
  PROVE  queue' = [queue EXCEPT ![key] = Entry(key)] /\ queue'[key] # NULL
  BY TeeNullAssumption, BoundsAssumption DEF wait_queue_get, Entry, TypeOK

\* Who wakes, who is woken and who is in between, as long as no allocation fails.
LEMMA WakersStep ==
  ASSUME TypeOK, Paired, Wakers, NoLostWake, [Next]_vars, UNCHANGED failed
  PROVE  Wakers' /\ NoLostWake'
<1> USE TeeNullAssumption DEF InQueue, Waking
<1>1. CASE UNCHANGED <<client, sleepers, queue>>
  BY <1>1 DEF client, Wakers, NoLostWake, Entry
<1>2. sleepers \subseteq Clients /\ \A u \in Clients : pc[u] \in Waking => woken[u] \in Clients
  BY DEF TypeOK, Paired
<1>3. ASSUME NEW t \in Clients, call_tee(t) \/ wait_timeout(t) \/ ClientStep(t)
      PROVE  Wakers' /\ NoLostWake'
  <2>1. OthersStay(t)
    BY <1>3, ClientsApart
  <2>2. CASE \/ call_tee(t) \/ wait_timeout(t) \/ e_lock_wait_completion(t) \/ wait_for_completion(t)
             \/ supp_cmd(t) \/ supp_send(t) \/ supp_receive(t)
    <3>1. /\ pc[t] \in Elsewhere /\ pc'[t] \in Elsewhere /\ woken'[t] = woken[t]
          /\ UNCHANGED <<queue, sleepers>>
      BY <2>2 DEF call_tee, wait_timeout, e_lock_wait_completion, wait_for_completion, supp_cmd,
         supp_send, supp_receive, Goto, secure, wq, Elsewhere, TypeOK
    <3> QED
      BY <2>1, <3>1, ElsewhereStays
  <2>3. CASE smc(t)
    <3>1. pc[t] \in Elsewhere /\ UNCHANGED queue
      BY <2>3 DEF smc, CanEnter, wq, Elsewhere
    <3>2. CASE Return(t) \/ AskSupplicant(t) \/ Interrupted(t)
      <4>1. pc'[t] \in Elsewhere /\ woken'[t] = woken[t] /\ UNCHANGED sleepers
        BY <3>2 DEF Return, AskSupplicant, Interrupted, Goto, Elsewhere, TypeOK
      <4> QED
        BY <2>1, <3>1, <4>1, ElsewhereStays
    <3>3. CASE AskToSleep(t)
      <4>1. pc'[t] = "sleep" /\ sleepers' = sleepers \cup {t} /\ UNCHANGED woken
        BY <3>3 DEF AskToSleep, Goto, TypeOK
      <4>2. Entry(t) = 0 /\ \A u \in Clients : Entry(u)' = Entry(u)
        BY <3>1 DEF Entry, Elsewhere, Wakers
      <4>3. \A u \in Clients : pc[u] \in Waking => woken[u] # t
        BY <3>1 DEF Elsewhere, Wakers
      <4> QED
        BY <1>2, <2>1, <3>1, <4>1, <4>2, <4>3 DEF OthersStay, Elsewhere, Wakers, NoLostWake
    <3>4. CASE AskToWake(t)
      <4>1. PICK u \in sleepers : /\ sleepers' = sleepers \ {u} /\ woken'[t] = u
                                 /\ pc'[t] = "wakeup"
        BY <3>4 DEF AskToWake, Goto, TypeOK
      <4>2. \A v \in Clients : Entry(v)' = Entry(v)
        BY <3>1 DEF Entry
      <4>3. u # t /\ u \in Clients /\ pc[u] \in InQueue /\ Entry(u) = 0
        BY <1>2, <3>1, <4>1 DEF Elsewhere, Wakers
      <4>4. \A v \in Clients : pc[v] \in Waking => woken[v] # u
        BY <4>1 DEF Wakers
      <4>5. Wakers'
        BY <1>2, <2>1, <3>1, <4>1, <4>2, <4>3, <4>4 DEF OthersStay, Elsewhere, Wakers
      <4>6. NoLostWake'
        BY <1>2, <2>1, <3>1, <4>1, <4>2, <4>3 DEF OthersStay, Elsewhere, NoLostWake
      <4> QED
        BY <4>5, <4>6
    <3> QED
      BY <2>3, <3>2, <3>3, <3>4 DEF smc
  <2>4. CASE wait_queue_sleep(t)
    <3>1. /\ pc[t] = "sleep" /\ pc'[t] = "sleeping" /\ UNCHANGED <<woken, sleepers>>
          /\ queue' = [queue EXCEPT ![t] = Entry(t)]
      BY <2>4, Allocated DEF wait_queue_sleep, Goto, secure, TypeOK
    <3>2. Entry(t) # NULL /\ \A u \in Clients : Entry(u)' = Entry(u) /\ (queue'[u] # NULL <=> u = t \/ queue[u] # NULL)
      BY <3>1 DEF Entry, TypeOK
    <3> QED
      BY <1>2, <2>1, <3>1, <3>2 DEF OthersStay, Wakers, NoLostWake
  <2>5. CASE wait_queue_woken(t)
    <3>1. /\ pc[t] = "sleeping" /\ pc'[t] = "delete" /\ UNCHANGED <<woken, sleepers>>
          /\ queue' = [queue EXCEPT ![t] = @ - 1] /\ Entry(t) > 0
      BY <2>5 DEF wait_queue_woken, Goto, secure, TypeOK
    <3>2. t \notin sleepers /\ \A u \in Clients : pc[u] \in Waking => woken[u] # t
      BY <3>1 DEF Wakers
    <3>3. \A u \in Clients \ {t} : Entry(u)' = Entry(u) /\ queue'[u] = queue[u]
      BY <3>1 DEF Entry, TypeOK
    <3> QED
      BY <1>2, <2>1, <3>1, <3>2, <3>3 DEF OthersStay, Wakers, NoLostWake
  <2>6. CASE wait_queue_delete(t)
    <3>1. /\ pc[t] = "delete" /\ pc'[t] = "resume" /\ UNCHANGED <<woken, sleepers>>
          /\ queue' = [queue EXCEPT ![t] = NULL]
      BY <2>6 DEF wait_queue_delete, Goto, secure, TypeOK
    <3>2. t \notin sleepers /\ \A u \in Clients : pc[u] \in Waking => woken[u] # t
      BY <3>1 DEF Wakers
    <3>3. queue'[t] = NULL /\ \A u \in Clients \ {t} : Entry(u)' = Entry(u) /\ queue'[u] = queue[u]
      BY <3>1 DEF Entry, TypeOK
    <3> QED
      BY <1>2, <2>1, <3>1, <3>2, <3>3 DEF OthersStay, Wakers, NoLostWake
  <2>7. CASE wait_queue_wakeup(t)
    <3>1. /\ pc[t] = "wakeup" /\ pc'[t] = "complete" /\ UNCHANGED <<woken, sleepers>>
          /\ queue' = [queue EXCEPT ![woken[t]] = Entry(woken[t])]
      BY <1>2, <2>7, Allocated DEF wait_queue_wakeup, Goto, secure, TypeOK
    <3>2. woken[t] \in Clients /\ woken[t] # t /\ pc[woken[t]] \in InQueue
      BY <1>2, <3>1 DEF Wakers
    <3>3. \A u \in Clients : Entry(u)' = Entry(u) /\ (queue'[u] # NULL <=> u = woken[t] \/ queue[u] # NULL)
      BY <3>1, <3>2 DEF Entry, TypeOK
    <3> QED
      BY <1>2, <2>1, <3>1, <3>2, <3>3 DEF OthersStay, Wakers, NoLostWake
  <2>8. CASE wait_queue_complete(t)
    <3>1. /\ pc[t] = "complete" /\ pc'[t] = "resume" /\ UNCHANGED sleepers
          /\ woken'[t] = NULL
          /\ queue' = [queue EXCEPT ![woken[t]] = IF @ = NULL THEN NULL ELSE @ + 1]
          /\ queue[woken[t]] # NULL
      BY <2>8 DEF wait_queue_complete, Goto, secure, Wakers, TypeOK
    <3>0. PICK w \in Clients : w = woken[t]
      BY <1>2, <3>1
    <3>2. /\ w # t /\ pc[w] \in InQueue /\ w \notin sleepers
          /\ \A u \in Clients : pc[u] \in Waking /\ woken[u] = w => u = t
      BY <3>0, <3>1 DEF Wakers
    <3>3. queue[w] = 0
      BY <3>0, <3>1, <3>2 DEF Wakers, Entry
    <3>4. queue' = [queue EXCEPT ![w] = 1]
      BY <3>0, <3>1, <3>3, TeeNullAssumption
    <3>5. Entry(w)' = 1 /\ queue'[w] # NULL /\ \A u \in Clients \ {w} : Entry(u)' = Entry(u) /\ queue'[u] = queue[u]
      BY <3>2, <3>4 DEF Entry, TypeOK
    <3>6. \A u \in Clients \ {t} : pc'[u] \in Waking => pc[u] \in Waking /\ woken'[u] = woken[u] /\ woken[u] # w
      BY <2>1, <3>2 DEF OthersStay
    <3>7. Wakers'
      BY <1>2, <2>1, <3>1, <3>2, <3>5, <3>6 DEF OthersStay, Wakers
    <3>8. NoLostWake'
      BY <1>2, <2>1, <3>0, <3>1, <3>5 DEF OthersStay, NoLostWake
    <3> QED
      BY <3>7, <3>8
  <2> QED
    BY <1>3, <2>2, <2>3, <2>4, <2>5, <2>6, <2>7, <2>8 DEF ClientStep
<1>4. ASSUME NEW s \in Supplicants, supp_read(s) \/ supp_release(s) \/ Serve(s)
      PROVE  UNCHANGED <<client, sleepers, queue>>
  BY <1>4 DEF Serve, supp_read, supp_release, supp_open, supp_refused, supp_write, supp_released,
     secure, wq
<1> QED
  BY <1>1, <1>3, <1>4 DEF Next, vars, secure, wq

-----------------------------------------------------------------------------
(* The wait for a secure thread.                                           *)

Outside == {"idle", "enter", "retry", "wait"}

\* c_waiters follows the threads that register, come back and leave.
LEMMA CountedStep ==
  ASSUME TypeOK, Counted, [Next]_vars
  PROVE  Counted'
<1> USE DEF Outside
<1>1. CASE UNCHANGED <<pc, c_waiters, ta>>
  BY <1>1 DEF Counted, InWait
<1>2. ASSUME NEW t \in Clients, call_tee(t) \/ wait_timeout(t) \/ ClientStep(t)
      PROVE  Counted'
  <2>1. OthersStay(t)
    BY <1>2, ClientsApart
  <2>2. ASSUME InWait' = InWait, c_waiters' = c_waiters, pc'[t] \in Outside => ta'[t] = "out"
        PROVE  Counted'
    BY <2>1, <2>2 DEF Counted, OthersStay
  <2>3. CASE call_tee(t) \/ wait_timeout(t) \/ wait_for_completion(t)
    <3>1. InWait' = InWait /\ c_waiters' = c_waiters /\ ta'[t] = "out"
      BY <2>3 DEF call_tee, wait_timeout, wait_for_completion, Goto, tz, secure, InWait, Counted, TypeOK
    <3> QED
      BY <2>2, <3>1
  <2>4. CASE e_lock_wait_completion(t)
    <3>1. InWait' = InWait \cup {t} /\ ta'[t] = "out"
      BY <2>4 DEF e_lock_wait_completion, Goto, secure, InWait, Counted, TypeOK
    <3>2. CASE pc[t] = "retry"
      <4>1. t \in InWait /\ c_waiters' = c_waiters
        BY <2>4, <3>2 DEF e_lock_wait_completion, Waiters, InWait, TypeOK
      <4>2. InWait' = InWait
        BY <3>1, <4>1
      <4> QED
        BY <2>2, <3>1, <4>1, <4>2
    <3>3. CASE pc[t] # "retry"
      <4>1. t \notin InWait /\ c_waiters' = c_waiters + 1
        BY <2>4, <3>3 DEF e_lock_wait_completion, Waiters, InWait
      <4>2. IsFiniteSet(InWait \cup {t}) /\ Cardinality(InWait \cup {t}) = Cardinality(InWait) + 1
        BY <4>1, FS_AddElement DEF Counted
      <4> QED
        BY <2>1, <3>1, <4>1, <4>2 DEF Counted, OthersStay
    <3> QED
      BY <3>2, <3>3
  <2>5. CASE smc(t)
    <3>1. InWait' = InWait \ {t} /\ (pc'[t] \in Outside => ta'[t] = "out")
      BY <2>5 DEF smc, Return, AskSupplicant, AskToSleep, Interrupted, AskToWake, Goto, InWait, TypeOK
    <3>2. c_waiters' = Waiters(t)
      BY <2>5 DEF smc, e_unlock
    <3>3. CASE pc[t] = "retry"
      <4>1. t \in InWait /\ Waiters(t) = c_waiters - 1
        BY <3>3 DEF Waiters, InWait
      <4>2. IsFiniteSet(InWait \ {t}) /\ Cardinality(InWait \ {t}) = Cardinality(InWait) - 1
        BY <4>1, FS_RemoveElement DEF Counted
      <4> QED
        BY <2>1, <3>1, <3>2, <4>1, <4>2 DEF Counted, OthersStay
    <3>4. CASE pc[t] # "retry"
      <4>1. InWait' = InWait /\ c_waiters' = c_waiters
        BY <2>5, <3>1, <3>2, <3>4 DEF smc, CanEnter, Waiters, InWait
      <4> QED
        BY <2>2, <3>1, <4>1
    <3> QED
      BY <3>3, <3>4
  <2>6. CASE \/ wait_queue_sleep(t) \/ wait_queue_woken(t) \/ wait_queue_delete(t)
             \/ wait_queue_wakeup(t) \/ wait_queue_complete(t)
             \/ supp_cmd(t) \/ supp_send(t) \/ supp_receive(t)
    <3>1. pc[t] \notin Outside /\ pc'[t] \notin Outside /\ c_waiters' = c_waiters
      BY <2>6 DEF wait_queue_sleep, wait_queue_woken, wait_queue_delete, wait_queue_wakeup,
         wait_queue_complete, supp_cmd, supp_send, supp_receive, Goto, tz, TypeOK
    <3>2. InWait' = InWait
      BY <2>1, <3>1 DEF InWait, OthersStay
    <3> QED
      BY <2>2, <3>1, <3>2
  <2> QED
    BY <1>2, <2>3, <2>4, <2>5, <2>6 DEF ClientStep
<1>3. ASSUME NEW s \in Supplicants, supp_read(s) \/ supp_release(s) \/ Serve(s)
      PROVE  UNCHANGED <<pc, c_waiters, ta>>
  BY <1>3 DEF Serve, supp_read, supp_release, supp_open, supp_refused, supp_write, supp_released,
     client, tz, secure
<1> QED
  BY <1>1, <1>2, <1>3 DEF Next, vars, client, tz, secure

\* A thread that leaves the trusted world completes for those that are counted,
\* and one that registers leaves somebody inside.
LEMMA ToldStep ==
  ASSUME TypeOK, Counted, WaiterIsTold, [Next]_vars
  PROVE  WaiterIsTold'
<1>1. CASE UNCHANGED <<pc, done>>
  BY <1>1 DEF WaiterIsTold
<1>2. ASSUME NEW t \in Clients, call_tee(t) \/ wait_timeout(t) \/ ClientStep(t)
      PROVE  WaiterIsTold'
  <2>1. CASE smc(t)
    <3>1. ASSUME NEW u \in Clients, pc'[u] = "wait" PROVE done' # 0
      <4>1. u # t /\ pc[u] = "wait"
        BY <2>1, <3>1, ClientsApart DEF ClientStep, OthersStay, smc, Return, AskSupplicant,
           AskToSleep, Interrupted, AskToWake, Goto, TypeOK
      <4>2. Waiters(t) > 0
        BY <4>1, WaitersCounted DEF InWait
      <4> QED
        BY <2>1, <4>2 DEF smc, e_unlock, TypeOK
    <3> QED
      BY <3>1 DEF WaiterIsTold
  <2>2. CASE e_lock_wait_completion(t)
    <3>1. Inside # {}
      BY <2>2, FS_EmptySet, SecureThreadsAssumption DEF e_lock_wait_completion
    <3>2. PICK v \in Clients : ta[v] # "out"
      BY <3>1 DEF Inside
    <3>3. v # t /\ pc[v] \notin {"idle", "wait"}
      BY <2>2, <3>2 DEF e_lock_wait_completion, Counted
    <3>4. pc'[v] = pc[v]
      BY <2>2, <3>3 DEF e_lock_wait_completion, Goto, TypeOK
    <3> QED
      BY <3>3, <3>4 DEF WaiterIsTold
  <2>3. CASE ~smc(t) /\ ~e_lock_wait_completion(t)
    <3>1. pc'[t] \notin {"idle", "wait"}
      BY <1>2, <2>3 DEF ClientStep, call_tee, wait_timeout, wait_for_completion,
         wait_queue_sleep, wait_queue_woken, wait_queue_delete, wait_queue_wakeup,
         wait_queue_complete, supp_cmd, supp_send, supp_receive, Goto, TypeOK
    <3> QED
      BY <3>1 DEF WaiterIsTold
  <2> QED
    BY <2>1, <2>2, <2>3
<1>3. ASSUME NEW s \in Supplicants, supp_read(s) \/ supp_release(s) \/ Serve(s)
      PROVE  UNCHANGED <<pc, done>>
  BY <1>3 DEF Serve, supp_read, supp_release, supp_open, supp_refused, supp_write, supp_released,
     client, tz
<1> QED
  BY <1>1, <1>2, <1>3 DEF Next, vars, client, tz

-----------------------------------------------------------------------------
(* The results.                                                            *)

\* All parts of the invariant hold together: calls, requests and wake-ups of the
\* driver keep them in every order.
THEOREM TeeInvariant == Spec => []IndInv
<1>1. Init => IndInv
  <2> SUFFICES ASSUME Init PROVE IndInv
    OBVIOUS
  <2> USE BoundsAssumption, TeeNullAssumption
  <2>1. TypeOK /\ Numbered
    BY DEF Init, TypeOK, Requests, Numbered
  <2>2. Channel /\ Answers
    BY DEF Init, Channel, Answers, Busy
  <2>3. Paired /\ Wakers /\ NoLostWake
    BY DEF Init, Paired, Wakers, NoLostWake, Waking, InQueue
  <2>4. InWait = {} /\ Using = {}
    BY DEF Init, InWait, Using
  <2>5. Counted /\ InUse
    BY <2>4, FS_EmptySet DEF Init, Counted, InUse
  <2>6. WaiterIsTold
    BY DEF Init, WaiterIsTold
  <2> QED
    BY <2>1, <2>2, <2>3, <2>5, <2>6 DEF IndInv
<1>2. ASSUME IndInv, [Next]_vars PROVE IndInv'
  <2>1. failed' = 0 => failed = 0 /\ UNCHANGED failed
    BY <1>2, FailuresCount DEF IndInv
  <2>2. failed' = 0 => Wakers' /\ NoLostWake'
    BY <1>2, <2>1, WakersStep DEF IndInv
  <2> QED
    BY <1>2, <2>2, TypeStep, InUseStep, ChannelStep, AnswersStep, PairedStep, CountedStep, ToldStep
    DEF IndInv
<1> QED
  BY <1>1, <1>2, PTL DEF Spec

\* What tee_supp_cmd() hands back is the answer to the request of this thread,
\* also if requests and answers are lost, and supplicants die with requests or
\* come and go at the same time.
THEOREM AnswersAreMine == Spec => []AnswerIsMine
<1>1. IndInv => AnswerIsMine
  BY DEF IndInv, Answers, AnswerIsMine
<1> QED
  BY <1>1, TeeInvariant, PTL

\* Nobody waits in e_lock_wait_completion_teez() without a completion pending or
\* a thread on its way that will complete.
THEOREM WaitersAreTold == Spec => []WaiterIsTold
<1>1. IndInv => WaiterIsTold
  BY DEF IndInv
<1> QED
  BY <1>1, TeeInvariant, PTL

\* tee_wait_queue_wakeup() completes an entry that its sleeper has not freed, as
\* long as no allocation has failed.
THEOREM WakesHitEntries == Spec => []WakeHitsEntry
<1>1. IndInv => WakeHitsEntry
  BY DEF IndInv, Wakers, WakeHitsEntry
<1> QED
  BY <1>1, TeeInvariant, PTL

\* A thread that sleeps in tee_wait_queue_sleep() is still a waiter of the mutex
\* of the trusted world, has a waker on its way, or has been woken, as long as no
\* allocation has failed.
THEOREM SleepersAreWoken == Spec => [](failed = 0 => NoLostWake)
<1>1. IndInv => (failed = 0 => NoLostWake)
  BY DEF IndInv
<1> QED
  BY <1>1, TeeInvariant, PTL
=============================================================================
