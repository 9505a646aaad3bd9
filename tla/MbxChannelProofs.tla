-------------------------- MODULE MbxChannelProofs --------------------------
(***************************************************************************)
(* Proofs about MbxChannel, for any threads, groups, messages and timeouts *)
(* of the BUSY loop, and any dead peers.                                   *)
(***************************************************************************)
EXTENDS MbxChannel, TLAPS

-----------------------------------------------------------------------------
(* The inductive invariants.                                               *)

SendPc == {"idle", "lock", "fire", "fire_busy", "busy", "s1_c", "instant_c", "busy_s", "word1",
           "word2", "instant_s", "fire_s", "int", "poll", "overflow", "disabled", "reset_ctrl",
           "reset_words", "reset_s1", "clear", "unlock"}
RecvPc == {"idle", "fire", "busy_s", "type", "word1", "word2", "add", "overflow_s", "disabled_s",
           "busy_c", "fire_c"}
Errors == {"PEER_CPU_NOTREADY", "PEER_CPU_NOT_ALIVE", "PEER_CPU_BUSY", "PEER_CPU_OVERFLOW"}
Read == {NULL} \cup SUBSET (Ctrl \cup State1)
Mail == Words \X Words \X Types

Register == [ctrl : SUBSET Ctrl, word : Words \X Words, s1 : SUBSET State1]
Sending == [pc : SendPc, g : Groups \cup {NULL}, msg : Mail \cup {NULL}, chk : Nat, val : Read,
            ret : Errors \cup {"SUCCESS", NULL}]
Receiving == [pc : RecvPc, val : Read, msg : Mail \cup {<<>>}]

Typed ==
  /\ reg \in [Groups -> Register]
  /\ irq \in [Groups -> BOOLEAN]
  /\ lock \in Threads \cup {NULL}
  /\ th \in [Threads -> Sending]
  /\ rc \in [Groups -> Receiving]
  /\ accepted \in [Groups -> Seq(Mail)]

Active(t) == th[t].pc \notin {"idle", "lock"}

\* One thread at a time is past the mutex; it sends a message through a group.
Serial ==
  /\ \A t \in Threads : Active(t) <=> lock = t
  /\ \A t \in Threads : th[t].pc # "idle" => th[t].g \in Groups /\ th[t].msg \in Mail
  /\ \A t \in Threads : th[t].pc = "idle" => th[t] = NoCall

\* What a side has read of a register before it writes it, and of the mail.
WritesS1 == {"s1_c", "busy_s", "clear"}
WritesCtrl == {"instant_c", "instant_s", "fire_s"}
AnswersS1 == {"busy_s", "overflow_s", "disabled_s", "busy_c"}
Reads ==
  /\ \A t \in Threads : th[t].pc \in WritesS1 => th[t].val \in {NULL} \cup SUBSET State1
  /\ \A t \in Threads : th[t].pc \in WritesCtrl => th[t].val \in {NULL} \cup SUBSET {"INSTANT"}
  /\ \A t \in Threads : th[t].pc \notin WritesS1 \cup WritesCtrl => th[t].val = NULL
  /\ \A g \in Groups : rc[g].pc \notin AnswersS1 \cup {"fire_c"} => rc[g].val = NULL
  /\ \A g \in Groups : rc[g].pc \in AnswersS1 => rc[g].val \in {NULL} \cup SUBSET State1
  /\ \A g \in Groups : rc[g].pc = "fire_c" => rc[g].val \in {NULL} \cup SUBSET Ctrl
  /\ \A g \in Groups : rc[g].pc \in {"word1", "word2", "add"} => rc[g].msg \in Mail

\* Fire writes a mail where there is none, and a mail of the host's groups is
\* there only while a thread sends or withdraws it.
Unfired == {"busy", "s1_c", "instant_c", "busy_s", "word1", "word2", "instant_s", "fire_s",
            "overflow", "disabled"}
Withdrawn ==
  /\ \A t \in Threads : th[t].pc \in Unfired => "FIRE" \notin reg[th[t].g].ctrl
  /\ \A g \in HostGroups : "FIRE" \in reg[g].ctrl =>
       \E t \in Threads : th[t].g = g /\ th[t].pc \in {"int", "poll", "reset_ctrl"}

SafeInv == Typed /\ Serial /\ Reads /\ Withdrawn

-----------------------------------------------------------------------------
(* The invariants when every peer that is alive answers in time (Slow = {}). *)

Status(g) == reg[g].s1 \cap {"OVERFLOW", "DISABLED"}

\* The mail is the thread's message.
MailIs(g, m) ==
  /\ reg[g].word[1] = m[1] /\ reg[g].word[2] = m[2]
  /\ "INSTANT" \in reg[g].ctrl <=> m[3] = "INSTANT"

\* The peer has queued the message or said why not.
Outcome(g, m) == accepted[g] = IF Status(g) = {} THEN <<m>> ELSE <<>>

\* Where no thread waits for an answer the receiver rests, and has queued
\* nothing unless the sender is about to return; a dead one always does.
Resting ==
  \A g \in Groups :
    /\ (g \in Dead \/ ~\E t \in Threads : th[t].g = g /\ th[t].pc = "poll") => rc[g] = NoRecv
    /\ g \in Dead \/ (\E t \in Threads : th[t].g = g /\ th[t].pc = "poll") \/ ~irq[g]
    /\ (g \in Dead \/ ~\E t \in Threads :
          th[t].g = g /\ th[t].pc \in {"poll", "overflow", "disabled", "unlock"})
         => accepted[g] = <<>>

\* What Fire has written so far.
Filled ==
  \A t \in Threads : LET g == th[t].g IN
    /\ th[t].pc \in WritesS1 => th[t].val \in {NULL, reg[g].s1}
    /\ th[t].pc \in WritesCtrl => th[t].val \in {NULL, reg[g].ctrl}
    /\ th[t].pc \in {"instant_c", "busy_s", "word1", "word2", "instant_s", "fire_s", "int"} =>
         Status(g) = {}
    /\ th[t].pc \in {"busy_s", "word1", "word2", "instant_s"} => "INSTANT" \notin reg[g].ctrl
    /\ th[t].pc \in {"word2", "instant_s", "fire_s"} => reg[g].word[1] = th[t].msg[1]
    /\ th[t].pc \in {"instant_s", "fire_s"} => reg[g].word[2] = th[t].msg[2]
    /\ th[t].pc = "instant_s" => th[t].msg[3] = "INSTANT"
    /\ th[t].pc = "fire_s" => MailIs(g, th[t].msg)
    /\ th[t].pc = "int" => MailIs(g, th[t].msg) /\ "FIRE" \in reg[g].ctrl

\* How far the receiver is with the mail m.
Fetches(g, m) ==
  /\ irq[g] => rc[g] = NoRecv
  /\ "FIRE" \in reg[g].ctrl <=> irq[g] \/ rc[g].pc # "idle"
  /\ (irq[g] \/ rc[g].pc \in {"fire", "busy_s", "type", "word1", "word2", "add"}) =>
       MailIs(g, m) /\ Status(g) = {} /\ accepted[g] = <<>>
  /\ rc[g].pc \in {"word1", "word2", "add"} => rc[g].msg[3] = m[3]
  /\ rc[g].pc \in {"word2", "add"} => rc[g].msg[1] = m[1]
  /\ rc[g].pc = "add" => rc[g].msg[2] = m[2]
  /\ rc[g].pc \notin {"word1", "word2", "add"} => rc[g].msg = <<>>
  /\ rc[g].pc \in {"overflow_s", "disabled_s"} => accepted[g] = <<>>
  /\ (~irq[g] /\ rc[g].pc \in {"busy_c", "fire_c", "idle"}) => Outcome(g, m)
  /\ (~irq[g] /\ rc[g].pc \in {"fire_c", "idle"}) => "BUSY" \notin reg[g].s1
  /\ rc[g].pc \in AnswersS1 =>
       rc[g].val \in {NULL, reg[g].s1}
  /\ rc[g].pc = "fire_c" => rc[g].val \in {NULL, reg[g].ctrl}

\* What the sender has to learn.
Answered ==
  \A t \in Threads : LET g == th[t].g IN
    /\ th[t].pc = "poll" => IF g \in Dead THEN "FIRE" \in reg[g].ctrl ELSE Fetches(g, th[t].msg)
    /\ th[t].pc \in {"overflow", "disabled"} =>
         g \notin Dead /\ Outcome(g, th[t].msg) /\ "BUSY" \notin reg[g].s1
    /\ th[t].pc = "disabled" => "OVERFLOW" \notin reg[g].s1
    /\ th[t].pc \in {"reset_ctrl", "reset_words", "reset_s1"} => g \in Dead
    /\ th[t].pc = "clear" => th[t].ret \in Errors
    /\ th[t].pc = "unlock" =>
         /\ accepted[g] = IF th[t].ret = "SUCCESS" THEN <<th[t].msg>> ELSE <<>>
         /\ "BUSY" \notin reg[g].s1

\* No group of the host stays busy.
Unbusied ==
  \A g \in HostGroups : "BUSY" \in reg[g].s1 =>
    \E t \in Threads :
      /\ th[t].g = g
      /\ th[t].pc \in {"word1", "word2", "instant_s", "fire_s", "int", "poll", "reset_ctrl",
                       "reset_words", "reset_s1", "clear"}

PromptInv == SafeInv /\ Resting /\ Filled /\ Answered /\ Unbusied

-----------------------------------------------------------------------------
(* The steps of a sender, field by field.                                  *)

\* Thread t goes on with its message, and the others stay where they are.
Moves(t) ==
  /\ th' \in [Threads -> Sending]
  /\ \A u \in Threads \ {t} : th'[u] = th[u]
  /\ th'[t].g = th[t].g /\ th'[t].msg = th[t].msg

From(t, here, there) == th[t].pc = here /\ th'[t].pc = there

\* Steps that only read the registers.
Looks(t) ==
  /\ Moves(t)
  /\ th'[t].val = th[t].val
  /\ UNCHANGED <<reg, irq, lock, rc, accepted>>
  /\ LET r == reg[th[t].g] IN
     \/ From(t, "fire", "fire_busy") /\ "FIRE" \in r.ctrl
     \/ From(t, "fire", "busy") /\ "FIRE" \notin r.ctrl
     \/ From(t, "fire_busy", "clear") /\ th'[t].ret \in Errors
     \/ From(t, "busy", "busy")
     \/ From(t, "busy", "clear") /\ th'[t].ret \in Errors
     \/ From(t, "busy", "s1_c")
     \/ From(t, "poll", "overflow") /\ "FIRE" \notin r.ctrl
     \/ From(t, "overflow", "clear") /\ "OVERFLOW" \in r.s1 /\ th'[t].ret \in Errors
     \/ From(t, "overflow", "disabled") /\ "OVERFLOW" \notin r.s1
     \/ From(t, "disabled", "clear") /\ "DISABLED" \in r.s1 /\ th'[t].ret \in Errors
     \/ From(t, "disabled", "unlock") /\ "DISABLED" \notin r.s1 /\ th'[t].ret = "SUCCESS"
     \/ From(t, "poll", "reset_ctrl") /\ "FIRE" \in r.ctrl /\ th[t].g \in Dead \cup Slow

\* The thread changes fields of its own call only.
LEMMA SetPc ==
  ASSUME th \in [Threads -> Sending], NEW t \in Threads, NEW there \in SendPc, Goto(t, there)
  PROVE  Moves(t) /\ th'[t].pc = there /\ th'[t].val = th[t].val
<1>1. PICK m : m = th[t]
  OBVIOUS
<1>2. m \in Sending /\ th' = [th EXCEPT ![t] = [m EXCEPT !.pc = there]]
  BY <1>1 DEF Goto
<1>3. [m EXCEPT !.pc = there] \in Sending
  BY <1>2 DEF Sending
<1> QED
  BY <1>1, <1>2, <1>3 DEF Moves, Sending

LEMMA SetResult ==
  ASSUME th \in [Threads -> Sending], NEW t \in Threads, NEW e \in Errors, NEW there \in SendPc,
         NEW n \in Nat,
         \/ th' = [th EXCEPT ![t].pc = there, ![t].ret = e]
         \/ th' = [th EXCEPT ![t].pc = there, ![t].ret = e, ![t].chk = n]
  PROVE  Moves(t) /\ th'[t].pc = there /\ th'[t].ret = e /\ th'[t].val = th[t].val
<1>1. PICK m : m = th[t]
  OBVIOUS
<1>2. m \in Sending
  BY <1>1
<1>3. CASE th' = [th EXCEPT ![t].pc = there, ![t].ret = e]
  <2>1. th' = [th EXCEPT ![t] = [m EXCEPT !.pc = there, !.ret = e]]
    BY <1>1, <1>3
  <2>2. [m EXCEPT !.pc = there, !.ret = e] \in Sending
    BY <1>2 DEF Sending
  <2> QED
    BY <1>1, <1>2, <2>1, <2>2 DEF Moves, Sending
<1>4. CASE th' = [th EXCEPT ![t].pc = there, ![t].ret = e, ![t].chk = n]
  <2>1. th' = [th EXCEPT ![t] = [m EXCEPT !.pc = there, !.ret = e, !.chk = n]]
    BY <1>1, <1>4
  <2>2. [m EXCEPT !.pc = there, !.ret = e, !.chk = n] \in Sending
    BY <1>2 DEF Sending
  <2> QED
    BY <1>1, <1>2, <2>1, <2>2 DEF Moves, Sending
<1> QED
  BY <1>3, <1>4

LEMMA SetCount ==
  ASSUME th \in [Threads -> Sending], NEW t \in Threads, NEW n \in Nat, NEW there \in SendPc,
         \/ th' = [th EXCEPT ![t].pc = there, ![t].chk = n]
         \/ th' = [th EXCEPT ![t].chk = n] /\ there = th[t].pc
  PROVE  Moves(t) /\ th'[t].pc = there /\ th'[t].val = th[t].val
<1>1. PICK m : m = th[t]
  OBVIOUS
<1>2. m \in Sending
  BY <1>1
<1>3. \/ th' = [th EXCEPT ![t] = [m EXCEPT !.pc = there, !.chk = n]]
      \/ th' = [th EXCEPT ![t] = [m EXCEPT !.chk = n]] /\ there = m.pc
  BY <1>1
<1>4. [m EXCEPT !.pc = there, !.chk = n] \in Sending /\ [m EXCEPT !.chk = n] \in Sending
  BY <1>2 DEF Sending
<1> QED
  BY <1>1, <1>2, <1>3, <1>4 DEF Moves, Sending

LEMMA SetSuccess ==
  ASSUME th \in [Threads -> Sending], NEW t \in Threads,
         th' = [th EXCEPT ![t].pc = "unlock", ![t].ret = "SUCCESS"]
  PROVE  Moves(t) /\ th'[t].pc = "unlock" /\ th'[t].ret = "SUCCESS" /\ th'[t].val = th[t].val
<1>1. PICK m : m = th[t]
  OBVIOUS
<1>2. m \in Sending /\ th' = [th EXCEPT ![t] = [m EXCEPT !.pc = "unlock", !.ret = "SUCCESS"]]
  BY <1>1
<1>3. [m EXCEPT !.pc = "unlock", !.ret = "SUCCESS"] \in Sending
  BY <1>2 DEF Sending, SendPc
<1> QED
  BY <1>1, <1>2, <1>3 DEF Moves, Sending

LEMMA SetVal ==
  ASSUME th \in [Threads -> Sending], NEW t \in Threads, NEW v \in Read, NEW there \in SendPc,
         th' = [th EXCEPT ![t].val = v, ![t].pc = there]
  PROVE  Moves(t) /\ th'[t].pc = there /\ th'[t].val = v /\ th'[t].ret = th[t].ret
<1>1. PICK m : m = th[t]
  OBVIOUS
<1>2. m \in Sending /\ th' = [th EXCEPT ![t] = [m EXCEPT !.val = v, !.pc = there]]
  BY <1>1
<1>3. [m EXCEPT !.val = v, !.pc = there] \in Sending
  BY <1>2 DEF Sending
<1> QED
  BY <1>1, <1>2, <1>3 DEF Moves, Sending

LEMMA GetVal ==
  ASSUME th \in [Threads -> Sending], NEW t \in Threads, NEW v \in Read,
         th' = [th EXCEPT ![t].val = v]
  PROVE  Moves(t) /\ th'[t].pc = th[t].pc /\ th'[t].val = v /\ th'[t].ret = th[t].ret
<1>1. PICK m : m = th[t]
  OBVIOUS
<1>2. m \in Sending /\ th' = [th EXCEPT ![t] = [m EXCEPT !.val = v]]
  BY <1>1
<1>3. [m EXCEPT !.val = v] \in Sending
  BY <1>2 DEF Sending
<1> QED
  BY <1>1, <1>2, <1>3 DEF Moves, Sending

\* CheckFire, StillFired, WaitBusy, GetFireStatus and Timeout only read.
LEMMA LooksOnly ==
  ASSUME Typed, NEW t \in Threads,
         CheckFire(t) \/ StillFired(t) \/ WaitBusy(t) \/ GetFireStatus(t) \/ Timeout(t)
  PROVE  Looks(t)
<1>1. th \in [Threads -> Sending] /\ th[t] \in Sending
  BY DEF Typed
<1>2. CASE CheckFire(t)
  <2>1. UNCHANGED <<reg, irq, lock, rc, accepted>> /\ th[t].pc = "fire"
    BY <1>2 DEF CheckFire
  <2>2. CASE "FIRE" \in reg[th[t].g].ctrl
    <3>1. Goto(t, "fire_busy") /\ "fire_busy" \in SendPc
      BY <1>2, <2>2 DEF CheckFire, SendPc
    <3> QED
      BY <1>1, <2>1, <2>2, <3>1, SetPc DEF Looks, From
  <2>3. CASE "FIRE" \notin reg[th[t].g].ctrl
    <3>1. th' = [th EXCEPT ![t].pc = "busy", ![t].chk = TIMEOUT_CHK_BUSY]
          /\ "busy" \in SendPc /\ TIMEOUT_CHK_BUSY \in Nat
      BY <1>2, <2>3, CountAssumption DEF CheckFire, SendPc
    <3> QED
      BY <1>1, <2>1, <2>3, <3>1, SetCount DEF Looks, From
  <2> QED
    BY <2>2, <2>3
<1>3. CASE StillFired(t)
  <2>1. PICK e \in Errors : Fail(t, e)
    BY <1>3 DEF StillFired, Errors
  <2>2. Moves(t) /\ th'[t].pc = "clear" /\ th'[t].ret = e /\ th'[t].val = th[t].val
    BY <1>1, <2>1, SetResult, "clear" \in SendPc, 0 \in Nat DEF Fail, SendPc
  <2> QED
    BY <1>3, <2>2 DEF StillFired, Looks, From
<1>4. CASE WaitBusy(t)
  <2>1. th[t].chk \in Nat
    BY <1>1 DEF Sending
  <2>2. (th[t].chk + U32 - 1) % U32 \in Nat
    BY <2>1, CountAssumption
  <2>3. UNCHANGED <<reg, irq, lock, rc, accepted>> /\ th[t].pc = "busy"
    BY <1>4 DEF WaitBusy
  <2>4. \/ \E n \in Nat : th' = [th EXCEPT ![t].chk = n]
        \/ th' = [th EXCEPT ![t].pc = "clear", ![t].ret = "PEER_CPU_BUSY", ![t].chk = 0]
        \/ th' = [th EXCEPT ![t].pc = "s1_c", ![t].chk = 0]
    BY <1>4, <2>1, <2>2 DEF WaitBusy
  <2>5. CASE \E n \in Nat : th' = [th EXCEPT ![t].chk = n]
    BY <1>1, <2>3, <2>5, SetCount DEF SendPc, Looks, From
  <2>6. CASE th' = [th EXCEPT ![t].pc = "clear", ![t].ret = "PEER_CPU_BUSY", ![t].chk = 0]
    <3>1. "clear" \in SendPc /\ "PEER_CPU_BUSY" \in Errors /\ 0 \in Nat
      BY DEF SendPc, Errors
    <3> QED
      BY <1>1, <2>3, <2>6, <3>1, SetResult DEF Looks, From
  <2>7. CASE th' = [th EXCEPT ![t].pc = "s1_c", ![t].chk = 0]
    BY <1>1, <2>3, <2>7, SetCount DEF SendPc, Looks, From
  <2> QED
    BY <2>4, <2>5, <2>6, <2>7
<1>5. CASE GetFireStatus(t)
  <2>1. UNCHANGED <<reg, irq, lock, rc, accepted>>
    BY <1>5 DEF GetFireStatus
  <2>2. \/ th[t].pc = "poll" /\ "FIRE" \notin reg[th[t].g].ctrl /\ Goto(t, "overflow")
        \/ th[t].pc = "overflow" /\ "OVERFLOW" \in reg[th[t].g].s1 /\ Fail(t, "PEER_CPU_OVERFLOW")
        \/ th[t].pc = "overflow" /\ "OVERFLOW" \notin reg[th[t].g].s1 /\ Goto(t, "disabled")
        \/ th[t].pc = "disabled" /\ "DISABLED" \in reg[th[t].g].s1 /\ Fail(t, "PEER_CPU_NOTREADY")
        \/ /\ th[t].pc = "disabled" /\ "DISABLED" \notin reg[th[t].g].s1
           /\ th' = [th EXCEPT ![t].pc = "unlock", ![t].ret = "SUCCESS"]
    BY <1>5 DEF GetFireStatus
  <2>3. \A e \in Errors : Fail(t, e) =>
          Moves(t) /\ th'[t].pc = "clear" /\ th'[t].ret = e /\ th'[t].val = th[t].val
    BY <1>1, SetResult, "clear" \in SendPc, 0 \in Nat DEF Fail, SendPc
  <2>4. \A there \in SendPc : Goto(t, there) => Moves(t) /\ th'[t].pc = there /\ th'[t].val = th[t].val
    BY <1>1, SetPc
  <2>5. {"overflow", "disabled"} \subseteq SendPc /\ {"PEER_CPU_OVERFLOW", "PEER_CPU_NOTREADY"} \subseteq Errors
    BY DEF SendPc, Errors
  <2> QED
    BY <1>1, <2>1, <2>2, <2>3, <2>4, <2>5, SetSuccess DEF Looks, From
<1>6. CASE Timeout(t)
  BY <1>1, <1>6, SetPc DEF Timeout, Looks, From, SendPc
<1> QED
  BY <1>2, <1>3, <1>4, <1>5, <1>6

-----------------------------------------------------------------------------
(* Writing registers.                                                      *)

Elsewhere(g) == reg' \in [Groups -> Register] /\ \A h \in Groups \ {g} : reg'[h] = reg[h]
SetsS1(g, x) ==
  Elsewhere(g) /\ reg'[g].s1 = x /\ reg'[g].ctrl = reg[g].ctrl /\ reg'[g].word = reg[g].word
SetsCtrl(g, x) ==
  Elsewhere(g) /\ reg'[g].ctrl = x /\ reg'[g].s1 = reg[g].s1 /\ reg'[g].word = reg[g].word
SetsWord(g, i, x) ==
  /\ Elsewhere(g) /\ reg'[g].s1 = reg[g].s1 /\ reg'[g].ctrl = reg[g].ctrl
  /\ reg'[g].word[i] = x /\ \A j \in {1, 2} \ {i} : reg'[g].word[j] = reg[g].word[j]

LEMMA WriteS1 ==
  ASSUME reg \in [Groups -> Register], NEW g \in Groups, NEW x \in SUBSET State1,
         reg' = [reg EXCEPT ![g]["s1"] = x]
  PROVE  SetsS1(g, x)
<1>1. PICK m : m = reg[g]
  OBVIOUS
<1>2. m \in Register /\ reg' = [reg EXCEPT ![g] = [m EXCEPT !.s1 = x]]
  BY <1>1
<1>3. [m EXCEPT !.s1 = x] \in Register
  BY <1>2 DEF Register
<1>4. PICK r \in Register : r = [m EXCEPT !.s1 = x]
  BY <1>3
<1>5. r.s1 = x /\ r.ctrl = m.ctrl /\ r.word = m.word
  BY <1>2, <1>4 DEF Register
<1>6. Elsewhere(g) /\ reg'[g] = r
  BY <1>2, <1>4 DEF Elsewhere
<1> QED
  BY <1>1, <1>5, <1>6 DEF SetsS1

LEMMA WriteCtrl ==
  ASSUME reg \in [Groups -> Register], NEW g \in Groups, NEW x \in SUBSET Ctrl,
         reg' = [reg EXCEPT ![g]["ctrl"] = x]
  PROVE  SetsCtrl(g, x)
<1>1. PICK m : m = reg[g]
  OBVIOUS
<1>2. m \in Register /\ reg' = [reg EXCEPT ![g] = [m EXCEPT !.ctrl = x]]
  BY <1>1
<1>3. [m EXCEPT !.ctrl = x] \in Register
  BY <1>2 DEF Register
<1> QED
  BY <1>1, <1>2, <1>3 DEF SetsCtrl, Elsewhere, Register

LEMMA WriteWord ==
  ASSUME reg \in [Groups -> Register], NEW g \in Groups, NEW x \in Words, NEW i \in {1, 2},
         reg' = [reg EXCEPT ![g].word[i] = x]
  PROVE  SetsWord(g, i, x)
<1>1. PICK m : m = reg[g]
  OBVIOUS
<1>2. PICK w : w = m.word
  OBVIOUS
<1>3. m \in Register /\ w \in Words \X Words
  BY <1>1, <1>2 DEF Register
<1>4. PICK v : v = [w EXCEPT ![i] = x]
  OBVIOUS
<1>5. v \in Words \X Words /\ v[i] = x /\ \A j \in {1, 2} \ {i} : v[j] = w[j]
  BY <1>3, <1>4
<1>6. reg' = [reg EXCEPT ![g] = [m EXCEPT !.word = v]]
  BY <1>1, <1>2, <1>4
<1>7. [m EXCEPT !.word = v] \in Register
  BY <1>3, <1>5 DEF Register
<1>8. Elsewhere(g) /\ reg'[g] = [m EXCEPT !.word = v]
  BY <1>6, <1>7 DEF Elsewhere
<1> QED
  BY <1>1, <1>2, <1>3, <1>5, <1>8 DEF SetsWord, Register

\* Steps of Fire and ClearStatus that read a register or write it.
Edits(t) ==
  /\ Moves(t)
  /\ th'[t].ret = th[t].ret
  /\ UNCHANGED <<irq, lock, rc, accepted>>
  /\ LET g == th[t].g
         v == th[t].val
     IN
     \/ /\ v = NULL /\ UNCHANGED reg /\ th'[t].pc = th[t].pc
        /\ \/ th[t].pc \in WritesS1 /\ th'[t].val = reg[g].s1
           \/ th[t].pc \in WritesCtrl /\ th'[t].val = reg[g].ctrl
     \/ /\ v # NULL /\ th'[t].val = NULL
        /\ \/ From(t, "s1_c", "instant_c") /\ SetsS1(g, v \ State1)
           \/ From(t, "instant_c", "busy_s") /\ SetsCtrl(g, v \ {"INSTANT"})
           \/ From(t, "busy_s", "word1") /\ SetsS1(g, v \cup {"BUSY"})
           \/ From(t, "instant_s", "fire_s") /\ SetsCtrl(g, v \cup {"INSTANT"})
           \/ From(t, "fire_s", "int") /\ SetsCtrl(g, v \cup {"FIRE"})
           \/ From(t, "clear", "unlock") /\ SetsS1(g, v \ State1)

\* Steps of Fire that write a word of the mail.
Fills(t) ==
  /\ Moves(t)
  /\ th'[t].val = th[t].val
  /\ UNCHANGED <<irq, lock, rc, accepted>>
  /\ LET g == th[t].g
         m == th[t].msg
     IN
     \/ From(t, "word1", "word2") /\ SetsWord(g, 1, m[1])
     \/ From(t, "word2", "instant_s") /\ SetsWord(g, 2, m[2]) /\ m[3] = "INSTANT"
     \/ From(t, "word2", "fire_s") /\ SetsWord(g, 2, m[2]) /\ m[3] # "INSTANT"

LEMMA FireEdits ==
  ASSUME SafeInv, NEW t \in Threads, FireMsg(t) \/ ClearStatus(t)
  PROVE  Edits(t) \/ Fills(t)
<1>1. th \in [Threads -> Sending] /\ th[t] \in Sending /\ reg \in [Groups -> Register]
  BY DEF SafeInv, Typed
<1>2. th[t].pc # "idle"
  BY DEF FireMsg, ClearStatus
<1>3. PICK g \in Groups : g = th[t].g
  BY <1>2 DEF SafeInv, Serial
<1>4. PICK m \in Mail : m = th[t].msg
  BY <1>2 DEF SafeInv, Serial
<1>5. reg[g].s1 \in SUBSET State1 /\ reg[g].ctrl \in SUBSET Ctrl
  BY <1>1, <1>3 DEF Register
<1>6. reg[g].s1 \in Read /\ reg[g].ctrl \in Read /\ NULL \in Read
  <2>1. \A x \in SUBSET State1 : x \in Read
    BY Zenon DEF Read
  <2>2. \A x \in SUBSET Ctrl : x \in Read
    BY Zenon DEF Read
  <2> QED
    BY <1>5, <2>1, <2>2 DEF Read
<1>7. ASSUME NEW there \in SendPc, NEW on \in SUBSET State1, NEW off \in SUBSET State1,
             th[t].pc \in WritesS1, Modify(t, "s1", on, off, there)
      PROVE  /\ Moves(t) /\ th'[t].ret = th[t].ret /\ UNCHANGED <<irq, lock, rc, accepted>>
             /\ \/ th[t].val = NULL /\ UNCHANGED reg /\ th'[t].pc = th[t].pc /\ th'[t].val = reg[g].s1
                \/ /\ th[t].val # NULL /\ th'[t].val = NULL /\ th'[t].pc = there
                   /\ SetsS1(g, (th[t].val \cup on) \ off)
  <2>1. UNCHANGED <<irq, lock, rc, accepted>>
    BY <1>7 DEF Modify
  <2>2. CASE th[t].val = NULL
    <3>1. th' = [th EXCEPT ![t].val = reg[g].s1] /\ UNCHANGED reg
      BY <1>3, <1>7, <2>2 DEF Modify
    <3>2. Moves(t) /\ th'[t].pc = th[t].pc /\ th'[t].val = reg[g].s1 /\ th'[t].ret = th[t].ret
      BY <1>1, <1>6, <3>1, GetVal
    <3> QED
      BY <2>1, <2>2, <3>1, <3>2
  <2>3. CASE th[t].val # NULL
    <3>1. /\ th' = [th EXCEPT ![t].val = NULL, ![t].pc = there]
          /\ reg' = [reg EXCEPT ![g]["s1"] = (th[t].val \cup on) \ off]
      BY <1>3, <1>7, <2>3 DEF Modify
    <3>2. th[t].val \in SUBSET State1
      BY <1>7, <2>3 DEF SafeInv, Reads
    <3>3. (th[t].val \cup on) \ off \in SUBSET State1
      BY <3>2
    <3> QED
      BY <1>1, <1>6, <2>1, <2>3, <3>1, <3>3, SetVal, WriteS1
  <2> QED
    BY <2>2, <2>3
<1>8. ASSUME NEW there \in SendPc, NEW on \in SUBSET Ctrl, NEW off \in SUBSET Ctrl,
             th[t].pc \in WritesCtrl, Modify(t, "ctrl", on, off, there)
      PROVE  /\ Moves(t) /\ th'[t].ret = th[t].ret /\ UNCHANGED <<irq, lock, rc, accepted>>
             /\ \/ th[t].val = NULL /\ UNCHANGED reg /\ th'[t].pc = th[t].pc /\ th'[t].val = reg[g].ctrl
                \/ /\ th[t].val # NULL /\ th'[t].val = NULL /\ th'[t].pc = there
                   /\ SetsCtrl(g, (th[t].val \cup on) \ off)
  <2>1. UNCHANGED <<irq, lock, rc, accepted>>
    BY <1>8 DEF Modify
  <2>2. CASE th[t].val = NULL
    <3>1. th' = [th EXCEPT ![t].val = reg[g].ctrl] /\ UNCHANGED reg
      BY <1>3, <1>8, <2>2 DEF Modify
    <3>2. Moves(t) /\ th'[t].pc = th[t].pc /\ th'[t].val = reg[g].ctrl /\ th'[t].ret = th[t].ret
      BY <1>1, <1>6, <3>1, GetVal
    <3> QED
      BY <2>1, <2>2, <3>1, <3>2
  <2>3. CASE th[t].val # NULL
    <3>1. /\ th' = [th EXCEPT ![t].val = NULL, ![t].pc = there]
          /\ reg' = [reg EXCEPT ![g]["ctrl"] = (th[t].val \cup on) \ off]
      BY <1>3, <1>8, <2>3 DEF Modify
    <3>2. th[t].val \in SUBSET Ctrl
      BY <1>8, <2>3 DEF SafeInv, Reads, Ctrl
    <3>3. (th[t].val \cup on) \ off \in SUBSET Ctrl
      BY <3>2
    <3> QED
      BY <1>1, <1>6, <2>1, <2>3, <3>1, <3>3, SetVal, WriteCtrl
  <2> QED
    BY <2>2, <2>3
<1>9. ASSUME NEW there \in SendPc, NEW i \in {1, 2}, Fill(t, i, there)
      PROVE  /\ Moves(t) /\ th'[t].pc = there /\ th'[t].val = th[t].val
             /\ UNCHANGED <<irq, lock, rc, accepted>> /\ SetsWord(g, i, m[i])
  <2>1. m[i] \in Words
    BY <1>4 DEF Mail
  <2>2. reg' = [reg EXCEPT ![g].word[i] = m[i]]
    BY <1>3, <1>4, <1>9 DEF Fill
  <2> QED
    <3>1. SetsWord(g, i, m[i])
      BY <1>1, <2>1, <2>2, WriteWord
    <3>2. Moves(t) /\ th'[t].pc = there /\ th'[t].val = th[t].val
      BY <1>1, <1>9, SetPc DEF Fill
    <3> QED
      BY <1>9, <3>1, <3>2 DEF Fill
<1>10. SendPc = SendPc \cup {"instant_c", "busy_s", "word1", "word2", "instant_s", "fire_s", "int", "unlock"}
  BY DEF SendPc
<1>11. /\ {} \in SUBSET State1 /\ {"BUSY"} \in SUBSET State1 /\ State1 \in SUBSET State1
       /\ {} \in SUBSET Ctrl /\ {"INSTANT"} \in SUBSET Ctrl /\ {"FIRE"} \in SUBSET Ctrl
  BY DEF State1, Ctrl
<1>12. \A v, off : (v \cup {}) \ off = v \ off
  OBVIOUS
<1>13. CASE th[t].pc = "s1_c" /\ Modify(t, "s1", {}, State1, "instant_c")
  BY <1>3, <1>7, <1>10, <1>11, <1>12, <1>13 DEF Edits, From, WritesS1
<1>14. CASE th[t].pc = "instant_c" /\ Modify(t, "ctrl", {}, {"INSTANT"}, "busy_s")
  BY <1>3, <1>8, <1>10, <1>11, <1>12, <1>14 DEF Edits, From, WritesCtrl
<1>15. CASE th[t].pc = "busy_s" /\ Modify(t, "s1", {"BUSY"}, {}, "word1")
  <2>1. th[t].pc \in WritesS1 /\ "word1" \in SendPc
    BY <1>10, <1>15 DEF WritesS1
  <2>2. /\ Moves(t) /\ th'[t].ret = th[t].ret /\ UNCHANGED <<irq, lock, rc, accepted>>
        /\ \/ th[t].val = NULL /\ UNCHANGED reg /\ th'[t].pc = th[t].pc /\ th'[t].val = reg[g].s1
           \/ /\ th[t].val # NULL /\ th'[t].val = NULL /\ th'[t].pc = "word1"
              /\ SetsS1(g, (th[t].val \cup {"BUSY"}) \ {})
    BY <1>7, <1>11, <1>15, <2>1
  <2>3. (th[t].val \cup {"BUSY"}) \ {} = th[t].val \cup {"BUSY"}
    OBVIOUS
  <2> QED
    BY <1>3, <1>15, <2>1, <2>2, <2>3 DEF Edits, From
<1>16. CASE th[t].pc = "word1" /\ Fill(t, 1, "word2")
  BY <1>3, <1>4, <1>9, <1>10, <1>16 DEF Fills, From
<1>17. CASE th[t].pc = "word2" /\ Fill(t, 2, IF th[t].msg[3] = "INSTANT" THEN "instant_s" ELSE "fire_s")
  <2>1. CASE m[3] = "INSTANT"
    BY <1>3, <1>4, <1>9, <1>10, <1>17, <2>1 DEF Fills, From
  <2>2. CASE m[3] # "INSTANT"
    BY <1>3, <1>4, <1>9, <1>10, <1>17, <2>2 DEF Fills, From
  <2> QED
    BY <2>1, <2>2
<1>18. CASE th[t].pc = "instant_s" /\ Modify(t, "ctrl", {"INSTANT"}, {}, "fire_s")
  <2>1. th[t].pc \in WritesCtrl /\ "fire_s" \in SendPc
    BY <1>10, <1>18 DEF WritesCtrl
  <2>2. /\ Moves(t) /\ th'[t].ret = th[t].ret /\ UNCHANGED <<irq, lock, rc, accepted>>
        /\ \/ th[t].val = NULL /\ UNCHANGED reg /\ th'[t].pc = th[t].pc /\ th'[t].val = reg[g].ctrl
           \/ /\ th[t].val # NULL /\ th'[t].val = NULL /\ th'[t].pc = "fire_s"
              /\ SetsCtrl(g, (th[t].val \cup {"INSTANT"}) \ {})
    BY <1>8, <1>11, <1>18, <2>1
  <2>3. (th[t].val \cup {"INSTANT"}) \ {} = th[t].val \cup {"INSTANT"}
    OBVIOUS
  <2> QED
    BY <1>3, <1>18, <2>1, <2>2, <2>3 DEF Edits, From
<1>19. CASE th[t].pc = "fire_s" /\ Modify(t, "ctrl", {"FIRE"}, {}, "int")
  <2>1. th[t].pc \in WritesCtrl /\ "int" \in SendPc
    BY <1>10, <1>19 DEF WritesCtrl
  <2>2. /\ Moves(t) /\ th'[t].ret = th[t].ret /\ UNCHANGED <<irq, lock, rc, accepted>>
        /\ \/ th[t].val = NULL /\ UNCHANGED reg /\ th'[t].pc = th[t].pc /\ th'[t].val = reg[g].ctrl
           \/ /\ th[t].val # NULL /\ th'[t].val = NULL /\ th'[t].pc = "int"
              /\ SetsCtrl(g, (th[t].val \cup {"FIRE"}) \ {})
    BY <1>8, <1>11, <1>19, <2>1
  <2>3. (th[t].val \cup {"FIRE"}) \ {} = th[t].val \cup {"FIRE"}
    OBVIOUS
  <2> QED
    BY <1>3, <1>19, <2>1, <2>2, <2>3 DEF Edits, From
<1>20. CASE ClearStatus(t)
  BY <1>3, <1>7, <1>10, <1>11, <1>12, <1>20 DEF ClearStatus, Edits, From, WritesS1
<1> QED
  BY <1>13, <1>14, <1>15, <1>16, <1>17, <1>18, <1>19, <1>20 DEF FireMsg

-----------------------------------------------------------------------------
(* The other steps.                                                        *)

\* The thread raises the interrupt.
Interrupts(t) ==
  /\ Moves(t) /\ From(t, "int", "poll") /\ th'[t].val = th[t].val
  /\ irq' = [irq EXCEPT ![th[t].g] = TRUE]
  /\ UNCHANGED <<reg, lock, rc, accepted>>

\* A step of SetConfig.
Resets(t) ==
  /\ Moves(t) /\ th'[t].val = th[t].val
  /\ UNCHANGED <<irq, lock, rc, accepted>>
  /\ reg' \in [Groups -> Register]
  /\ \A g \in Groups \ HostGroups : reg'[g] = reg[g]
  /\ \/ /\ From(t, "reset_ctrl", "reset_words")
        /\ \A g \in HostGroups : reg'[g].ctrl = {} /\ reg'[g].s1 = reg[g].s1
     \/ /\ From(t, "reset_words", "reset_s1")
        /\ \A g \in HostGroups : reg'[g].ctrl = reg[g].ctrl /\ reg'[g].s1 = reg[g].s1
     \/ /\ From(t, "reset_s1", "clear") /\ th'[t].ret \in Errors
        /\ \A g \in HostGroups : reg'[g].ctrl = reg[g].ctrl /\ reg'[g].s1 = {}

LEMMA InterruptsOnly ==
  ASSUME Typed, NEW t \in Threads, MBXINT_Fire(t)
  PROVE  Interrupts(t)
BY SetPc DEF Typed, MBXINT_Fire, Interrupts, From, SendPc

LEMMA ResetsOnly ==
  ASSUME Typed, NEW t \in Threads, SetConfig(t)
  PROVE  Resets(t)
<1>1. th \in [Threads -> Sending] /\ reg \in [Groups -> Register] /\ HostGroups \subseteq Groups
  BY GroupsAssumption DEF Typed
<1>2. UNCHANGED <<irq, lock, rc, accepted>>
  BY DEF SetConfig
<1>3. \A g \in Groups : /\ [reg[g] EXCEPT !.ctrl = {}] \in Register
                        /\ [reg[g] EXCEPT !.word = <<NULL, NULL>>] \in Register
                        /\ [reg[g] EXCEPT !.s1 = {}] \in Register
  <2> SUFFICES ASSUME NEW g \in Groups
               PROVE  /\ [reg[g] EXCEPT !.ctrl = {}] \in Register
                      /\ [reg[g] EXCEPT !.word = <<NULL, NULL>>] \in Register
                      /\ [reg[g] EXCEPT !.s1 = {}] \in Register
    OBVIOUS
  <2>1. reg[g] \in Register /\ <<NULL, NULL>> \in Words \X Words
    BY <1>1 DEF Words
  <2> QED
    BY <2>1 DEF Register
<1>4. \A g \in Groups : reg[g] \in [ctrl : SUBSET Ctrl, word : Words \X Words, s1 : SUBSET State1]
  BY <1>1 DEF Register
<1>5. CASE th[t].pc = "reset_ctrl"
  <2>1. /\ reg' = [g \in Groups |-> IF g \in HostGroups THEN [reg[g] EXCEPT !.ctrl = {}] ELSE reg[g]]
        /\ Goto(t, "reset_words") /\ "reset_words" \in SendPc
    BY <1>5 DEF SetConfig, SendPc
  <2>2. reg' \in [Groups -> Register]
    BY <1>1, <1>3, <2>1
  <2> QED
    BY <1>1, <1>2, <1>4, <1>5, <2>1, <2>2, SetPc DEF Resets, From
<1>6. CASE th[t].pc = "reset_words"
  <2>1. /\ reg' = [g \in Groups |-> IF g \in HostGroups
                                    THEN [reg[g] EXCEPT !.word = <<NULL, NULL>>] ELSE reg[g]]
        /\ Goto(t, "reset_s1") /\ "reset_s1" \in SendPc
    BY <1>6 DEF SetConfig, SendPc
  <2>2. reg' \in [Groups -> Register]
    BY <1>1, <1>3, <2>1
  <2> QED
    BY <1>1, <1>2, <1>4, <1>6, <2>1, <2>2, SetPc DEF Resets, From
<1>7. CASE th[t].pc = "reset_s1"
  <2>1. /\ reg' = [g \in Groups |-> IF g \in HostGroups THEN [reg[g] EXCEPT !.s1 = {}] ELSE reg[g]]
        /\ Fail(t, "PEER_CPU_NOT_ALIVE") /\ "clear" \in SendPc /\ "PEER_CPU_NOT_ALIVE" \in Errors
    BY <1>7 DEF SetConfig, SendPc, Errors
  <2>2. reg' \in [Groups -> Register]
    BY <1>1, <1>3, <2>1
  <2>3. Moves(t) /\ th'[t].pc = "clear" /\ th'[t].ret = "PEER_CPU_NOT_ALIVE" /\ th'[t].val = th[t].val
    BY <1>1, <2>1, SetResult, 0 \in Nat DEF Fail
  <2> QED
    BY <1>1, <1>2, <1>4, <1>7, <2>1, <2>2, <2>3 DEF Resets, From
<1> QED
  BY <1>5, <1>6, <1>7 DEF SetConfig

\* The receiver of g goes on.
Turns(g) ==
  /\ rc' \in [Groups -> Receiving]
  /\ \A h \in Groups \ {g} : rc'[h] = rc[h]
  /\ UNCHANGED <<lock, th>>

Goes(g, here, there) == rc[g].pc = here /\ rc'[g].pc = there

\* Steps of MsgRecvCb that read a register or write it.
Answers(g) ==
  /\ Turns(g) /\ rc'[g].msg = rc[g].msg
  /\ UNCHANGED <<irq, accepted>>
  /\ LET v == rc[g].val IN
     \/ /\ v = NULL /\ UNCHANGED reg /\ rc'[g].pc = rc[g].pc
        /\ \/ rc[g].pc \in AnswersS1 /\ rc'[g].val = reg[g].s1
           \/ rc[g].pc = "fire_c" /\ rc'[g].val = reg[g].ctrl
     \/ /\ v # NULL /\ rc'[g].val = NULL
        /\ \/ Goes(g, "busy_s", "type") /\ SetsS1(g, v \cup {"BUSY"})
           \/ Goes(g, "overflow_s", "busy_c") /\ SetsS1(g, v \cup {"OVERFLOW"})
           \/ Goes(g, "disabled_s", "busy_c") /\ SetsS1(g, v \cup {"DISABLED"})
           \/ Goes(g, "busy_c", "fire_c") /\ SetsS1(g, v \ {"BUSY"})
           \/ Goes(g, "fire_c", "idle") /\ SetsCtrl(g, v \ {"FIRE"})

\* Steps that only fetch.
Takes(g) ==
  /\ Turns(g) /\ rc'[g].val = rc[g].val
  /\ UNCHANGED reg
  /\ \/ /\ Goes(g, "idle", "fire") /\ irq[g] /\ g \notin Dead /\ rc'[g].msg = rc[g].msg
        /\ irq' = [irq EXCEPT ![g] = FALSE] /\ UNCHANGED accepted
     \/ /\ Goes(g, "fire", "busy_s") /\ "FIRE" \in reg[g].ctrl /\ rc'[g].msg = rc[g].msg
        /\ UNCHANGED <<irq, accepted>>
     \/ /\ Goes(g, "fire", "idle") /\ "FIRE" \notin reg[g].ctrl /\ rc'[g].msg = rc[g].msg
        /\ UNCHANGED <<irq, accepted>>
     \/ /\ Goes(g, "type", "word1")
        /\ rc'[g].msg[3] = IF "INSTANT" \in reg[g].ctrl THEN "INSTANT" ELSE "NORMAL"
        /\ UNCHANGED <<irq, accepted>> /\ rc'[g].msg \in Mail
     \/ /\ Goes(g, "word1", "word2") /\ rc'[g].msg \in Mail
        /\ rc'[g].msg[1] = reg[g].word[1] /\ rc'[g].msg[3] = rc[g].msg[3]
        /\ UNCHANGED <<irq, accepted>>
     \/ /\ Goes(g, "word2", "add") /\ rc'[g].msg \in Mail
        /\ rc'[g].msg[2] = reg[g].word[2] /\ rc'[g].msg[1] = rc[g].msg[1]
        /\ rc'[g].msg[3] = rc[g].msg[3]
        /\ UNCHANGED <<irq, accepted>>
     \/ /\ Goes(g, "add", "busy_c") /\ rc'[g].msg = <<>>
        /\ accepted' = [accepted EXCEPT ![g] = Append(@, rc[g].msg)] /\ UNCHANGED irq
     \/ /\ Goes(g, "add", "overflow_s") \/ Goes(g, "add", "disabled_s")
        /\ rc'[g].msg = <<>> /\ UNCHANGED <<irq, accepted>>

LEMMA SetRecv ==
  ASSUME rc \in [Groups -> Receiving], NEW g \in Groups, NEW v \in Read, NEW there \in RecvPc,
         rc' = [rc EXCEPT ![g].val = v, ![g].pc = there], UNCHANGED <<lock, th>>
  PROVE  Turns(g) /\ rc'[g].pc = there /\ rc'[g].val = v /\ rc'[g].msg = rc[g].msg
<1>1. PICK m : m = rc[g]
  OBVIOUS
<1>2. m \in Receiving /\ rc' = [rc EXCEPT ![g] = [m EXCEPT !.val = v, !.pc = there]]
  BY <1>1
<1>3. [m EXCEPT !.val = v, !.pc = there] \in Receiving
  BY <1>2 DEF Receiving
<1> QED
  BY <1>1, <1>2, <1>3 DEF Turns, Receiving

LEMMA GetRecv ==
  ASSUME rc \in [Groups -> Receiving], NEW g \in Groups, NEW v \in Read,
         rc' = [rc EXCEPT ![g].val = v], UNCHANGED <<lock, th>>
  PROVE  Turns(g) /\ rc'[g].pc = rc[g].pc /\ rc'[g].val = v /\ rc'[g].msg = rc[g].msg
<1>1. PICK m : m = rc[g]
  OBVIOUS
<1>2. m \in Receiving /\ rc' = [rc EXCEPT ![g] = [m EXCEPT !.val = v]]
  BY <1>1
<1>3. [m EXCEPT !.val = v] \in Receiving
  BY <1>2 DEF Receiving
<1> QED
  BY <1>1, <1>2, <1>3 DEF Turns, Receiving

LEMMA PcRecv ==
  ASSUME rc \in [Groups -> Receiving], NEW g \in Groups, NEW there \in RecvPc,
         rc' = [rc EXCEPT ![g].pc = there], UNCHANGED <<lock, th>>
  PROVE  Turns(g) /\ rc'[g].pc = there /\ rc'[g].val = rc[g].val /\ rc'[g].msg = rc[g].msg
<1>1. PICK m : m = rc[g]
  OBVIOUS
<1>2. m \in Receiving /\ rc' = [rc EXCEPT ![g] = [m EXCEPT !.pc = there]]
  BY <1>1
<1>3. [m EXCEPT !.pc = there] \in Receiving
  BY <1>2 DEF Receiving
<1> QED
  BY <1>1, <1>2, <1>3 DEF Turns, Receiving

LEMMA MsgRecv ==
  ASSUME rc \in [Groups -> Receiving], NEW g \in Groups, NEW dest \in RecvPc,
         NEW mail \in Mail \cup {<<>>},
         rc' = [rc EXCEPT ![g].pc = dest, ![g].msg = mail], UNCHANGED <<lock, th>>
  PROVE  Turns(g) /\ rc'[g].pc = dest /\ rc'[g].val = rc[g].val /\ rc'[g].msg = mail
<1>1. PICK m : m = rc[g]
  OBVIOUS
<1>2. m \in Receiving /\ rc' = [rc EXCEPT ![g] = [m EXCEPT !.pc = dest, !.msg = mail]]
  BY <1>1
<1>3. [m EXCEPT !.pc = dest, !.msg = mail] \in Receiving
  BY <1>2 DEF Receiving
<1> QED
  BY <1>1, <1>2, <1>3 DEF Turns, Receiving

LEMMA ReadWord ==
  ASSUME rc \in [Groups -> Receiving], NEW g \in Groups, NEW there \in RecvPc,
         NEW w \in Words, NEW i \in {1, 2}, rc[g].msg \in Mail,
         rc' = [rc EXCEPT ![g].pc = there, ![g].msg[i] = w], UNCHANGED <<lock, th>>
  PROVE  /\ Turns(g) /\ rc'[g].pc = there /\ rc'[g].val = rc[g].val /\ rc'[g].msg \in Mail
         /\ rc'[g].msg[i] = w /\ \A j \in {1, 2, 3} \ {i} : rc'[g].msg[j] = rc[g].msg[j]
<1>1. PICK m : m = rc[g].msg
  OBVIOUS
<1>2. PICK x : x = [m EXCEPT ![i] = w]
  OBVIOUS
<1>3. m \in Words \X Words \X Types
  BY <1>1 DEF Mail
<1>4. x \in Words \X Words \X Types /\ x[i] = w /\ \A j \in {1, 2, 3} \ {i} : x[j] = m[j]
  BY <1>2, <1>3
<1>5. x \in Mail /\ x \in Mail \cup {<<>>}
  BY <1>4 DEF Mail
<1>6. PICK y : y = rc[g]
  OBVIOUS
<1>7. y \in Receiving
  BY <1>6
<1>8. rc' = [rc EXCEPT ![g] = [y EXCEPT !.pc = there, !.msg = x]]
  BY <1>1, <1>2, <1>6, <1>7 DEF Receiving
<1>9. [y EXCEPT !.pc = there, !.msg = x] \in Receiving
  BY <1>5, <1>7 DEF Receiving
<1>10. PICK z \in Receiving : z = [y EXCEPT !.pc = there, !.msg = x]
  BY <1>9
<1>11. rc' = [rc EXCEPT ![g] = z]
  BY <1>8, <1>10
<1>12. Turns(g) /\ rc'[g] = z
  BY ZenonT(40), <1>11 DEF Turns
<1>13. z.pc = there /\ z.val = y.val /\ z.msg = x
  BY <1>7, <1>10 DEF Receiving
<1> QED
  BY <1>1, <1>4, <1>5, <1>6, <1>12, <1>13

LEMMA AnswersOnly ==
  ASSUME SafeInv, NEW g \in Groups,
         RecvEnd(g) \/ (rc[g].pc = "busy_s" /\ ModifyR(g, "s1", {"BUSY"}, {}, "type"))
  PROVE  Answers(g)
<1>1. rc \in [Groups -> Receiving] /\ reg \in [Groups -> Register]
  BY DEF SafeInv, Typed
<1>2. reg[g].s1 \in SUBSET State1 /\ reg[g].ctrl \in SUBSET Ctrl
  BY <1>1 DEF Register
<1>3. reg[g].s1 \in Read /\ reg[g].ctrl \in Read /\ NULL \in Read
  BY <1>2 DEF Read
<1>6. ASSUME NEW there \in RecvPc, NEW on \in SUBSET State1, NEW off \in SUBSET State1,
             rc[g].pc \in AnswersS1, ModifyR(g, "s1", on, off, there)
      PROVE  /\ Turns(g) /\ rc'[g].msg = rc[g].msg /\ UNCHANGED <<irq, accepted>>
             /\ \/ rc[g].val = NULL /\ UNCHANGED reg /\ rc'[g].pc = rc[g].pc /\ rc'[g].val = reg[g].s1
                \/ /\ rc[g].val # NULL /\ rc'[g].val = NULL /\ rc'[g].pc = there
                   /\ SetsS1(g, (rc[g].val \cup on) \ off)
  <2>1. UNCHANGED <<irq, lock, th, accepted>>
    BY <1>6 DEF ModifyR
  <2>2. CASE rc[g].val = NULL
    <3>1. rc' = [rc EXCEPT ![g].val = reg[g].s1] /\ UNCHANGED reg
      BY <1>6, <2>2 DEF ModifyR
    <3>2. Turns(g) /\ rc'[g].pc = rc[g].pc /\ rc'[g].val = reg[g].s1 /\ rc'[g].msg = rc[g].msg
      BY <1>1, <1>3, <2>1, <3>1, GetRecv
    <3> QED
      BY <2>1, <2>2, <3>1, <3>2
  <2>3. CASE rc[g].val # NULL
    <3>1. /\ rc' = [rc EXCEPT ![g].val = NULL, ![g].pc = there]
          /\ reg' = [reg EXCEPT ![g]["s1"] = (rc[g].val \cup on) \ off]
      BY <1>6, <2>3 DEF ModifyR
    <3>2. rc[g].val \in SUBSET State1
      BY <1>6, <2>3 DEF SafeInv, Reads
    <3>3. (rc[g].val \cup on) \ off \in SUBSET State1
      BY <3>2
    <3>4. SetsS1(g, (rc[g].val \cup on) \ off)
      BY <1>1, <3>1, <3>3, WriteS1
    <3>5. Turns(g) /\ rc'[g].pc = there /\ rc'[g].val = NULL /\ rc'[g].msg = rc[g].msg
      BY <1>1, <1>3, <2>1, <3>1, SetRecv
    <3> QED
      BY <2>1, <2>3, <3>4, <3>5
  <2> QED
    BY <2>2, <2>3
<1>7. CASE rc[g].pc = "fire_c" /\ ModifyR(g, "ctrl", {}, {"FIRE"}, "idle")
  <2>1. UNCHANGED <<irq, lock, th, accepted>> /\ "idle" \in RecvPc
    BY <1>7 DEF ModifyR, RecvPc
  <2>2. CASE rc[g].val = NULL
    <3>1. rc' = [rc EXCEPT ![g].val = reg[g].ctrl] /\ UNCHANGED reg
      BY <1>7, <2>2 DEF ModifyR
    <3>2. Turns(g) /\ rc'[g].pc = rc[g].pc /\ rc'[g].val = reg[g].ctrl /\ rc'[g].msg = rc[g].msg
      BY <1>1, <1>3, <2>1, <3>1, GetRecv
    <3> QED
      BY <1>7, <2>1, <2>2, <3>1, <3>2 DEF Answers
  <2>3. CASE rc[g].val # NULL
    <3>1. /\ rc' = [rc EXCEPT ![g].val = NULL, ![g].pc = "idle"]
          /\ reg' = [reg EXCEPT ![g]["ctrl"] = (rc[g].val \cup {}) \ {"FIRE"}]
      BY <1>7, <2>3 DEF ModifyR
    <3>2. rc[g].val \in SUBSET Ctrl
      BY <1>7, <2>3 DEF SafeInv, Reads
    <3>3. (rc[g].val \cup {}) \ {"FIRE"} = rc[g].val \ {"FIRE"} /\ rc[g].val \ {"FIRE"} \in SUBSET Ctrl
      BY <3>2
    <3>4. SetsCtrl(g, rc[g].val \ {"FIRE"})
      BY <1>1, <3>1, <3>3, WriteCtrl
    <3>5. Turns(g) /\ rc'[g].pc = "idle" /\ rc'[g].val = NULL /\ rc'[g].msg = rc[g].msg
      BY <1>1, <1>3, <2>1, <3>1, SetRecv
    <3> QED
      BY <1>7, <2>1, <2>3, <3>4, <3>5 DEF Answers, Goes
  <2> QED
    BY <2>2, <2>3
<1>8. CASE rc[g].pc = "busy_s" /\ ModifyR(g, "s1", {"BUSY"}, {}, "type")
  <2>1. rc[g].pc \in AnswersS1 /\ "type" \in RecvPc /\ {"BUSY"} \in SUBSET State1 /\ {} \in SUBSET State1
    BY <1>8 DEF AnswersS1, RecvPc, State1
  <2>2. /\ Turns(g) /\ rc'[g].msg = rc[g].msg /\ UNCHANGED <<irq, accepted>>
        /\ \/ rc[g].val = NULL /\ UNCHANGED reg /\ rc'[g].pc = rc[g].pc /\ rc'[g].val = reg[g].s1
           \/ /\ rc[g].val # NULL /\ rc'[g].val = NULL /\ rc'[g].pc = "type"
              /\ SetsS1(g, (rc[g].val \cup {"BUSY"}) \ {})
    BY <1>6, <1>8, <2>1
  <2>3. (rc[g].val \cup {"BUSY"}) \ {} = rc[g].val \cup {"BUSY"}
    OBVIOUS
  <2> QED
    BY <1>8, <2>1, <2>2, <2>3 DEF Answers, Goes
<1>9. CASE rc[g].pc = "overflow_s" /\ ModifyR(g, "s1", {"OVERFLOW"}, {}, "busy_c")
  <2>1. rc[g].pc \in AnswersS1 /\ "busy_c" \in RecvPc /\ {"OVERFLOW"} \in SUBSET State1 /\ {} \in SUBSET State1
    BY <1>9 DEF AnswersS1, RecvPc, State1
  <2>2. /\ Turns(g) /\ rc'[g].msg = rc[g].msg /\ UNCHANGED <<irq, accepted>>
        /\ \/ rc[g].val = NULL /\ UNCHANGED reg /\ rc'[g].pc = rc[g].pc /\ rc'[g].val = reg[g].s1
           \/ /\ rc[g].val # NULL /\ rc'[g].val = NULL /\ rc'[g].pc = "busy_c"
              /\ SetsS1(g, (rc[g].val \cup {"OVERFLOW"}) \ {})
    BY <1>6, <1>9, <2>1
  <2>3. (rc[g].val \cup {"OVERFLOW"}) \ {} = rc[g].val \cup {"OVERFLOW"}
    OBVIOUS
  <2> QED
    BY <1>9, <2>1, <2>2, <2>3 DEF Answers, Goes
<1>10. CASE rc[g].pc = "disabled_s" /\ ModifyR(g, "s1", {"DISABLED"}, {}, "busy_c")
  <2>1. rc[g].pc \in AnswersS1 /\ "busy_c" \in RecvPc /\ {"DISABLED"} \in SUBSET State1 /\ {} \in SUBSET State1
    BY <1>10 DEF AnswersS1, RecvPc, State1
  <2>2. /\ Turns(g) /\ rc'[g].msg = rc[g].msg /\ UNCHANGED <<irq, accepted>>
        /\ \/ rc[g].val = NULL /\ UNCHANGED reg /\ rc'[g].pc = rc[g].pc /\ rc'[g].val = reg[g].s1
           \/ /\ rc[g].val # NULL /\ rc'[g].val = NULL /\ rc'[g].pc = "busy_c"
              /\ SetsS1(g, (rc[g].val \cup {"DISABLED"}) \ {})
    BY <1>6, <1>10, <2>1
  <2>3. (rc[g].val \cup {"DISABLED"}) \ {} = rc[g].val \cup {"DISABLED"}
    OBVIOUS
  <2> QED
    BY <1>10, <2>1, <2>2, <2>3 DEF Answers, Goes
<1>11. CASE rc[g].pc = "busy_c" /\ ModifyR(g, "s1", {}, {"BUSY"}, "fire_c")
  <2>1. rc[g].pc \in AnswersS1 /\ "fire_c" \in RecvPc /\ {} \in SUBSET State1 /\ {"BUSY"} \in SUBSET State1
    BY <1>11 DEF AnswersS1, RecvPc, State1
  <2>2. /\ Turns(g) /\ rc'[g].msg = rc[g].msg /\ UNCHANGED <<irq, accepted>>
        /\ \/ rc[g].val = NULL /\ UNCHANGED reg /\ rc'[g].pc = rc[g].pc /\ rc'[g].val = reg[g].s1
           \/ /\ rc[g].val # NULL /\ rc'[g].val = NULL /\ rc'[g].pc = "fire_c"
              /\ SetsS1(g, (rc[g].val \cup {}) \ {"BUSY"})
    BY <1>6, <1>11, <2>1
  <2>3. (rc[g].val \cup {}) \ {"BUSY"} = rc[g].val \ {"BUSY"}
    OBVIOUS
  <2> QED
    BY <1>11, <2>1, <2>2, <2>3 DEF Answers, Goes
<1> QED
  BY <1>7, <1>8, <1>9, <1>10, <1>11 DEF RecvEnd

LEMMA ReceiverSteps ==
  ASSUME SafeInv, NEW g \in Groups, Tasklet(g) \/ MsgRecvCb(g)
  PROVE  Answers(g) \/ Takes(g)
<1>1. rc \in [Groups -> Receiving] /\ reg \in [Groups -> Register] /\ rc[g] \in Receiving
  BY DEF SafeInv, Typed
<1>2. reg[g].word[1] \in Words /\ reg[g].word[2] \in Words
  BY <1>1 DEF Register
<1>3. {"fire", "busy_s", "idle", "word1", "word2", "add", "busy_c", "overflow_s", "disabled_s"} \subseteq RecvPc
  BY DEF RecvPc
<1>4. CASE Tasklet(g)
  <2>1. /\ rc[g].pc = "idle" /\ irq[g] /\ g \notin Dead /\ irq' = [irq EXCEPT ![g] = FALSE]
        /\ rc' = [rc EXCEPT ![g].pc = "fire"] /\ UNCHANGED <<reg, lock, th, accepted>>
    BY <1>4 DEF Tasklet
  <2> QED
    BY <1>1, <1>3, <2>1, PcRecv DEF Takes, Goes
<1>5. CASE rc[g].pc = "fire" /\ Recv(g)
  <2>1. /\ UNCHANGED <<reg, irq, lock, th, accepted>>
        /\ rc' = [rc EXCEPT ![g].pc = IF "FIRE" \in reg[g].ctrl THEN "busy_s" ELSE "idle"]
    BY <1>5 DEF Recv
  <2>2. CASE "FIRE" \in reg[g].ctrl
    BY <1>1, <1>3, <1>5, <2>1, <2>2, PcRecv DEF Takes, Goes
  <2>3. CASE "FIRE" \notin reg[g].ctrl
    BY <1>1, <1>3, <1>5, <2>1, <2>3, PcRecv DEF Takes, Goes
  <2> QED
    BY <2>2, <2>3
<1>6. CASE rc[g].pc = "type" /\ Recv(g)
  <2>1. PICK x : x = <<NULL, NULL, IF "INSTANT" \in reg[g].ctrl THEN "INSTANT" ELSE "NORMAL">>
    OBVIOUS
  <2>2. x \in Mail /\ x[3] = IF "INSTANT" \in reg[g].ctrl THEN "INSTANT" ELSE "NORMAL"
    BY <2>1 DEF Mail, Words, Types
  <2>3. /\ UNCHANGED <<reg, irq, lock, th, accepted>>
        /\ rc' = [rc EXCEPT ![g].pc = "word1", ![g].msg = x]
    BY <1>6, <2>1 DEF Recv
  <2>4. Turns(g) /\ rc'[g].pc = "word1" /\ rc'[g].val = rc[g].val /\ rc'[g].msg = x
    BY <1>1, <1>3, <2>2, <2>3, MsgRecv
  <2> QED
    BY <1>6, <2>2, <2>3, <2>4 DEF Takes, Goes
<1>7. CASE rc[g].pc = "word1" /\ Recv(g)
  <2>1. /\ UNCHANGED <<reg, irq, lock, th, accepted>>
        /\ rc' = [rc EXCEPT ![g].pc = "word2", ![g].msg[1] = reg[g].word[1]]
    BY <1>7 DEF Recv
  <2>2. rc[g].msg \in Mail
    BY <1>7 DEF SafeInv, Reads
  <2>3. /\ Turns(g) /\ rc'[g].pc = "word2" /\ rc'[g].val = rc[g].val /\ rc'[g].msg \in Mail
        /\ rc'[g].msg[1] = reg[g].word[1]
        /\ \A j \in {1, 2, 3} \ {1} : rc'[g].msg[j] = rc[g].msg[j]
    BY <1>1, <1>2, <1>3, <2>1, <2>2, ReadWord
  <2>4. rc'[g].msg[3] = rc[g].msg[3]
    BY <2>3
  <2> QED
    BY <1>7, <2>1, <2>3, <2>4 DEF Takes, Goes
<1>8. CASE rc[g].pc = "word2" /\ Recv(g)
  <2>1. /\ UNCHANGED <<reg, irq, lock, th, accepted>>
        /\ rc' = [rc EXCEPT ![g].pc = "add", ![g].msg[2] = reg[g].word[2]]
    BY <1>8 DEF Recv
  <2>2. rc[g].msg \in Mail
    BY <1>8 DEF SafeInv, Reads
  <2>3. /\ Turns(g) /\ rc'[g].pc = "add" /\ rc'[g].val = rc[g].val /\ rc'[g].msg \in Mail
        /\ rc'[g].msg[2] = reg[g].word[2]
        /\ \A j \in {1, 2, 3} \ {2} : rc'[g].msg[j] = rc[g].msg[j]
    BY <1>1, <1>2, <1>3, <2>1, <2>2, ReadWord
  <2>4. rc'[g].msg[1] = rc[g].msg[1] /\ rc'[g].msg[3] = rc[g].msg[3]
    BY <2>3
  <2> QED
    BY <1>8, <2>1, <2>3, <2>4 DEF Takes, Goes
<1>9. CASE AddMSG(g)
  <2>1. rc[g].pc = "add" /\ UNCHANGED <<reg, irq, lock, th>> /\ <<>> \in Mail \cup {<<>>}
    BY <1>9 DEF AddMSG
  <2>2. CASE /\ accepted' = [accepted EXCEPT ![g] = Append(@, rc[g].msg)]
             /\ rc' = [rc EXCEPT ![g].pc = "busy_c", ![g].msg = <<>>]
    <3>1. Turns(g) /\ rc'[g].pc = "busy_c" /\ rc'[g].val = rc[g].val /\ rc'[g].msg = <<>>
      BY <1>1, <1>3, <2>1, <2>2, MsgRecv
    <3> QED
      BY <2>1, <2>2, <3>1 DEF Takes, Goes
  <2>3. ASSUME NEW there \in {"overflow_s", "disabled_s"}, UNCHANGED accepted,
               rc' = [rc EXCEPT ![g].pc = there, ![g].msg = <<>>]
        PROVE  Takes(g)
    <3>1. Turns(g) /\ rc'[g].pc = there /\ rc'[g].val = rc[g].val /\ rc'[g].msg = <<>>
      <4>1. CASE there = "overflow_s"
        BY <1>1, <1>3, <2>1, <2>3, <4>1, MsgRecv
      <4>2. CASE there = "disabled_s"
        BY <1>1, <1>3, <2>1, <2>3, <4>2, MsgRecv
      <4> QED
        BY <2>3, <4>1, <4>2
    <3> QED
      BY <2>1, <2>3, <3>1 DEF Takes, Goes
  <2> QED
    BY <1>9, <2>2, <2>3 DEF AddMSG
<1>10. CASE rc[g].pc = "busy_s" /\ ModifyR(g, "s1", {"BUSY"}, {}, "type")
  BY <1>10, AnswersOnly
<1>11. CASE RecvEnd(g)
  BY <1>11, AnswersOnly
<1> QED
  BY <1>4, <1>5, <1>6, <1>7, <1>8, <1>9, <1>10, <1>11 DEF MsgRecvCb, Recv

-----------------------------------------------------------------------------
(* The invariants that hold also when peers are late.                      *)

\* The thread past the mutex is alone there.
LEMMA Alone ==
  ASSUME SafeInv, NEW t \in Threads, Active(t)
  PROVE  /\ lock = t /\ th[t].g \in Groups /\ th[t].msg \in Mail
         /\ \A u \in Threads \ {t} : th[u].pc \in {"idle", "lock"}
BY DEF SafeInv, Serial, Active

\* A group of the host with a mail is the one that the thread past the mutex
\* sends through.
LEMMA FiredBy ==
  ASSUME SafeInv, NEW t \in Threads, Active(t), NEW g \in HostGroups, "FIRE" \in reg[g].ctrl
  PROVE  th[t].g = g /\ th[t].pc \in {"int", "poll", "reset_ctrl"}
BY Alone DEF SafeInv, Withdrawn

\* A sender goes on.
LEMMA SerialMoves ==
  ASSUME SafeInv, NEW t \in Threads, Moves(t), Active(t), Active(t)', UNCHANGED lock
  PROVE  Serial'
<1>1. /\ lock = t /\ th[t].g \in Groups /\ th[t].msg \in Mail
      /\ \A u \in Threads \ {t} : th[u].pc \in {"idle", "lock"}
  BY Alone
<1>2. \A u \in Threads : Active(u)' <=> lock' = u
  BY <1>1 DEF SafeInv, Serial, Moves, Active
<1> QED
  BY <1>1, <1>2 DEF SafeInv, Serial, Moves, Active, NoCall

LEMMA SafeLooks ==
  ASSUME SafeInv, NEW t \in Threads, Looks(t)
  PROVE  SafeInv'
<1>1. Active(t) /\ Active(t)'
  BY DEF Looks, Active, From
<1>2. Serial'
  BY <1>1, SerialMoves DEF Looks
<1>3. Typed'
  BY DEF SafeInv, Typed, Looks, Moves
<1>4. \A u \in Threads \ {t} : th'[u] = th[u] /\ th[u].pc \in {"idle", "lock"}
  BY <1>1, Alone DEF Looks, Moves
<1>5. Reads'
  <2>1. th[t].val = NULL /\ th'[t].val = NULL
    BY DEF SafeInv, Reads, Looks, From, WritesS1, WritesCtrl
  <2> QED
    BY <1>4, <2>1 DEF SafeInv, Reads, WritesS1, WritesCtrl, Looks
<1>6. Withdrawn'
  <2>1. \A u \in Threads : th'[u].pc \in Unfired => "FIRE" \notin reg'[th'[u].g].ctrl
    BY <1>4 DEF SafeInv, Withdrawn, Unfired, Looks, Moves, From
  <2>2. ASSUME NEW g \in HostGroups, "FIRE" \in reg[g].ctrl
        PROVE  th'[t].g = g /\ th'[t].pc \in {"int", "poll", "reset_ctrl"}
    <3>1. th[t].g = g /\ th[t].pc = "poll" /\ th'[t].g = g
      BY <1>1, <2>2, FiredBy DEF Looks, From, Moves
    <3> QED
      BY <2>2, <3>1 DEF Looks, From
  <2> QED
    BY <2>1, <2>2 DEF Withdrawn, Looks
<1> QED
  BY <1>2, <1>3, <1>5, <1>6 DEF SafeInv

LEMMA SafeEdits ==
  ASSUME SafeInv, NEW t \in Threads, Edits(t)
  PROVE  SafeInv'
<1>1. Active(t) /\ Active(t)'
  BY DEF Edits, Active, From, WritesS1, WritesCtrl
<1>2. Serial'
  BY <1>1, SerialMoves DEF Edits
<1>3. PICK g \in Groups : g = th[t].g /\ g = th'[t].g
  BY <1>1, Alone DEF Edits, Moves
<1>4. reg' \in [Groups -> Register] /\ \A h \in Groups \ {g} : reg'[h] = reg[h]
  BY <1>3 DEF SafeInv, Typed, Edits, SetsS1, SetsCtrl, Elsewhere
<1>5. Typed'
  BY <1>4 DEF SafeInv, Typed, Edits, Moves
<1>6. \A u \in Threads \ {t} : th'[u] = th[u] /\ th[u].pc \in {"idle", "lock"}
  BY <1>1, Alone DEF Edits, Moves
<1>7. reg[g].s1 \in SUBSET State1 /\ reg[g].ctrl \in SUBSET Ctrl
  BY DEF SafeInv, Typed, Register
<1>8. Reads'
  <2>1. CASE th[t].val = NULL
    <3>1. \/ th[t].pc \in WritesS1 /\ th'[t].pc \in WritesS1 /\ th'[t].val \in SUBSET State1
          \/ /\ th[t].pc \in WritesCtrl /\ th'[t].pc \in WritesCtrl
             /\ th'[t].val \in SUBSET Ctrl /\ "FIRE" \notin th'[t].val
      BY <1>3, <1>7, <2>1 DEF Edits, SafeInv, Withdrawn, Unfired, WritesCtrl
    <3>2. \A v \in SUBSET Ctrl : "FIRE" \notin v => v \in SUBSET {"INSTANT"}
      BY DEF Ctrl
    <3> QED
      BY <1>6, <3>1, <3>2 DEF SafeInv, Reads, WritesS1, WritesCtrl, Edits
  <2>2. CASE th[t].val # NULL
    <3>1. th'[t].val = NULL
      BY <2>2 DEF Edits
    <3> QED
      BY <1>6, <3>1 DEF SafeInv, Reads, WritesS1, WritesCtrl, Edits
  <2> QED
    BY <2>1, <2>2
<1>9. /\ th'[t].pc \in Unfired => "FIRE" \notin reg'[g].ctrl
      /\ "FIRE" \in reg'[g].ctrl => "FIRE" \in reg[g].ctrl \/ th'[t].pc = "int"
  <2>1. CASE th[t].val = NULL
    <3>1. reg' = reg /\ th'[t].pc = th[t].pc
      BY <2>1 DEF Edits
    <3> QED
      BY <1>3, <3>1 DEF SafeInv, Withdrawn
  <2>2. CASE th[t].val # NULL
    <3>1. th[t].pc \in WritesCtrl => "FIRE" \notin th[t].val
      BY <2>2 DEF SafeInv, Reads
    <3>2. th[t].pc \in Unfired => "FIRE" \notin reg[g].ctrl
      BY <1>3 DEF SafeInv, Withdrawn
    <3> QED
      BY <1>3, <2>2, <3>1, <3>2 DEF Edits, From, SetsS1, SetsCtrl, Unfired, WritesCtrl
  <2> QED
    BY <2>1, <2>2
<1>10. Withdrawn'
  <2>1. \A u \in Threads : th'[u].pc \in Unfired => "FIRE" \notin reg'[th'[u].g].ctrl
    BY <1>3, <1>6, <1>9 DEF Unfired
  <2>2. ASSUME NEW h \in HostGroups, "FIRE" \in reg'[h].ctrl
        PROVE  th'[t].g = h /\ th'[t].pc \in {"int", "poll", "reset_ctrl"}
    <3>1. CASE "FIRE" \in reg[h].ctrl
      <4>1. th[t].pc \in {"int", "poll", "reset_ctrl"}
        BY <1>1, <3>1, FiredBy
      <4> QED
        BY <4>1 DEF Edits, From, WritesS1, WritesCtrl
    <3>2. CASE "FIRE" \notin reg[h].ctrl
      BY <1>3, <1>4, <1>9, <2>2, <3>2, GroupsAssumption
    <3> QED
      BY <3>1, <3>2
  <2> QED
    BY <2>1, <2>2 DEF Withdrawn
<1> QED
  BY <1>2, <1>5, <1>8, <1>10 DEF SafeInv

LEMMA SafeFills ==
  ASSUME SafeInv, NEW t \in Threads, Fills(t)
  PROVE  SafeInv'
<1>1. Active(t) /\ Active(t)'
  BY DEF Fills, Active, From
<1>2. Serial'
  BY <1>1, SerialMoves DEF Fills
<1>3. PICK g \in Groups : g = th[t].g /\ g = th'[t].g
  BY <1>1, Alone DEF Fills, Moves
<1>4. /\ reg' \in [Groups -> Register]
      /\ \A h \in Groups : reg'[h].ctrl = reg[h].ctrl
  BY <1>3 DEF SafeInv, Typed, Fills, SetsWord, Elsewhere
<1>5. Typed'
  BY <1>4 DEF SafeInv, Typed, Fills, Moves
<1>6. \A u \in Threads \ {t} : th'[u] = th[u] /\ th[u].pc \in {"idle", "lock"}
  BY <1>1, Alone DEF Fills, Moves
<1>7. th[t].val = NULL /\ th'[t].val = NULL
  BY DEF SafeInv, Reads, Fills, From, WritesS1, WritesCtrl
<1>8. Reads'
  BY <1>6, <1>7 DEF SafeInv, Reads, WritesS1, WritesCtrl, Fills
<1>9. Withdrawn'
  <2>1. th[t].pc \in Unfired /\ "FIRE" \notin reg[g].ctrl
    BY <1>3 DEF SafeInv, Withdrawn, Fills, From, Unfired
  <2>2. \A u \in Threads : th'[u].pc \in Unfired => "FIRE" \notin reg'[th'[u].g].ctrl
    BY <1>3, <1>4, <1>6, <2>1 DEF Unfired
  <2>3. ASSUME NEW h \in HostGroups, "FIRE" \in reg'[h].ctrl PROVE FALSE
    <3>1. "FIRE" \in reg[h].ctrl
      BY <1>4, <2>3, GroupsAssumption
    <3> QED
      BY <1>1, <1>3, <2>1, <3>1, FiredBy
  <2> QED
    BY <2>2, <2>3 DEF Withdrawn
<1> QED
  BY <1>2, <1>5, <1>8, <1>9 DEF SafeInv

LEMMA SafeInterrupts ==
  ASSUME SafeInv, NEW t \in Threads, Interrupts(t)
  PROVE  SafeInv'
<1>1. Active(t) /\ Active(t)'
  BY DEF Interrupts, Active, From
<1>2. Serial'
  BY <1>1, SerialMoves DEF Interrupts
<1>3. th[t].g \in Groups /\ th'[t].g = th[t].g
  BY <1>1, Alone DEF Interrupts, Moves
<1>4. Typed'
  BY <1>3 DEF SafeInv, Typed, Interrupts, Moves
<1>5. \A u \in Threads \ {t} : th'[u] = th[u] /\ th[u].pc \in {"idle", "lock"}
  BY <1>1, Alone DEF Interrupts, Moves
<1>6. th[t].val = NULL /\ th'[t].val = NULL
  BY DEF SafeInv, Reads, Interrupts, From, WritesS1, WritesCtrl
<1>7. Reads'
  BY <1>5, <1>6 DEF SafeInv, Reads, WritesS1, WritesCtrl, Interrupts, From
<1>8. Withdrawn'
  <2>1. \A u \in Threads : th'[u].pc \in Unfired => "FIRE" \notin reg'[th'[u].g].ctrl
    BY <1>5 DEF Unfired, Interrupts, From
  <2>2. \A h \in HostGroups : "FIRE" \in reg'[h].ctrl => th'[t].g = h /\ th'[t].pc = "poll"
    BY <1>1, <1>3, FiredBy DEF Interrupts, From
  <2> QED
    BY <2>1, <2>2 DEF Withdrawn
<1> QED
  BY <1>2, <1>4, <1>7, <1>8 DEF SafeInv

LEMMA SafeResets ==
  ASSUME SafeInv, NEW t \in Threads, Resets(t)
  PROVE  SafeInv'
<1>1. Active(t) /\ Active(t)'
  BY DEF Resets, Active, From
<1>2. Serial'
  BY <1>1, SerialMoves DEF Resets
<1>3. Typed'
  BY DEF SafeInv, Typed, Resets, Moves
<1>4. \A u \in Threads \ {t} : th'[u] = th[u] /\ th[u].pc \in {"idle", "lock"}
  BY <1>1, Alone DEF Resets, Moves
<1>5. th[t].val = NULL /\ th'[t].val = NULL
  BY DEF SafeInv, Reads, Resets, From, WritesS1, WritesCtrl
<1>6. Reads'
  BY <1>4, <1>5 DEF SafeInv, Reads, WritesS1, WritesCtrl, Resets, From
<1>7. Withdrawn'
  <2>1. \A u \in Threads : th'[u].pc \in Unfired => "FIRE" \notin reg'[th'[u].g].ctrl
    BY <1>4 DEF Unfired, Resets, From
  <2>2. ASSUME NEW h \in HostGroups, "FIRE" \in reg'[h].ctrl PROVE FALSE
    <3>1. "FIRE" \in reg[h].ctrl /\ th[t].pc # "reset_ctrl"
      BY <2>2 DEF Resets, From
    <3> QED
      BY <1>1, <3>1, FiredBy DEF Resets, From
  <2> QED
    BY <2>1, <2>2 DEF Withdrawn
<1> QED
  BY <1>2, <1>3, <1>6, <1>7 DEF SafeInv

\* A call begins, takes the mutex or returns.
LEMMA SafeBegins ==
  ASSUME SafeInv, NEW t \in Threads, NEW g \in Groups, NEW c \in Contents, NEW y \in Types,
         SendMsg(t, g, c, y)
  PROVE  SafeInv' /\ th'[t].pc = "lock" /\ \A u \in Threads \ {t} : th'[u] = th[u]
<1>1. PICK m : m = th[t]
  OBVIOUS
<1>2. m \in Sending /\ m.pc = "idle" /\ th \in [Threads -> Sending]
  BY <1>1 DEF SafeInv, Typed, SendMsg
<1>3. PICK x : x = <<c, c, y>>
  OBVIOUS
<1>4. x \in Mail
  BY <1>3 DEF Mail, Words
<1>5. PICK z : z = [m EXCEPT !.pc = "lock", !.g = g, !.msg = x]
  OBVIOUS
<1>6. th' = [th EXCEPT ![t] = z] /\ UNCHANGED <<reg, irq, lock, rc, accepted>>
  BY <1>1, <1>2, <1>3, <1>5 DEF SendMsg, Sending
<1>7. z \in Sending /\ z.pc = "lock" /\ z.g = g /\ z.msg = x /\ z.val = m.val
  BY <1>2, <1>4, <1>5 DEF Sending, SendPc
<1>8. th' \in [Threads -> Sending] /\ th'[t] = z /\ \A u \in Threads \ {t} : th'[u] = th[u]
  BY <1>2, <1>6, <1>7
<1>9. Typed'
  BY <1>6, <1>8 DEF SafeInv, Typed
<1>10. Serial'
  BY <1>1, <1>2, <1>4, <1>6, <1>7, <1>8 DEF SafeInv, Serial, Active
<1>11. Reads'
  <2>1. z.val = NULL
    BY <1>1, <1>2, <1>7 DEF SafeInv, Reads, WritesS1, WritesCtrl
  <2> QED
    BY <1>6, <1>7, <1>8, <2>1 DEF SafeInv, Reads, WritesS1, WritesCtrl
<1>12. Withdrawn'
  <2>1. \A u \in Threads : th'[u].pc \in Unfired => "FIRE" \notin reg'[th'[u].g].ctrl
    BY <1>6, <1>7, <1>8 DEF SafeInv, Withdrawn, Unfired
  <2>2. ASSUME NEW h \in HostGroups, "FIRE" \in reg'[h].ctrl
        PROVE  \E u \in Threads : th'[u].g = h /\ th'[u].pc \in {"int", "poll", "reset_ctrl"}
    <3>1. PICK u \in Threads : th[u].g = h /\ th[u].pc \in {"int", "poll", "reset_ctrl"}
      BY <1>6, <2>2 DEF SafeInv, Withdrawn
    <3> QED
      BY <1>1, <1>2, <1>8, <3>1
  <2> QED
    BY <2>1, <2>2 DEF Withdrawn
<1> QED
  BY <1>7, <1>8, <1>9, <1>10, <1>11, <1>12 DEF SafeInv

LEMMA SafeLocks ==
  ASSUME SafeInv, NEW t \in Threads, LockSend(t)
  PROVE  SafeInv' /\ Moves(t) /\ From(t, "lock", "fire")
<1>1. /\ th[t].pc = "lock" /\ lock = NULL /\ lock' = t /\ UNCHANGED <<reg, irq, rc, accepted>>
      /\ Goto(t, "fire") /\ "fire" \in SendPc
  BY DEF LockSend, SendPc
<1>2. Moves(t) /\ th'[t].pc = "fire" /\ th'[t].val = th[t].val
  BY <1>1, SetPc DEF SafeInv, Typed
<1>3. Typed'
  BY <1>1, <1>2 DEF SafeInv, Typed, Moves
<1>4. \A u \in Threads : th[u].pc \in {"idle", "lock"}
  BY <1>1, NullAssumption DEF SafeInv, Serial, Active
<1>5. \A u \in Threads \ {t} : th'[u] = th[u]
  BY <1>2 DEF Moves
<1>6. Serial'
  BY <1>1, <1>2, <1>4, <1>5 DEF SafeInv, Serial, Active, Moves
<1>7. th[t].val = NULL
  BY <1>1 DEF SafeInv, Reads, WritesS1, WritesCtrl
<1>8. Reads'
  BY <1>1, <1>2, <1>5, <1>7 DEF SafeInv, Reads, WritesS1, WritesCtrl
<1>9. Withdrawn'
  BY <1>1, <1>2, <1>4, <1>5 DEF SafeInv, Withdrawn, Unfired
<1> QED
  BY <1>1, <1>2, <1>3, <1>6, <1>8, <1>9 DEF SafeInv, From

LEMMA SafeReturns ==
  ASSUME SafeInv, NEW t \in Threads, UnLockSend(t)
  PROVE  /\ SafeInv' /\ th'[t] = NoCall /\ \A u \in Threads \ {t} : th'[u] = th[u]
         /\ accepted' = [accepted EXCEPT ![th[t].g] = <<>>]
<1>1. /\ th[t].pc = "unlock" /\ lock' = NULL /\ th' = [th EXCEPT ![t] = NoCall]
      /\ accepted' = [accepted EXCEPT ![th[t].g] = <<>>] /\ UNCHANGED <<reg, irq, rc>>
  BY DEF UnLockSend
<1>2. NoCall \in Sending
  BY DEF NoCall, Sending, SendPc, Read
<1>3. th \in [Threads -> Sending]
  BY DEF SafeInv, Typed
<1>4. th' \in [Threads -> Sending] /\ th'[t] = NoCall /\ \A u \in Threads \ {t} : th'[u] = th[u]
  BY <1>1, <1>2, <1>3
<1>5. \A u \in Threads \ {t} : th[u].pc \in {"idle", "lock"}
  BY <1>1, Alone DEF Active
<1>6. Typed'
  <2>1. <<>> \in Seq(Mail) /\ accepted \in [Groups -> Seq(Mail)]
    BY DEF SafeInv, Typed
  <2>2. accepted' \in [Groups -> Seq(Mail)]
    BY <1>1, <2>1
  <2> QED
    BY <1>1, <1>4, <2>2 DEF SafeInv, Typed
<1>7. NoCall.pc = "idle" /\ NoCall.val = NULL
  BY DEF NoCall
<1>8. Serial'
  BY <1>1, <1>4, <1>5, <1>7, NullAssumption DEF SafeInv, Serial, Active
<1>9. Reads'
  BY <1>1, <1>4, <1>7 DEF SafeInv, Reads, WritesS1, WritesCtrl
<1>10. Withdrawn'
  BY <1>1, <1>4, <1>5, <1>7 DEF SafeInv, Withdrawn, Unfired
<1> QED
  BY <1>1, <1>4, <1>6, <1>8, <1>9, <1>10 DEF SafeInv

\* A receiver goes on.
LEMMA SafeReceiver ==
  ASSUME SafeInv, NEW g \in Groups, Answers(g) \/ Takes(g)
  PROVE  SafeInv'
<1>1. rc' \in [Groups -> Receiving] /\ \A h \in Groups \ {g} : rc'[h] = rc[h]
  BY DEF Answers, Takes, Turns
<1>2. UNCHANGED <<lock, th>>
  BY DEF Answers, Takes, Turns
<1>3. Typed'
  <2>1. reg' \in [Groups -> Register]
    BY DEF SafeInv, Typed, Answers, Takes, SetsS1, SetsCtrl, Elsewhere
  <2>2. irq' \in [Groups -> BOOLEAN]
    BY DEF SafeInv, Typed, Answers, Takes
  <2>3. accepted' \in [Groups -> Seq(Mail)]
    <3>1. CASE accepted' = accepted
      BY <3>1 DEF SafeInv, Typed
    <3>2. CASE rc[g].pc = "add" /\ accepted' = [accepted EXCEPT ![g] = Append(@, rc[g].msg)]
      <4>1. rc[g].msg \in Mail /\ accepted \in [Groups -> Seq(Mail)]
        BY <3>2 DEF SafeInv, Typed, Reads
      <4>2. Append(accepted[g], rc[g].msg) \in Seq(Mail)
        BY <4>1
      <4> QED
        BY <3>2, <4>1, <4>2
    <3> QED
      BY <3>1, <3>2 DEF Answers, Takes, Goes
  <2> QED
    BY <1>1, <1>2, <2>1, <2>2, <2>3 DEF SafeInv, Typed
<1>4. Serial'
  BY <1>2 DEF SafeInv, Serial, Active
<1>5. Reads'
  <2>1. /\ rc'[g].pc \notin AnswersS1 \cup {"fire_c"} => rc'[g].val = NULL
        /\ rc'[g].pc \in AnswersS1 => rc'[g].val \in {NULL} \cup SUBSET State1
        /\ rc'[g].pc = "fire_c" => rc'[g].val \in {NULL} \cup SUBSET Ctrl
    <3>1. CASE Takes(g)
      <4>1. rc[g].pc \in {"idle", "fire", "type", "word1", "word2", "add"} /\ rc'[g].val = rc[g].val
        BY <3>1 DEF Takes, Goes
      <4>2. rc'[g].val = NULL
        BY <4>1 DEF SafeInv, Reads, AnswersS1
      <4> QED
        BY <4>2
    <3>2. CASE Answers(g) /\ rc[g].val # NULL
      BY <3>2 DEF Answers
    <3>3. CASE Answers(g) /\ rc[g].val = NULL
      <4>1. reg[g].s1 \in SUBSET State1 /\ reg[g].ctrl \in SUBSET Ctrl
        BY DEF SafeInv, Typed, Register
      <4> QED
        BY <3>3, <4>1 DEF Answers, AnswersS1
    <3> QED
      BY <3>1, <3>2, <3>3
  <2>2. rc'[g].pc \in {"word1", "word2", "add"} => rc'[g].msg \in Mail
    BY DEF Answers, Takes, Goes, AnswersS1
  <2> QED
    BY <1>1, <1>2, <2>1, <2>2 DEF SafeInv, Reads
<1>6. Withdrawn'
  <2>1. \A h \in Groups : "FIRE" \in reg'[h].ctrl => "FIRE" \in reg[h].ctrl
    BY DEF Answers, Takes, SetsS1, SetsCtrl, Elsewhere
  <2>2. \A u \in Threads : th[u].pc \in Unfired => th[u].g \in Groups
    BY DEF SafeInv, Serial, Unfired
  <2> QED
    BY <1>2, <2>1, <2>2, GroupsAssumption DEF SafeInv, Withdrawn
<1> QED
  BY <1>3, <1>4, <1>5, <1>6 DEF SafeInv

\* What a sender does is one of these steps.
LEMMA SenderSteps ==
  ASSUME SafeInv, NEW t \in Threads, SendStep(t)
  PROVE  Looks(t) \/ Edits(t) \/ Fills(t) \/ Interrupts(t) \/ Resets(t) \/ UnLockSend(t)
BY LooksOnly, FireEdits, InterruptsOnly, ResetsOnly DEF SafeInv, SendStep

LEMMA InitSafe == Init => SafeInv
<1> SUFFICES ASSUME Init PROVE SafeInv
  OBVIOUS
<1>1. NoCall \in Sending /\ NoCall.pc = "idle" /\ NoCall.val = NULL
  BY DEF NoCall, Sending, SendPc, Read
<1>2. NoRecv \in Receiving /\ NoRecv.pc = "idle" /\ NoRecv.val = NULL
  BY DEF NoRecv, Receiving, RecvPc, Read
<1>3. PICK z : z = [ctrl |-> {}, word |-> <<NULL, NULL>>, s1 |-> {}]
  OBVIOUS
<1>4. z \in Register /\ z.ctrl = {}
  <2>1. <<NULL, NULL>> \in Words \X Words
    BY DEF Words
  <2> QED
    BY <1>3, <2>1 DEF Register
<1>5. /\ reg = [g \in Groups |-> z] /\ irq = [g \in Groups |-> FALSE] /\ lock = NULL
      /\ th = [t \in Threads |-> NoCall] /\ rc = [g \in Groups |-> NoRecv]
      /\ accepted = [g \in Groups |-> <<>>]
  BY <1>3 DEF Init
<1>6. Typed
  BY <1>1, <1>2, <1>4, <1>5 DEF Typed
<1>7. Serial
  BY <1>1, <1>5, NullAssumption DEF Serial, Active
<1>8. Reads
  BY <1>1, <1>2, <1>5 DEF Reads, WritesS1, WritesCtrl, AnswersS1
<1>9. Withdrawn
  BY <1>1, <1>4, <1>5, GroupsAssumption DEF Withdrawn, Unfired
<1> QED
  BY <1>6, <1>7, <1>8, <1>9 DEF SafeInv

\* The invariant holds in every state, whatever peers are dead or late.
THEOREM ChannelInvariant == Spec => []SafeInv
<1>1. Init => SafeInv
  BY InitSafe
<1>2. SafeInv /\ [Next]_vars => SafeInv'
  <2> SUFFICES ASSUME SafeInv, [Next]_vars PROVE SafeInv'
    OBVIOUS
  <2>1. CASE UNCHANGED vars
    BY <2>1 DEF vars, SafeInv, Typed, Serial, Active, Reads, Withdrawn
  <2>2. ASSUME NEW t \in Threads, SendStep(t) PROVE SafeInv'
    BY <2>2, SenderSteps, SafeLooks, SafeEdits, SafeFills, SafeInterrupts, SafeResets, SafeReturns
  <2>3. ASSUME NEW g \in Groups, Tasklet(g) \/ MsgRecvCb(g) PROVE SafeInv'
    BY <2>3, ReceiverSteps, SafeReceiver
  <2> QED
    BY <2>1, <2>2, <2>3, SafeBegins, SafeLocks DEF Next
<1> QED
  BY <1>1, <1>2, PTL DEF Spec

\* A mail of the host's groups that no thread sends any more has been withdrawn:
\* SetConfig clears FIRE after a timeout, however late the peer is.
THEOREM MailsAreWithdrawn == Spec => []MailWithdrawn
<1>1. SafeInv => MailWithdrawn
  BY DEF SafeInv, Withdrawn, MailWithdrawn, Sends
<1> QED
  BY <1>1, ChannelInvariant, PTL

-----------------------------------------------------------------------------
(* The receiver of a peer that answers in time.                            *)

LEMMA SameMail ==
  ASSUME NEW a \in Mail, NEW b \in Mail, a[1] = b[1], a[2] = b[2], a[3] = b[3]
  PROVE  a = b
BY DEF Mail

LEMMA FirstAccepted ==
  ASSUME NEW m
  PROVE  Append(<<>>, m) = <<m>>
OBVIOUS

\* The status bits that the receiver sets.
LEMMA StatusSet ==
  ASSUME NEW x
  PROVE  /\ (x \cup {"BUSY"}) \cap {"OVERFLOW", "DISABLED"} = x \cap {"OVERFLOW", "DISABLED"}
         /\ (x \ {"BUSY"}) \cap {"OVERFLOW", "DISABLED"} = x \cap {"OVERFLOW", "DISABLED"}
         /\ (x \cup {"OVERFLOW"}) \cap {"OVERFLOW", "DISABLED"} # {}
         /\ (x \cup {"DISABLED"}) \cap {"OVERFLOW", "DISABLED"} # {}
OBVIOUS

\* The receiver handles the mail.
LEMMA FetchTakes ==
  ASSUME SafeInv, NEW g \in Groups, NEW m \in Mail, Fetches(g, m), Takes(g)
  PROVE  Fetches(g, m)'
<1>1. rc \in [Groups -> Receiving] /\ irq \in [Groups -> BOOLEAN] /\ accepted \in [Groups -> Seq(Mail)]
  BY DEF SafeInv, Typed
<1>2. rc'[g] \in Receiving /\ rc'[g].val = rc[g].val /\ UNCHANGED reg
  BY DEF Takes, Turns
<1>3. Status(g)' = Status(g) /\ MailIs(g, m)' = MailIs(g, m)
  BY <1>2 DEF Status, MailIs
<1>4. rc[g].pc \in {"idle", "fire", "type", "word1", "word2", "add"}
  BY DEF Takes, Goes
<1>5. rc[g].val = NULL /\ rc'[g].val = NULL
  BY <1>2, <1>4 DEF SafeInv, Reads, AnswersS1
<1>6. CASE Goes(g, "idle", "fire")
  BY <1>1, <1>2, <1>3, <1>5, <1>6 DEF Takes, Goes, Fetches, AnswersS1
<1>7. CASE Goes(g, "fire", "busy_s") \/ Goes(g, "fire", "idle")
  <2>1. ~irq[g] /\ "FIRE" \in reg[g].ctrl
    BY <1>7 DEF Goes, Fetches, NoRecv
  <2> QED
    BY <1>2, <1>3, <1>5, <1>7, <2>1 DEF Takes, Goes, Fetches, AnswersS1
<1>8. CASE Goes(g, "type", "word1")
  <2>1. ~irq[g] /\ MailIs(g, m)
    BY <1>8 DEF Goes, Fetches, NoRecv
  <2>2. rc'[g].msg[3] = m[3] /\ UNCHANGED <<irq, accepted>>
    BY <1>8, <2>1 DEF Takes, Goes, MailIs, Mail, Types
  <2> QED
    BY <1>2, <1>3, <1>5, <1>8, <2>1, <2>2 DEF Goes, Fetches, AnswersS1
<1>9. CASE Goes(g, "word1", "word2")
  <2>1. ~irq[g] /\ MailIs(g, m)
    BY <1>9 DEF Goes, Fetches, NoRecv
  <2>2. rc'[g].msg[3] = m[3] /\ rc'[g].msg[1] = m[1] /\ UNCHANGED <<irq, accepted>>
    BY <1>9, <2>1 DEF Takes, Goes, MailIs, Fetches
  <2> QED
    BY <1>2, <1>3, <1>5, <1>9, <2>1, <2>2 DEF Goes, Fetches, AnswersS1
<1>10. CASE Goes(g, "word2", "add")
  <2>1. ~irq[g] /\ MailIs(g, m)
    BY <1>10 DEF Goes, Fetches, NoRecv
  <2>2. /\ rc'[g].msg[3] = m[3] /\ rc'[g].msg[1] = m[1] /\ rc'[g].msg[2] = m[2]
        /\ UNCHANGED <<irq, accepted>>
    BY <1>10, <2>1 DEF Takes, Goes, MailIs, Fetches
  <2> QED
    BY <1>2, <1>3, <1>5, <1>10, <2>1, <2>2 DEF Goes, Fetches, AnswersS1
<1>11. CASE Goes(g, "add", "busy_c")
  <2>1. ~irq[g] /\ Status(g) = {} /\ accepted[g] = <<>> /\ "FIRE" \in reg[g].ctrl
    BY <1>11 DEF Goes, Fetches, NoRecv
  <2>2. rc[g].msg = m
    BY <1>11, SameMail DEF Goes, Fetches, SafeInv, Reads
  <2>3. accepted' = [accepted EXCEPT ![g] = Append(@, m)] /\ UNCHANGED irq /\ rc'[g].msg = <<>>
    BY <1>11, <2>2 DEF Takes, Goes
  <2>4. accepted'[g] = <<m>>
    BY <1>1, <2>1, <2>3, FirstAccepted
  <2>5. Outcome(g, m)'
    BY <1>3, <2>1, <2>4 DEF Outcome
  <2> QED
    BY <1>2, <1>3, <1>5, <1>11, <2>1, <2>3, <2>5 DEF Goes, Fetches, AnswersS1
<1>12. CASE Goes(g, "add", "overflow_s") \/ Goes(g, "add", "disabled_s")
  <2>1. ~irq[g] /\ accepted[g] = <<>> /\ "FIRE" \in reg[g].ctrl
    BY <1>12 DEF Goes, Fetches, NoRecv
  <2>2. UNCHANGED <<irq, accepted>> /\ rc'[g].msg = <<>>
    BY <1>12 DEF Takes, Goes
  <2> QED
    BY <1>2, <1>3, <1>5, <1>12, <2>1, <2>2 DEF Goes, Fetches, AnswersS1
<1> QED
  BY <1>6, <1>7, <1>8, <1>9, <1>10, <1>11, <1>12 DEF Takes

LEMMA FetchAnswers ==
  ASSUME SafeInv, NEW g \in Groups, NEW m \in Mail, Fetches(g, m), Answers(g)
  PROVE  Fetches(g, m)'
<1>1. rc \in [Groups -> Receiving] /\ irq \in [Groups -> BOOLEAN]
  BY DEF SafeInv, Typed
<1>2. rc'[g] \in Receiving /\ rc'[g].msg = rc[g].msg /\ UNCHANGED <<irq, accepted>>
  BY DEF Answers, Turns
<1>3. rc[g].pc \in AnswersS1 \cup {"fire_c"} /\ rc[g].pc # "idle" /\ ~irq[g]
  BY DEF Answers, Goes, Fetches, NoRecv, AnswersS1
<1>4. "FIRE" \in reg[g].ctrl /\ rc[g].msg = <<>>
  BY <1>3 DEF Fetches, AnswersS1
<1>5. reg[g].s1 # NULL /\ reg[g].ctrl # NULL
  <2>1. reg[g].s1 \in SUBSET State1 /\ reg[g].ctrl \in SUBSET Ctrl
    BY DEF SafeInv, Typed, Register
  <2> QED
    BY <2>1, NullAssumption
<1>6. CASE rc[g].val = NULL
  <2>1. UNCHANGED reg /\ rc'[g].pc = rc[g].pc
    BY <1>6 DEF Answers
  <2>2. Status(g)' = Status(g) /\ MailIs(g, m)' = MailIs(g, m) /\ Outcome(g, m)' = Outcome(g, m)
    BY <1>2, <2>1 DEF Status, MailIs, Outcome
  <2>3. /\ rc[g].pc \in AnswersS1 => rc'[g].val = reg[g].s1
        /\ rc[g].pc = "fire_c" => rc'[g].val = reg[g].ctrl
    BY <1>6 DEF Answers, AnswersS1
  <2> QED
    BY <1>2, <1>3, <2>1, <2>2, <2>3 DEF Fetches, AnswersS1
<1>7. CASE rc[g].val # NULL
  <2>1. rc'[g].val = NULL
    BY <1>7 DEF Answers
  <2>2. CASE Goes(g, "busy_s", "type")
    <3>1. SetsS1(g, reg[g].s1 \cup {"BUSY"})
      BY <1>7, <2>2 DEF Answers, Goes, Fetches, AnswersS1
    <3>2. MailIs(g, m) /\ Status(g) = {} /\ accepted[g] = <<>>
      BY <2>2 DEF Goes, Fetches
    <3>3. MailIs(g, m)' /\ Status(g)' = {}
      BY <3>1, <3>2, StatusSet DEF MailIs, Status, SetsS1
    <3> QED
      BY <1>2, <1>3, <1>4, <2>1, <2>2, <3>1, <3>2, <3>3 DEF Goes, Fetches, AnswersS1, SetsS1
  <2>3. CASE Goes(g, "overflow_s", "busy_c") \/ Goes(g, "disabled_s", "busy_c")
    <3>1. SetsS1(g, reg[g].s1 \cup {"OVERFLOW"}) \/ SetsS1(g, reg[g].s1 \cup {"DISABLED"})
      BY <1>7, <2>3 DEF Answers, Goes, Fetches, AnswersS1
    <3>2. accepted[g] = <<>>
      BY <2>3 DEF Goes, Fetches
    <3>3. Status(g)' # {} /\ reg'[g].ctrl = reg[g].ctrl
      BY <3>1, StatusSet DEF Status, SetsS1
    <3>4. Outcome(g, m)'
      BY <1>2, <3>2, <3>3 DEF Outcome
    <3> QED
      BY <1>2, <1>3, <1>4, <2>1, <2>3, <3>3, <3>4 DEF Goes, Fetches, AnswersS1
  <2>4. CASE Goes(g, "busy_c", "fire_c")
    <3>1. SetsS1(g, reg[g].s1 \ {"BUSY"})
      BY <1>7, <2>4 DEF Answers, Goes, Fetches, AnswersS1
    <3>2. Status(g)' = Status(g) /\ reg'[g].ctrl = reg[g].ctrl /\ "BUSY" \notin reg'[g].s1
      BY <3>1, StatusSet DEF Status, SetsS1
    <3>3. Outcome(g, m) /\ Outcome(g, m)'
      BY <1>2, <1>3, <2>4, <3>2 DEF Fetches, Goes, Outcome
    <3> QED
      BY <1>2, <1>3, <1>4, <2>1, <2>4, <3>2, <3>3 DEF Goes, Fetches, AnswersS1
  <2>5. CASE Goes(g, "fire_c", "idle")
    <3>1. SetsCtrl(g, reg[g].ctrl \ {"FIRE"})
      BY <1>7, <2>5 DEF Answers, Goes, Fetches, AnswersS1
    <3>2. Status(g)' = Status(g) /\ "FIRE" \notin reg'[g].ctrl /\ "BUSY" \notin reg'[g].s1
      BY <1>3, <2>5, <3>1 DEF Status, SetsCtrl, Goes, Fetches
    <3>3. Outcome(g, m) /\ Outcome(g, m)'
      BY <1>2, <1>3, <2>5, <3>2 DEF Fetches, Goes, Outcome
    <3> QED
      BY <1>2, <1>3, <1>4, <2>1, <2>5, <3>2, <3>3 DEF Goes, Fetches, AnswersS1
  <2> QED
    BY <1>7, <2>2, <2>3, <2>4, <2>5 DEF Answers
<1> QED
  BY <1>6, <1>7

\* Somebody polls where the receiver is at work.
LEMMA PromptReceiver ==
  ASSUME PromptInv, NEW g \in Groups, Answers(g) \/ Takes(g)
  PROVE  PromptInv'
<1>1. SafeInv /\ SafeInv'
  BY SafeReceiver DEF PromptInv
<1>2. rc[g].pc # "idle" \/ (irq[g] /\ g \notin Dead)
  BY DEF Answers, Takes, Goes, AnswersS1
<1>3. g \notin Dead
  BY <1>2 DEF PromptInv, Resting, NoRecv
<1>4. PICK t \in Threads : th[t].g = g /\ th[t].pc = "poll"
  BY <1>2, <1>3 DEF PromptInv, Resting, NoRecv
<1>5. PICK m \in Mail : m = th[t].msg
  BY <1>1, <1>4 DEF SafeInv, Serial
<1>6. Fetches(g, m)
  BY <1>3, <1>4, <1>5 DEF PromptInv, Answered
<1>7. Fetches(g, m)'
  BY <1>1, <1>6, FetchAnswers, FetchTakes
<1>8. \A u \in Threads \ {t} : th[u].pc \in {"idle", "lock"}
  BY <1>1, <1>4, Alone DEF Active
<1>9. UNCHANGED <<th, lock>> /\ \A h \in Groups \ {g} : rc'[h] = rc[h]
  BY DEF Answers, Takes, Turns
<1>10. \A h \in Groups \ {g} : reg'[h] = reg[h] /\ irq'[h] = irq[h] /\ accepted'[h] = accepted[h]
  <2>1. irq \in [Groups -> BOOLEAN] /\ accepted \in [Groups -> Seq(Mail)]
    BY <1>1 DEF SafeInv, Typed
  <2> QED
    BY <2>1 DEF Answers, Takes, SetsS1, SetsCtrl, Elsewhere
<1>11. Resting'
  <2> SUFFICES ASSUME NEW h \in Groups
               PROVE  /\ (h \in Dead \/ ~\E u \in Threads : th[u].g = h /\ th[u].pc = "poll") => rc'[h] = NoRecv
                      /\ h \in Dead \/ (\E u \in Threads : th[u].g = h /\ th[u].pc = "poll") \/ ~irq'[h]
                      /\ (h \in Dead \/ ~\E u \in Threads :
                            th[u].g = h /\ th[u].pc \in {"poll", "overflow", "disabled", "unlock"})
                           => accepted'[h] = <<>>
    BY <1>9 DEF Resting
  <2>1. CASE h = g
    BY <1>3, <1>4, <2>1
  <2>2. CASE h # g
    BY <1>9, <1>10, <2>2 DEF PromptInv, Resting
  <2> QED
    BY <2>1, <2>2
<1>12. Filled'
  BY <1>4, <1>8, <1>9 DEF Filled, WritesS1, WritesCtrl
<1>13. Answered'
  BY <1>3, <1>4, <1>5, <1>7, <1>8, <1>9 DEF Answered
<1>14. Unbusied'
  BY <1>4, <1>9, <1>10, GroupsAssumption DEF PromptInv, Unbusied
<1> QED
  BY <1>1, <1>11, <1>12, <1>13, <1>14 DEF PromptInv

-----------------------------------------------------------------------------
(* The sender, when peers that are alive answer in time.                   *)

Told == {"poll", "overflow", "disabled", "unlock"}

\* Where the receivers rest.
LEMMA OthersRest ==
  ASSUME PromptInv, NEW t \in Threads, Active(t), NEW h \in Groups
  PROVE  /\ (th[t].g # h \/ th[t].pc # "poll" \/ h \in Dead) => rc[h] = NoRecv
         /\ (th[t].g # h \/ th[t].pc # "poll") => h \in Dead \/ ~irq[h]
         /\ (th[t].g # h \/ th[t].pc \notin Told \/ h \in Dead) => accepted[h] = <<>>
<1>1. \A u \in Threads \ {t} : th[u].pc \in {"idle", "lock"}
  BY Alone DEF PromptInv
<1> QED
  BY <1>1 DEF PromptInv, Resting, Told

\* The receivers still rest when the sender goes on.
LEMMA RestingMoves ==
  ASSUME PromptInv, NEW t \in Threads, Moves(t), Active(t), UNCHANGED <<rc, irq, accepted>>,
         th[t].pc = "poll" /\ th[t].g \notin Dead => rc[th[t].g] = NoRecv /\ ~irq[th[t].g],
         th'[t].pc # "poll",
         th[t].pc \in Told /\ th'[t].pc \notin Told => accepted[th[t].g] = <<>>
  PROVE  Resting'
<1>1. th'[t].g = th[t].g /\ \A u \in Threads \ {t} : th'[u] = th[u] /\ th[u].pc \in {"idle", "lock"}
  BY Alone DEF PromptInv, Moves
<1> SUFFICES ASSUME NEW h \in Groups
             PROVE  /\ rc'[h] = NoRecv
                    /\ h \in Dead \/ ~irq'[h]
                    /\ (h \in Dead \/ ~\E u \in Threads : th'[u].g = h /\ th'[u].pc \in Told)
                         => accepted'[h] = <<>>
  BY DEF Resting, Told
<1>2. rc[h] = NoRecv /\ (h \in Dead \/ ~irq[h])
  BY OthersRest
<1>3. ASSUME h \in Dead \/ ~\E u \in Threads : th'[u].g = h /\ th'[u].pc \in Told
      PROVE  accepted[h] = <<>>
  <2>1. CASE h \in Dead
    BY <2>1, OthersRest
  <2>2. CASE th[t].g = h /\ th[t].pc \in Told
    BY <1>1, <1>3, <2>1, <2>2
  <2>3. CASE th[t].g # h \/ th[t].pc \notin Told
    BY <2>3, OthersRest
  <2> QED
    BY <2>1, <2>2, <2>3
<1> QED
  BY <1>2, <1>3

\* The host's groups stay free when the sender goes on.
LEMMA BusyBy ==
  ASSUME PromptInv, NEW t \in Threads, Active(t), NEW g \in HostGroups, "BUSY" \in reg[g].s1
  PROVE  /\ th[t].g = g
         /\ th[t].pc \in {"word1", "word2", "instant_s", "fire_s", "int", "poll", "reset_ctrl",
                          "reset_words", "reset_s1", "clear"}
BY Alone DEF PromptInv, Unbusied

LEMMA PromptLooks ==
  ASSUME PromptInv, Slow = {}, NEW t \in Threads, Looks(t)
  PROVE  PromptInv'
<1>1. Active(t) /\ Active(t)' /\ SafeInv /\ SafeInv'
  BY SafeLooks DEF PromptInv, Looks, Active, From
<1>2. PICK g \in Groups : g = th[t].g /\ g = th'[t].g
  BY <1>1, Alone DEF Looks, Moves
<1>3. PICK m \in Mail : m = th[t].msg /\ m = th'[t].msg
  BY <1>1, Alone DEF Looks, Moves
<1>4. \A u \in Threads \ {t} : th'[u] = th[u] /\ th[u].pc \in {"idle", "lock"}
  BY <1>1, Alone DEF Looks, Moves
<1>5. UNCHANGED <<reg, irq, lock, rc, accepted>>
  BY DEF Looks
<1>6. ASSUME th[t].pc = "poll", th'[t].pc = "overflow"
      PROVE  /\ g \notin Dead /\ rc[g] = NoRecv /\ ~irq[g]
             /\ Outcome(g, m) /\ "BUSY" \notin reg[g].s1
  <2>1. "FIRE" \notin reg[g].ctrl
    BY <1>2, <1>6 DEF Looks, From
  <2>2. g \notin Dead /\ Fetches(g, m)
    BY <1>2, <1>3, <1>6, <2>1 DEF PromptInv, Answered
  <2>3. ~irq[g] /\ rc[g].pc = "idle"
    BY <2>1, <2>2 DEF Fetches
  <2>4. rc[g].msg = <<>> /\ rc[g].val = NULL /\ rc[g] \in Receiving
    BY <1>1, <2>2, <2>3 DEF Fetches, SafeInv, Reads, Typed, AnswersS1
  <2>5. rc[g] = NoRecv
    BY <2>3, <2>4 DEF NoRecv, Receiving
  <2> QED
    BY <2>2, <2>3, <2>5 DEF Fetches
<1>7. th[t].pc = "poll" => th'[t].pc = "overflow" \/ (th'[t].pc = "reset_ctrl" /\ g \in Dead)
  BY <1>2 DEF Looks, From
<1>8. ASSUME th[t].pc \in {"overflow", "disabled"}
      PROVE  /\ g \notin Dead /\ "BUSY" \notin reg[g].s1
             /\ th'[t].pc = "disabled" => "OVERFLOW" \notin reg[g].s1 /\ Outcome(g, m)
             /\ th'[t].pc = "clear" => accepted[g] = <<>>
             /\ th'[t].pc = "unlock" => accepted[g] = <<m>> /\ th'[t].ret = "SUCCESS"
             /\ th'[t].pc \in {"disabled", "clear", "unlock"}
  <2>1. g \notin Dead /\ Outcome(g, m) /\ "BUSY" \notin reg[g].s1
    BY <1>2, <1>3, <1>8 DEF PromptInv, Answered
  <2>2. reg[g].s1 \in SUBSET State1
    BY <1>1 DEF SafeInv, Typed, Register
  <2>3. th[t].pc = "disabled" => "OVERFLOW" \notin reg[g].s1
    BY <1>2 DEF PromptInv, Answered
  <2>4. th'[t].pc = "clear" => Status(g) # {}
    BY <1>2, <1>8 DEF Looks, From, Status
  <2>5. th'[t].pc = "unlock" => Status(g) = {} /\ th'[t].ret = "SUCCESS"
    BY <1>2, <1>8, <2>3 DEF Looks, From, Status
  <2>6. th'[t].pc = "disabled" => "OVERFLOW" \notin reg[g].s1
    BY <1>2, <1>8, <2>3 DEF Looks, From
  <2>7. th'[t].pc \in {"disabled", "clear", "unlock"}
    BY <1>8 DEF Looks, From
  <2> QED
    BY <2>1, <2>4, <2>5, <2>6, <2>7 DEF Outcome
<1>9. th[t].pc \notin {"poll", "overflow", "disabled"} => th'[t].pc \in {"fire_busy", "busy", "clear", "s1_c"}
  BY DEF Looks, From
<1>10. th[t].pc \in {"fire", "fire_busy", "busy", "poll", "overflow", "disabled"}
  BY DEF Looks, From
<1>11. Resting'
  <2>1. th'[t].pc # "poll"
    BY DEF Looks, From
  <2>2. th[t].pc \in Told /\ th'[t].pc \notin Told => accepted[g] = <<>>
    <3>1. g \in Dead => accepted[g] = <<>>
      BY <1>1, OthersRest
    <3> QED
      BY <1>7, <1>8, <1>10, <3>1 DEF Told
  <2>3. th[t].pc = "poll" /\ g \notin Dead => rc[g] = NoRecv /\ ~irq[g]
    BY <1>6, <1>7
  <2> QED
    BY <1>1, <1>2, <1>5, <2>1, <2>2, <2>3, RestingMoves DEF Looks
<1>12. Filled'
  <2>1. th'[t].val = NULL
    BY <1>1, <1>10 DEF Looks, SafeInv, Reads, WritesS1, WritesCtrl
  <2>2. th'[t].pc \in {"fire_busy", "busy", "clear", "s1_c", "overflow", "disabled", "unlock", "reset_ctrl"}
    BY <1>7, <1>8, <1>9
  <2> QED
    BY <1>4, <2>1, <2>2 DEF Filled, WritesS1, WritesCtrl
<1>13. Answered'
  <2>1. Outcome(g, m)' = Outcome(g, m)
    BY <1>5 DEF Outcome, Status
  <2>2. th'[t].pc = "clear" => th'[t].ret \in Errors
    BY DEF Looks, From
  <2>3. th'[t].pc # "poll" /\ (th'[t].pc \in {"overflow", "disabled"} => th[t].pc \in {"poll", "overflow", "disabled"})
    BY <1>9 DEF Looks, From
  <2>4. th'[t].pc \notin {"reset_words", "reset_s1"} /\ (th'[t].pc = "unlock" => th[t].pc \in {"overflow", "disabled"})
    BY <1>7, <1>8, <1>9
  <2>5. th'[t].pc = "reset_ctrl" => g \in Dead
    BY <1>7, <1>8, <1>9
  <2>6. th'[t].pc \in {"overflow", "disabled"} => g \notin Dead /\ Outcome(g, m) /\ "BUSY" \notin reg[g].s1
    BY <1>6, <1>7, <1>8, <2>3
  <2>7. th'[t].pc = "disabled" => "OVERFLOW" \notin reg[g].s1
    BY <1>7, <1>8, <2>3
  <2>8. th'[t].pc = "unlock" => accepted[g] = <<m>> /\ th'[t].ret = "SUCCESS" /\ "BUSY" \notin reg[g].s1
    BY <1>8, <2>4
  <2> QED
    BY <1>2, <1>3, <1>4, <1>5, <2>1, <2>2, <2>3, <2>4, <2>5, <2>6, <2>7, <2>8 DEF Answered
<1>14. Unbusied'
  <2> SUFFICES ASSUME NEW h \in HostGroups, "BUSY" \in reg[h].s1
               PROVE  th'[t].g = h /\ th'[t].pc = "reset_ctrl"
    BY <1>5 DEF Unbusied
  <2>1. th[t].g = h /\ th[t].pc = "poll"
    BY <1>1, <1>10, BusyBy
  <2> QED
    BY <1>2, <1>6, <1>7, <2>1
<1> QED
  BY <1>1, <1>11, <1>12, <1>13, <1>14 DEF PromptInv

LEMMA PromptEdits ==
  ASSUME PromptInv, NEW t \in Threads, Edits(t)
  PROVE  PromptInv'
<1>1. Active(t) /\ Active(t)' /\ SafeInv /\ SafeInv'
  BY SafeEdits DEF PromptInv, Edits, Active, From, WritesS1, WritesCtrl
<1>2. PICK g \in Groups : g = th[t].g /\ g = th'[t].g
  BY <1>1, Alone DEF Edits, Moves
<1>3. PICK m \in Mail : m = th[t].msg /\ m = th'[t].msg
  BY <1>1, Alone DEF Edits, Moves
<1>4. \A u \in Threads \ {t} : th'[u] = th[u] /\ th[u].pc \in {"idle", "lock"}
  BY <1>1, Alone DEF Edits, Moves
<1>5. UNCHANGED <<irq, lock, rc, accepted>> /\ th'[t].ret = th[t].ret
  BY DEF Edits
<1>6. th[t].pc \in WritesS1 \cup WritesCtrl /\ th[t].pc \notin Told /\ th'[t].pc # "poll"
  BY DEF Edits, From, WritesS1, WritesCtrl, Told
<1>7. Resting'
  BY <1>1, <1>5, <1>6, RestingMoves DEF Edits, Told
<1>8. reg[g].s1 \in SUBSET State1 /\ reg[g].ctrl \in SUBSET Ctrl
  BY <1>1 DEF SafeInv, Typed, Register
<1>9. \A h \in Groups \ {g} : reg'[h] = reg[h]
  BY <1>2 DEF Edits, SetsS1, SetsCtrl, Elsewhere
<1>10. CASE th[t].val = NULL
  <2>1. /\ UNCHANGED reg /\ th'[t].pc = th[t].pc
        /\ \/ th[t].pc \in WritesS1 /\ th'[t].val = reg[g].s1
           \/ th[t].pc \in WritesCtrl /\ th'[t].val = reg[g].ctrl
    BY <1>2, <1>10 DEF Edits
  <2>2. Status(g)' = Status(g) /\ MailIs(g, m)' = MailIs(g, m)
    BY <2>1 DEF Status, MailIs
  <2>3. Filled'
    <3>1. ASSUME NEW u \in Threads \ {t} PROVE th'[u].pc \in {"idle", "lock"}
      BY <1>4
    <3>2. /\ th'[t].pc \in WritesS1 => th'[t].val \in {NULL, reg'[g].s1}
          /\ th'[t].pc \in WritesCtrl => th'[t].val \in {NULL, reg'[g].ctrl}
      BY <2>1 DEF WritesS1, WritesCtrl
    <3>3. /\ th[t].pc \in {"instant_c", "busy_s", "instant_s", "fire_s"} => Status(g)' = {}
          /\ th[t].pc \in {"busy_s", "instant_s"} => "INSTANT" \notin reg[g].ctrl
          /\ th[t].pc \in {"instant_s", "fire_s"} => reg[g].word[1] = m[1] /\ reg[g].word[2] = m[2]
          /\ th[t].pc = "instant_s" => m[3] = "INSTANT"
          /\ th[t].pc = "fire_s" => MailIs(g, m)'
      BY <1>2, <1>3, <2>2 DEF PromptInv, Filled
    <3>4. th'[t].pc = th[t].pc /\ reg' = reg /\ th[t].pc \notin {"word1", "word2", "int"}
      BY <1>6, <2>1 DEF WritesS1, WritesCtrl
    <3> QED
      BY <1>2, <1>3, <3>1, <3>2, <3>3, <3>4 DEF Filled, WritesS1, WritesCtrl
  <2>4. Answered'
    BY <1>4, <1>5, <1>6, <2>1 DEF PromptInv, Answered, WritesS1, WritesCtrl
  <2>5. Unbusied'
    BY ZenonT(40), <1>1, <1>2, <2>1, BusyBy DEF Unbusied
  <2> QED
    BY <1>1, <1>7, <2>3, <2>4, <2>5 DEF PromptInv
<1>11. CASE th[t].val # NULL
  <2>1. /\ th[t].pc \in WritesS1 => th[t].val = reg[g].s1
        /\ th[t].pc \in WritesCtrl => th[t].val = reg[g].ctrl
    BY <1>2, <1>11 DEF PromptInv, Filled
  <2>2. /\ th'[t].val = NULL
        /\ \/ From(t, "s1_c", "instant_c") /\ SetsS1(g, reg[g].s1 \ State1)
           \/ From(t, "instant_c", "busy_s") /\ SetsCtrl(g, reg[g].ctrl \ {"INSTANT"})
           \/ From(t, "busy_s", "word1") /\ SetsS1(g, reg[g].s1 \cup {"BUSY"})
           \/ From(t, "instant_s", "fire_s") /\ SetsCtrl(g, reg[g].ctrl \cup {"INSTANT"})
           \/ From(t, "fire_s", "int") /\ SetsCtrl(g, reg[g].ctrl \cup {"FIRE"})
           \/ From(t, "clear", "unlock") /\ SetsS1(g, reg[g].s1 \ State1)
    BY <1>2, <1>11, <2>1 DEF Edits, From, WritesS1, WritesCtrl
  <2>3. reg[g].s1 \ State1 = {} /\ (reg[g].s1 \ State1) \cap {"OVERFLOW", "DISABLED"} = {}
    BY <1>8
  <2>4. Filled'
    <3> SUFFICES /\ th'[t].pc \in {"instant_c", "busy_s", "word1", "fire_s", "int"} => Status(g)' = {}
                 /\ th'[t].pc \in {"busy_s", "word1"} => "INSTANT" \notin reg'[g].ctrl
                 /\ th'[t].pc = "fire_s" => MailIs(g, m)'
                 /\ th'[t].pc = "int" => MailIs(g, m)' /\ "FIRE" \in reg'[g].ctrl
                 /\ th'[t].pc \in {"instant_c", "busy_s", "word1", "fire_s", "int", "unlock"}
      BY <1>2, <1>3, <1>4, <2>2 DEF Filled, WritesS1, WritesCtrl, MailIs
    <3>1. CASE From(t, "s1_c", "instant_c") /\ SetsS1(g, reg[g].s1 \ State1)
      BY <2>3, <3>1 DEF From, SetsS1, Status
    <3>2. CASE From(t, "instant_c", "busy_s") /\ SetsCtrl(g, reg[g].ctrl \ {"INSTANT"})
      BY <1>2, <3>2 DEF From, SetsCtrl, Status, PromptInv, Filled
    <3>3. CASE From(t, "busy_s", "word1") /\ SetsS1(g, reg[g].s1 \cup {"BUSY"})
      BY <1>2, <3>3, StatusSet DEF From, SetsS1, Status, PromptInv, Filled
    <3>4. CASE From(t, "instant_s", "fire_s") /\ SetsCtrl(g, reg[g].ctrl \cup {"INSTANT"})
      <4>1. /\ Status(g) = {} /\ reg[g].word[1] = m[1] /\ reg[g].word[2] = m[2]
            /\ m[3] = "INSTANT" /\ th'[t].pc = "fire_s"
        BY <1>2, <1>3, <3>4 DEF From, PromptInv, Filled
      <4> QED
        BY <3>4, <4>1 DEF SetsCtrl, Status, MailIs
    <3>5. CASE From(t, "fire_s", "int") /\ SetsCtrl(g, reg[g].ctrl \cup {"FIRE"})
      <4>1. Status(g) = {} /\ MailIs(g, m) /\ th'[t].pc = "int"
        BY <1>2, <1>3, <3>5 DEF From, PromptInv, Filled
      <4> QED
        BY <3>5, <4>1 DEF SetsCtrl, Status, MailIs
    <3>6. CASE From(t, "clear", "unlock") /\ SetsS1(g, reg[g].s1 \ State1)
      BY <3>6 DEF From
    <3> QED
      BY <2>2, <3>1, <3>2, <3>3, <3>4, <3>5, <3>6
  <2>5. Answered'
    <3>1. th'[t].pc \in {"instant_c", "busy_s", "word1", "fire_s", "int", "unlock"}
      BY <2>2 DEF From
    <3>2. ASSUME th'[t].pc = "unlock"
          PROVE  accepted'[g] = <<>> /\ th'[t].ret \in Errors /\ "BUSY" \notin reg'[g].s1
      <4>1. th[t].pc = "clear" /\ reg'[g].s1 = {}
        BY <2>2, <2>3, <3>2 DEF From, SetsS1
      <4>2. accepted[g] = <<>>
        BY <1>1, <1>6, OthersRest
      <4> QED
        BY <1>5, <4>1, <4>2 DEF PromptInv, Answered
    <3>3. "SUCCESS" \notin Errors
      BY DEF Errors
    <3> QED
      BY <1>2, <1>3, <1>4, <3>1, <3>2, <3>3 DEF Answered
  <2>6. Unbusied'
    <3> SUFFICES ASSUME NEW h \in HostGroups, "BUSY" \in reg'[h].s1
                 PROVE  th'[t].g = h /\ th'[t].pc \in {"word1", "fire_s", "int"}
      BY DEF Unbusied
    <3>1. CASE From(t, "busy_s", "word1") /\ h = g
      BY <1>2, <3>1 DEF From
    <3>2. CASE ~From(t, "busy_s", "word1") \/ h # g
      <4>1. "BUSY" \in reg[h].s1
        BY <1>9, <2>2, <2>3, <3>2, GroupsAssumption DEF SetsS1, SetsCtrl
      <4>2. th[t].g = h /\ th[t].pc \in {"instant_s", "fire_s", "clear"}
        BY <1>1, <1>6, <4>1, BusyBy DEF WritesS1, WritesCtrl
      <4>3. th[t].pc # "clear"
        <5>1. ASSUME th[t].pc = "clear" PROVE reg'[g].s1 = {}
          BY <2>2, <2>3, <5>1 DEF From, SetsS1
        <5> QED
          BY <1>2, <4>2, <5>1
      <4> QED
        BY <1>2, <2>2, <4>2, <4>3 DEF From
    <3> QED
      BY <3>1, <3>2
  <2> QED
    BY <1>1, <1>7, <2>4, <2>5, <2>6 DEF PromptInv
<1> QED
  BY <1>10, <1>11

LEMMA PromptFills ==
  ASSUME PromptInv, NEW t \in Threads, Fills(t)
  PROVE  PromptInv'
<1>1. Active(t) /\ Active(t)' /\ SafeInv /\ SafeInv'
  BY SafeFills DEF PromptInv, Fills, Active, From
<1>2. PICK g \in Groups : g = th[t].g /\ g = th'[t].g
  BY <1>1, Alone DEF Fills, Moves
<1>3. PICK m \in Mail : m = th[t].msg /\ m = th'[t].msg
  BY <1>1, Alone DEF Fills, Moves
<1>4. \A u \in Threads \ {t} : th'[u] = th[u] /\ th[u].pc \in {"idle", "lock"}
  BY <1>1, Alone DEF Fills, Moves
<1>5. UNCHANGED <<irq, lock, rc, accepted>>
  BY DEF Fills
<1>6. \A h \in Groups : reg'[h].s1 = reg[h].s1 /\ reg'[h].ctrl = reg[h].ctrl
  BY <1>2 DEF Fills, SetsWord, Elsewhere
<1>7. \/ From(t, "word1", "word2") /\ SetsWord(g, 1, m[1])
      \/ From(t, "word2", "instant_s") /\ SetsWord(g, 2, m[2]) /\ m[3] = "INSTANT"
      \/ From(t, "word2", "fire_s") /\ SetsWord(g, 2, m[2]) /\ m[3] # "INSTANT"
  BY <1>2, <1>3 DEF Fills
<1>8. Resting'
  BY <1>1, <1>5, <1>7, RestingMoves DEF Fills, From, Told
<1>9. Filled'
  <2>1. th'[t].val = NULL
    BY <1>1, <1>7 DEF Fills, From, SafeInv, Reads, WritesS1, WritesCtrl
  <2>2. Status(g) = {} /\ Status(g)' = Status(g) /\ "INSTANT" \notin reg'[g].ctrl
    BY <1>2, <1>6, <1>7 DEF From, PromptInv, Filled, Status
  <2>3. reg'[g].word[1] = m[1]
    <3>1. CASE th[t].pc = "word1"
      BY <1>7, <3>1 DEF From, SetsWord
    <3>2. CASE th[t].pc = "word2"
      <4>1. reg[g].word[1] = m[1]
        BY <1>2, <1>3, <3>2 DEF PromptInv, Filled
      <4>2. SetsWord(g, 2, m[2]) /\ 1 \in {1, 2} \ {2}
        BY <1>7, <3>2 DEF From
      <4> QED
        BY <4>1, <4>2 DEF SetsWord
    <3> QED
      BY <1>7, <3>1, <3>2 DEF From
  <2>4. th'[t].pc \in {"instant_s", "fire_s"} => reg'[g].word[2] = m[2]
    BY <1>7 DEF From, SetsWord
  <2>5. /\ th'[t].pc = "instant_s" => m[3] = "INSTANT"
        /\ th'[t].pc = "fire_s" => m[3] # "INSTANT"
        /\ th'[t].pc \in {"word2", "instant_s", "fire_s"}
    BY <1>7 DEF From
  <2>6. th'[t].pc = "fire_s" => MailIs(g, m)'
    BY <2>2, <2>3, <2>4, <2>5 DEF MailIs
  <2> QED
    BY <1>2, <1>3, <1>4, <2>1, <2>2, <2>3, <2>4, <2>5, <2>6 DEF Filled, WritesS1, WritesCtrl
<1>10. Answered'
  BY <1>4, <1>7 DEF Answered, From
<1>11. Unbusied'
  <2> SUFFICES ASSUME NEW h \in HostGroups, "BUSY" \in reg'[h].s1
               PROVE  th'[t].g = h /\ th'[t].pc \in {"word2", "instant_s", "fire_s"}
    BY DEF Unbusied
  <2>1. th[t].g = h
    BY <1>1, <1>6, BusyBy, GroupsAssumption
  <2> QED
    BY <1>2, <1>7, <2>1 DEF From
<1> QED
  BY <1>1, <1>8, <1>9, <1>10, <1>11 DEF PromptInv

LEMMA PromptInterrupts ==
  ASSUME PromptInv, NEW t \in Threads, Interrupts(t)
  PROVE  PromptInv'
<1>1. Active(t) /\ Active(t)' /\ SafeInv /\ SafeInv'
  BY SafeInterrupts DEF PromptInv, Interrupts, Active, From
<1>2. PICK g \in Groups : g = th[t].g /\ g = th'[t].g
  BY <1>1, Alone DEF Interrupts, Moves
<1>3. PICK m \in Mail : m = th[t].msg /\ m = th'[t].msg
  BY <1>1, Alone DEF Interrupts, Moves
<1>4. \A u \in Threads \ {t} : th'[u] = th[u] /\ th[u].pc \in {"idle", "lock"}
  BY <1>1, Alone DEF Interrupts, Moves
<1>5. /\ UNCHANGED <<reg, lock, rc, accepted>> /\ th[t].pc = "int" /\ th'[t].pc = "poll"
      /\ irq' = [irq EXCEPT ![g] = TRUE] /\ irq \in [Groups -> BOOLEAN]
  BY <1>1, <1>2 DEF Interrupts, From, SafeInv, Typed
<1>6. \A h \in Groups : rc[h] = NoRecv /\ (h \in Dead \/ ~irq[h]) /\ accepted[h] = <<>>
  BY <1>1, <1>5, OthersRest DEF Told
<1>7. Resting'
  <2> SUFFICES ASSUME NEW h \in Groups
               PROVE  /\ rc'[h] = NoRecv /\ accepted'[h] = <<>>
                      /\ h \in Dead \/ (\E u \in Threads : th'[u].g = h /\ th'[u].pc = "poll") \/ ~irq'[h]
    BY DEF Resting
  <2> QED
    BY <1>2, <1>5, <1>6
<1>8. Filled'
  <2>1. th'[t].val = NULL
    BY <1>1, <1>5 DEF Interrupts, SafeInv, Reads, WritesS1, WritesCtrl
  <2> QED
    BY <1>4, <1>5, <2>1 DEF Filled, WritesS1, WritesCtrl
<1>9. Fetches(g, m)'
  <2>1. Status(g) = {} /\ MailIs(g, m) /\ "FIRE" \in reg[g].ctrl
    BY <1>2, <1>3, <1>5 DEF PromptInv, Filled
  <2>2. Status(g)' = {} /\ MailIs(g, m)' /\ irq'[g]
    BY <1>5, <2>1 DEF Status, MailIs
  <2> QED
    BY <1>5, <1>6, <2>1, <2>2 DEF Fetches, NoRecv, AnswersS1
<1>10. Answered'
  <2>1. "FIRE" \in reg[g].ctrl
    BY <1>2, <1>5 DEF PromptInv, Filled
  <2> QED
    BY <1>2, <1>3, <1>4, <1>5, <1>9, <2>1 DEF Answered
<1>11. Unbusied'
  BY ZenonT(40), <1>1, <1>2, <1>5, BusyBy DEF Unbusied
<1> QED
  BY <1>1, <1>7, <1>8, <1>10, <1>11 DEF PromptInv

LEMMA PromptResets ==
  ASSUME PromptInv, NEW t \in Threads, Resets(t)
  PROVE  PromptInv'
<1>1. Active(t) /\ Active(t)' /\ SafeInv /\ SafeInv'
  BY SafeResets DEF PromptInv, Resets, Active, From
<1>2. th'[t].g = th[t].g /\ th[t].g \in Dead
  BY DEF Resets, Moves, From, PromptInv, Answered
<1>3. \A u \in Threads \ {t} : th'[u] = th[u] /\ th[u].pc \in {"idle", "lock"}
  BY <1>1, Alone DEF Resets, Moves
<1>4. Resting'
  BY <1>1, RestingMoves DEF Resets, From, Told
<1>5. Filled'
  <2>1. th'[t].val = NULL
    BY <1>1 DEF Resets, From, SafeInv, Reads, WritesS1, WritesCtrl
  <2> QED
    BY <1>3, <2>1 DEF Filled, WritesS1, WritesCtrl, Resets, From
<1>6. Answered'
  BY <1>2, <1>3 DEF Answered, Resets, From
<1>7. Unbusied'
  <2> SUFFICES ASSUME NEW h \in HostGroups, "BUSY" \in reg'[h].s1
               PROVE  th'[t].g = h /\ th'[t].pc \in {"reset_words", "reset_s1"}
    BY DEF Unbusied
  <2>1. "BUSY" \in reg[h].s1 /\ th[t].pc # "reset_s1"
    BY DEF Resets, From
  <2> QED
    BY <1>1, <1>2, <2>1, BusyBy DEF Resets, From
<1> QED
  BY <1>1, <1>4, <1>5, <1>6, <1>7 DEF PromptInv

\* A call begins, takes the mutex or returns.
LEMMA PromptReturns ==
  ASSUME PromptInv, NEW t \in Threads, UnLockSend(t)
  PROVE  PromptInv'
<1>1. SafeInv /\ SafeInv' /\ th'[t] = NoCall /\ \A u \in Threads \ {t} : th'[u] = th[u]
  BY SafeReturns DEF PromptInv
<1>2. /\ th[t].pc = "unlock" /\ Active(t) /\ UNCHANGED <<reg, irq, rc>>
      /\ accepted' = [accepted EXCEPT ![th[t].g] = <<>>] /\ accepted \in [Groups -> Seq(Mail)]
  BY <1>1 DEF UnLockSend, Active, SafeInv, Typed
<1>3. \A u \in Threads \ {t} : th[u].pc \in {"idle", "lock"}
  BY <1>1, <1>2, Alone
<1>4. NoCall.pc = "idle" /\ NoCall.val = NULL
  BY DEF NoCall
<1>5. Resting'
  <2> SUFFICES ASSUME NEW h \in Groups
               PROVE  rc'[h] = NoRecv /\ accepted'[h] = <<>> /\ (h \in Dead \/ ~irq'[h])
    BY DEF Resting
  <2> QED
    BY <1>2, OthersRest
<1>6. Filled' /\ Answered'
  BY <1>1, <1>3, <1>4 DEF Filled, Answered, WritesS1, WritesCtrl
<1>7. Unbusied'
  BY <1>2, BusyBy DEF Unbusied
<1> QED
  BY <1>1, <1>5, <1>6, <1>7 DEF PromptInv

LEMMA PromptLocks ==
  ASSUME PromptInv, NEW t \in Threads, LockSend(t)
  PROVE  PromptInv'
<1>1. SafeInv /\ SafeInv' /\ Moves(t) /\ From(t, "lock", "fire")
  BY SafeLocks DEF PromptInv
<1>2. lock = NULL /\ UNCHANGED <<reg, irq, rc, accepted>>
  BY DEF LockSend
<1>3. \A u \in Threads : th[u].pc \in {"idle", "lock"}
  BY <1>1, <1>2, NullAssumption DEF SafeInv, Serial, Active
<1>4. th'[t].pc = "fire" /\ \A u \in Threads \ {t} : th'[u].pc \in {"idle", "lock"}
  BY <1>1, <1>3 DEF Moves, From
<1>5. Resting'
  <2> SUFFICES ASSUME NEW h \in Groups
               PROVE  rc[h] = NoRecv /\ accepted[h] = <<>> /\ (h \in Dead \/ ~irq[h])
    BY <1>2 DEF Resting
  <2> QED
    BY <1>3 DEF PromptInv, Resting
<1>6. Filled' /\ Answered'
  BY <1>4 DEF Filled, Answered, WritesS1, WritesCtrl
<1>7. Unbusied'
  BY <1>2, <1>3 DEF PromptInv, Unbusied
<1> QED
  BY <1>1, <1>5, <1>6, <1>7 DEF PromptInv

LEMMA PromptBegins ==
  ASSUME PromptInv, NEW t \in Threads, NEW g \in Groups, NEW c \in Contents, NEW y \in Types,
         SendMsg(t, g, c, y)
  PROVE  PromptInv'
<1>1. SafeInv' /\ th'[t].pc = "lock" /\ \A u \in Threads \ {t} : th'[u] = th[u]
  BY SafeBegins DEF PromptInv
<1>2. th[t].pc = "idle" /\ UNCHANGED <<reg, irq, rc, accepted>>
  BY DEF SendMsg
<1>3. \A h, u : u \in Threads /\ th[u].g = h /\ th[u].pc \notin {"idle", "lock"}
                  => th'[u].g = h /\ th'[u].pc = th[u].pc
  BY <1>1, <1>2
<1>4. \A h, u : u \in Threads /\ th'[u].g = h /\ th'[u].pc \notin {"idle", "lock"}
                  => th[u].g = h /\ th'[u].pc = th[u].pc
  BY <1>1, <1>2
<1>5. Resting'
  <2> SUFFICES ASSUME NEW h \in Groups
               PROVE  /\ (h \in Dead \/ ~\E u \in Threads : th'[u].g = h /\ th'[u].pc = "poll") => rc[h] = NoRecv
                      /\ h \in Dead \/ (\E u \in Threads : th'[u].g = h /\ th'[u].pc = "poll") \/ ~irq[h]
                      /\ (h \in Dead \/ ~\E u \in Threads :
                            th'[u].g = h /\ th'[u].pc \in {"poll", "overflow", "disabled", "unlock"})
                           => accepted[h] = <<>>
    BY <1>2 DEF Resting
  <2>1. (\E u \in Threads : th'[u].g = h /\ th'[u].pc = "poll")
          <=> \E u \in Threads : th[u].g = h /\ th[u].pc = "poll"
    BY <1>3, <1>4
  <2>2. (\E u \in Threads : th'[u].g = h /\ th'[u].pc \in {"poll", "overflow", "disabled", "unlock"})
          <=> \E u \in Threads : th[u].g = h /\ th[u].pc \in {"poll", "overflow", "disabled", "unlock"}
    BY <1>3, <1>4
  <2> QED
    BY <2>1, <2>2 DEF PromptInv, Resting
<1>6. Filled'
  BY <1>1, <1>2 DEF PromptInv, Filled, WritesS1, WritesCtrl, Status, MailIs
<1>7. Answered'
  <2>1. \A h, m : Fetches(h, m)' = Fetches(h, m) /\ Outcome(h, m)' = Outcome(h, m)
    BY <1>2 DEF Fetches, Outcome, MailIs, Status
  <2> QED
    BY <1>1, <1>2, <2>1 DEF PromptInv, Answered
<1>8. Unbusied'
  BY <1>2, <1>3 DEF PromptInv, Unbusied
<1> QED
  BY <1>1, <1>5, <1>6, <1>7, <1>8 DEF PromptInv

-----------------------------------------------------------------------------
\* When the peers that are alive answer in time, the registers and the receivers
\* are always in step with the sender.
THEOREM PromptInvariant ==
  ASSUME Slow = {}
  PROVE  Spec => []PromptInv
<1>1. Init => PromptInv
  <2> SUFFICES ASSUME Init, SafeInv PROVE Resting /\ Filled /\ Answered /\ Unbusied
    <3>1. Init => SafeInv
      BY InitSafe
    <3> QED
      BY <3>1 DEF PromptInv
  <2>1. NoCall.pc = "idle"
    BY DEF NoCall
  <2>2. /\ irq = [g \in Groups |-> FALSE] /\ th = [t \in Threads |-> NoCall]
        /\ rc = [g \in Groups |-> NoRecv] /\ accepted = [g \in Groups |-> <<>>]
    BY DEF Init
  <2>3. \A g \in Groups : reg[g].s1 = {}
    BY DEF Init
  <2> QED
    BY <2>1, <2>2, <2>3, GroupsAssumption DEF Resting, Filled, Answered, Unbusied, WritesS1, WritesCtrl
<1>2. PromptInv /\ [Next]_vars => PromptInv'
  <2> SUFFICES ASSUME PromptInv, [Next]_vars PROVE PromptInv'
    OBVIOUS
  <2>1. CASE UNCHANGED vars
    <3>1. SafeInv'
      BY <2>1 DEF vars, PromptInv, SafeInv, Typed, Serial, Active, Reads, Withdrawn
    <3>2. Resting' /\ Unbusied'
      BY <2>1 DEF vars, PromptInv, Resting, Unbusied
    <3>3. Filled'
      BY <2>1 DEF vars, PromptInv, Filled, Status, MailIs
    <3>4. Answered'
      <4>1. \A h, m : Fetches(h, m)' = Fetches(h, m) /\ Outcome(h, m)' = Outcome(h, m)
        BY <2>1 DEF vars, Fetches, Outcome, MailIs, Status
      <4> QED
        BY <2>1, <4>1 DEF vars, PromptInv, Answered
    <3> QED
      BY <3>1, <3>2, <3>3, <3>4 DEF PromptInv
  <2>2. ASSUME NEW t \in Threads, SendStep(t) PROVE PromptInv'
    <3>1. Looks(t) \/ Edits(t) \/ Fills(t) \/ Interrupts(t) \/ Resets(t) \/ UnLockSend(t)
      BY <2>2, SenderSteps DEF PromptInv
    <3> QED
      BY <3>1, PromptLooks, PromptEdits, PromptFills, PromptInterrupts, PromptResets, PromptReturns
  <2>3. ASSUME NEW g \in Groups, Tasklet(g) \/ MsgRecvCb(g) PROVE PromptInv'
    <3>1. Answers(g) \/ Takes(g)
      BY <2>3, ReceiverSteps DEF PromptInv
    <3> QED
      BY <3>1, PromptReceiver
  <2> QED
    BY <2>1, <2>2, <2>3, PromptBegins, PromptLocks DEF Next
<1> QED
  BY <1>1, <1>2, PTL DEF Spec

\* While a peer fetches a mail or answers it, the sender only polls FIRE, so the
\* unlocked read-modify-writes of the two CPUs never mix.
THEOREM SidesAlternate ==
  ASSUME Slow = {}
  PROVE  Spec => []OneSideAtATime
<1>1. PromptInv => OneSideAtATime
  <2> SUFFICES ASSUME PromptInv, NEW g \in Groups, Fetching(g)
               PROVE  \E t \in Threads : Sends(t, g) /\ th[t].pc \in {"int", "poll"}
    BY DEF OneSideAtATime
  <2>1. rc[g] # NoRecv
    BY DEF Fetching, NoRecv
  <2> QED
    BY <2>1 DEF PromptInv, Resting, Sends
<1> QED
  BY <1>1, PromptInvariant, PTL

\* What SendMsg returns is what happened to the message.
THEOREM FateIsReported ==
  ASSUME Slow = {}
  PROVE  Spec => ReportsFate
<1>1. PromptInv /\ [Next]_vars =>
        [\A t \in Threads : UnLockSend(t) =>
           accepted[th[t].g] = IF th[t].ret = "SUCCESS" THEN <<th[t].msg>> ELSE <<>>]_vars
  BY DEF PromptInv, Answered, UnLockSend
<1> QED
  BY <1>1, PromptInvariant, PTL DEF Spec, ReportsFate

\* When nobody sends, no group of the host is fired or busy.
THEOREM GroupsAreReleased ==
  ASSUME Slow = {}
  PROVE  Spec => []GroupsReleased
<1>1. PromptInv => GroupsReleased
  <2> SUFFICES ASSUME PromptInv, lock = NULL, NEW g \in HostGroups
               PROVE  "FIRE" \notin reg[g].ctrl /\ "BUSY" \notin reg[g].s1
    BY DEF GroupsReleased
  <2>1. \A t \in Threads : th[t].pc \in {"idle", "lock"}
    BY NullAssumption DEF PromptInv, SafeInv, Serial, Active
  <2> QED
    BY <2>1 DEF PromptInv, SafeInv, Withdrawn, Unbusied
<1> QED
  BY <1>1, PromptInvariant, PTL
=============================================================================
