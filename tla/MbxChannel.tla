----------------------------- MODULE MbxChannel -----------------------------
(***************************************************************************)
(* One message at a time through a group of mailbox registers: SendMsg of  *)
(* drv/mbx/mdrv_mbx.c over Fire, GetFireStatus and SetConfig of            *)
(* hal/maserati/mbx/mhal_mbx.c on one side, the interrupt tasklet          *)
(* MsgRecvCb over Recv and RecvEnd on the other.                           *)
(*                                                                         *)
(* The two sides are different CPUs, which share registers and no lock: a  *)
(* bit of STATE_1 or CTRL is set or cleared by a read and a later write of *)
(* the whole register.  The peers are taken to run this HAL too.           *)
(*                                                                         *)
(* A group outside HostGroups is one of another role, which only           *)
(* SendMsgLoopback fires.  The receiver of a group in Dead never runs: a   *)
(* crashed peer, or a loopback role for which MHAL_MBXINT_Fire raises no   *)
(* interrupt.  That of a group in Slow runs, but maybe after the sender    *)
(* has timed out.  The ERROR and READBACK bits are never used and are left *)
(* out; the fields of a message are two words, written one after another.  *)
(***************************************************************************)
EXTENDS Naturals, Sequences

CONSTANTS
  Threads, Groups, HostGroups, Dead, Slow, Contents, NULL,
  TIMEOUT_CHK_BUSY,  \* reads of BUSY before Fire should give up
  U32                \* number of values of an MS_U32

ASSUME GroupsAssumption == HostGroups \subseteq Groups /\ Dead \cup Slow \subseteq Groups
ASSUME CountAssumption ==
  U32 \in Nat /\ TIMEOUT_CHK_BUSY \in Nat \ {0} /\ TIMEOUT_CHK_BUSY < U32

Types == {"NORMAL", "INSTANT"}
Ctrl == {"FIRE", "INSTANT"}
State1 == {"BUSY", "OVERFLOW", "DISABLED"}

ASSUME NullAssumption ==
  /\ NULL \notin Threads \cup Groups \cup Contents
  /\ \A bits \in SUBSET (Ctrl \cup State1) : bits # NULL

VARIABLES
  reg,      \* group -> its registers: ctrl, word, s1
  irq,      \* group -> an interrupt was raised and its tasklet has not started
  lock,     \* the thread that holds _mutexSendMBX, or NULL
  th,       \* thread -> its call of SendMsg
  rc,       \* group -> its receiving tasklet
  accepted  \* group -> messages queued since the last send through it returned

vars == <<reg, irq, lock, th, rc, accepted>>

Words == Contents \cup {NULL}
NoCall == [pc |-> "idle", g |-> NULL, msg |-> NULL, chk |-> 0, val |-> NULL, ret |-> NULL]
NoRecv == [pc |-> "idle", val |-> NULL, msg |-> <<>>]

\* MHAL_MBX_Init clears the registers.
Init ==
  /\ reg = [g \in Groups |-> [ctrl |-> {}, word |-> <<NULL, NULL>>, s1 |-> {}]]
  /\ irq = [g \in Groups |-> FALSE]
  /\ lock = NULL
  /\ th = [t \in Threads |-> NoCall]
  /\ rc = [g \in Groups |-> NoRecv]
  /\ accepted = [g \in Groups |-> <<>>]

-----------------------------------------------------------------------------
(***************************************************************************)
(* The sender.                                                             *)
(***************************************************************************)
Goto(t, there) == th' = [th EXCEPT ![t].pc = there]
Fail(t, e) == th' = [th EXCEPT ![t].pc = "clear", ![t].ret = e]

\* A macro like _BUSY_S: the register is read, then written with bits on or off.
Modify(t, r, on, off, there) ==
  /\ IF th[t].val = NULL
     THEN /\ th' = [th EXCEPT ![t].val = reg[th[t].g][r]]
          /\ UNCHANGED reg
     ELSE /\ reg' = [reg EXCEPT ![th[t].g][r] = (th[t].val \cup on) \ off]
          /\ th' = [th EXCEPT ![t].val = NULL, ![t].pc = there]
  /\ UNCHANGED <<irq, lock, rc, accepted>>

SendMsg(t, g, m, k) ==
  /\ th[t].pc = "idle"
  /\ th' = [th EXCEPT ![t].pc = "lock", ![t].g = g, ![t].msg = <<m, m, k>>]
  /\ UNCHANGED <<reg, irq, lock, rc, accepted>>

LockSend(t) ==
  /\ th[t].pc = "lock"
  /\ lock = NULL
  /\ lock' = t
  /\ Goto(t, "fire")
  /\ UNCHANGED <<reg, irq, rc, accepted>>

\* Fire: a mail that is still there is an error; which one, BUSY tells.
CheckFire(t) ==
  /\ th[t].pc = "fire"
  /\ IF "FIRE" \in reg[th[t].g].ctrl
     THEN Goto(t, "fire_busy")
     ELSE th' = [th EXCEPT ![t].pc = "busy", ![t].chk = TIMEOUT_CHK_BUSY]
  /\ UNCHANGED <<reg, irq, lock, rc, accepted>>

StillFired(t) ==
  /\ th[t].pc = "fire_busy"
  /\ Fail(t, IF "BUSY" \in reg[th[t].g].s1 THEN "PEER_CPU_NOTREADY"
             ELSE "PEER_CPU_NOT_ALIVE")
  /\ UNCHANGED <<reg, irq, lock, rc, accepted>>

\* do { read BUSY } while (BUSY && time_chk-- > 0); if (time_chk == 0) ...
WaitBusy(t) ==
  LET busy == "BUSY" \in reg[th[t].g].s1
      chk == th[t].chk
      left == IF busy THEN (chk + U32 - 1) % U32 ELSE chk
  IN
  /\ th[t].pc = "busy"
  /\ \/ busy /\ chk > 0 /\ th' = [th EXCEPT ![t].chk = left]
     \/ /\ ~busy \/ chk = 0
        /\ IF left = 0
           THEN th' = [th EXCEPT ![t].pc = "clear", ![t].ret = "PEER_CPU_BUSY", ![t].chk = 0]
           ELSE th' = [th EXCEPT ![t].pc = "s1_c", ![t].chk = 0]
  /\ UNCHANGED <<reg, irq, lock, rc, accepted>>

Fill(t, i, there) ==
  /\ reg' = [reg EXCEPT ![th[t].g].word[i] = th[t].msg[i]]
  /\ Goto(t, there)
  /\ UNCHANGED <<irq, lock, rc, accepted>>

\* The rest of Fire: clear the status, claim the group, write the mail, set FIRE.
FireMsg(t) ==
  \/ th[t].pc = "s1_c" /\ Modify(t, "s1", {}, State1, "instant_c")
  \/ th[t].pc = "instant_c" /\ Modify(t, "ctrl", {}, {"INSTANT"}, "busy_s")
  \/ th[t].pc = "busy_s" /\ Modify(t, "s1", {"BUSY"}, {}, "word1")
  \/ th[t].pc = "word1" /\ Fill(t, 1, "word2")
  \/ th[t].pc = "word2"
     /\ Fill(t, 2, IF th[t].msg[3] = "INSTANT" THEN "instant_s" ELSE "fire_s")
  \/ th[t].pc = "instant_s" /\ Modify(t, "ctrl", {"INSTANT"}, {}, "fire_s")
  \/ th[t].pc = "fire_s" /\ Modify(t, "ctrl", {"FIRE"}, {}, "int")

MBXINT_Fire(t) ==
  /\ th[t].pc = "int"
  /\ irq' = [irq EXCEPT ![th[t].g] = TRUE]
  /\ Goto(t, "poll")
  /\ UNCHANGED <<reg, lock, rc, accepted>>

\* Mutant: DISABLED is not looked at.
BlindFireStatus(t) ==
  /\ \/ /\ th[t].pc = "poll"
        /\ "FIRE" \notin reg[th[t].g].ctrl
        /\ Goto(t, "overflow")
     \/ /\ th[t].pc = "overflow"
        /\ IF "OVERFLOW" \in reg[th[t].g].s1
           THEN Fail(t, "PEER_CPU_OVERFLOW")
           ELSE th' = [th EXCEPT ![t].pc = "unlock", ![t].ret = "SUCCESS"]
  /\ UNCHANGED <<reg, irq, lock, rc, accepted>>

\* GetFireStatus reads FIRE, then OVERFLOW, then DISABLED.
GetFireStatus(t) ==
  /\ \/ /\ th[t].pc = "poll"
        /\ "FIRE" \notin reg[th[t].g].ctrl
        /\ Goto(t, "overflow")
     \/ /\ th[t].pc = "overflow"
        /\ IF "OVERFLOW" \in reg[th[t].g].s1
           THEN Fail(t, "PEER_CPU_OVERFLOW")
           ELSE Goto(t, "disabled")
     \/ /\ th[t].pc = "disabled"
        /\ IF "DISABLED" \in reg[th[t].g].s1
           THEN Fail(t, "PEER_CPU_NOTREADY")
           ELSE th' = [th EXCEPT ![t].pc = "unlock", ![t].ret = "SUCCESS"]
  /\ UNCHANGED <<reg, irq, lock, rc, accepted>>

\* Mutant: no timeout while BUSY is set.
TimeoutIfIdle(t) ==
  /\ th[t].pc = "poll"
  /\ "FIRE" \in reg[th[t].g].ctrl
  /\ "BUSY" \notin reg[th[t].g].s1
  /\ th[t].g \in Dead \cup Slow
  /\ Goto(t, "reset_ctrl")
  /\ UNCHANGED <<reg, irq, lock, rc, accepted>>

\* The message is ONGOING for longer than _u32TimeoutMillSecs.
Timeout(t) ==
  /\ th[t].pc = "poll"
  /\ "FIRE" \in reg[th[t].g].ctrl
  /\ th[t].g \in Dead \cup Slow
  /\ Goto(t, "reset_ctrl")
  /\ UNCHANGED <<reg, irq, lock, rc, accepted>>

\* Mutant: only the words are cleared.
SetConfigWords(t) ==
  /\ th[t].pc = "reset_ctrl"
  /\ reg' = [g \in Groups |-> IF g \in HostGroups THEN [reg[g] EXCEPT !.word = <<NULL, NULL>>] ELSE reg[g]]
  /\ Fail(t, "PEER_CPU_NOT_ALIVE")
  /\ UNCHANGED <<irq, lock, rc, accepted>>

\* SetConfig writes zero to the registers of all groups of the host, in order.
SetConfig(t) ==
  /\ \/ /\ th[t].pc = "reset_ctrl"
        /\ reg' = [g \in Groups |-> IF g \in HostGroups THEN [reg[g] EXCEPT !.ctrl = {}] ELSE reg[g]]
        /\ Goto(t, "reset_words")
     \/ /\ th[t].pc = "reset_words"
        /\ reg' = [g \in Groups |-> IF g \in HostGroups
                                    THEN [reg[g] EXCEPT !.word = <<NULL, NULL>>] ELSE reg[g]]
        /\ Goto(t, "reset_s1")
     \/ /\ th[t].pc = "reset_s1"
        /\ reg' = [g \in Groups |-> IF g \in HostGroups THEN [reg[g] EXCEPT !.s1 = {}] ELSE reg[g]]
        /\ Fail(t, "PEER_CPU_NOT_ALIVE")
  /\ UNCHANGED <<irq, lock, rc, accepted>>

ClearStatus(t) ==
  /\ th[t].pc = "clear"
  /\ Modify(t, "s1", {}, State1, "unlock")

\* Mutant: an error return keeps the lock.
UnLockSendForgotten(t) ==
  /\ th[t].pc = "unlock"
  /\ lock' = IF th[t].ret = "SUCCESS" THEN NULL ELSE lock
  /\ th' = [th EXCEPT ![t] = NoCall]
  /\ accepted' = [accepted EXCEPT ![th[t].g] = <<>>]
  /\ UNCHANGED <<reg, irq, rc>>

UnLockSend(t) ==
  /\ th[t].pc = "unlock"
  /\ lock' = NULL
  /\ th' = [th EXCEPT ![t] = NoCall]
  /\ accepted' = [accepted EXCEPT ![th[t].g] = <<>>]
  /\ UNCHANGED <<reg, irq, rc>>

SendStep(t) ==
  \/ CheckFire(t) \/ StillFired(t) \/ WaitBusy(t) \/ FireMsg(t) \/ MBXINT_Fire(t)
  \/ GetFireStatus(t) \/ Timeout(t) \/ SetConfig(t) \/ ClearStatus(t) \/ UnLockSend(t)

-----------------------------------------------------------------------------
(***************************************************************************)
(* The receiver.                                                           *)
(***************************************************************************)
ModifyR(g, r, on, off, there) ==
  /\ IF rc[g].val = NULL
     THEN /\ rc' = [rc EXCEPT ![g].val = reg[g][r]]
          /\ UNCHANGED reg
     ELSE /\ reg' = [reg EXCEPT ![g][r] = (rc[g].val \cup on) \ off]
          /\ rc' = [rc EXCEPT ![g].val = NULL, ![g].pc = there]
  /\ UNCHANGED <<irq, lock, th, accepted>>

\* The interrupt handler has scheduled the tasklet, which calls MsgRecvCb.
Tasklet(g) ==
  /\ rc[g].pc = "idle"
  /\ irq[g]
  /\ g \notin Dead
  /\ irq' = [irq EXCEPT ![g] = FALSE]
  /\ rc' = [rc EXCEPT ![g].pc = "fire"]
  /\ UNCHANGED <<reg, lock, th, accepted>>

\* Recv: nothing is done when the mail is gone; else BUSY is set and it is read.
Recv(g) ==
  \/ /\ rc[g].pc = "fire"
     /\ rc' = [rc EXCEPT ![g].pc = IF "FIRE" \in reg[g].ctrl THEN "busy_s" ELSE "idle"]
     /\ UNCHANGED <<reg, irq, lock, th, accepted>>
  \/ rc[g].pc = "busy_s" /\ ModifyR(g, "s1", {"BUSY"}, {}, "type")
  \/ /\ rc[g].pc = "type"
     /\ rc' = [rc EXCEPT ![g].pc = "word1",
          ![g].msg = <<NULL, NULL, IF "INSTANT" \in reg[g].ctrl THEN "INSTANT" ELSE "NORMAL">>]
     /\ UNCHANGED <<reg, irq, lock, th, accepted>>
  \/ /\ rc[g].pc = "word1"
     /\ rc' = [rc EXCEPT ![g].pc = "word2", ![g].msg[1] = reg[g].word[1]]
     /\ UNCHANGED <<reg, irq, lock, th, accepted>>
  \/ /\ rc[g].pc = "word2"
     /\ rc' = [rc EXCEPT ![g].pc = "add", ![g].msg[2] = reg[g].word[2]]
     /\ UNCHANGED <<reg, irq, lock, th, accepted>>

\* MsgRecvCb queues the message, or finds its class full or not wanted.
AddMSG(g) ==
  /\ rc[g].pc = "add"
  /\ \/ /\ accepted' = [accepted EXCEPT ![g] = Append(@, rc[g].msg)]
        /\ rc' = [rc EXCEPT ![g].pc = "busy_c", ![g].msg = <<>>]
     \/ /\ \E there \in {"overflow_s", "disabled_s"} :
             rc' = [rc EXCEPT ![g].pc = there, ![g].msg = <<>>]
        /\ UNCHANGED accepted
  /\ UNCHANGED <<reg, irq, lock, th>>

\* Mutant: FIRE is cleared before the status is set.
RecvEndEarly(g) ==
  \/ rc[g].pc = "overflow_s" /\ ModifyR(g, "ctrl", {}, {"FIRE"}, "overflow_s2")
  \/ rc[g].pc = "overflow_s2" /\ ModifyR(g, "s1", {"OVERFLOW"}, {}, "busy_c")
  \/ rc[g].pc = "disabled_s" /\ ModifyR(g, "s1", {"DISABLED"}, {}, "busy_c")
  \/ rc[g].pc = "busy_c" /\ ModifyR(g, "s1", {}, {"BUSY"}, "fire_c")
  \/ rc[g].pc = "fire_c" /\ ModifyR(g, "ctrl", {}, {"FIRE"}, "idle")

\* Mutant: BUSY stays set.
RecvEndBusy(g) ==
  \/ rc[g].pc = "overflow_s" /\ ModifyR(g, "s1", {"OVERFLOW"}, {}, "fire_c")
  \/ rc[g].pc = "disabled_s" /\ ModifyR(g, "s1", {"DISABLED"}, {}, "fire_c")
  \/ rc[g].pc = "busy_c" /\ ModifyR(g, "ctrl", {}, {"FIRE"}, "idle")
  \/ rc[g].pc = "fire_c" /\ ModifyR(g, "ctrl", {}, {"FIRE"}, "idle")

\* RecvEnd: the status, then BUSY and FIRE off.
RecvEnd(g) ==
  \/ rc[g].pc = "overflow_s" /\ ModifyR(g, "s1", {"OVERFLOW"}, {}, "busy_c")
  \/ rc[g].pc = "disabled_s" /\ ModifyR(g, "s1", {"DISABLED"}, {}, "busy_c")
  \/ rc[g].pc = "busy_c" /\ ModifyR(g, "s1", {}, {"BUSY"}, "fire_c")
  \/ rc[g].pc = "fire_c" /\ ModifyR(g, "ctrl", {}, {"FIRE"}, "idle")

MsgRecvCb(g) == Recv(g) \/ AddMSG(g) \/ RecvEnd(g)

-----------------------------------------------------------------------------
Next ==
  \/ \E t \in Threads :
        \/ \E g \in Groups, m \in Contents, k \in Types : SendMsg(t, g, m, k)
        \/ LockSend(t)
        \/ SendStep(t)
  \/ \E g \in Groups : Tasklet(g) \/ MsgRecvCb(g)

Spec == Init /\ [][Next]_vars

\* Threads in the call run, the mutex is handed to each waiter in the end, and
\* interrupts and tasklets are served.
Fairness ==
  /\ \A t \in Threads : WF_vars(SendStep(t)) /\ SF_vars(LockSend(t))
  /\ \A g \in Groups : WF_vars(Tasklet(g)) /\ WF_vars(MsgRecvCb(g))

LiveSpec == Spec /\ Fairness

-----------------------------------------------------------------------------
Fetching(g) == rc[g].pc \notin {"idle", "fire"}
Sends(t, g) == th[t].g = g /\ th[t].pc # "lock"

\* Every variable has its type.
TypeOK ==
  /\ reg \in [Groups -> [ctrl : SUBSET Ctrl, word : Words \X Words, s1 : SUBSET State1]]
  /\ irq \in [Groups -> BOOLEAN]
  /\ lock \in Threads \cup {NULL}
  /\ \A t \in Threads : /\ th[t].g \in Groups \cup {NULL}
                        /\ th[t].chk \in 0 .. U32 - 1
  /\ \A g \in Groups : accepted[g] \in Seq(Words \X Words \X Types)

\* While the peer fetches a mail or answers it, the sender only polls FIRE: the
\* reads and writes of the two CPUs on the registers never mix.
OneSideAtATime ==
  \A g \in Groups : Fetching(g) =>
    \E t \in Threads : Sends(t, g) /\ th[t].pc \in {"int", "poll"}

\* SendMsg tells the truth: SUCCESS means that the peer has queued exactly this
\* message, once and untorn, every other result that it has not.
ReportsFate ==
  [][\A t \in Threads : UnLockSend(t) =>
       accepted[th[t].g] = IF th[t].ret = "SUCCESS" THEN <<th[t].msg>> ELSE <<>>]_vars

\* When nobody sends, no group of the host is left fired or busy: the next send
\* is not refused or delayed because of an earlier one, even one that timed out.
GroupsReleased ==
  lock = NULL => \A g \in HostGroups : "FIRE" \notin reg[g].ctrl /\ "BUSY" \notin reg[g].s1

\* A mail that a thread has given up on is withdrawn, also when its peer is late.
MailWithdrawn ==
  \A g \in HostGroups : "FIRE" \in reg[g].ctrl => \E t \in Threads : Sends(t, g)

\* Every send returns, also one to a peer that never answers.
SendReturns ==
  \A t \in Threads : th[t].pc # "idle" ~> th[t].pc = "idle"
=============================================================================
