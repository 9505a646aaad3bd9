------------------------------ MODULE MbxDriver ------------------------------
(***************************************************************************)
(* The mailbox driver above the message queues (drv/mbx/mdrv_mbx.c): async *)
(* notifiers, registration, enabling, the blocking RecvMsg, close(), and   *)
(* the tasklet MsgRecvCb that queues what peers send and wakes receivers.  *)
(*                                                                         *)
(* The queues are those of MbxQueues, which MbxMsgPool implements; their   *)
(* clients are notifiers here.  A file is used by a thread that controls   *)
(* it and one that receives.  Calls of the controlling thread are atomic:  *)
(* nothing else changes the notifier they look up before they lock.  The   *)
(* tasklet takes no lock, so its reads of the class, of the notifier, its  *)
(* AddMSG and its complete() are steps of their own.  AddMSG itself is     *)
(* atomic here; what happens when it overlaps a call is in MbxMsgPool.     *)
(*                                                                         *)
(* A client registers and receives only classes that are free or its own,  *)
(* and asks for the same kind of message in every RecvMsg on a class.  A   *)
(* file is the async ID, as in the ioctl layer, whose close() cuts it to   *)
(* 32 bits: on the shipped 64-bit build (Wide) notifiers and classes       *)
(* outlive their files.                                                    *)
(***************************************************************************)
EXTENDS Naturals, Sequences, FiniteSets, FiniteSetsExt

CONSTANTS
  Files,
  Classes,
  Sizes, u16Slots, NULL,
  MBX_ASYNCNOTIFIER_MAX,
  Asks,        \* class -> the kind of message its clients ask for
  Wide,        \* whether async IDs have 64 bits (CONFIG_COMPAT)
  MaxMsgs      \* bound on the messages that peers send

Notifiers == 0 .. MBX_ASYNCNOTIFIER_MAX - 1
Contents == {"m"}
Kinds == {"NORMAL", "INSTANT"}

ASSUME NotifierAssumption == MBX_ASYNCNOTIFIER_MAX \in Nat \ {0}
ASSUME AsksAssumption == Asks \in [Classes -> Kinds]
ASSUME BoundAssumption == MaxMsgs \in Nat /\ Wide \in BOOLEAN
ASSUME NullAssumption == NULL \notin Files \cup Classes \cup Notifiers

VARIABLES
  owner, size, queue, result,  \* the class queues
  notif,     \* _mbxAsyncNotifierMBX: u32AsyncID (NULL if not used), bEnable
  role,      \* _eMbxHostRole: not set, set, or set and interrupts failed
  ready,     \* completionInit
  done,      \* class -> mbx_completion[].done
  open,      \* files that are open
  recv,      \* file -> the receiving thread: what it does, on which class
  cb,        \* the tasklet: what it does, the mail, the notifier it found
  sent       \* messages sent so far

queues == <<owner, size, queue, result>>
vars == <<queues, notif, role, ready, done, open, recv, cb, sent>>

Q == INSTANCE MbxQueues WITH Clients <- Notifiers

Unused == [id |-> NULL, enable |-> FALSE]
NoRecv == [pc |-> "idle", class |-> NULL]
NoMail == [pc |-> "idle", class |-> NULL, kind |-> NULL, notif |-> NULL]

Init ==
  /\ Q!Init
  /\ notif = [n \in Notifiers |-> Unused]
  /\ role = "NONE"
  /\ ready = FALSE
  /\ done = [c \in Classes |-> 0]
  /\ open = {}
  /\ recv = [f \in Files |-> NoRecv]
  /\ cb = NoMail
  /\ sent = 0

-----------------------------------------------------------------------------
(***************************************************************************)
(* Notifiers.                                                              *)
(***************************************************************************)
\* The first notifier with this async ID; none if it has none.
NotifierOf(f) == {n \in Notifiers : notif[n].id = f}
GetAsyncNotifierIDByAsyncID(f) == Min(NotifierOf(f))

\* Calls come through an open file; those of a client without a notifier fail.
Initialised(f) == f \in open /\ NotifierOf(f) # {}

\* The scan stops at the first notifier that is unused or has this ID.
Candidates(f) == {n \in Notifiers : notif[n].id \in {NULL, f}}
AllocateAsyncNotifier(f) ==
  LET n == Min(Candidates(f)) IN
  notif' = IF notif[n].id = f THEN notif
           ELSE [notif EXCEPT ![n] = [id |-> f, enable |-> FALSE]]

Open(f) ==
  /\ f \notin open
  /\ open' = open \cup {f}
  /\ UNCHANGED <<queues, notif, role, ready, done, recv, cb, sent>>

\* The first Init sets the role and initialises interrupts and completions; if
\* the interrupts fail, the role and the notifier stay.
MBX_Init(f) ==
  /\ f \in open
  /\ Candidates(f) # {}                       \* else NO_MORE_MEMORY
  /\ AllocateAsyncNotifier(f)
  /\ \/ role # "NONE" /\ UNCHANGED <<role, ready, done>>       \* SetConfig
     \/ role = "NONE" /\ role' = "FAILED" /\ UNCHANGED <<ready, done>>
     \/ /\ role = "NONE"
        /\ role' = "SET"
        /\ ready' = TRUE
        /\ done' = IF ready THEN done ELSE [c \in Classes |-> 0]
  /\ UNCHANGED <<queues, open, recv, cb, sent>>

\* fcntl(F_SETFL, FASYNC): the signal queue itself is left out.
MBX_FASYNC(f) ==
  /\ Initialised(f)
  /\ ~ready
  /\ ready' = TRUE
  /\ done' = [c \in Classes |-> 0]
  /\ UNCHANGED <<queues, notif, role, open, recv, cb, sent>>

MBX_Enable(f, b) ==
  /\ Initialised(f)
  /\ notif' = [notif EXCEPT ![GetAsyncNotifierIDByAsyncID(f)].enable = b]
  /\ UNCHANGED <<queues, role, ready, done, open, recv, cb, sent>>

FreeAsyncNotifierByID(n) == notif' = [notif EXCEPT ![n] = Unused]

\* Mutant: the classes are released only when no messages have to be dropped.
DeInitPolite(f, force) ==
  LET n == GetAsyncNotifierIDByAsyncID(f) IN
  /\ Q!UnRegisterAll(n, FALSE)
  /\ IF force THEN FreeAsyncNotifierByID(n) ELSE UNCHANGED notif

\* DeInit: without force the notifier stays, with it the notifier is freed once
\* its classes are.
DeInit(f, force) ==
  LET n == GetAsyncNotifierIDByAsyncID(f) IN
  /\ Q!UnRegisterAll(n, force)
  /\ IF force /\ result' = "SUCCESS" THEN FreeAsyncNotifierByID(n) ELSE UNCHANGED notif

MBX_DeInit(f, force) ==
  /\ Initialised(f)
  /\ DeInit(f, force)
  /\ UNCHANGED <<role, ready, done, open, recv, cb, sent>>

\* The notifiers of async ID (MS_U32)filp: a kernel pointer of 64 bits that has
\* been cut to 32 is no ID that any call has used.
NotifierOfCut(f) == IF Wide THEN {} ELSE NotifierOf(f)

\* close(): Release runs when no call uses the file any more, and forces DeInit,
\* which fails when it finds no notifier.  What is left goes to the next file at
\* the same address.
Release(f) ==
  /\ f \in open
  /\ recv[f].pc = "idle"
  /\ open' = open \ {f}
  /\ IF NotifierOfCut(f) = {} THEN UNCHANGED <<queues, notif>> ELSE DeInit(f, TRUE)
  /\ UNCHANGED <<role, ready, done, recv, cb, sent>>

-----------------------------------------------------------------------------
(***************************************************************************)
(* Classes.                                                                *)
(***************************************************************************)
\* Client f calls the queues as its notifier.
Caller(f) == GetAsyncNotifierIDByAsyncID(f)
Rest == UNCHANGED <<notif, role, ready, done, open, recv, cb, sent>>

RegisterMSG(f, c, s) ==
  /\ Initialised(f)
  /\ owner[c] \in {NULL, Caller(f)}
  /\ Q!Register(Caller(f), c, s)
  /\ Rest

UnRegisterMSG(f, c, force) ==
  /\ Initialised(f)
  /\ Q!UnRegister(Caller(f), c, force)
  /\ Rest

ClearMSG(f, c) ==
  /\ Initialised(f)
  /\ Q!Clear(Caller(f), c)
  /\ Rest

(***************************************************************************)
(* RecvMsg waits for the completion of the class, whatever the wait comes  *)
(* to, and then looks into the queue.  Waiting before the completions have *)
(* been initialised is undefined, and not modelled.                        *)
(***************************************************************************)
RecvMsg(f, c) ==
  /\ recv[f].pc = "idle"
  /\ Initialised(f)
  /\ owner[c] = Caller(f)
  /\ ready
  /\ recv' = [recv EXCEPT ![f] = [pc |-> "wait", class |-> c]]
  /\ UNCHANGED <<queues, notif, role, ready, done, open, cb, sent>>

\* Mutant: the wait takes every completion that is there.
CompletedAll(f) ==
  LET c == recv[f].class IN
  /\ recv[f].pc = "wait"
  /\ done[c] > 0
  /\ done' = [done EXCEPT ![c] = 0]
  /\ recv' = [recv EXCEPT ![f].pc = "fetch"]
  /\ UNCHANGED <<queues, notif, role, ready, open, cb, sent>>

Completed(f) ==
  LET c == recv[f].class IN
  /\ recv[f].pc = "wait"
  /\ done[c] > 0
  /\ done' = [done EXCEPT ![c] = @ - 1]
  /\ recv' = [recv EXCEPT ![f].pc = "fetch"]
  /\ UNCHANGED <<queues, notif, role, ready, open, cb, sent>>

\* The time is up, or a signal has come.
TimedOut(f) ==
  /\ recv[f].pc = "wait"
  /\ done[recv[f].class] = 0
  /\ recv' = [recv EXCEPT ![f].pc = "fetch"]
  /\ UNCHANGED <<queues, notif, role, ready, done, open, cb, sent>>

Fetch(f) ==
  /\ recv[f].pc = "fetch"
  /\ Q!Recv(recv[f].class, Asks[recv[f].class])
  /\ recv' = [recv EXCEPT ![f] = NoRecv]
  /\ UNCHANGED <<notif, role, ready, done, open, cb, sent>>

-----------------------------------------------------------------------------
(***************************************************************************)
(* MsgRecvCb.  Interrupts come once Init has installed their handler.      *)
(***************************************************************************)
Mail(c, k) ==
  /\ cb.pc = "idle"
  /\ role = "SET"
  /\ sent < MaxMsgs
  /\ sent' = sent + 1
  /\ cb' = [pc |-> "class", class |-> c, kind |-> k, notif |-> NULL]
  /\ UNCHANGED <<queues, notif, role, ready, done, open, recv>>

\* A class nobody has registered, or a notifier that is disabled: the mail is
\* dropped.
FindNotifier ==
  /\ cb.pc = "class"
  /\ cb' = IF owner[cb.class] = NULL THEN NoMail
           ELSE [cb EXCEPT !.pc = "enabled", !.notif = owner[cb.class]]
  /\ UNCHANGED <<queues, notif, role, ready, done, open, recv, sent>>

FindEnabled ==
  /\ cb.pc = "enabled"
  /\ cb' = IF notif[cb.notif].enable THEN [cb EXCEPT !.pc = "add"] ELSE NoMail
  /\ UNCHANGED <<queues, notif, role, ready, done, open, recv, sent>>

\* The completion follows also when AddMSG has refused the message.
AddMSG ==
  /\ cb.pc = "add"
  /\ Q!Add(cb.class, cb.kind, "m")
  /\ cb' = [cb EXCEPT !.pc = "complete"]
  /\ UNCHANGED <<notif, role, ready, done, open, recv, sent>>

Complete ==
  /\ cb.pc = "complete"
  /\ done' = [done EXCEPT ![cb.class] = @ + 1]
  /\ cb' = NoMail
  /\ UNCHANGED <<queues, notif, role, ready, open, recv, sent>>

-----------------------------------------------------------------------------
Control(f) ==
  \/ Open(f) \/ MBX_Init(f) \/ MBX_FASYNC(f) \/ Release(f)
  \/ \E b \in BOOLEAN : MBX_Enable(f, b) \/ MBX_DeInit(f, b)
  \/ \E c \in Classes :
        \/ \E s \in Sizes : RegisterMSG(f, c, s)
        \/ \E force \in BOOLEAN : UnRegisterMSG(f, c, force)
        \/ ClearMSG(f, c)

Receive(f) ==
  \/ \E c \in Classes : RecvMsg(f, c)
  \/ Completed(f) \/ TimedOut(f) \/ Fetch(f)

MsgRecvCb == FindNotifier \/ FindEnabled \/ AddMSG \/ Complete

Next ==
  \/ \E f \in Files : Control(f) \/ Receive(f)
  \/ \E c \in Classes, k \in Kinds : Mail(c, k)
  \/ MsgRecvCb

Spec == Init /\ [][Next]_vars

-----------------------------------------------------------------------------
\* Announcements of class c that a receiver has taken and not yet followed up.
Following(c) == {f \in Files : recv[f].pc = "fetch" /\ recv[f].class = c}

\* No queued message waits for a completion that never comes: each one of the
\* kind its client asks for has a completion left, is about to get one from the
\* tasklet, or a receiver is on its way to it.  Receivers that time out, calls
\* that find nothing, refused, cleared and discarded messages leave completions
\* over and never take one away.
MessageAnnounced ==
  \A c \in Classes :
    Len(queue[c][Asks[c]]) <=
      done[c] + Cardinality(Following(c))
              + (IF cb.pc = "complete" /\ cb.class = c THEN 1 ELSE 0)

\* Every registered class belongs to a notifier that is in use: no DeInit or
\* close(), in any order with registrations, repeated Inits, pending messages and
\* the tasklet, frees a notifier whose classes stay, which nobody could then
\* unregister.
OwnersInUse ==
  \A c \in Classes : owner[c] # NULL => notif[owner[c]].id # NULL
=============================================================================
