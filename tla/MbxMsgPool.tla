----------------------------- MODULE MbxMsgPool -----------------------------
(***************************************************************************)
(* The message pool of the mailbox driver (drv/mbx/mdrv_mbx_msgpool.c):    *)
(* one array of slots, linked into two lists per message class, a count of *)
(* free and one of reserved slots, and a list of classes per client.       *)
(*                                                                         *)
(* Calls of clients exclude each other: the shipped configuration has      *)
(* CONFIG_MSTAR_MBX_U2K, so that every ioctl runs under _mutexMBXIOCTL.    *)
(* The tasklet that adds messages takes no lock at all.  As long as it     *)
(* overlaps no call, calls and additions are atomic (Alone).  A call that  *)
(* it does overlap (Collide) is done access by access, and so is AddMSG    *)
(* (CallStep, TaskStep); with that call the model ends.                    *)
(*                                                                         *)
(* The clients' notifiers exist already.  A client receives and checks     *)
(* only classes of its own, and calls RemoveLatestMsg right after a        *)
(* CheckMsg that succeeded, as the comment on MDrv_MBX_RemoveLatestMsg     *)
(* says.                                                                   *)
(*                                                                         *)
(* Fields that are not read before they are written again are NULL: the    *)
(* link and the message of a free slot, the end of an empty list, and      *)
(* _infoLatestMSGP when no client is about to remove what it checked.      *)
(***************************************************************************)
EXTENDS Naturals, Sequences, FiniteSets, FiniteSetsExt

CONSTANTS
  Clients, Classes, Contents, Sizes, u16Slots, NULL,
  Checkers,   \* clients that use CheckMsg and RemoveLatestMsg
  Takeover,   \* whether clients register classes that others have registered
  Overlapped, \* bound: clients whose calls the tasklet overlaps
  Overlaps    \* bound: messages the tasklet adds while it overlaps a call

ASSUME SizesAssumption == Sizes \subseteq Nat \ {0} /\ u16Slots \in Nat \ {0}
ASSUME ClassesAssumption == IsFiniteSet(Classes)
ASSUME NullAssumption == NULL \notin Clients \cup Classes \cup Contents \cup Nat
ASSUME UsersAssumption == Checkers \subseteq Clients /\ Takeover \in BOOLEAN
ASSUME OverlapsAssumption == Overlapped \subseteq Clients /\ Overlaps \in Nat

Kinds == {"NORMAL", "INSTANT"}
Slots == 0 .. u16Slots - 1

VARIABLES
  pool,       \* pMsgPool and u16FreeSlots: used, next, msg per slot, and free
  registed,   \* u16RegistedSlots
  first,      \* class -> kind -> s16MsgFirst, s16InstantMsgFirst
  end,        \* class -> kind -> s16MsgEnd, s16InstantMsgEnd
  num,        \* class -> kind -> u16MsgNum, u16InstantMsgNum
  status,     \* class -> u16MsgQStatus
  size,       \* class -> u16MsgQSize
  notifier,   \* class -> s16MsgQNotifierID
  nextq,      \* class -> s16NextMsgQ
  qfirst,     \* client -> s16MsgQFirst of its notifier
  latest,     \* _infoLatestMSGP
  checked,    \* client -> what its last call checked, or NULL
  result,     \* what the last call returned
  torn,       \* whether the tasklet has overlapped a call
  call,       \* the call that it overlaps, and where this is
  task        \* the tasklet beside this call

data == <<pool, registed, first, end, num, status, size, notifier, nextq,
          qfirst, latest, checked, result>>
vars == <<data, torn, call, task>>
lists == <<first, end, num, status>>
classes == <<size, notifier, nextq, qfirst, registed>>

NoSlot == [k \in Kinds |-> NULL]
NoMsg == [k \in Kinds |-> 0]
NotChecked == [n \in Clients |-> NULL]

Init ==
  /\ pool = [used |-> {}, next |-> [s \in Slots |-> NULL],
             msg |-> [s \in Slots |-> NULL], free |-> u16Slots]
  /\ registed = 0
  /\ first = [c \in Classes |-> NoSlot]
  /\ end = [c \in Classes |-> NoSlot]
  /\ num = [c \in Classes |-> NoMsg]
  /\ status = [c \in Classes |-> "INVALID"]
  /\ size = [c \in Classes |-> 0]
  /\ notifier = [c \in Classes |-> NULL]
  /\ nextq = [c \in Classes |-> NULL]
  /\ qfirst = [n \in Clients |-> NULL]
  /\ latest = NULL
  /\ checked = NotChecked
  /\ result = "NONE"
  /\ torn = FALSE
  /\ call = NULL
  /\ task = NULL

-----------------------------------------------------------------------------
(***************************************************************************)
(* Following links from s: the i-th node, and all nodes up to the end.     *)
(***************************************************************************)
Follow(next, s) ==
  LET at[i \in 0 .. Cardinality(DOMAIN next)] ==
        IF i = 0 THEN s
        ELSE IF at[i - 1] = NULL THEN NULL ELSE next[at[i - 1]]
  IN at
Chain(next, s) ==
  {Follow(next, s)[i] : i \in 0 .. Cardinality(DOMAIN next)} \ {NULL}

\* The lowest slot that is not used.
AllocateSlot == Min(Slots \ pool.used)

\* FreeSlot() for all slots of ss; unused ones are left alone.
FreeSlots(ss) ==
  [pool EXCEPT !.used = @ \ ss,
               !.next = [s \in Slots |-> IF s \in ss \cap pool.used THEN NULL ELSE @[s]],
               !.msg = [s \in Slots |-> IF s \in ss \cap pool.used THEN NULL ELSE @[s]],
               !.free = @ + Cardinality(ss \cap pool.used)]

\* Mutant: the loop frees the first item only.
FreeFirstItem(cs) ==
  FreeSlots({first[c][k] : c \in cs, k \in Kinds} \ {NULL})

\* FreeMSGPoolItemQ() on both lists of the classes cs.
FreeMSGPoolItemQ(cs) ==
  FreeSlots(UNION {Chain(pool.next, first[c][k]) : c \in cs, k \in Kinds})

Total(c) == num[c]["NORMAL"] + num[c]["INSTANT"]

\* The two IFs at the end of RecvMsg, CheckMsg and RemoveLatestMsg.
StatusAfterRecv(c, n) ==
  IF n = 0 THEN "EMPTY" ELSE IF n < size[c] THEN "NORMAL" ELSE status[c]

\* Once a client does something else it will not remove what it has checked.
Forget(n) ==
  /\ checked' = [checked EXCEPT ![n] = NULL]
  /\ latest' = IF checked' = NotChecked THEN NULL ELSE latest

Refuse(e) ==
  /\ result' = e
  /\ UNCHANGED <<pool, lists, classes>>

-----------------------------------------------------------------------------
\* The class gets empty lists and becomes the first one of client n.
Register_NotifyID(n, c, s) ==
  /\ first' = [first EXCEPT ![c] = NoSlot]
  /\ end' = [end EXCEPT ![c] = NoSlot]
  /\ num' = [num EXCEPT ![c] = NoMsg]
  /\ status' = [status EXCEPT ![c] = "EMPTY"]
  /\ size' = [size EXCEPT ![c] = s]
  /\ notifier' = [notifier EXCEPT ![c] = n]
  /\ nextq' = [nextq EXCEPT ![c] = qfirst[n]]
  /\ qfirst' = [qfirst EXCEPT ![n] = c]
  /\ result' = "SUCCESS"
  /\ UNCHANGED pool

\* A class that another client has registered is taken over: nothing is reserved
\* for it again, and its messages stay in their slots.
RegisterMSG(n, c, s) ==
  /\ notifier[c] \in {n, NULL} \/ Takeover
  /\ Forget(n)
  /\ \/ /\ notifier[c] = n
        /\ Refuse("SLOT_AREADY_OPENNED")
     \/ /\ notifier[c] \notin {n, NULL}
        /\ Register_NotifyID(n, c, s)
        /\ UNCHANGED registed
     \/ /\ notifier[c] = NULL
        /\ IF registed + s > u16Slots
           THEN Refuse("NO_MORE_MEMORY")
           ELSE registed' = registed + s /\ Register_NotifyID(n, c, s)

\* _MDrv_MSGQ_FreeMSG() for the classes cs, except for s16NextMsgQ.
FreeMSG(cs) ==
  /\ pool' = FreeMSGPoolItemQ(cs)
  /\ registed' = registed - MapThenSumSet(LAMBDA c : size[c], cs)
  /\ first' = [c \in Classes |-> IF c \in cs THEN NoSlot ELSE first[c]]
  /\ end' = [c \in Classes |-> IF c \in cs THEN NoSlot ELSE end[c]]
  /\ num' = [c \in Classes |-> IF c \in cs THEN NoMsg ELSE num[c]]
  /\ status' = [c \in Classes |-> IF c \in cs THEN "INVALID" ELSE status[c]]
  /\ size' = [c \in Classes |-> IF c \in cs THEN 0 ELSE size[c]]
  /\ notifier' = [c \in Classes |-> IF c \in cs THEN NULL ELSE notifier[c]]

\* Mutant: only the first class of the client can be unlinked.
UnlinkFirst(n, c) ==
  /\ qfirst' = [qfirst EXCEPT ![n] = nextq[c]]
  /\ nextq' = [nextq EXCEPT ![c] = NULL]

\* Class c is taken out of the list of client n.
Unlink(n, c) ==
  IF qfirst[n] = c
  THEN /\ qfirst' = [qfirst EXCEPT ![n] = nextq[c]]
       /\ nextq' = [nextq EXCEPT ![c] = NULL]
  ELSE \E d \in Chain(nextq, qfirst[n]) :
       /\ nextq[d] = c
       /\ nextq' = [nextq EXCEPT ![d] = nextq[c], ![c] = NULL]
       /\ UNCHANGED qfirst

UnRegisterMSG(n, c, force) ==
  /\ Forget(n)
  /\ \/ (notifier[c] = NULL \/ status[c] = "INVALID") /\ Refuse("SLOT_NOT_OPENNED")
     \/ notifier[c] \notin {n, NULL} /\ Refuse("SLOT_BUSY")
     \/ notifier[c] = n /\ ~force /\ Total(c) > 0 /\ Refuse("HAS_MSG_PENDING")
     \/ /\ notifier[c] = n
        /\ force \/ Total(c) = 0
        /\ Unlink(n, c)
        /\ FreeMSG({c})
        /\ result' = "SUCCESS"

\* DeInit: all classes of the client, found by following its list.
UnRegisterMSGQ(n, force) ==
  LET mine == Chain(nextq, qfirst[n]) IN
  /\ Forget(n)
  /\ IF ~force /\ \E c \in mine : Total(c) > 0
     THEN Refuse("HAS_MSG_PENDING")
     ELSE /\ FreeMSG(mine)
          /\ nextq' = [c \in Classes |-> IF c \in mine THEN NULL ELSE nextq[c]]
          /\ qfirst' = [qfirst EXCEPT ![n] = NULL]
          /\ result' = "SUCCESS"

ClearMSG(n, c) ==
  /\ Forget(n)
  /\ \/ (notifier[c] = NULL \/ status[c] = "INVALID") /\ Refuse("SLOT_NOT_OPENNED")
     \/ notifier[c] \notin {n, NULL} /\ Refuse("SLOT_BUSY")
     \/ /\ notifier[c] = n
        /\ pool' = FreeMSGPoolItemQ({c})
        /\ first' = [first EXCEPT ![c] = NoSlot]
        /\ end' = [end EXCEPT ![c] = NoSlot]
        /\ num' = [num EXCEPT ![c] = NoMsg]
        /\ status' = [status EXCEPT ![c] = "EMPTY"]
        /\ result' = "SUCCESS"
        /\ UNCHANGED classes

-----------------------------------------------------------------------------
\* Mutant: messages are prepended to the list.
LinkAtHead(c, k, s, m) ==
  /\ pool' = [pool EXCEPT !.used = @ \cup {s}, !.msg[s] = m, !.free = @ - 1,
                          !.next[s] = first[c][k]]
  /\ first' = [first EXCEPT ![c][k] = s]
  /\ end' = IF num[c][k] > 0 THEN end ELSE [end EXCEPT ![c][k] = s]

\* The message m goes to slot s, at the end of the list.
Link(c, k, s, m) ==
  /\ pool' = [pool EXCEPT !.used = @ \cup {s}, !.msg[s] = m, !.free = @ - 1,
       !.next = IF num[c][k] > 0
                THEN [@ EXCEPT ![s] = NULL, ![end[c][k]] = s]
                ELSE [@ EXCEPT ![s] = NULL]]
  /\ first' = IF num[c][k] > 0 THEN first ELSE [first EXCEPT ![c][k] = s]
  /\ end' = [end EXCEPT ![c][k] = s]

\* The interrupt tasklet adds a message it has received.
AddMSG(c, k, m) ==
  /\ UNCHANGED <<checked, latest>>
  /\ \/ status[c] = "INVALID" /\ Refuse("NOT_INITIALIZED")
     \/ status[c] = "OVERFLOW" /\ Refuse("NO_MORE_MEMORY")
     \/ status[c] \in {"NORMAL", "EMPTY"} /\ pool.free = 0 /\ Refuse("NO_MORE_MEMORY")
     \/ /\ status[c] \in {"NORMAL", "EMPTY"}
        /\ pool.free > 0
        /\ Link(c, k, AllocateSlot, m)
        /\ num' = [num EXCEPT ![c][k] = @ + 1]
        /\ status' = [status EXCEPT ![c] =
             IF Total(c) + 1 >= size[c] THEN "OVERFLOW" ELSE "NORMAL"]
        /\ result' = "SUCCESS"
        /\ UNCHANGED classes

\* Slot s leaves the list of class c as its first one.
Dequeue(c, k, s) ==
  /\ first' = [first EXCEPT ![c][k] = pool.next[s]]
  /\ end' = IF num[c][k] = 1 THEN [end EXCEPT ![c][k] = NULL] ELSE end
  /\ pool' = FreeSlots({s})
  /\ num' = [num EXCEPT ![c][k] = @ - 1]
  /\ status' = [status EXCEPT ![c] = StatusAfterRecv(c, Total(c) - 1)]
  /\ UNCHANGED classes

\* A receive that finds nothing still refreshes the status.
NothingFound(c) ==
  /\ status' = [status EXCEPT ![c] = StatusAfterRecv(c, Total(c))]
  /\ result' = "NO_MORE_MSG"
  /\ UNCHANGED <<pool, first, end, num, classes>>

RecvMsg(n, c, k) ==
  /\ notifier[c] \in {n, NULL}
  /\ Forget(n)
  /\ \/ notifier[c] = NULL /\ Refuse("SLOT_NOT_OPENNED")
     \/ notifier[c] # NULL /\ num[c][k] = 0 /\ NothingFound(c)
     \/ /\ notifier[c] # NULL
        /\ num[c][k] > 0
        /\ Dequeue(c, k, first[c][k])
        /\ result' = pool.msg[first[c][k]]

CheckMsg(n, c, k) ==
  /\ n \in Checkers
  /\ notifier[c] \in {n, NULL}
  /\ \/ notifier[c] = NULL /\ Refuse("SLOT_NOT_OPENNED") /\ Forget(n)
     \/ notifier[c] # NULL /\ num[c][k] = 0 /\ NothingFound(c) /\ Forget(n)
     \/ /\ notifier[c] # NULL
        /\ num[c][k] > 0
        /\ latest' = [c |-> c, k |-> k, s |-> first[c][k]]
        /\ checked' = [checked EXCEPT ![n] = latest']
        /\ status' = [status EXCEPT ![c] = StatusAfterRecv(c, Total(c))]
        /\ result' = pool.msg[first[c][k]]
        /\ UNCHANGED <<pool, first, end, num, classes>>

\* What was checked last, by whomever, is removed.
RemoveLatestMsg(n) ==
  /\ checked[n] # NULL
  /\ Forget(n)
  /\ \/ num[latest.c][latest.k] = 0 /\ NothingFound(latest.c)
     \/ /\ num[latest.c][latest.k] > 0
        /\ Dequeue(latest.c, latest.k, latest.s)
        /\ result' = "SUCCESS"

-----------------------------------------------------------------------------
\* Calls and additions that do not overlap.
Alone ==
  \/ \E n \in Clients, c \in Classes :
        \/ \E s \in Sizes : RegisterMSG(n, c, s)
        \/ \E force \in BOOLEAN : UnRegisterMSG(n, c, force)
        \/ ClearMSG(n, c)
        \/ \E k \in Kinds : RecvMsg(n, c, k) \/ CheckMsg(n, c, k)
  \/ \E n \in Clients, force \in BOOLEAN : UnRegisterMSGQ(n, force)
  \/ \E n \in Clients : RemoveLatestMsg(n)
  \/ \E c \in Classes, k \in Kinds, m \in Contents : AddMSG(c, k, m)

(***************************************************************************)
(* A call that the tasklet overlaps.  Every access to what both of them    *)
(* use is a step, and ++ and -- are two, a read and a write.  Accesses are *)
(* put into one step where the other side cannot tell: the test of a count *)
(* and the read of the head it vouches for, or what only calls use, which  *)
(* is brought up to date when the call leaves.  Only calls that get past   *)
(* their tests of owner and room are considered, the others change nothing *)
(* that AddMSG sees.  Contents and return values are no longer kept.       *)
(***************************************************************************)
Collide(op, n, c, k, x) ==
  /\ ~torn /\ torn' = TRUE
  /\ CASE op = "register" -> notifier[c] = NULL /\ registed + x <= u16Slots
       [] op = "remove" -> checked[n] # NULL /\ latest.c = c /\ latest.k = k
       [] op = "check" -> n \in Checkers /\ notifier[c] = n
       [] op = "all" -> qfirst[n] = c
       [] OTHER -> notifier[c] = n
  /\ call' = [op |-> op, n |-> n, c |-> c, k |-> k, x |-> x, pc |-> "test",
              s |-> IF op = "remove" THEN latest.s ELSE NULL, next |-> NULL, read |-> 0]
  /\ task' = [pc |-> "idle", left |-> Overlaps, c |-> NULL, k |-> NULL, s |-> NULL, read |-> 0]
  /\ pool' = [pool EXCEPT !.msg = [s \in Slots |-> NULL]]
  /\ checked' = NotChecked /\ latest' = NULL /\ result' = "NONE"
  /\ UNCHANGED <<lists, classes>>

CallAt(pc) == torn /\ call.pc = pc
GoOn(pc) == call' = [call EXCEPT !.pc = pc, !.read = 0]
Read(pc, v) == call' = [call EXCEPT !.pc = pc, !.read = v]
Return == call' = [pc |-> "done"]

\* The first test of a call that depends on what the tasklet does.
CallTest ==
  LET c == call.c
      k == call.k
      pending == IF call.op = "all" THEN {d \in Chain(nextq, c) : Total(d) > 0}
                                    ELSE {c} \cap {d \in Classes : Total(d) > 0}
  IN
  /\ CallAt("test")
  /\ \/ /\ call.op \in {"recv", "remove", "check"}
        /\ call' = IF num[c][k] = 0 \/ call.op = "check"
                   THEN [call EXCEPT !.pc = "fill"]
                   ELSE [call EXCEPT !.pc = "unlink",
                           !.s = IF call.op = "recv" THEN first[c][k] ELSE @]
     \/ call.op = "register" /\ call' = [call EXCEPT !.pc = "reset", !.k = "INSTANT"]
     \/ /\ call.op \in {"unregister", "all"}
        /\ ~call.x /\ pending # {}
        /\ Return
     \/ /\ call.op = "clear" \/ (call.op \in {"unregister", "all"} /\ (call.x \/ pending = {}))
        /\ call' = [call EXCEPT !.pc = "head", !.x = NULL]
  /\ UNCHANGED <<pool, lists, classes>>

\* Mutant: the slot is freed before its link is read.
FreeBeforeUnlink ==
  /\ CallAt("unlink")
  /\ pool' = [pool EXCEPT !.used = @ \ {call.s}, !.next[call.s] = NULL]
  /\ first' = [first EXCEPT ![call.c][call.k] = NULL]
  /\ GoOn("inc")
  /\ UNCHANGED <<end, num, status, classes>>

\* RecvMsg and RemoveLatestMsg: the head of the list moves on.
CallUnlink ==
  /\ CallAt("unlink")
  /\ first' = [first EXCEPT ![call.c][call.k] = pool.next[call.s]]
  /\ GoOn("free")
  /\ UNCHANGED <<pool, end, num, status, classes>>

\* FreeMSGPoolItemQ: one list after the other, link by link.
CallWalk ==
  /\ \/ /\ CallAt("head")
        /\ call' = [call EXCEPT !.pc = "walk", !.s = first[call.c][call.k]]
     \/ /\ CallAt("walk") /\ call.s # NULL
        /\ call' = [call EXCEPT !.pc = "free", !.next = pool.next[call.s]]
     \/ /\ CallAt("walk") /\ call.s = NULL
        /\ call' = [call EXCEPT !.k = "INSTANT", !.pc = IF call.k = "NORMAL" THEN "head" ELSE "reset"]
  /\ UNCHANGED <<pool, lists, classes>>

\* Where FreeSlot returns to.
FreeReturns ==
  call' = IF call.op \in {"recv", "remove"} THEN [call EXCEPT !.pc = "dec", !.s = NULL, !.read = 0]
                                           ELSE [call EXCEPT !.pc = "walk", !.s = call.next, !.next = NULL, !.read = 0]

\* FreeSlot: u16Usage, s16Next, u16FreeSlots++.
CallFree ==
  /\ CallAt("free")
  /\ IF call.s \in pool.used THEN GoOn("cut") ELSE FreeReturns
  /\ pool' = [pool EXCEPT !.used = @ \ {call.s}]
  /\ UNCHANGED <<lists, classes>>

CallCut ==
  /\ CallAt("cut")
  /\ pool' = [pool EXCEPT !.next[call.s] = NULL]
  /\ GoOn("inc")
  /\ UNCHANGED <<lists, classes>>

CallInc ==
  /\ \/ CallAt("inc") /\ Read("inc2", pool.free) /\ UNCHANGED pool
     \/ CallAt("inc2") /\ FreeReturns /\ pool' = [pool EXCEPT !.free = call.read + 1]
  /\ UNCHANGED <<lists, classes>>

CallDec ==
  /\ \/ CallAt("dec") /\ Read("dec2", num[call.c][call.k]) /\ UNCHANGED num
     \/ /\ CallAt("dec2") /\ GoOn("fill")
        /\ num' = [num EXCEPT ![call.c][call.k] = call.read - 1]
  /\ UNCHANGED <<pool, first, end, status, classes>>

\* The two IFs at the end of RecvMsg, CheckMsg and RemoveLatestMsg.
CallStatus ==
  LET c == call.c IN
  /\ \/ CallAt("fill") /\ GoOn(IF Total(c) < size[c] THEN "fill2" ELSE "drain") /\ UNCHANGED status
     \/ CallAt("fill2") /\ GoOn("drain") /\ status' = [status EXCEPT ![c] = "NORMAL"]
     \/ CallAt("drain") /\ (IF Total(c) = 0 THEN GoOn("drain2") ELSE Return) /\ UNCHANGED status
     \/ CallAt("drain2") /\ Return /\ status' = [status EXCEPT ![c] = "EMPTY"]
  /\ UNCHANGED <<pool, first, end, num, classes>>

\* The fields that Register, UnRegister and Clear set at their end: the ends and
\* heads of both lists, the counts, the status.
CallReset ==
  LET c == call.c
      k == call.k
      Both(here, then) ==
        call' = IF k = "INSTANT" THEN [call EXCEPT !.pc = here, !.k = "NORMAL"]
                                 ELSE [call EXCEPT !.pc = then, !.k = "INSTANT"]
  IN
  /\ \/ /\ CallAt("reset") /\ GoOn("reset2")
        /\ end' = [end EXCEPT ![c][k] = NULL]
        /\ UNCHANGED <<first, num, status>>
     \/ /\ CallAt("reset2") /\ Both("reset", "zero")
        /\ first' = [first EXCEPT ![c][k] = NULL]
        /\ UNCHANGED <<end, num, status>>
     \/ /\ CallAt("zero") /\ Both("zero", "close")
        /\ num' = [num EXCEPT ![c][k] = 0]
        /\ UNCHANGED <<first, end, status>>
     \/ /\ CallAt("close") /\ IF call.op = "clear" THEN Return ELSE GoOn("resize")
        /\ status' = [status EXCEPT ![c] =
             IF call.op \in {"clear", "register"} THEN "EMPTY" ELSE "INVALID"]
        /\ UNCHANGED <<first, end, num>>
  /\ UNCHANGED <<pool, classes>>

CallResize ==
  LET c == call.c
      d == nextq[c]
      s == IF call.op = "register" THEN call.x ELSE 0
  IN
  /\ CallAt("resize")
  /\ size' = [size EXCEPT ![c] = s]
  /\ registed' = registed + s - size[c]
  /\ call' = IF call.op = "all" /\ d # NULL
             THEN [call EXCEPT !.c = d, !.k = "NORMAL", !.pc = "head"]
             ELSE [call EXCEPT !.pc = "leave"]
  /\ UNCHANGED <<pool, lists, notifier, nextq, qfirst>>

\* What only calls use: the owner of the class and the list of the notifier.
CallLeave ==
  LET c == call.c
      n == call.n
      mine == Chain(nextq, qfirst[n])
  IN
  /\ CallAt("leave")
  /\ Return
  /\ \/ /\ call.op = "register"
        /\ notifier' = [notifier EXCEPT ![c] = n]
        /\ nextq' = [nextq EXCEPT ![c] = qfirst[n]]
        /\ qfirst' = [qfirst EXCEPT ![n] = c]
     \/ /\ call.op = "unregister"
        /\ notifier' = [notifier EXCEPT ![c] = NULL]
        /\ Unlink(n, c)
     \/ /\ call.op = "all"
        /\ notifier' = [d \in Classes |-> IF d \in mine THEN NULL ELSE notifier[d]]
        /\ nextq' = [d \in Classes |-> IF d \in mine THEN NULL ELSE nextq[d]]
        /\ qfirst' = [qfirst EXCEPT ![n] = NULL]
  /\ UNCHANGED <<pool, lists, size, registed>>

CallStep ==
  /\ \/ CallTest \/ CallUnlink \/ CallWalk \/ CallFree \/ CallCut \/ CallInc
     \/ CallDec \/ CallStatus \/ CallReset \/ CallResize \/ CallLeave
  /\ UNCHANGED <<latest, checked, result, torn, task>>

-----------------------------------------------------------------------------
\* The tasklet beside a call: AddMSG access by access.
TaskAt(pc) == torn /\ task.pc = pc
TaskOn(pc) == task' = [task EXCEPT !.pc = pc, !.read = 0]
TaskEnd == task' = [task EXCEPT !.pc = "idle", !.c = NULL, !.k = NULL, !.s = NULL]
TaskRead(pc, v) == task' = [task EXCEPT !.pc = pc, !.read = v]

TaskAdd(c, k) ==
  /\ TaskAt("idle")
  /\ task.left > 0 /\ ~CallAt("done")
  /\ task' = [task EXCEPT !.pc = "valid", !.left = @ - 1, !.c = c, !.k = k]
  /\ UNCHANGED <<pool, lists>>

TaskTests ==
  /\ \/ TaskAt("valid") /\ IF status[task.c] = "INVALID" THEN TaskEnd ELSE TaskOn("room")
     \/ TaskAt("room") /\ IF status[task.c] = "OVERFLOW" THEN TaskEnd ELSE TaskOn("free")
     \/ TaskAt("free") /\ IF pool.free = 0 THEN TaskEnd ELSE task' = [task EXCEPT !.pc = "scan", !.s = 0]
  /\ UNCHANGED <<pool, lists>>

\* The scan of AllocateSlot, slot by slot.  When it finds nothing the index stays
\* -1, and what follows writes outside the pool ("wild").
TaskScan ==
  /\ TaskAt("scan")
  /\ \/ task.s \notin Slots /\ TaskOn("wild") /\ UNCHANGED pool
     \/ task.s \in pool.used /\ task' = [task EXCEPT !.s = @ + 1] /\ UNCHANGED pool
     \/ /\ task.s \in Slots \ pool.used
        /\ TaskOn("take")
        /\ pool' = [pool EXCEPT !.used = @ \cup {task.s}, !.next[task.s] = NULL]
  /\ UNCHANGED lists

TaskTake ==
  /\ \/ TaskAt("take") /\ TaskRead("take2", pool.free) /\ UNCHANGED pool
     \/ TaskAt("take2") /\ TaskOn("link") /\ pool' = [pool EXCEPT !.free = task.read - 1]
  /\ UNCHANGED lists

\* The end is written before the head of a list that was empty.
TaskLink ==
  LET c == task.c
      k == task.k
  IN
  \/ /\ TaskAt("link")
     /\ TaskOn(IF num[c][k] > 0 THEN "append" ELSE "alone")
     /\ UNCHANGED <<pool, lists>>
  \/ /\ TaskAt("append")
     /\ IF end[c][k] = NULL
        THEN TaskOn("wild") /\ UNCHANGED pool
        ELSE TaskOn("tail") /\ pool' = [pool EXCEPT !.next[end[c][k]] = task.s]
     /\ UNCHANGED lists
  \/ /\ (TaskAt("tail") /\ TaskOn("count")) \/ (TaskAt("alone") /\ TaskOn("head"))
     /\ end' = [end EXCEPT ![c][k] = task.s]
     /\ UNCHANGED <<pool, first, num, status>>
  \/ /\ TaskAt("head") /\ TaskOn("count")
     /\ first' = [first EXCEPT ![c][k] = task.s]
     /\ UNCHANGED <<pool, end, num, status>>

TaskCount ==
  /\ \/ TaskAt("count") /\ TaskRead("count2", num[task.c][task.k]) /\ UNCHANGED num
     \/ /\ TaskAt("count2") /\ TaskOn("normal")
        /\ num' = [num EXCEPT ![task.c][task.k] = task.read + 1]
  /\ UNCHANGED <<pool, first, end, status>>

TaskStatus ==
  LET c == task.c IN
  /\ \/ TaskAt("normal") /\ TaskOn(IF status[c] = "EMPTY" THEN "normal2" ELSE "full") /\ UNCHANGED status
     \/ TaskAt("normal2") /\ TaskOn("full") /\ status' = [status EXCEPT ![c] = "NORMAL"]
     \/ TaskAt("full") /\ Total(c) >= size[c] /\ TaskOn("full2") /\ UNCHANGED status
     \/ TaskAt("full") /\ Total(c) < size[c] /\ TaskEnd /\ UNCHANGED status
     \/ TaskAt("full2") /\ TaskEnd /\ status' = [status EXCEPT ![c] = "OVERFLOW"]
  /\ UNCHANGED <<pool, first, end, num>>

TaskStep ==
  /\ \/ \E c \in Classes, k \in Kinds : TaskAdd(c, k)
     \/ TaskTests \/ TaskScan \/ TaskTake \/ TaskLink \/ TaskCount \/ TaskStatus
  /\ UNCHANGED <<classes, latest, checked, result, torn, call>>

-----------------------------------------------------------------------------
Next ==
  \/ ~torn /\ Alone /\ UNCHANGED <<torn, call, task>>
  \/ \E n \in Overlapped, c \in Classes :
        \/ \E s \in Sizes : Collide("register", n, c, "NORMAL", s)
        \/ \E force \in BOOLEAN, op \in {"unregister", "all"} : Collide(op, n, c, "NORMAL", force)
        \/ Collide("clear", n, c, "NORMAL", NULL)
        \/ \E k \in Kinds, op \in {"recv", "check", "remove"} : Collide(op, n, c, k, NULL)
  \/ CallStep
  \/ TaskStep

Spec == Init /\ [][Next]_vars

-----------------------------------------------------------------------------
\* Every variable has its type, as long as no call is overlapped.
TypeOK ==
  ~torn =>
  /\ pool.used \subseteq Slots
  /\ pool.next \in [Slots -> Slots \cup {NULL}]
  /\ pool.msg \in [Slots -> Contents \cup {NULL}]
  /\ pool.free \in 0 .. u16Slots
  /\ registed \in 0 .. u16Slots
  /\ first \in [Classes -> [Kinds -> Slots \cup {NULL}]]
  /\ end \in [Classes -> [Kinds -> Slots \cup {NULL}]]
  /\ num \in [Classes -> [Kinds -> 0 .. u16Slots]]
  /\ status \in [Classes -> {"INVALID", "EMPTY", "NORMAL", "OVERFLOW"}]
  /\ size \in [Classes -> {0} \cup Sizes]
  /\ notifier \in [Classes -> Clients \cup {NULL}]
  /\ nextq \in [Classes -> Classes \cup {NULL}]
  /\ qfirst \in [Clients -> Classes \cup {NULL}]

ListOf(c, k) == Chain(pool.next, first[c][k])

Listed == UNION {ListOf(c, k) : c \in Classes, k \in Kinds}
Unshared ==
  \A c, d \in Classes, k, l \in Kinds :
     <<c, k>> # <<d, l>> => ListOf(c, k) \cap ListOf(d, l) = {}

\* As long as the tasklet has overlapped no call: the slots in use are exactly
\* those in the lists, every slot is in one list only, a list is as long as its
\* count says and ends at its recorded end, and u16FreeSlots counts the rest.
SlotsAccounted ==
  ~torn =>
  /\ pool.used = Listed
  /\ Unshared
  /\ \A c \in Classes, k \in Kinds :
        /\ Cardinality(ListOf(c, k)) = num[c][k]
        /\ num[c][k] > 0 => end[c][k] \in ListOf(c, k) /\ pool.next[end[c][k]] = NULL
  /\ pool.free = u16Slots - Cardinality(pool.used)

\* Once a call and the messages that overlapped it are done, unless one of them
\* was written outside the pool: no slot is in two lists or free in one, and for
\* every such message at most one slot is lost and at most one is free only by
\* u16FreeSlots.
DamageBounded ==
  CallAt("done") /\ TaskAt("idle") =>
  /\ Listed \subseteq pool.used
  /\ Unshared
  /\ Cardinality(pool.used \ Listed) <= Overlaps
  /\ pool.free + Cardinality(pool.used) <= u16Slots + Overlaps

\* The list of a client's notifier holds the classes it has registered,
\* overlapped calls included.
ListsMatchOwners ==
  \A n \in Clients : Chain(nextq, qfirst[n]) = {c \in Classes : notifier[c] = n}

\* Until the tasklet overlaps a call, the slot pool implements the queues of
\* MbxQueues: every step is one of theirs.
MsgsOf(c, k) ==
  [i \in 1 .. num[c][k] |-> pool.msg[Follow(pool.next, first[c][k])[i - 1]]]
Queues == INSTANCE MbxQueues
  WITH owner <- notifier,
       queue <- [c \in Classes |-> [k \in Kinds |-> MsgsOf(c, k)]]
ImplementsQueues == Queues!Init /\ [][~torn' => Queues!Next]_(Queues!vars)
=============================================================================
