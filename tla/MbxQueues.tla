----------------------------- MODULE MbxQueues -----------------------------
(***************************************************************************)
(* What the mailbox driver promises of its message queues: every message   *)
(* class is free or belongs to one client, which has reserved room for a   *)
(* number of messages; within a class, normal and instant messages are two *)
(* FIFO queues that share this room.  A message for a class nobody has     *)
(* registered is refused as such, one for a class that has no room left    *)
(* too, and every other message is accepted.                               *)
(*                                                                         *)
(* result is what the last call returned.  Return values and their         *)
(* conditions are those of the functions of drv/mbx/mdrv_mbx_msgpool.c and *)
(* of the comments above them.                                             *)
(***************************************************************************)
EXTENDS Naturals, Sequences, FiniteSets, FiniteSetsExt

CONSTANTS
  Clients,   \* async notifiers
  Classes,   \* message classes
  Contents,  \* message contents
  Sizes,     \* queue sizes that clients ask for
  u16Slots,  \* slots in the pool
  NULL

Kinds == {"NORMAL", "INSTANT"}
Errors == {"NONE", "SUCCESS", "NOT_INITIALIZED", "NO_MORE_MEMORY", "NO_MORE_MSG",
           "SLOT_AREADY_OPENNED", "SLOT_NOT_OPENNED", "SLOT_BUSY", "HAS_MSG_PENDING"}

VARIABLES
  owner,   \* class -> the client that registered it, or NULL
  size,    \* class -> messages it has room for, 0 when it is free
  queue,   \* class -> kind -> its messages, oldest first
  result   \* what the last call returned

vars == <<owner, size, queue, result>>

Nothing == [k \in Kinds |-> <<>>]
Pending(c) == Len(queue[c]["NORMAL"]) + Len(queue[c]["INSTANT"])
Reserved == MapThenSumSet(LAMBDA c : size[c], Classes)

Init ==
  /\ owner = [c \in Classes |-> NULL]
  /\ size = [c \in Classes |-> 0]
  /\ queue = [c \in Classes |-> Nothing]
  /\ result = "NONE"

Refuse(e) == result' = e /\ UNCHANGED <<owner, size, queue>>

Register(n, c, s) ==
  \/ owner[c] = n /\ Refuse("SLOT_AREADY_OPENNED")
  \/ owner[c] = NULL /\ Reserved + s > u16Slots /\ Refuse("NO_MORE_MEMORY")
  \/ owner[c] \notin {n, NULL} /\ Refuse("SLOT_BUSY")
  \/ /\ owner[c] = NULL
     /\ Reserved + s <= u16Slots
     /\ owner' = [owner EXCEPT ![c] = n]
     /\ size' = [size EXCEPT ![c] = s]
     /\ result' = "SUCCESS"
     /\ UNCHANGED queue

\* The classes cs become free, and their messages are gone.
Free(cs) ==
  /\ owner' = [c \in Classes |-> IF c \in cs THEN NULL ELSE owner[c]]
  /\ size' = [c \in Classes |-> IF c \in cs THEN 0 ELSE size[c]]
  /\ queue' = [c \in Classes |-> IF c \in cs THEN Nothing ELSE queue[c]]
  /\ result' = "SUCCESS"

UnRegister(n, c, force) ==
  \/ owner[c] = NULL /\ Refuse("SLOT_NOT_OPENNED")
  \/ owner[c] \notin {n, NULL} /\ Refuse("SLOT_BUSY")
  \/ owner[c] = n /\ ~force /\ Pending(c) > 0 /\ Refuse("HAS_MSG_PENDING")
  \/ owner[c] = n /\ (force \/ Pending(c) = 0) /\ Free({c})

UnRegisterAll(n, force) ==
  LET mine == {c \in Classes : owner[c] = n} IN
  IF ~force /\ \E c \in mine : Pending(c) > 0
  THEN Refuse("HAS_MSG_PENDING")
  ELSE Free(mine)

Clear(n, c) ==
  \/ owner[c] = NULL /\ Refuse("SLOT_NOT_OPENNED")
  \/ owner[c] \notin {n, NULL} /\ Refuse("SLOT_BUSY")
  \/ /\ owner[c] = n
     /\ queue' = [queue EXCEPT ![c] = Nothing]
     /\ result' = "SUCCESS"
     /\ UNCHANGED <<owner, size>>

Add(c, k, m) ==
  \/ owner[c] = NULL /\ Refuse("NOT_INITIALIZED")
  \/ owner[c] # NULL /\ Pending(c) >= size[c] /\ Refuse("NO_MORE_MEMORY")
  \/ /\ owner[c] # NULL
     /\ Pending(c) < size[c]
     /\ queue' = [queue EXCEPT ![c][k] = Append(@, m)]
     /\ result' = "SUCCESS"
     /\ UNCHANGED <<owner, size>>

\* A message is fetched: RecvMsg returns it, RemoveLatestMsg only drops it.
Fetch(c, k, r) ==
  /\ queue[c][k] # <<>>
  /\ queue' = [queue EXCEPT ![c][k] = Tail(@)]
  /\ result' = r
  /\ UNCHANGED <<owner, size>>

Recv(c, k) ==
  \/ owner[c] = NULL /\ Refuse("SLOT_NOT_OPENNED")
  \/ owner[c] # NULL /\ queue[c][k] = <<>> /\ Refuse("NO_MORE_MSG")
  \/ owner[c] # NULL /\ queue[c][k] # <<>> /\ Fetch(c, k, Head(queue[c][k]))

Check(c, k) ==
  \/ owner[c] = NULL /\ Refuse("SLOT_NOT_OPENNED")
  \/ owner[c] # NULL /\ queue[c][k] = <<>> /\ Refuse("NO_MORE_MSG")
  \/ owner[c] # NULL /\ queue[c][k] # <<>> /\ Refuse(Head(queue[c][k]))

RemoveLatest(c, k) == Fetch(c, k, "SUCCESS")

Next ==
  \/ \E n \in Clients, c \in Classes :
        \/ \E s \in Sizes : Register(n, c, s)
        \/ \E force \in BOOLEAN : UnRegister(n, c, force)
        \/ Clear(n, c)
  \/ \E n \in Clients, force \in BOOLEAN : UnRegisterAll(n, force)
  \/ \E c \in Classes, k \in Kinds :
        \/ \E m \in Contents : Add(c, k, m)
        \/ Recv(c, k) \/ Check(c, k) \/ RemoveLatest(c, k)

Spec == Init /\ [][Next]_vars
=============================================================================
