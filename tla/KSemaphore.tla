---------------------------- MODULE KSemaphore ----------------------------
(***************************************************************************)
(* The kernel's counting semaphore (kernel/semaphore.c), as operators on   *)
(* its two fields.  Every function of that file runs under sem->lock, so   *)
(* each operator is one atomic step.                                       *)
(*                                                                         *)
(*   count : units that can be taken at once                               *)
(*   wait  : wait_list, the sleeping tasks, oldest first                   *)
(*                                                                         *)
(* up() never increments count while somebody waits: it unlinks the first  *)
(* waiter and marks it with waiter.up, so a unit is handed over and cannot *)
(* be taken by a task that arrives later.                                  *)
(***************************************************************************)
EXTENDS Naturals, Sequences, SequencesExt

sema_init(n) == [count |-> n, wait |-> <<>>]

\* down*(): the uncontended case takes a unit, the contended one queues up.
HasUnit(s) == s.count > 0
TakeUnit(s) == [s EXCEPT !.count = @ - 1]
Enqueue(s, t) == [s EXCEPT !.wait = Append(@, t)]
down(s, t) == IF HasUnit(s) THEN TakeUnit(s) ELSE Enqueue(s, t)

\* Mutant: the oldest waiter is unlinked instead of the one that gave up.
list_del_first(s, k) == [s EXCEPT !.wait = Tail(@)]

\* The k-th waiter leaves the list: timed_out and interrupted.
list_del(s, k) == [s EXCEPT !.wait = RemoveAt(@, k)]

\* up(): the list and count it leaves, and the waiter it hands the unit to.
up(s) == IF s.wait = <<>>
         THEN [s EXCEPT !.count = @ + 1]
         ELSE [s EXCEPT !.wait = Tail(@)]
Woken(s) == IF s.wait = <<>> THEN {} ELSE {Head(s.wait)}
=============================================================================
