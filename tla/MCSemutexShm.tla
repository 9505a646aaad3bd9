---------------------------- MODULE MCSemutexShm ----------------------------
(* Two single-threaded processes for SemutexShm.                           *)
EXTENDS SemutexShm, TLC
CONSTANTS t1, t2, p1, p2

Single == t1 :> p1 @@ t2 :> p2
=============================================================================
