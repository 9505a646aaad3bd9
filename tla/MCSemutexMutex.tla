-------------------------- MODULE MCSemutexMutex --------------------------
(* Two processes, one of them with two threads, for SemutexMutex.          *)
EXTENDS SemutexMutex
CONSTANTS t1, t2, t3, p1, p2

MCThreads == {t1, t2, t3}
MCProcs == {p1, p2}
MCProc == [t \in MCThreads |-> IF t = t3 THEN p2 ELSE p1]
Symmetry == Permutations({t1, t2}) \cup Permutations(Files) \cup Permutations(Names)
=============================================================================
