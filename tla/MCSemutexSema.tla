--------------------------- MODULE MCSemutexSema ---------------------------
(* Three single-threaded processes for SemutexSema.                        *)
EXTENDS SemutexSema
CONSTANTS t1, t2, t3

Symmetry == Permutations(Names)
=============================================================================
