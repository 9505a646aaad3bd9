---------------------------- MODULE MCMbxMsgPool ----------------------------
(* Two clients and two message classes for MbxMsgPool.                     *)
EXTENDS MbxMsgPool, TLC
CONSTANTS n1, n2

Symmetry == Permutations(Classes) \cup Permutations(Contents)
=============================================================================
