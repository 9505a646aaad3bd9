---------------------------- MODULE MCMbxChannel ----------------------------
(* Register groups p, q of the host and l of another role for MbxChannel.  *)
EXTENDS MbxChannel
CONSTANTS p, q, l, t1, t2
=============================================================================
