----------------------------- MODULE MCTeeCalls -----------------------------
(***************************************************************************)
(* Instances of TeeCalls for TLC.                                          *)
(***************************************************************************)
EXTENDS TeeCalls


=============================================================================
