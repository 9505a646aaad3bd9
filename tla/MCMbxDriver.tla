---------------------------- MODULE MCMbxDriver ----------------------------
(* Two files and two classes, one of them for instant messages.            *)
EXTENDS MbxDriver, TLC
CONSTANTS c1, c2

MCAsks == c1 :> "NORMAL" @@ c2 :> "INSTANT"
\* No step depends on what the last one returned.
View == <<owner, size, queue, notif, role, ready, done, open, recv, cb, sent>>
Symmetry == Permutations(Files)
=============================================================================
