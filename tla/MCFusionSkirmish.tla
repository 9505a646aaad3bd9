-------------------------- MODULE MCFusionSkirmish --------------------------
(***************************************************************************)
(* Instances of FusionSkirmish for TLC: f1 has the thread a, and f2 the    *)
(* dispatcher b, which serves its call, and the thread c; or c is the only *)
(* thread of f3.                                                           *)
(***************************************************************************)
EXTENDS FusionSkirmish, TLC

CONSTANTS a, b, c, f1, f2, f3, s1, s2

TwoFusionees == a :> f1 @@ b :> f2 @@ c :> f2
ThreeFusionees == a :> f1 @@ b :> f2 @@ c :> f3
OneServer == f2 :> b
=============================================================================
