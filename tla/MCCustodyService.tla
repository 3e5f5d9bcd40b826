-------------------------- MODULE MCCustodyService --------------------------
(* Small instances of CustodyService.                                      *)
EXTENDS CustodyService, TLC

CONSTANTS c1, c2, u1, u2, p1

HolderOfOne  == c1 :> u1
PetOfOne     == c1 :> p1
HolderOfTwo  == c1 :> u1 @@ c2 :> u1
HolderOfEach == c1 :> u1 @@ c2 :> u2
PetOfTwo     == c1 :> p1 @@ c2 :> p1

(* One violation takes the first score to its lower limit, one return the  *)
(* second to its upper limit.                                              *)
LowScores     == u1 :> 10 @@ u2 :> 98
DefaultScores == u1 :> 50 @@ u2 :> 50
=============================================================================
