---------------------------- MODULE MCEventReplay ----------------------------
(* Small instances of EventReplay: one custody and its holder.             *)
EXTENDS EventReplay, TLC

CONSTANTS c1, u1, p1

HolderOfOne  == c1 :> u1
PetOfOne     == c1 :> p1
DefaultScore == u1 :> 50
=============================================================================
