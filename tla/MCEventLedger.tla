---------------------------- MODULE MCEventLedger ----------------------------
(* A small instance of EventLedger: two aggregates whose ids collide in the *)
(* hash and a third with a key of its own.                                 *)
EXTENDS EventLedger, TLC

CONSTANTS a1, a2, a3, h1, h2

TwoCollide == a1 :> h1 @@ a2 :> h1 @@ a3 :> h2
=============================================================================
