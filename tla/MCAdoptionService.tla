-------------------------- MODULE MCAdoptionService --------------------------
(* Small instances of AdoptionService: two adoptions of one pet.           *)
EXTENDS AdoptionService, TLC

CONSTANTS a1, a2, ua, ub, shelter, p1

BothOfOnePet   == a1 :> p1 @@ a2 :> p1
OneAdopterEach == a1 :> ua @@ a2 :> ub
ShelterOwns    == p1 :> shelter
=============================================================================
