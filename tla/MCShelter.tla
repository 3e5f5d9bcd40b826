----------------------------- MODULE MCShelter -----------------------------
(* A small instance of Shelter: a pet, seeded or still to be created, with  *)
(* an adoption and a custody.                                              *)
EXTENDS Shelter, TLC

CONSTANTS a1, c1, ua, shelter, p1

AdoptedPet  == a1 :> p1
KeptPet     == c1 :> p1
OneAdopter  == a1 :> ua
OneHolder   == c1 :> ua
Scores      == ua :> 50 @@ shelter :> 50
ShelterOwns == p1 :> shelter
=============================================================================
