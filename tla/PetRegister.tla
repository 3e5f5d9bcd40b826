---------------------------- MODULE PetRegister ----------------------------
(***************************************************************************)
(* What the shelter promises about a pet, with no mention of requests,     *)
(* locks or escrows: it is listed once, changes hands only while it is     *)
(* listed, and once removed it is nobody's and never comes back.           *)
(***************************************************************************)
CONSTANTS Pet, User, NoOwner

VARIABLES life,      \* absent, listed or gone
          owner      \* who has the pet, or NoOwner

Init ==
  /\ life \in [Pet -> {"absent", "listed"}]
  /\ owner \in [Pet -> User \cup {NoOwner}]
  /\ \A p \in Pet : life[p] = "absent" => owner[p] = NoOwner

List(p, u) ==
  /\ life[p] = "absent"
  /\ life' = [life EXCEPT ![p] = "listed"]
  /\ owner' = [owner EXCEPT ![p] = u]

HandOver(p, u) ==
  /\ life[p] = "listed"
  /\ owner' = [owner EXCEPT ![p] = u]
  /\ UNCHANGED life

Remove(p) ==
  /\ life[p] = "listed"
  /\ life' = [life EXCEPT ![p] = "gone"]
  /\ owner' = [owner EXCEPT ![p] = NoOwner]

Next == \E p \in Pet : Remove(p) \/ \E u \in User : List(p, u) \/ HandOver(p, u)

Spec == Init /\ [][Next]_<<life, owner>>
=============================================================================
