------------------------- MODULE MCDocumentsService -------------------------
(* A small instance of DocumentsService: two registrations of one e-mail,  *)
(* an adoption from a shelter, a bystander, an administrator, two uploads. *)
EXTENDS DocumentsService, TLC

CONSTANTS x1, x2, shelter, other, admin, mail, home, away, work, a1, u1, u2, v1

TwoOfOne   == x1 :> mail @@ x2 :> mail @@ shelter :> home @@ other :> away
                @@ admin :> work
AvatarOfX1 == v1 :> x1
OneAdopts  == a1 :> x1
OneGives   == a1 :> shelter

(* The uploads are interchangeable.                                        *)
Uploads == Permutations({u1, u2})
=============================================================================
