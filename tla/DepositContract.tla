--------------------------- MODULE DepositContract ---------------------------
(***************************************************************************)
(* What a custody with a deposit promises, with no mention of requests,    *)
(* locks or logs: it opens with a deposit held or with none, a held        *)
(* deposit leaves the escrow, either way and for good, and only then the   *)
(* custody closes, for good.                                               *)
(***************************************************************************)
CONSTANT Custody

VARIABLES phase,     \* none, open or closed
          deposit    \* none, held or paid

Init ==
  /\ phase \in [Custody -> {"none", "open"}]
  /\ deposit \in [Custody -> {"none", "held"}]
  /\ \A c \in Custody : phase[c] = "none" => deposit[c] = "none"

Open(c) ==
  /\ phase[c] = "none"
  /\ phase' = [phase EXCEPT ![c] = "open"]
  /\ \E d \in {"none", "held"} : deposit' = [deposit EXCEPT ![c] = d]

Pay(c) ==
  /\ phase[c] = "open"
  /\ deposit[c] = "held"
  /\ deposit' = [deposit EXCEPT ![c] = "paid"]
  /\ UNCHANGED phase

Close(c) ==
  /\ phase[c] = "open"
  /\ deposit[c] # "held"
  /\ phase' = [phase EXCEPT ![c] = "closed"]
  /\ UNCHANGED deposit

Next == \E c \in Custody : Open(c) \/ Pay(c) \/ Close(c)

Spec == Init /\ [][Next]_<<phase, deposit>>
=============================================================================
