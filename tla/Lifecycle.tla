----------------------------- MODULE Lifecycle -----------------------------
(***************************************************************************)
(* The status machines of the three aggregates that carry a life cycle:    *)
(* adoption, custody and escrow.  Adoption and custody have an explicit    *)
(* transition table in the code; an escrow has none, its statuses come     *)
(* from the database schema and any of them may be overwritten.            *)
(***************************************************************************)

AdoptionStatus == {"REQUESTED", "PENDING", "APPROVED", "ESCROW_FUNDED",
                   "COMPLETED", "REJECTED", "CANCELLED"}

CustodyStatus == {"ACTIVE", "RETURNED", "CANCELLED", "VIOLATION",
                  "PENDING", "COMPLETED"}

EscrowStatus == {"CREATED", "FUNDED", "RELEASED", "REFUNDED", "DISPUTED"}

(* VALID_TRANSITIONS of AdoptionStateMachine.                              *)
AdoptionTransitions ==
  [REQUESTED     |-> {"PENDING", "REJECTED"},
   PENDING       |-> {"APPROVED", "REJECTED"},
   APPROVED      |-> {"ESCROW_FUNDED", "CANCELLED"},
   ESCROW_FUNDED |-> {"COMPLETED", "CANCELLED"},
   COMPLETED     |-> {},
   REJECTED      |-> {},
   CANCELLED     |-> {}]

(* VALID_TRANSITIONS of CustodyStateMachine.                               *)
CustodyTransitions ==
  [ACTIVE    |-> {"RETURNED", "CANCELLED", "VIOLATION"},
   RETURNED  |-> {},
   CANCELLED |-> {},
   VIOLATION |-> {},
   PENDING   |-> {"ACTIVE", "CANCELLED"},
   COMPLETED |-> {}]

(* canTransition of either machine: the answer assertValidTransition and   *)
(* assertCanTransition turn into an exception when it is FALSE.            *)
AdoptionCanTransition(from, to) == to \in AdoptionTransitions[from]
CustodyCanTransition(from, to)  == to \in CustodyTransitions[from]

(* The statuses no transition of the table leaves.                         *)
AdoptionTerminal == {s \in AdoptionStatus : AdoptionTransitions[s] = {}}
CustodyTerminal  == {s \in CustodyStatus  : CustodyTransitions[s]  = {}}

(* An escrow whose money has been paid out, either way.                    *)
EscrowSettled == {"RELEASED", "REFUNDED"}
=============================================================================
