---------------------------- MODULE EventReducers ----------------------------
(***************************************************************************)
(* The reducers of the admin's replay, which rebuild the state of an       *)
(* aggregate from its events.  Each is a table from event types to         *)
(* statuses, folded over the stream; an event the table does not name      *)
(* leaves the state alone.                                                 *)
(***************************************************************************)
EXTENDS Integers, Sequences

(* The reducers that set a status.                                         *)
AdminStatus ==
  [ADOPTION |-> [ADOPTION_REQUESTED |-> "REQUESTED",
                 ADOPTION_APPROVED  |-> "APPROVED",
                 ADOPTION_COMPLETED |-> "COMPLETED"],
   CUSTODY  |-> [CUSTODY_STARTED   |-> "PENDING",
                 CUSTODY_RETURNED  |-> "RETURNED",
                 CUSTODY_VIOLATION |-> "VIOLATION",
                 CUSTODY_CANCELLED |-> "CANCELLED"],
   ESCROW   |-> [ESCROW_CREATED  |-> "CREATED",
                 ESCROW_FUNDED   |-> "FUNDED",
                 ESCROW_RELEASED |-> "RELEASED",
                 ESCROW_REFUNDED |-> "REFUNDED"]]

(* The fold over a stream.                                                 *)
Reduce(table, start, stream) ==
  LET state[n \in 0..Len(stream)] ==
        IF n = 0 THEN start
        ELSE IF stream[n] \in DOMAIN table THEN table[stream[n]] ELSE state[n - 1]
  IN  state[Len(stream)]

(* The reducer of users: an absolute score replaces the state, a           *)
(* delta is added to it.  updateTrustScore logs deltas.                    *)
ReduceScore(start, stream) ==
  LET score[n \in 0..Len(stream)] ==
        IF n = 0 THEN start
        ELSE IF "trustScore" \in DOMAIN stream[n] THEN stream[n].trustScore
             ELSE score[n - 1] + stream[n].delta
  IN  score[Len(stream)]
=============================================================================
