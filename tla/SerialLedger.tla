---------------------------- MODULE SerialLedger ----------------------------
(***************************************************************************)
(* What the event ledger promises: one stream of sequence numbers for each *)
(* aggregate, which starts at 1 and is extended by one event at a time, as *)
(* if its writers took turns.                                              *)
(***************************************************************************)
EXTENDS Naturals, Sequences

CONSTANT Aggregate

VARIABLE ledger   \* the sequence numbers of each aggregate, in commit order

Init == ledger = [a \in Aggregate |-> <<>>]

Extend(a) == ledger' = [ledger EXCEPT ![a] = Append(@, Len(@) + 1)]

Next == \E a \in Aggregate : Extend(a)

Spec == Init /\ [][Next]_ledger
=============================================================================
