----------------------------- MODULE EventLedger -----------------------------
(***************************************************************************)
(* EventLedgerService: events of an aggregate get consecutive sequence     *)
(* numbers, allocated under a transaction-scoped advisory lock whose key   *)
(* is a hash of the aggregate's id.  The database is taken with the        *)
(* sequence number column the service reads and writes; the schema of the  *)
(* repository does not declare it.                                         *)
(*                                                                         *)
(* A call is a process, each awaited statement an action.  A transaction   *)
(* reads what was committed before the statement; its own insert is        *)
(* visible, and its advisory lock free, when it commits.                   *)
(***************************************************************************)
EXTENDS Integers, Sequences

CONSTANTS Aggregate,   \* ids of aggregates
          Key,         \* keys of advisory locks
          Hash,        \* Hash[a]: hashtext of the id; two ids may collide
          Call,        \* calls of appendEvent and getNextSequenceNumber
          NoCall,      \* holder of a free advisory lock
          MaxFaults    \* bound on failed statements and expired transactions

ASSUME LedgerAssumption ==
  /\ NoCall \notin Call
  /\ Hash \in [Aggregate -> Key]
  /\ MaxFaults \in Nat

VARIABLES
  stored,   \* sequence numbers of each aggregate, in commit order
  holder,   \* the transaction that holds each advisory lock
  pc, op,   \* control state and operation of each call
  of,       \* the aggregate each call is about, fixed by its caller
  next,     \* the sequence number a call computed
  faults    \* failures so far

vars == <<stored, holder, pc, op, of, next, faults>>

Ended == {"done", "failed"}
Open  == {"read", "insert", "commit"}

Goto(k, label) == pc' = [pc EXCEPT ![k] = label]

Release(k) == [h \in Key |-> IF holder[h] = k THEN NoCall ELSE holder[h]]

(* The highest number of a stream, 0 for an empty one.                     *)
Numbers(s) == {s[i] : i \in DOMAIN s}
Highest(s) == IF s = <<>> THEN 0
              ELSE CHOOSE m \in Numbers(s) : \A n \in Numbers(s) : n <= m

(* Mutant: the wrong sign.                                                 *)
NextNumber_Before(s) == Highest(s) - 1

NextNumber(s) == Highest(s) + 1

(* detectGaps: the numbers missing below the highest one.                  *)
DetectGaps(s) == (1 .. Highest(s)) \ Numbers(s)

-----------------------------------------------------------------------------
Init ==
  /\ stored = [a \in Aggregate |-> <<>>]
  /\ holder = [h \in Key |-> NoCall]
  /\ pc = [k \in Call |-> "idle"]
  /\ op = [k \in Call |-> "none"]
  /\ of \in [Call -> Aggregate]
  /\ next = [k \in Call |-> 0]
  /\ faults = 0

(* appendEvent or getNextSequenceNumber opens its transaction.             *)
Begin(k, o) ==
  /\ pc[k] = "idle"
  /\ op' = [op EXCEPT ![k] = o]
  /\ Goto(k, "lock")
  /\ UNCHANGED <<stored, holder, of, next, faults>>

(* pg_advisory_xact_lock waits until the key is free.                      *)
Lock(k) ==
  /\ pc[k] = "lock"
  /\ holder[Hash[of[k]]] = NoCall
  /\ holder' = [holder EXCEPT ![Hash[of[k]]] = k]
  /\ Goto(k, "read")
  /\ UNCHANGED <<stored, op, of, next, faults>>

(* Mutant: the insert does not belong to the transaction with the lock.    *)
HasTx_AnyClient(k) == TRUE

(* A statement of a transaction that has expired is refused.               *)
HasTx(k) == holder[Hash[of[k]]] = k

ReadLatest(k) ==
  /\ pc[k] = "read"
  /\ HasTx(k)
  /\ next' = [next EXCEPT ![k] = NextNumber(stored[of[k]])]
  /\ Goto(k, IF op[k] = "append" THEN "insert" ELSE "commit")
  /\ UNCHANGED <<stored, holder, op, of, faults>>

Insert(k) ==
  /\ pc[k] = "insert"
  /\ HasTx(k)
  /\ Goto(k, "commit")
  /\ UNCHANGED <<stored, holder, op, of, next, faults>>

(* Mutant: the lock outlives the transaction.                              *)
Commit_KeepsLock(k) ==
  /\ pc[k] = "commit"
  /\ HasTx(k)
  /\ stored' = IF op[k] = "append"
                 THEN [stored EXCEPT ![of[k]] = Append(@, next[k])] ELSE stored
  /\ Goto(k, "done")
  /\ UNCHANGED <<holder, op, of, next, faults>>

Commit(k) ==
  /\ pc[k] = "commit"
  /\ HasTx(k)
  /\ stored' = IF op[k] = "append"
                 THEN [stored EXCEPT ![of[k]] = Append(@, next[k])] ELSE stored
  /\ holder' = Release(k)
  /\ Goto(k, "done")
  /\ UNCHANGED <<op, of, next, faults>>

-----------------------------------------------------------------------------
(* A statement fails or the process dies: the transaction rolls back.      *)
Fail(k) ==
  /\ pc[k] \in {"lock"} \cup Open
  /\ faults < MaxFaults
  /\ faults' = faults + 1
  /\ holder' = Release(k)
  /\ Goto(k, "failed")
  /\ UNCHANGED <<stored, op, of, next>>

(* The time limit ends the transaction under a call that is still running. *)
TxExpires(k) ==
  /\ pc[k] \in Open
  /\ HasTx(k)
  /\ faults < MaxFaults
  /\ faults' = faults + 1
  /\ holder' = Release(k)
  /\ UNCHANGED <<stored, pc, op, of, next>>

UseExpired(k) ==
  /\ pc[k] \in Open
  /\ ~ HasTx(k)
  /\ Goto(k, "failed")
  /\ UNCHANGED <<stored, holder, op, of, next, faults>>

-----------------------------------------------------------------------------
Step(k) == Lock(k) \/ ReadLatest(k) \/ Insert(k) \/ Commit(k) \/ UseExpired(k)

Quiet == \A k \in Call : pc[k] \in Ended

Next == \/ \E k \in Call : \/ \E o \in {"append", "peek"} : Begin(k, o)
                           \/ Step(k) \/ Fail(k) \/ TxExpires(k)
        \/ Quiet /\ UNCHANGED vars

Spec == Init /\ [][Next]_vars

(* The database grants a free lock to a waiting transaction and answers    *)
(* every other statement.                                                  *)
FairSpec == Spec /\ \A k \in Call : WF_vars(Step(k))

-----------------------------------------------------------------------------
(* Properties.                                                             *)

TypeOK ==
  /\ stored \in [Aggregate -> Seq(Nat)]
  /\ holder \in [Key -> Call \cup {NoCall}]
  /\ pc \in [Call -> {"idle", "lock"} \cup Open \cup Ended]
  /\ op \in [Call -> {"none", "append", "peek"}]
  /\ of \in [Call -> Aggregate]
  /\ next \in [Call -> Nat]
  /\ faults \in 0..MaxFaults

(* The committed events of every aggregate are numbered 1, 2, 3, ... in     *)
(* commit order, with no number twice and none missing, whatever writers    *)
(* race, fail or outlive their transaction and whichever ids collide.       *)
Consecutive == \A a \in Aggregate : \A i \in DOMAIN stored[a] : stored[a][i] = i

(* The integrity check finds nothing to report.                            *)
NoGaps == \A a \in Aggregate : DetectGaps(stored[a]) = {}

(* A number that getNextSequenceNumber hands out is the next one of its    *)
(* aggregate at the moment it is handed out, although the lock may have     *)
(* been lost since the read: a transaction that expired hands out nothing.  *)
(* What the caller does with the number later is not protected.             *)
HandedOutIsNext ==
  [][\A k \in Call :
       op[k] = "peek" /\ pc[k] # "done" /\ pc'[k] = "done" =>
         next[k] = Len(stored[of[k]]) + 1]_vars

(* Every call ends: a call holds one advisory lock at a time.              *)
EveryCallEnds == \A k \in Call : pc[k] = "lock" ~> pc[k] \in Ended

(* The service implements the serial ledger.                               *)
Serial == INSTANCE SerialLedger WITH ledger <- stored
ImplementsSerialLedger == Serial!Spec
=============================================================================
