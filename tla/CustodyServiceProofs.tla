------------------------ MODULE CustodyServiceProofs ------------------------
(***************************************************************************)
(* Proofs about CustodyService for any set of custodies, users, pets and   *)
(* requests and any number of failures.                                    *)
(***************************************************************************)
EXTENDS CustodyService, FiniteSetTheorems, TLAPS

-----------------------------------------------------------------------------
(* Type correctness.                                                       *)

(* The types without the scores, which are all that most proofs need.      *)
RowTypes ==
  /\ custody \in [Custody -> CustodyStatus \cup {"NONE"}]
  /\ escrow \in [Custody -> EscrowStatus \cup {"NONE"}]
  /\ custodyLog \in [Custody -> Seq({"CUSTODY_STARTED", "CUSTODY_RETURNED",
                                     "CUSTODY_VIOLATION", "CUSTODY_CANCELLED"})]
  /\ escrowLog \in [Custody -> Seq({"ESCROW_RELEASED", "ESCROW_REFUNDED"})]
  /\ custodyLock \in [Custody -> Request \cup {NoRequest}]
  /\ escrowLock \in [Custody -> Request \cup {NoRequest}]
  /\ pc \in [Request -> {"idle"} \cup Active \cup Ended]
  /\ op \in [Request -> {"none", "create"} \cup Settling]
  /\ on \in [Request -> Custody]
  /\ faults \in 0..MaxFaults

(* The types of the rows are part of the types.                            *)
LEMMA TypedRows == TypeOK => RowTypes
BY DEF TypeOK, RowTypes

(* A request is in the part of a handler that belongs to its operation.    *)
ControlOK ==
  \A r \in Request :
    /\ pc[r] \in {"insert", "started"} => op[r] = "create"
    /\ pc[r] \in {"update"} \cup Locked => op[r] \in Settling
    /\ pc[r] = "petlog" => op[r] = "cancel"
    /\ pc[r] \in {"sread", "swrite", "slog"} => op[r] \in {"return", "violation"}

(* A clamped score is a score.                                             *)
LEMMA ClampRange ==
  ASSUME NEW n \in Int
  PROVE  Clamp(n) \in 0..100
BY DEF Clamp

(* Every step keeps a request within the handler it began.                 *)
LEMMA ControlStep == RowTypes /\ ControlOK /\ [Next]_vars => ControlOK'
<1> SUFFICES ASSUME RowTypes, ControlOK, [Next]_vars PROVE ControlOK'
  OBVIOUS
<1>0. /\ pc \in [Request -> {"idle"} \cup Active \cup Ended]
      /\ op \in [Request -> {"none", "create"} \cup Settling]
  BY DEF RowTypes
<1> USE <1>0 DEF ControlOK, Goto, Locked, Settling
<1>1. ASSUME NEW r \in Request, BeginCreate(r) PROVE ControlOK'
  BY <1>1 DEF BeginCreate
<1>2. ASSUME NEW r \in Request, NEW o \in Settling, BeginSettle(r, o) PROVE ControlOK'
  BY <1>2 DEF BeginSettle
<1>3. ASSUME NEW r \in Request, Insert(r) PROVE ControlOK'
  BY <1>3 DEF Insert
<1>4. ASSUME NEW r \in Request, LogStarted(r) PROVE ControlOK'
  BY <1>4 DEF LogStarted
<1>5. ASSUME NEW r \in Request, Update(r) PROVE ControlOK'
  BY <1>5 DEF Update
<1>6. ASSUME NEW r \in Request, LogSettlement(r) PROVE ControlOK'
  BY <1>6 DEF LogSettlement, AfterLog, AfterEscrow
<1>7. ASSUME NEW r \in Request, LogPetCancelled(r) PROVE ControlOK'
  BY <1>7 DEF LogPetCancelled, AfterLog, AfterEscrow
<1>8. ASSUME NEW r \in Request, EscrowUpdate(r) PROVE ControlOK'
  BY <1>8 DEF EscrowUpdate
<1>9. ASSUME NEW r \in Request, LogEscrow(r) PROVE ControlOK'
  BY <1>9 DEF LogEscrow
<1>10. ASSUME NEW r \in Request, EscrowCommit(r) PROVE ControlOK'
  BY <1>10 DEF EscrowCommit, AfterEscrow
<1>11. ASSUME NEW r \in Request, ReadScore(r) PROVE ControlOK'
  BY <1>11 DEF ReadScore
<1>12. ASSUME NEW r \in Request, WriteScore(r) PROVE ControlOK'
  BY <1>12 DEF WriteScore
<1>13. ASSUME NEW r \in Request, LogScore(r) PROVE ControlOK'
  BY <1>13 DEF LogScore
<1>14. ASSUME NEW r \in Request, Commit(r) PROVE ControlOK'
  BY <1>14 DEF Commit
<1>15. ASSUME NEW r \in Request, CommitExpired(r) PROVE ControlOK'
  BY <1>15 DEF CommitExpired
<1>16. ASSUME NEW r \in Request, Fail(r) PROVE ControlOK'
  BY <1>16 DEF Fail
<1>17. ASSUME NEW r \in Request, CustodyTxExpires(r) PROVE ControlOK'
  BY <1>17 DEF CustodyTxExpires
<1>18. ASSUME NEW r \in Request, EscrowTxExpires(r) PROVE ControlOK'
  BY <1>18 DEF EscrowTxExpires
<1>19. CASE UNCHANGED vars
  BY <1>19 DEF vars
<1> QED
  BY <1>1, <1>2, <1>3, <1>4, <1>5, <1>6, <1>7, <1>8, <1>9, <1>10, <1>11,
     <1>12, <1>13, <1>14, <1>15, <1>16, <1>17, <1>18, <1>19
  DEF Next, Begin, Step, Fault

(* What updateTrustScore writes and logs is a score and one of two deltas. *)
LEMMA NewScoreType ==
  ASSUME TypeOK, ControlOK, NEW r \in Request, pc[r] \in {"swrite", "slog"}
  PROVE  /\ Delta[op[r]] \in {5, -15}
         /\ Clamp(read[r] + Delta[op[r]]) \in 0..100
<1>1. op[r] \in {"return", "violation"}
  BY DEF ControlOK
<1>2. Delta[op[r]] \in {5, -15}
  BY <1>1 DEF Delta
<1>3. read[r] \in 0..100
  BY DEF TypeOK
<1>4. read[r] + Delta[op[r]] \in Int
  BY <1>2, <1>3
<1> QED
  BY <1>2, <1>4, ClampRange

(* Rolling back a request leaves lock tables of requests.                  *)
LEMMA UnlockType ==
  ASSUME NEW lock \in [Custody -> Request \cup {NoRequest}], NEW r \in Request
  PROVE  Unlock(lock, r) \in [Custody -> Request \cup {NoRequest}]
BY DEF Unlock

(* Every step keeps the types; in particular the failures stay within      *)
(* their bound.                                                             *)
LEMMA RowTypesStep == RowTypes /\ ControlOK /\ [Next]_vars => RowTypes'
<1> SUFFICES ASSUME RowTypes, ControlOK, [Next]_vars PROVE RowTypes'
  OBVIOUS
<1> USE ConstantsAssumption DEF RowTypes, Goto, rows, logs, locks, Active, Locked, Ended
<1>1. ASSUME NEW r \in Request, BeginCreate(r) PROVE RowTypes'
  BY <1>1 DEF BeginCreate
<1>2. ASSUME NEW r \in Request, NEW o \in Settling, BeginSettle(r, o) PROVE RowTypes'
  BY <1>2 DEF BeginSettle
<1>3. ASSUME NEW r \in Request, Insert(r) PROVE RowTypes'
  <2>1. custody' \in [Custody -> CustodyStatus \cup {"NONE"}]
    BY <1>3 DEF Insert, CustodyStatus
  <2>2. escrow' \in [Custody -> EscrowStatus \cup {"NONE"}]
    BY <1>3 DEF Insert, EscrowStatus
  <2> QED
    BY <1>3, <2>1, <2>2 DEF Insert
<1>4. ASSUME NEW r \in Request, LogStarted(r) PROVE RowTypes'
  BY <1>4 DEF LogStarted
<1>5. ASSUME NEW r \in Request, Update(r) PROVE RowTypes'
  BY <1>5 DEF Update
<1>6. ASSUME NEW r \in Request, LogSettlement(r) PROVE RowTypes'
  <2>1. TargetEvent[op[r]] \in {"CUSTODY_STARTED", "CUSTODY_RETURNED",
                                "CUSTODY_VIOLATION", "CUSTODY_CANCELLED"}
    BY <1>6 DEF LogSettlement, TargetEvent, ControlOK, Settling
  <2>2. pc' \in [Request -> {"idle"} \cup Active \cup Ended]
    BY <1>6 DEF LogSettlement, AfterLog, AfterEscrow
  <2> QED
    BY <1>6, <2>1, <2>2 DEF LogSettlement
<1>7. ASSUME NEW r \in Request, LogPetCancelled(r) PROVE RowTypes'
  BY <1>7 DEF LogPetCancelled, AfterLog, AfterEscrow
<1>8. ASSUME NEW r \in Request, EscrowUpdate(r) PROVE RowTypes'
  BY <1>8 DEF EscrowUpdate
<1>9. ASSUME NEW r \in Request, LogEscrow(r) PROVE RowTypes'
  BY <1>9 DEF LogEscrow, EscrowEvent, EscrowTarget, ControlOK, Settling
<1>10. ASSUME NEW r \in Request, EscrowCommit(r) PROVE RowTypes'
  BY <1>10 DEF EscrowCommit, EscrowTarget, AfterEscrow, EscrowStatus, ControlOK, Settling
<1>11. ASSUME NEW r \in Request, ReadScore(r) PROVE RowTypes'
  BY <1>11 DEF ReadScore
<1>12. ASSUME NEW r \in Request, WriteScore(r) PROVE RowTypes'
  BY <1>12 DEF WriteScore
<1>13. ASSUME NEW r \in Request, LogScore(r) PROVE RowTypes'
  BY <1>13 DEF LogScore
<1>14. ASSUME NEW r \in Request, Commit(r) PROVE RowTypes'
  BY <1>14 DEF Commit, Target, CustodyStatus, ControlOK, Settling
<1>15. ASSUME NEW r \in Request, CommitExpired(r) PROVE RowTypes'
  BY <1>15, UnlockType DEF CommitExpired
<1>16. ASSUME NEW r \in Request, Fail(r) PROVE RowTypes'
  <2>1. /\ custodyLock' \in [Custody -> Request \cup {NoRequest}]
        /\ escrowLock' \in [Custody -> Request \cup {NoRequest}]
    BY <1>16, UnlockType DEF Fail
  <2>2. faults' \in 0..MaxFaults
    BY <1>16 DEF Fail
  <2> QED
    BY <1>16, <2>1, <2>2 DEF Fail
<1>17. ASSUME NEW r \in Request, CustodyTxExpires(r) PROVE RowTypes'
  BY <1>17 DEF CustodyTxExpires
<1>18. ASSUME NEW r \in Request, EscrowTxExpires(r) PROVE RowTypes'
  BY <1>18 DEF EscrowTxExpires
<1>19. CASE UNCHANGED vars
  BY <1>19 DEF vars
<1> QED
  BY <1>1, <1>2, <1>3, <1>4, <1>5, <1>6, <1>7, <1>8, <1>9, <1>10, <1>11,
     <1>12, <1>13, <1>14, <1>15, <1>16, <1>17, <1>18, <1>19
  DEF Next, Begin, Step, Fault

(* The scores in the rows, in the log and in the handlers.                 *)
ScoreEvent == [previousScore : 0..100, newScore : 0..100, delta : {5, -15}]

ScoreTypes ==
  /\ trust \in [User -> 0..100]
  /\ petLog \in [Pet -> Nat]
  /\ scoreLog \in [User -> Seq(ScoreEvent)]
  /\ read \in [Request -> 0..100]

(* No score leaves 0..100.                                                 *)
LEMMA TypeStep == TypeOK /\ ControlOK /\ [Next]_vars => TypeOK'
<1> SUFFICES ASSUME TypeOK, ControlOK, [Next]_vars PROVE TypeOK'
  OBVIOUS
<1>1. RowTypes'
  BY TypedRows, RowTypesStep
<1>2. ScoreTypes /\ on \in [Request -> Custody]
  BY DEF TypeOK, ScoreTypes, ScoreEvent
<1>3. ASSUME NEW r \in Request, LogPetCancelled(r) PROVE ScoreTypes'
  BY <1>2, <1>3, ConstantsAssumption DEF LogPetCancelled, rows, ScoreTypes
<1>4. ASSUME NEW r \in Request, ReadScore(r) PROVE ScoreTypes'
  BY <1>2, <1>4, ConstantsAssumption DEF ReadScore, rows, logs, ScoreTypes
<1>5. ASSUME NEW r \in Request, WriteScore(r) PROVE ScoreTypes'
  <2>1. Clamp(read[r] + Delta[op[r]]) \in 0..100
    BY <1>5, NewScoreType DEF WriteScore
  <2> QED
    BY <1>2, <1>5, <2>1 DEF WriteScore, logs, ScoreTypes
<1>6. ASSUME NEW r \in Request, LogScore(r) PROVE ScoreTypes'
  <2> DEFINE e == [previousScore |-> read[r],
                   newScore |-> Clamp(read[r] + Delta[op[r]]),
                   delta |-> Delta[op[r]]]
  <2>1. e \in ScoreEvent
    BY <1>2, <1>6, NewScoreType DEF LogScore, ScoreTypes, ScoreEvent
  <2>2. scoreLog' = [scoreLog EXCEPT ![Holder[on[r]]] = Append(@, e)]
    BY <1>6 DEF LogScore
  <2> HIDE DEF e
  <2>3. scoreLog' \in [User -> Seq(ScoreEvent)]
    <3>1. \A s \in Seq(ScoreEvent) : Append(s, e) \in Seq(ScoreEvent)
      BY <2>1
    <3> QED
      BY <1>2, <2>2, <3>1 DEF ScoreTypes
  <2> QED
    BY <1>2, <1>6, <2>3 DEF LogScore, rows, ScoreTypes
<1>7. ASSUME UNCHANGED <<trust, petLog, scoreLog, read>> PROVE ScoreTypes'
  BY <1>2, <1>7 DEF ScoreTypes
<1>8. \/ UNCHANGED <<trust, petLog, scoreLog, read>>
      \/ \E r \in Request : \/ LogPetCancelled(r) \/ ReadScore(r)
                            \/ WriteScore(r) \/ LogScore(r)
  BY DEF Next, Begin, Step, Fault, vars, rows, logs, BeginCreate, BeginSettle, Insert,
         LogStarted, Update, LogSettlement, EscrowUpdate, LogEscrow, EscrowCommit,
         Commit, CommitExpired, Fail, CustodyTxExpires, EscrowTxExpires
<1>9. ScoreTypes'
  BY <1>3, <1>4, <1>5, <1>6, <1>7, <1>8
<1> QED
  BY <1>1, <1>9 DEF TypeOK, RowTypes, ScoreTypes, ScoreEvent

(* The seeded rows are well typed and no request has begun.                *)
LEMMA InitType == Init => TypeOK /\ ControlOK
<1> SUFFICES ASSUME Init PROVE TypeOK /\ ControlOK
  OBVIOUS
<1> USE ConstantsAssumption
<1>1. custodyLog \in [Custody -> Seq({"CUSTODY_STARTED", "CUSTODY_RETURNED",
                                     "CUSTODY_VIOLATION", "CUSTODY_CANCELLED"})]
  <2> DEFINE Events == {"CUSTODY_STARTED", "CUSTODY_RETURNED",
                        "CUSTODY_VIOLATION", "CUSTODY_CANCELLED"}
  <2>1. <<>> \in Seq(Events) /\ <<"CUSTODY_STARTED">> \in Seq(Events)
    OBVIOUS
  <2> QED
    BY <2>1 DEF Init
<1>2. ControlOK
  BY DEF Init, ControlOK, Locked
<1>3. /\ custody \in [Custody -> CustodyStatus \cup {"NONE"}]
      /\ escrow \in [Custody -> EscrowStatus \cup {"NONE"}]
      /\ trust \in [User -> 0..100]
      /\ custodyLock \in [Custody -> Request \cup {NoRequest}]
      /\ escrowLock \in [Custody -> Request \cup {NoRequest}]
      /\ pc \in [Request -> {"idle"} \cup Active \cup Ended]
      /\ op \in [Request -> {"none", "create"} \cup Settling]
      /\ on \in [Request -> Custody]
      /\ read \in [Request -> 0..100]
      /\ faults \in 0..MaxFaults
  BY DEF Init, CustodyStatus, EscrowStatus
<1>4. /\ escrowLog \in [Custody -> Seq({"ESCROW_RELEASED", "ESCROW_REFUNDED"})]
      /\ petLog \in [Pet -> Nat]
      /\ scoreLog \in [User -> Seq([previousScore : 0..100, newScore : 0..100,
                                    delta : {5, -15}])]
  BY DEF Init
<1> QED
  BY <1>1, <1>2, <1>3, <1>4 DEF TypeOK

(* Every reachable state is well typed: scores within 0..100 and every     *)
(* status one of the schema's.                                              *)
THEOREM TypeCorrect == Spec => []TypeOK
  BY InitType, TypeStep, TypedRows, ControlStep, PTL DEF Spec
-----------------------------------------------------------------------------
(* A closed custody has its deposit paid out.                              *)

(* What a request relies on between its checks and its commit: the row it  *)
(* settles exists, the id it creates is free, and past the inner           *)
(* transaction the escrow is settled.  Nothing takes these away, because   *)
(* no step deletes a row or un-settles an escrow.                          *)
RowsOK ==
  /\ \A c \in Custody : custody[c] = "NONE" => escrow[c] = "NONE"
  /\ \A r \in Request : pc[r] \in {"update"} \cup Locked => custody[on[r]] # "NONE"
  /\ \A r \in Request : pc[r] = "insert" => custody[on[r]] = "NONE"
  /\ \A r, q \in Request :
       pc[r] = "insert" /\ pc[q] = "insert" /\ on[r] = on[q] => r = q
  /\ \A r \in Request : pc[r] \in {"eupdate", "elog", "ecommit"} => HasDeposit(on[r])

PaidOK ==
  /\ \A r \in Request : pc[r] \in {"sread", "swrite", "slog", "commit"} =>
       (HasDeposit(on[r]) => escrow[on[r]] \in EscrowSettled)
  /\ ClosedIsSettled

(* Every step keeps the rows in agreement with the                         *)
(* control states of the requests that are working on them.                *)
LEMMA RowsStep == RowTypes /\ ControlOK /\ RowsOK /\ [Next]_vars => RowsOK'
<1> SUFFICES ASSUME RowTypes, ControlOK, RowsOK, [Next]_vars PROVE RowsOK'
  OBVIOUS
<1>0. /\ pc \in [Request -> {"idle"} \cup Active \cup Ended]
      /\ on \in [Request -> Custody]
      /\ custody \in [Custody -> CustodyStatus \cup {"NONE"}]
      /\ escrow \in [Custody -> EscrowStatus \cup {"NONE"}]
  BY DEF RowTypes
<1> USE <1>0 DEF RowsOK, HasDeposit, Goto, Locked, rows, logs, locks
<1>1. ASSUME NEW r \in Request, BeginCreate(r) PROVE RowsOK'
  BY <1>1 DEF BeginCreate, FreshId, ControlOK
<1>2. ASSUME NEW r \in Request, NEW o \in Settling, BeginSettle(r, o)
      PROVE  RowsOK'
  BY <1>2 DEF BeginSettle, Allowed
<1>3. ASSUME NEW r \in Request, Insert(r) PROVE RowsOK'
  BY <1>3 DEF Insert
<1>4. ASSUME NEW r \in Request, LogStarted(r) PROVE RowsOK'
  BY <1>4 DEF LogStarted
<1>5. ASSUME NEW r \in Request, Update(r) PROVE RowsOK'
  BY <1>5 DEF Update
<1>6. ASSUME NEW r \in Request, LogSettlement(r) PROVE RowsOK'
  BY <1>6 DEF LogSettlement, AfterLog, AfterEscrow
<1>7. ASSUME NEW r \in Request, LogPetCancelled(r) PROVE RowsOK'
  BY <1>7 DEF LogPetCancelled, AfterLog, AfterEscrow
<1>8. ASSUME NEW r \in Request, EscrowUpdate(r) PROVE RowsOK'
  BY <1>8 DEF EscrowUpdate
<1>9. ASSUME NEW r \in Request, LogEscrow(r) PROVE RowsOK'
  BY <1>9 DEF LogEscrow
<1>10. ASSUME NEW r \in Request, EscrowCommit(r) PROVE RowsOK'
  BY <1>10 DEF EscrowCommit, AfterEscrow, EscrowTarget, ControlOK, Settling
<1>11. ASSUME NEW r \in Request, ReadScore(r) PROVE RowsOK'
  BY <1>11 DEF ReadScore
<1>12. ASSUME NEW r \in Request, WriteScore(r) PROVE RowsOK'
  BY <1>12 DEF WriteScore
<1>13. ASSUME NEW r \in Request, LogScore(r) PROVE RowsOK'
  BY <1>13 DEF LogScore
<1>14. ASSUME NEW r \in Request, Commit(r) PROVE RowsOK'
  BY <1>14 DEF Commit, Target, ControlOK, Settling
<1>15. ASSUME NEW r \in Request, CommitExpired(r) PROVE RowsOK'
  BY <1>15 DEF CommitExpired
<1>16. ASSUME NEW r \in Request, Fail(r) PROVE RowsOK'
  BY <1>16 DEF Fail
<1>17. ASSUME NEW r \in Request, CustodyTxExpires(r) PROVE RowsOK'
  BY <1>17 DEF CustodyTxExpires
<1>18. ASSUME NEW r \in Request, EscrowTxExpires(r) PROVE RowsOK'
  BY <1>18 DEF EscrowTxExpires
<1>19. CASE UNCHANGED vars
  BY <1>19 DEF vars
<1> QED
  BY <1>1, <1>2, <1>3, <1>4, <1>5, <1>6, <1>7, <1>8, <1>9, <1>10, <1>11,
     <1>12, <1>13, <1>14, <1>15, <1>16, <1>17, <1>18, <1>19
  DEF Next, Begin, Step, Fault

(* A request gets past the payout only when the escrow is settled, and no  *)
(* step takes that back.                                                   *)
LEMMA PaidStep == TypeOK /\ ControlOK /\ RowsOK /\ PaidOK /\ [Next]_vars => PaidOK'
<1> SUFFICES ASSUME TypeOK, ControlOK, RowsOK, PaidOK, [Next]_vars PROVE PaidOK'
  OBVIOUS
<1>0. /\ pc \in [Request -> {"idle"} \cup Active \cup Ended]
      /\ on \in [Request -> Custody]
      /\ custody \in [Custody -> CustodyStatus \cup {"NONE"}]
      /\ escrow \in [Custody -> EscrowStatus \cup {"NONE"}]
  BY DEF TypeOK
<1> USE <1>0 DEF PaidOK, ClosedIsSettled, Closed, HasDeposit, Goto, rows, logs, locks
<1>1. ASSUME NEW r \in Request, BeginCreate(r) PROVE PaidOK'
  BY <1>1 DEF BeginCreate
<1>2. ASSUME NEW r \in Request, NEW o \in Settling, BeginSettle(r, o)
      PROVE  PaidOK'
  BY <1>2 DEF BeginSettle
<1>3. ASSUME NEW r \in Request, Insert(r) PROVE PaidOK'
  BY <1>3 DEF Insert, RowsOK, Locked, Target, Settling
<1>4. ASSUME NEW r \in Request, LogStarted(r) PROVE PaidOK'
  BY <1>4 DEF LogStarted
<1>5. ASSUME NEW r \in Request, Update(r) PROVE PaidOK'
  BY <1>5 DEF Update
<1>6. ASSUME NEW r \in Request, LogSettlement(r) PROVE PaidOK'
  BY <1>6 DEF LogSettlement, AfterLog, AfterEscrow
<1>7. ASSUME NEW r \in Request, LogPetCancelled(r) PROVE PaidOK'
  BY <1>7 DEF LogPetCancelled, AfterLog, AfterEscrow
<1>8. ASSUME NEW r \in Request, EscrowUpdate(r) PROVE PaidOK'
  BY <1>8 DEF EscrowUpdate
<1>9. ASSUME NEW r \in Request, LogEscrow(r) PROVE PaidOK'
  BY <1>9 DEF LogEscrow
<1>10. ASSUME NEW r \in Request, EscrowCommit(r) PROVE PaidOK'
  BY <1>10 DEF EscrowCommit, EscrowTarget, EscrowSettled, ControlOK, Settling, Locked
<1>11. ASSUME NEW r \in Request, ReadScore(r) PROVE PaidOK'
  BY <1>11 DEF ReadScore
<1>12. ASSUME NEW r \in Request, WriteScore(r) PROVE PaidOK'
  BY <1>12 DEF WriteScore
<1>13. ASSUME NEW r \in Request, LogScore(r) PROVE PaidOK'
  BY <1>13 DEF LogScore
<1>14. ASSUME NEW r \in Request, Commit(r) PROVE PaidOK'
  BY <1>14 DEF Commit
<1>15. ASSUME NEW r \in Request, CommitExpired(r) PROVE PaidOK'
  BY <1>15 DEF CommitExpired
<1>16. ASSUME NEW r \in Request, Fail(r) PROVE PaidOK'
  BY <1>16 DEF Fail
<1>17. ASSUME NEW r \in Request, CustodyTxExpires(r) PROVE PaidOK'
  BY <1>17 DEF CustodyTxExpires
<1>18. ASSUME NEW r \in Request, EscrowTxExpires(r) PROVE PaidOK'
  BY <1>18 DEF EscrowTxExpires
<1>19. CASE UNCHANGED vars
  BY <1>19 DEF vars
<1> QED
  BY <1>1, <1>2, <1>3, <1>4, <1>5, <1>6, <1>7, <1>8, <1>9, <1>10, <1>11,
     <1>12, <1>13, <1>14, <1>15, <1>16, <1>17, <1>18, <1>19
  DEF Next, Begin, Step, Fault

(* In every reachable state a closed custody with a deposit has its escrow  *)
(* settled, for any number of concurrent requests, failures and expired     *)
(* transactions.                                                            *)
THEOREM ClosedCustodyIsSettled == Spec => []ClosedIsSettled
<1>1. Init => RowsOK /\ PaidOK
  BY DEF Init, RowsOK, PaidOK, ClosedIsSettled, Closed, Target, Settling, Locked, HasDeposit
<1>2. PaidOK => ClosedIsSettled
  BY DEF PaidOK
<1> QED
  BY <1>1, <1>2, InitType, TypeStep, TypedRows, ControlStep, RowsStep, PaidStep, PTL DEF Spec
-----------------------------------------------------------------------------
(* The service implements the deposit contract.                            *)

(* A step that touches neither statuses is a stutter of the contract.      *)
LEMMA Stutter ==
  ASSUME UNCHANGED <<custody, escrow>>
  PROVE  UNCHANGED <<phase, deposit>>
BY DEF phase, deposit, Closed

(* Insert opens the contract, EscrowCommit pays or repeats a payment,      *)
(* Commit closes or overwrites one closed status with another.             *)
LEMMA ContractStep ==
  TypeOK /\ ControlOK /\ RowsOK /\ PaidOK /\ [Next]_vars
    => [Contract!Next]_<<phase, deposit>>
<1> SUFFICES ASSUME TypeOK, ControlOK, RowsOK, PaidOK, [Next]_vars
             PROVE  [Contract!Next]_<<phase, deposit>>
  OBVIOUS
<1> DEFINE Implements == [Contract!Next]_<<phase, deposit>>
<1>0. /\ on \in [Request -> Custody]
      /\ custody \in [Custody -> CustodyStatus \cup {"NONE"}]
      /\ escrow \in [Custody -> EscrowStatus \cup {"NONE"}]
  BY DEF TypeOK
<1>1. ASSUME NEW r \in Request, BeginCreate(r) PROVE Implements
  BY <1>1, Stutter DEF BeginCreate, rows
<1>2. ASSUME NEW r \in Request, NEW o \in Settling, BeginSettle(r, o)
      PROVE  Implements
  BY <1>2, Stutter DEF BeginSettle, rows
<1>3. ASSUME NEW r \in Request, Insert(r) PROVE Implements
  <2>1. /\ phase[on[r]] = "none"
        /\ phase' = [phase EXCEPT ![on[r]] = "open"]
    BY <1>3, <1>0 DEF Insert, RowsOK, phase, Closed, Target, Settling
  <2>2. \E d \in {"none", "held"} : deposit' = [deposit EXCEPT ![on[r]] = d]
    <3>1. PICK e \in {"NONE", "CREATED"} : escrow' = [escrow EXCEPT ![on[r]] = e]
      BY <1>3 DEF Insert
    <3>2. deposit' = [deposit EXCEPT ![on[r]] = IF e = "NONE" THEN "none" ELSE "held"]
      BY <1>0, <3>1 DEF deposit, EscrowSettled
    <3> QED
      BY <3>2
  <2> QED
    BY <2>1, <2>2, <1>0 DEF Contract!Open, Contract!Next
<1>4. ASSUME NEW r \in Request, LogStarted(r) PROVE Implements
  BY <1>4, Stutter DEF LogStarted, rows
<1>5. ASSUME NEW r \in Request, Update(r) PROVE Implements
  BY <1>5, Stutter DEF Update, rows
<1>6. ASSUME NEW r \in Request, LogSettlement(r) PROVE Implements
  BY <1>6, Stutter DEF LogSettlement, rows
<1>7. ASSUME NEW r \in Request, LogPetCancelled(r) PROVE Implements
  BY <1>7, Stutter DEF LogPetCancelled, rows
<1>8. ASSUME NEW r \in Request, EscrowUpdate(r) PROVE Implements
  BY <1>8, Stutter DEF EscrowUpdate, rows
<1>9. ASSUME NEW r \in Request, LogEscrow(r) PROVE Implements
  BY <1>9, Stutter DEF LogEscrow, rows
<1>10. ASSUME NEW r \in Request, EscrowCommit(r) PROVE Implements
  <2>1. /\ UNCHANGED phase
        /\ phase[on[r]] # "none"
        /\ deposit[on[r]] # "none"
    BY <1>10, <1>0 DEF EscrowCommit, RowsOK, Locked, HasDeposit, phase, deposit, Closed
  <2>2. deposit' = [deposit EXCEPT ![on[r]] = "paid"]
    <3>1. EscrowTarget[op[r]] \in EscrowSettled /\ "NONE" \notin EscrowSettled
      BY <1>10 DEF EscrowCommit, EscrowTarget, EscrowSettled, ControlOK, Locked, Settling
    <3>2. escrow' = [escrow EXCEPT ![on[r]] = EscrowTarget[op[r]]]
      BY <1>10 DEF EscrowCommit
    <3> QED
      BY <1>0, <3>1, <3>2 DEF deposit
  <2>3. phase[on[r]] = "closed" => deposit[on[r]] = "paid"
    BY <1>0, <2>1 DEF PaidOK, ClosedIsSettled, HasDeposit, phase, deposit
  <2>4. CASE deposit[on[r]] = "paid"
    BY <1>0, <2>1, <2>2, <2>4 DEF deposit
  <2>5. CASE deposit[on[r]] = "held"
    <3>1. phase[on[r]] = "open"
      BY <1>0, <2>1, <2>3, <2>5 DEF phase
    <3> QED
      BY <1>0, <2>1, <2>2, <2>5, <3>1 DEF Contract!Pay, Contract!Next
  <2> QED
    BY <1>0, <2>1, <2>4, <2>5 DEF deposit
<1>11. ASSUME NEW r \in Request, ReadScore(r) PROVE Implements
  BY <1>11, Stutter DEF ReadScore, rows
<1>12. ASSUME NEW r \in Request, WriteScore(r) PROVE Implements
  BY <1>12, Stutter DEF WriteScore, rows
<1>13. ASSUME NEW r \in Request, LogScore(r) PROVE Implements
  BY <1>13, Stutter DEF LogScore, rows
<1>14. ASSUME NEW r \in Request, Commit(r) PROVE Implements
  <2>1. /\ UNCHANGED deposit
        /\ deposit[on[r]] # "held"
    BY <1>14, <1>0 DEF Commit, PaidOK, HasDeposit, deposit
  <2>2. /\ phase[on[r]] # "none"
        /\ phase' = [phase EXCEPT ![on[r]] = "closed"]
    BY <1>14, <1>0 DEF Commit, RowsOK, Locked, phase, Closed, Target, ControlOK, Settling
  <2>3. CASE phase[on[r]] = "closed"
    BY <1>0, <2>1, <2>2, <2>3 DEF phase
  <2>4. CASE phase[on[r]] = "open"
    BY <1>0, <2>1, <2>2, <2>4 DEF Contract!Close, Contract!Next
  <2> QED
    BY <1>0, <2>2, <2>3, <2>4 DEF phase
<1>15. ASSUME NEW r \in Request, CommitExpired(r) PROVE Implements
  BY <1>15, Stutter DEF CommitExpired, rows
<1>16. ASSUME NEW r \in Request, Fail(r) PROVE Implements
  BY <1>16, Stutter DEF Fail, rows
<1>17. ASSUME NEW r \in Request, CustodyTxExpires(r) PROVE Implements
  BY <1>17, Stutter DEF CustodyTxExpires, rows
<1>18. ASSUME NEW r \in Request, EscrowTxExpires(r) PROVE Implements
  BY <1>18, Stutter DEF EscrowTxExpires, rows
<1>19. CASE UNCHANGED vars
  BY <1>19, Stutter DEF vars, rows
<1> QED
  BY <1>1, <1>2, <1>3, <1>4, <1>5, <1>6, <1>7, <1>8, <1>9, <1>10, <1>11,
     <1>12, <1>13, <1>14, <1>15, <1>16, <1>17, <1>18, <1>19
  DEF Next, Begin, Step, Fault

(* The service implements the deposit contract: every deposit leaves the    *)
(* escrow before its custody closes and never returns to it, and no closed  *)
(* custody reopens.                                                         *)
THEOREM ServiceImplementsContract == Spec => ImplementsContract
<1>1. Init => RowsOK /\ PaidOK
  BY DEF Init, RowsOK, PaidOK, ClosedIsSettled, Closed, Target, Settling, Locked, HasDeposit
<1>2. Init => Contract!Init
  BY DEF Init, Contract!Init, phase, deposit, Closed, Target, Settling, EscrowSettled
<1> QED
  BY <1>1, <1>2, InitType, TypeStep, TypedRows, ControlStep, RowsStep, PaidStep, ContractStep, PTL
  DEF Spec, ImplementsContract, Contract!Spec
-----------------------------------------------------------------------------
(* No committed settlement is missing from the event log.                  *)

(* What has been logged by the time a request reaches a control state.     *)
LogsOK ==
  /\ \A r \in Request : pc[r] \in Locked \ {"log"} =>
       Logged(custodyLog[on[r]], TargetEvent[op[r]])
  /\ \A r \in Request : pc[r] = "ecommit" =>
       Logged(escrowLog[on[r]], EscrowEvent[EscrowTarget[op[r]]])
  /\ EventBacked

(* An append adds its event and keeps the others.                          *)
LEMMA LoggedAppend ==
  ASSUME NEW S, NEW s \in Seq(S), NEW e \in S
  PROVE  /\ Logged(Append(s, e), e)
         /\ \A x : Logged(s, x) => Logged(Append(s, e), x)
BY DEF Logged

(* The event log is append-only: a step adds at most one event.            *)
CustodyEvents == {"CUSTODY_STARTED", "CUSTODY_RETURNED",
                  "CUSTODY_VIOLATION", "CUSTODY_CANCELLED"}
EscrowEvents  == {"ESCROW_RELEASED", "ESCROW_REFUNDED"}

(* A step adds one event at the end of a log, or none.                     *)
LEMMA LogsExtend ==
  ASSUME RowTypes, ControlOK, [Next]_vars, NEW c \in Custody
  PROVE  /\ \/ custodyLog'[c] = custodyLog[c]
            \/ \E e \in CustodyEvents : custodyLog'[c] = Append(custodyLog[c], e)
         /\ \/ escrowLog'[c] = escrowLog[c]
            \/ \E e \in EscrowEvents : escrowLog'[c] = Append(escrowLog[c], e)
<1> DEFINE Custodies == \/ custodyLog'[c] = custodyLog[c]
                        \/ \E e \in CustodyEvents : custodyLog'[c] = Append(custodyLog[c], e)
           Escrows == \/ escrowLog'[c] = escrowLog[c]
                      \/ \E e \in EscrowEvents : escrowLog'[c] = Append(escrowLog[c], e)
<1>0. custodyLog \in [Custody -> Seq(CustodyEvents)] /\ escrowLog \in [Custody -> Seq(EscrowEvents)]
  BY DEF RowTypes, CustodyEvents, EscrowEvents
<1>1. ASSUME NEW r \in Request, LogStarted(r) PROVE Custodies /\ Escrows
  <2>1. /\ custodyLog'[c] \in {custodyLog[c], Append(custodyLog[c], "CUSTODY_STARTED")}
        /\ UNCHANGED escrowLog
    BY <1>0, <1>1 DEF LogStarted
  <2> QED
    BY <2>1 DEF CustodyEvents
<1>2. ASSUME NEW r \in Request, LogSettlement(r) PROVE Custodies /\ Escrows
  <2>1. /\ custodyLog'[c] \in {custodyLog[c], Append(custodyLog[c], TargetEvent[op[r]])}
        /\ UNCHANGED escrowLog
    BY <1>0, <1>2 DEF LogSettlement
  <2>2. TargetEvent[op[r]] \in CustodyEvents
    BY <1>2 DEF LogSettlement, TargetEvent, ControlOK, Locked, Settling, CustodyEvents
  <2> QED
    BY <2>1, <2>2
<1>3. ASSUME NEW r \in Request, LogEscrow(r) PROVE Custodies /\ Escrows
  <2>1. /\ escrowLog'[c] \in {escrowLog[c], Append(escrowLog[c], EscrowEvent[EscrowTarget[op[r]]])}
        /\ UNCHANGED custodyLog
    BY <1>0, <1>3 DEF LogEscrow
  <2>2. EscrowEvent[EscrowTarget[op[r]]] \in EscrowEvents
    BY <1>3 DEF LogEscrow, EscrowEvent, EscrowTarget, ControlOK, Locked, Settling, EscrowEvents
  <2> QED
    BY <2>1, <2>2
<1>4. \/ UNCHANGED <<custodyLog, escrowLog>>
      \/ \E r \in Request : LogStarted(r) \/ LogSettlement(r) \/ LogEscrow(r)
  BY DEF Next, Begin, Step, Fault, vars, logs, BeginCreate, BeginSettle, Insert, Update,
         LogPetCancelled, EscrowUpdate, EscrowCommit, ReadScore, WriteScore, LogScore,
         Commit, CommitExpired, Fail, CustodyTxExpires, EscrowTxExpires
<1> QED
  BY <1>1, <1>2, <1>3, <1>4

(* So what has been logged stays logged.                                   *)
LEMMA LogsGrow ==
  ASSUME RowTypes, ControlOK, [Next]_vars, NEW c \in Custody, NEW x
  PROVE  /\ Logged(custodyLog[c], x) => Logged(custodyLog'[c], x)
         /\ Logged(escrowLog[c], x) => Logged(escrowLog'[c], x)
<1>1. custodyLog[c] \in Seq(CustodyEvents) /\ escrowLog[c] \in Seq(EscrowEvents)
  BY DEF RowTypes, CustodyEvents, EscrowEvents
<1>2. /\ \A e \in CustodyEvents :
           Logged(custodyLog[c], x) => Logged(Append(custodyLog[c], e), x)
      /\ \A e \in EscrowEvents :
           Logged(escrowLog[c], x) => Logged(Append(escrowLog[c], e), x)
  BY <1>1, LoggedAppend
<1> QED
  BY <1>2, LogsExtend

(* A request that is about to commit has logged what it commits.           *)
LEMMA LogsStep == RowTypes /\ ControlOK /\ LogsOK /\ [Next]_vars => LogsOK'
<1> SUFFICES ASSUME RowTypes, ControlOK, LogsOK, [Next]_vars PROVE LogsOK'
  OBVIOUS
<1>0. /\ pc \in [Request -> {"idle"} \cup Active \cup Ended]
      /\ op \in [Request -> {"none", "create"} \cup Settling]
      /\ on \in [Request -> Custody]
      /\ custody \in [Custody -> CustodyStatus \cup {"NONE"}]
      /\ escrow \in [Custody -> EscrowStatus \cup {"NONE"}]
  BY DEF RowTypes
<1>00. \A c \in Custody : \A x :
        /\ Logged(custodyLog[c], x) => Logged(custodyLog'[c], x)
        /\ Logged(escrowLog[c], x) => Logged(escrowLog'[c], x)
  BY LogsGrow
<1> USE <1>0, <1>00 DEF LogsOK, EventBacked, Goto, rows, Locked
<1>1. ASSUME NEW r \in Request, BeginCreate(r) PROVE LogsOK'
  <2>1. UNCHANGED <<custody, escrow, logs, on>>
    BY <1>1 DEF BeginCreate
  <2>2. \A q \in Request : pc'[q] \in Locked => q # r /\ pc'[q] = pc[q] /\ op'[q] = op[q]
    BY <1>1 DEF BeginCreate
  <2> QED
    BY <2>1, <2>2 DEF logs
<1>2. ASSUME NEW r \in Request, NEW o \in Settling, BeginSettle(r, o)
      PROVE  LogsOK'
  BY <1>2 DEF BeginSettle
<1>3. ASSUME NEW r \in Request, Insert(r) PROVE LogsOK'
  <2>1. /\ \A c \in Custody : custody'[c] \in {custody[c], "PENDING"}
        /\ \A c \in Custody : escrow'[c] \in {escrow[c], "NONE", "CREATED"}
        /\ UNCHANGED <<custodyLog, escrowLog>>
    BY <1>3 DEF Insert, logs
  <2>2. /\ \A o \in Settling : Target[o] # "PENDING"
        /\ "NONE" \notin EscrowSettled /\ "CREATED" \notin EscrowSettled
    BY DEF Target, Settling, EscrowSettled
  <2>3. EventBacked'
    BY <2>1, <2>2
  <2> QED
    BY <1>3, <2>3 DEF Insert
<1>4. ASSUME NEW r \in Request, LogStarted(r) PROVE LogsOK'
  BY <1>4 DEF LogStarted
<1>5. ASSUME NEW r \in Request, Update(r) PROVE LogsOK'
  BY <1>5 DEF Update
<1>6. ASSUME NEW r \in Request, LogSettlement(r) PROVE LogsOK'
  <2>1. Logged(custodyLog'[on[r]], TargetEvent[op[r]])
    <3>1. /\ custodyLog[on[r]] \in Seq({"CUSTODY_STARTED", "CUSTODY_RETURNED",
                                       "CUSTODY_VIOLATION", "CUSTODY_CANCELLED"})
          /\ TargetEvent[op[r]] \in {"CUSTODY_STARTED", "CUSTODY_RETURNED",
                                     "CUSTODY_VIOLATION", "CUSTODY_CANCELLED"}
      BY <1>6 DEF LogSettlement, RowTypes, TargetEvent, ControlOK, Settling
    <3>2. custodyLog'[on[r]] = Append(custodyLog[on[r]], TargetEvent[op[r]])
      BY <1>6 DEF LogSettlement, RowTypes
    <3> QED
      BY <3>1, <3>2, LoggedAppend
  <2> QED
    BY <1>6, <2>1 DEF LogSettlement, AfterLog, AfterEscrow
<1>7. ASSUME NEW r \in Request, LogPetCancelled(r) PROVE LogsOK'
  BY <1>7 DEF LogPetCancelled, AfterLog, AfterEscrow
<1>8. ASSUME NEW r \in Request, EscrowUpdate(r) PROVE LogsOK'
  BY <1>8 DEF EscrowUpdate
<1>9. ASSUME NEW r \in Request, LogEscrow(r) PROVE LogsOK'
  <2>1. Logged(escrowLog'[on[r]], EscrowEvent[EscrowTarget[op[r]]])
    <3>1. /\ escrowLog[on[r]] \in Seq({"ESCROW_RELEASED", "ESCROW_REFUNDED"})
          /\ EscrowEvent[EscrowTarget[op[r]]] \in {"ESCROW_RELEASED", "ESCROW_REFUNDED"}
      BY <1>9 DEF LogEscrow, RowTypes, EscrowEvent, EscrowTarget, ControlOK, Settling
    <3>2. escrowLog'[on[r]] = Append(escrowLog[on[r]], EscrowEvent[EscrowTarget[op[r]]])
      BY <1>9 DEF LogEscrow, RowTypes
    <3> QED
      BY <3>1, <3>2, LoggedAppend
  <2> QED
    BY <1>9, <2>1 DEF LogEscrow
<1>10. ASSUME NEW r \in Request, EscrowCommit(r) PROVE LogsOK'
  BY <1>10 DEF EscrowCommit, AfterEscrow, EscrowTarget, EscrowSettled, ControlOK, Settling
<1>11. ASSUME NEW r \in Request, ReadScore(r) PROVE LogsOK'
  BY <1>11 DEF ReadScore
<1>12. ASSUME NEW r \in Request, WriteScore(r) PROVE LogsOK'
  BY <1>12 DEF WriteScore
<1>13. ASSUME NEW r \in Request, LogScore(r) PROVE LogsOK'
  BY <1>13 DEF LogScore
<1>14. ASSUME NEW r \in Request, Commit(r) PROVE LogsOK'
  <2>1. Logged(custodyLog[on[r]], TargetEvent[op[r]]) /\ op[r] \in Settling
    BY <1>14 DEF Commit, ControlOK
  <2>2. \A o \in Settling : Target[o] = Target[op[r]] => o = op[r]
    BY <2>1 DEF Target, Settling
  <2>3. EventBacked'
    BY <1>14, <2>1, <2>2 DEF Commit
  <2> QED
    BY <1>14, <2>3 DEF Commit
<1>15. ASSUME NEW r \in Request, CommitExpired(r) PROVE LogsOK'
  BY <1>15 DEF CommitExpired
<1>16. ASSUME NEW r \in Request, Fail(r) PROVE LogsOK'
  BY <1>16 DEF Fail
<1>17. ASSUME NEW r \in Request, CustodyTxExpires(r) PROVE LogsOK'
  BY <1>17 DEF CustodyTxExpires
<1>18. ASSUME NEW r \in Request, EscrowTxExpires(r) PROVE LogsOK'
  BY <1>18 DEF EscrowTxExpires
<1>19. CASE UNCHANGED vars
  BY <1>19 DEF vars
<1> QED
  BY <1>1, <1>2, <1>3, <1>4, <1>5, <1>6, <1>7, <1>8, <1>9, <1>10, <1>11,
     <1>12, <1>13, <1>14, <1>15, <1>16, <1>17, <1>18, <1>19
  DEF Next, Begin, Step, Fault

(* Every committed settlement of a custody or of an escrow has its event in *)
(* the log, whatever fails: the log may be ahead of the rows, never behind. *)
THEOREM SettlementsAreLogged == Spec => []EventBacked
<1>1. Init => LogsOK
  BY DEF Init, LogsOK, EventBacked, Target, Settling, Locked, EscrowSettled
<1>2. LogsOK => EventBacked
  BY DEF LogsOK
<1> QED
  BY <1>1, <1>2, InitType, TypeStep, TypedRows, ControlStep, LogsStep, PTL DEF Spec
-----------------------------------------------------------------------------
(* What the row locks serialise while nothing fails.                         *)

(* Without failures the row locks say who is where: a request has the row  *)
(* lock of its custody exactly between its update and its commit, and that *)
(* of the escrow within the payout.                                        *)
LockOK ==
  faults = 0 =>
    \A c \in Custody, r \in Request :
      /\ custodyLock[c] = r <=> on[r] = c /\ pc[r] \in Locked
      /\ escrowLock[c] = r <=> on[r] = c /\ pc[r] \in {"elog", "ecommit"}

(* Without failures the locks are taken and given back with their states.  *)
LEMMA LockStep == TypeOK /\ LockOK /\ [Next]_vars => LockOK'
<1> SUFFICES ASSUME TypeOK, LockOK, [Next]_vars PROVE LockOK'
  OBVIOUS
<1>0. /\ pc \in [Request -> {"idle"} \cup Active \cup Ended]
      /\ on \in [Request -> Custody]
      /\ custodyLock \in [Custody -> Request \cup {NoRequest}]
      /\ escrowLock \in [Custody -> Request \cup {NoRequest}]
  BY DEF TypeOK
<1> USE ConstantsAssumption, <1>0 DEF LockOK, Goto, Locked, locks
<1>1. ASSUME NEW r \in Request, BeginCreate(r) PROVE LockOK'
  BY <1>1 DEF BeginCreate
<1>2. ASSUME NEW r \in Request, NEW o \in Settling, BeginSettle(r, o) PROVE LockOK'
  BY <1>2 DEF BeginSettle
<1>3. ASSUME NEW r \in Request, Insert(r) PROVE LockOK'
  BY <1>3 DEF Insert
<1>4. ASSUME NEW r \in Request, LogStarted(r) PROVE LockOK'
  BY <1>4 DEF LogStarted
<1>5. ASSUME NEW r \in Request, Update(r) PROVE LockOK'
  BY <1>5 DEF Update
<1>6. ASSUME NEW r \in Request, LogSettlement(r) PROVE LockOK'
  BY <1>6 DEF LogSettlement, AfterLog, AfterEscrow
<1>7. ASSUME NEW r \in Request, LogPetCancelled(r) PROVE LockOK'
  BY <1>7 DEF LogPetCancelled, AfterLog, AfterEscrow
<1>8. ASSUME NEW r \in Request, EscrowUpdate(r) PROVE LockOK'
  BY <1>8 DEF EscrowUpdate
<1>9. ASSUME NEW r \in Request, LogEscrow(r) PROVE LockOK'
  BY <1>9 DEF LogEscrow
<1>10. ASSUME NEW r \in Request, EscrowCommit(r) PROVE LockOK'
  BY <1>10 DEF EscrowCommit, AfterEscrow
<1>11. ASSUME NEW r \in Request, ReadScore(r) PROVE LockOK'
  BY <1>11 DEF ReadScore
<1>12. ASSUME NEW r \in Request, WriteScore(r) PROVE LockOK'
  BY <1>12 DEF WriteScore
<1>13. ASSUME NEW r \in Request, LogScore(r) PROVE LockOK'
  BY <1>13 DEF LogScore
<1>14. ASSUME NEW r \in Request, Commit(r) PROVE LockOK'
  BY <1>14 DEF Commit
<1>15. ASSUME NEW r \in Request, CommitExpired(r) PROVE LockOK'
  BY <1>15 DEF CommitExpired
<1>16. ASSUME NEW r \in Request, Fail(r) PROVE LockOK'
  <2>1. faults' # 0
    BY <1>16 DEF Fail, TypeOK
  <2> QED
    BY <2>1
<1>17. ASSUME NEW r \in Request, CustodyTxExpires(r) PROVE LockOK'
  <2>1. faults' # 0
    BY <1>17 DEF CustodyTxExpires, TypeOK
  <2> QED
    BY <2>1
<1>18. ASSUME NEW r \in Request, EscrowTxExpires(r) PROVE LockOK'
  <2>1. faults' # 0
    BY <1>18 DEF EscrowTxExpires, TypeOK
  <2> QED
    BY <2>1
<1>19. CASE UNCHANGED vars
  BY <1>19 DEF vars
<1> QED
  BY <1>1, <1>2, <1>3, <1>4, <1>5, <1>6, <1>7, <1>8, <1>9, <1>10, <1>11,
     <1>12, <1>13, <1>14, <1>15, <1>16, <1>17, <1>18, <1>19
  DEF Next, Begin, Step, Fault

(* The control states between the payout and the commit.                   *)
Paid == {"sread", "swrite", "slog", "commit"}

(* Without failures a request past its payout has paid its own way, and    *)
(* where nobody is past it the escrow agrees with the custody.             *)
OutcomeOK ==
  faults = 0 =>
    /\ \A r \in Request : pc[r] \in Paid /\ HasDeposit(on[r]) =>
         escrow[on[r]] = EscrowTarget[op[r]]
    /\ \A c \in Custody, o \in Settling :
         /\ \A r \in Request : on[r] = c => pc[r] \notin Paid
         /\ custody[c] = Target[o]
         /\ HasDeposit(c)
         => escrow[c] = EscrowTarget[o]

(* Only the request that has the row lock pays, and it pays its own way.   *)
LEMMA OutcomeStep ==
  TypeOK /\ ControlOK /\ RowsOK /\ LockOK /\ OutcomeOK /\ [Next]_vars => OutcomeOK'
<1> SUFFICES ASSUME TypeOK, ControlOK, RowsOK, LockOK, OutcomeOK, [Next]_vars
             PROVE  OutcomeOK'
  OBVIOUS
<1>0. /\ pc \in [Request -> {"idle"} \cup Active \cup Ended]
      /\ op \in [Request -> {"none", "create"} \cup Settling]
      /\ on \in [Request -> Custody]
      /\ custody \in [Custody -> CustodyStatus \cup {"NONE"}]
      /\ escrow \in [Custody -> EscrowStatus \cup {"NONE"}]
  BY DEF TypeOK
<1>00. \A r, q \in Request :
         faults = 0 /\ pc[r] \in Locked /\ pc[q] \in Locked /\ on[r] = on[q] => r = q
  BY <1>0 DEF LockOK
<1> USE <1>0, <1>00 DEF OutcomeOK, HasDeposit, Paid, Goto, Locked, rows
<1>1. ASSUME NEW r \in Request, BeginCreate(r) PROVE OutcomeOK'
  BY <1>1 DEF BeginCreate
<1>2. ASSUME NEW r \in Request, NEW o \in Settling, BeginSettle(r, o) PROVE OutcomeOK'
  BY <1>2 DEF BeginSettle
<1>3. ASSUME NEW r \in Request, Insert(r) PROVE OutcomeOK'
  <2>1. /\ \A c \in Custody \ {on[r]} : custody'[c] = custody[c] /\ escrow'[c] = escrow[c]
        /\ custody'[on[r]] = "PENDING" /\ \A o \in Settling : Target[o] # "PENDING"
    BY <1>3 DEF Insert, Target, Settling
  <2>2. \A q \in Request : pc[q] \in Locked => on[q] # on[r]
    BY <1>3 DEF Insert, RowsOK
  <2> QED
    BY <1>3, <2>1, <2>2 DEF Insert
<1>4. ASSUME NEW r \in Request, LogStarted(r) PROVE OutcomeOK'
  BY <1>4 DEF LogStarted
<1>5. ASSUME NEW r \in Request, Update(r) PROVE OutcomeOK'
  BY <1>5 DEF Update
<1>6. ASSUME NEW r \in Request, LogSettlement(r) PROVE OutcomeOK'
  BY <1>6 DEF LogSettlement, AfterLog, AfterEscrow
<1>7. ASSUME NEW r \in Request, LogPetCancelled(r) PROVE OutcomeOK'
  BY <1>7 DEF LogPetCancelled, AfterLog, AfterEscrow
<1>8. ASSUME NEW r \in Request, EscrowUpdate(r) PROVE OutcomeOK'
  BY <1>8 DEF EscrowUpdate
<1>9. ASSUME NEW r \in Request, LogEscrow(r) PROVE OutcomeOK'
  BY <1>9 DEF LogEscrow
<1>10. ASSUME NEW r \in Request, EscrowCommit(r) PROVE OutcomeOK'
  <2>1. /\ op[r] \in Settling /\ EscrowTarget[op[r]] # "NONE"
        /\ escrow' = [escrow EXCEPT ![on[r]] = EscrowTarget[op[r]]]
        /\ UNCHANGED <<custody, on, op, faults>>
        /\ pc' = [pc EXCEPT ![r] = AfterEscrow(r)] /\ AfterEscrow(r) \in Paid
    BY <1>10 DEF EscrowCommit, ControlOK, EscrowTarget, Settling, AfterEscrow
  <2>2. \A q \in Request \ {r} : faults = 0 /\ pc[q] \in Paid => on[q] # on[r]
    BY <1>10 DEF EscrowCommit
  <2> QED
    BY <2>1, <2>2
<1>11. ASSUME NEW r \in Request, ReadScore(r) PROVE OutcomeOK'
  BY <1>11 DEF ReadScore
<1>12. ASSUME NEW r \in Request, WriteScore(r) PROVE OutcomeOK'
  BY <1>12 DEF WriteScore
<1>13. ASSUME NEW r \in Request, LogScore(r) PROVE OutcomeOK'
  BY <1>13 DEF LogScore
<1>14. ASSUME NEW r \in Request, Commit(r) PROVE OutcomeOK'
  <2>1. op[r] \in Settling /\ \A o \in Settling : Target[o] = Target[op[r]] => o = op[r]
    BY <1>14 DEF Commit, ControlOK, Target, Settling
  <2> QED
    BY <1>14, <2>1 DEF Commit
<1>15. ASSUME NEW r \in Request, CommitExpired(r) PROVE OutcomeOK'
  <2>1. faults # 0
    BY <1>15 DEF CommitExpired, LockOK
  <2> QED
    BY <1>15, <2>1 DEF CommitExpired
<1>16. ASSUME NEW r \in Request, Fail(r) PROVE OutcomeOK'
  <2>1. faults' # 0
    BY <1>16 DEF Fail, TypeOK
  <2> QED
    BY <2>1
<1>17. ASSUME NEW r \in Request, CustodyTxExpires(r) PROVE OutcomeOK'
  <2>1. faults' # 0
    BY <1>17 DEF CustodyTxExpires, TypeOK
  <2> QED
    BY <2>1
<1>18. ASSUME NEW r \in Request, EscrowTxExpires(r) PROVE OutcomeOK'
  <2>1. faults' # 0
    BY <1>18 DEF EscrowTxExpires, TypeOK
  <2> QED
    BY <2>1
<1>19. CASE UNCHANGED vars
  BY <1>19 DEF vars
<1> QED
  BY <1>1, <1>2, <1>3, <1>4, <1>5, <1>6, <1>7, <1>8, <1>9, <1>10, <1>11,
     <1>12, <1>13, <1>14, <1>15, <1>16, <1>17, <1>18, <1>19
  DEF Next, Begin, Step, Fault

(* Without failures custody and deposit agree wherever the row is free:    *)
(* whoever has the row lock last decides both, also after a race in which  *)
(* several handlers passed the status check.                                *)
THEOREM OutcomeDecidesDeposit == Spec => []DepositMatchesOutcome
<1>1. Init => RowsOK /\ LockOK /\ OutcomeOK
  BY ConstantsAssumption
  DEF Init, RowsOK, LockOK, OutcomeOK, Target, Settling, Locked, Paid, HasDeposit
<1>2. TypeOK /\ LockOK /\ OutcomeOK => DepositMatchesOutcome
  <2> SUFFICES ASSUME TypeOK, LockOK, OutcomeOK, faults = 0,
                      NEW c \in Custody, custodyLock[c] = NoRequest
               PROVE  \A r \in Request : on[r] = c => pc[r] \notin Paid
    BY DEF DepositMatchesOutcome, OutcomeOK
  <2> QED
    BY ConstantsAssumption DEF LockOK, Paid, Locked
<1> QED
  BY <1>1, <1>2, InitType, TypeStep, TypedRows, ControlStep, RowsStep, LockStep, OutcomeStep, PTL
  DEF Spec

(* A nonempty set of positions has a last one.                             *)
LEMMA LastPosition ==
  ASSUME NEW n \in Nat, NEW S \in SUBSET (1 .. n), S # {}
  PROVE  \E i \in S : \A j \in S : j <= i
<1> DEFINE T == {i .. n : i \in S}
<1>1. ASSUME NEW i \in S PROVE i .. n \in FiniteSubsetsOf(Nat)
  <2>1. i \in Nat
    OBVIOUS
  <2> QED
    BY <2>1, FS_Interval DEF FiniteSubsetsOf
<1>2. T \subseteq FiniteSubsetsOf(Nat) /\ T # {}
  BY <1>1
<1>3. PICK x \in T : \A y \in T : <<y, x>> \notin StrictSubsetOrdering(Nat)
  <2> HIDE DEF T
  <2> QED
    BY <1>2, WFMin, FS_StrictSubsetOrderingWellFounded
<1>4. PICK i \in S : x = i .. n
  OBVIOUS
<1>5. ASSUME NEW j \in S, j > i PROVE FALSE
  <2>1. i \in Nat /\ j \in Nat /\ i <= n
    OBVIOUS
  <2>2. j .. n \subseteq i .. n /\ i \in i .. n /\ i \notin j .. n
    BY <2>1, <1>5
  <2>3. (i .. n) \subseteq Nat /\ (j .. n) \subseteq Nat
    BY <2>1
  <2>4. <<j .. n, i .. n>> \in StrictSubsetOrdering(Nat)
    BY <2>2, <2>3 DEF StrictSubsetOrdering
  <2> QED
    BY <1>3, <1>4, <2>4
<1> QED
  BY <1>5

(* The last settlement event of any log; LastSettlement(c) is that of a    *)
(* custody's.                                                              *)
Settlements(log) == {i \in DOMAIN log : log[i] # "CUSTODY_STARTED"}

LastOf(log) == IF Settlements(log) = {} THEN "NONE"
               ELSE log[CHOOSE i \in Settlements(log) : \A j \in Settlements(log) : j <= i]

(* A settlement that is appended is the last one.                          *)
LEMMA LastAppend ==
  ASSUME NEW s \in Seq(CustodyEvents), NEW e \in CustodyEvents, e # "CUSTODY_STARTED"
  PROVE  LastOf(Append(s, e)) = e
<1> DEFINE t == Append(s, e)
           n == Len(s) + 1
           last == CHOOSE i \in Settlements(t) : \A j \in Settlements(t) : j <= i
<1>1. n \in Settlements(t) /\ Settlements(t) \subseteq 1 .. n /\ t[n] = e
  BY DEF Settlements
<1>2. \A j \in Settlements(t) : j <= n
  BY <1>1
<1>3. \A i \in Settlements(t) : (\A j \in Settlements(t) : j <= i) => i = n
  BY <1>1
<1>4. last = n
  BY <1>1, <1>2, <1>3
<1> QED
  BY <1>1, <1>4 DEF LastOf

(* A start that is appended is not counted.                                *)
LEMMA LastKept ==
  ASSUME NEW s \in Seq(CustodyEvents)
  PROVE  LastOf(Append(s, "CUSTODY_STARTED")) = LastOf(s)
<1> DEFINE t == Append(s, "CUSTODY_STARTED")
           last == CHOOSE i \in Settlements(s) : \A j \in Settlements(s) : j <= i
<1>1. Settlements(t) = Settlements(s)
  BY DEF Settlements
<1>2. CASE Settlements(s) = {}
  BY <1>1, <1>2 DEF LastOf
<1>3. CASE Settlements(s) # {}
  <2>1. Settlements(s) \in SUBSET (1 .. Len(s)) /\ Len(s) \in Nat
    BY DEF Settlements
  <2>2. \E i \in Settlements(s) : \A j \in Settlements(s) : j <= i
    BY <2>1, <1>3, LastPosition
  <2>3. last \in Settlements(s)
    BY <2>2
  <2>4. last \in 1 .. Len(s)
    BY <2>1, <2>3
  <2>5. t[last] = s[last]
    BY <2>4
  <2>6. LastOf(t) = t[last] /\ LastOf(s) = s[last]
    BY <1>1, <1>3 DEF LastOf
  <2> QED
    BY <2>5, <2>6
<1> QED
  BY <1>2, <1>3

(* The control states between the settlement event and the commit.         *)
Announced == Locked \ {"log"}

Matches(c) == \/ LastSettlement(c) = "NONE" /\ ~ Closed(c)
              \/ \E o \in Settling : /\ custody[c] = Target[o]
                                     /\ LastSettlement(c) = TargetEvent[o]

(* Without failures the last settlement event is that of the request which *)
(* has announced one, and that of the row where nobody has.                *)
OrderOK ==
  faults = 0 =>
    /\ \A r \in Request : pc[r] \in Announced =>
         LastSettlement(on[r]) = TargetEvent[op[r]]
    /\ \A c \in Custody :
         (\A r \in Request : on[r] = c => pc[r] \notin Announced) => Matches(c)

(* A step that neither announces a settlement nor writes a row.            *)
LEMMA OrderKept ==
  ASSUME TypeOK, OrderOK, UNCHANGED <<custody, on, faults>>,
         \A c \in Custody : LastOf(custodyLog'[c]) = LastOf(custodyLog[c]),
         \A q \in Request :
           /\ pc'[q] \in Announced <=> pc[q] \in Announced
           /\ pc[q] \in Announced => op'[q] = op[q]
  PROVE  OrderOK'
<1>1. \A c \in Custody : LastSettlement(c)' = LastSettlement(c)
  BY DEF LastSettlement, LastOf, Settlements
<1>2. \A c \in Custody : Matches(c)' <=> Matches(c)
  BY <1>1 DEF Matches, Closed
<1>3. on \in [Request -> Custody]
  BY DEF TypeOK
<1> HIDE DEF Announced
<1> QED
  BY <1>1, <1>2, <1>3 DEF OrderOK

(* Events of one custody are logged under its row lock, so in the order of *)
(* the commits that follow them.                                           *)
LEMMA OrderStep ==
  TypeOK /\ ControlOK /\ RowsOK /\ LockOK /\ OrderOK /\ [Next]_vars => OrderOK'
<1> SUFFICES ASSUME TypeOK, ControlOK, RowsOK, LockOK, OrderOK, [Next]_vars
             PROVE  OrderOK'
  OBVIOUS
<1>0. /\ pc \in [Request -> {"idle"} \cup Active \cup Ended]
      /\ op \in [Request -> {"none", "create"} \cup Settling]
      /\ on \in [Request -> Custody]
      /\ custody \in [Custody -> CustodyStatus \cup {"NONE"}]
      /\ custodyLog \in [Custody -> Seq(CustodyEvents)]
  BY DEF TypeOK, CustodyEvents
<1>00. \A r, q \in Request :
         faults = 0 /\ pc[r] \in Locked /\ pc[q] \in Locked /\ on[r] = on[q] => r = q
  BY <1>0 DEF LockOK
<1>000. \A c \in Custody : /\ LastSettlement(c) = LastOf(custodyLog[c])
                           /\ LastSettlement(c)' = LastOf(custodyLog'[c])
  BY DEF LastSettlement, LastOf, Settlements
<1> USE <1>0 DEF Announced, Goto, Locked, rows, logs
<1>1. ASSUME NEW r \in Request, BeginCreate(r) PROVE OrderOK'
  BY <1>1, OrderKept DEF BeginCreate
<1>2. ASSUME NEW r \in Request, NEW o \in Settling, BeginSettle(r, o) PROVE OrderOK'
  BY <1>2, OrderKept DEF BeginSettle
<1>3. ASSUME NEW r \in Request, Insert(r) PROVE OrderOK'
  <2>1. /\ \A c \in Custody \ {on[r]} : custody'[c] = custody[c]
        /\ custody[on[r]] = "NONE" /\ custody'[on[r]] = "PENDING"
        /\ UNCHANGED <<custodyLog, on, op, faults>>
    BY <1>3 DEF Insert, RowsOK
  <2>2. \A o \in Settling : Target[o] # "PENDING" /\ Target[o] # "NONE"
    BY DEF Target, Settling
  <2>3. \A c \in Custody : LastSettlement(c)' = LastSettlement(c)
    BY <1>000, <2>1
  <2>4. \A c \in Custody : Matches(c) => Matches(c)'
    BY <2>1, <2>2, <2>3 DEF Matches, Closed
  <2>5. \A q \in Request : pc'[q] \in Announced <=> pc[q] \in Announced
    BY <1>3 DEF Insert
  <2> HIDE DEF Announced
  <2> QED
    BY <2>1, <2>3, <2>4, <2>5 DEF OrderOK
<1>4. ASSUME NEW r \in Request, LogStarted(r) PROVE OrderOK'
  <2>1. \A c \in Custody : LastOf(custodyLog'[c]) = LastOf(custodyLog[c])
    BY <1>4, LastKept DEF LogStarted
  <2> QED
    BY <1>4, <2>1, OrderKept DEF LogStarted
<1>5. ASSUME NEW r \in Request, Update(r) PROVE OrderOK'
  BY <1>5, OrderKept DEF Update
<1>6. ASSUME NEW r \in Request, LogSettlement(r) PROVE OrderOK'
  <2>1. /\ TargetEvent[op[r]] \in CustodyEvents
        /\ TargetEvent[op[r]] # "CUSTODY_STARTED"
    BY <1>6 DEF LogSettlement, ControlOK, TargetEvent, Settling, CustodyEvents
  <2>2. LastOf(custodyLog'[on[r]]) = TargetEvent[op[r]]
    BY <1>6, <2>1, LastAppend DEF LogSettlement
  <2>3. \A c \in Custody \ {on[r]} : custodyLog'[c] = custodyLog[c]
    BY <1>6 DEF LogSettlement
  <2>4. /\ UNCHANGED <<custody, on, op, faults>>
        /\ \A q \in Request \ {r} : pc'[q] = pc[q]
        /\ pc[r] = "log" /\ pc'[r] \in Announced
    BY <1>6 DEF LogSettlement, AfterLog, AfterEscrow
  <2>5. \A c \in Custody \ {on[r]} : LastSettlement(c)' = LastSettlement(c)
    BY <1>000, <2>3
  <2>6. \A c \in Custody \ {on[r]} : Matches(c) => Matches(c)'
    BY <2>4, <2>5 DEF Matches, Closed
  <2>8. LastSettlement(on[r])' = TargetEvent[op[r]]
    BY <1>000, <2>2, <2>4
  <2>7. \A q \in Request \ {r} : faults = 0 /\ pc[q] \in Announced => on[q] # on[r]
    BY <1>00, <2>4
  <2> HIDE DEF Announced
  <2> QED
    BY <2>4, <2>5, <2>6, <2>7, <2>8 DEF OrderOK
<1>7. ASSUME NEW r \in Request, LogPetCancelled(r) PROVE OrderOK'
  BY <1>7, OrderKept DEF LogPetCancelled, AfterLog, AfterEscrow
<1>8. ASSUME NEW r \in Request, EscrowUpdate(r) PROVE OrderOK'
  BY <1>8, OrderKept DEF EscrowUpdate
<1>9. ASSUME NEW r \in Request, LogEscrow(r) PROVE OrderOK'
  BY <1>9, OrderKept DEF LogEscrow
<1>10. ASSUME NEW r \in Request, EscrowCommit(r) PROVE OrderOK'
  BY <1>10, OrderKept DEF EscrowCommit, AfterEscrow
<1>11. ASSUME NEW r \in Request, ReadScore(r) PROVE OrderOK'
  BY <1>11, OrderKept DEF ReadScore
<1>12. ASSUME NEW r \in Request, WriteScore(r) PROVE OrderOK'
  BY <1>12, OrderKept DEF WriteScore
<1>13. ASSUME NEW r \in Request, LogScore(r) PROVE OrderOK'
  BY <1>13, OrderKept DEF LogScore
<1>14. ASSUME NEW r \in Request, Commit(r) PROVE OrderOK'
  <2>1. /\ op[r] \in Settling
        /\ custody' = [custody EXCEPT ![on[r]] = Target[op[r]]]
        /\ UNCHANGED <<custodyLog, on, op, faults>>
    BY <1>14 DEF Commit, ControlOK
  <2>2. /\ \A q \in Request \ {r} : pc'[q] = pc[q]
        /\ pc[r] \in Announced /\ pc'[r] \notin Announced
    BY <1>14 DEF Commit
  <2>3. \A c \in Custody : LastSettlement(c)' = LastSettlement(c)
    BY <1>000, <2>1
  <2>4. \A c \in Custody \ {on[r]} : Matches(c) => Matches(c)'
    BY <2>1, <2>3 DEF Matches, Closed
  <2> HIDE DEF Announced
  <2>5. faults = 0 => Matches(on[r])'
    BY <2>1, <2>2, <2>3 DEF OrderOK, Matches
  <2> QED
    BY <2>1, <2>2, <2>3, <2>4, <2>5 DEF OrderOK
<1>15. ASSUME NEW r \in Request, CommitExpired(r) PROVE OrderOK'
  <2>1. faults # 0
    BY <1>15 DEF CommitExpired, LockOK
  <2> QED
    BY <1>15, <2>1 DEF CommitExpired, OrderOK
<1>16. ASSUME NEW r \in Request, Fail(r) PROVE OrderOK'
  <2>1. faults' # 0
    BY <1>16 DEF Fail, TypeOK
  <2> QED
    BY <2>1 DEF OrderOK
<1>17. ASSUME NEW r \in Request, CustodyTxExpires(r) PROVE OrderOK'
  <2>1. faults' # 0
    BY <1>17 DEF CustodyTxExpires, TypeOK
  <2> QED
    BY <2>1 DEF OrderOK
<1>18. ASSUME NEW r \in Request, EscrowTxExpires(r) PROVE OrderOK'
  <2>1. faults' # 0
    BY <1>18 DEF EscrowTxExpires, TypeOK
  <2> QED
    BY <2>1 DEF OrderOK
<1>19. CASE UNCHANGED vars
  BY <1>19, OrderKept DEF vars
<1> QED
  BY <1>1, <1>2, <1>3, <1>4, <1>5, <1>6, <1>7, <1>8, <1>9, <1>10, <1>11,
     <1>12, <1>13, <1>14, <1>15, <1>16, <1>17, <1>18, <1>19
  DEF Next, Begin, Step, Fault

(* Without failures the last settlement event of a custody is the status   *)
(* of its row whenever nobody is writing it: events and commits come in    *)
(* the same order, however many requests race.                              *)
THEOREM LogOrderIsRowOrder == Spec => []LogFollowsRow
<1>1. Init => RowsOK /\ LockOK
  BY ConstantsAssumption DEF Init, RowsOK, LockOK, Locked, HasDeposit
<1>2. Init => OrderOK
  <2> SUFFICES ASSUME Init PROVE OrderOK
    OBVIOUS
  <2>1. ASSUME NEW c \in Custody PROVE LastSettlement(c) = "NONE" /\ ~ Closed(c)
    BY DEF Init, LastSettlement, Closed, Target, Settling
  <2>2. \A r \in Request : pc[r] = "idle"
    BY DEF Init
  <2> QED
    BY <2>1, <2>2 DEF OrderOK, Matches, Announced, Locked
<1>3. TypeOK /\ LockOK /\ OrderOK => LogFollowsRow
  <2> SUFFICES ASSUME TypeOK, LockOK, OrderOK, faults = 0,
                      NEW c \in Custody, custodyLock[c] = NoRequest
               PROVE  \A r \in Request : on[r] = c => pc[r] \notin Announced
    BY DEF LogFollowsRow, OrderOK, Matches
  <2> QED
    BY ConstantsAssumption DEF LockOK, Announced
<1> QED
  BY <1>1, <1>2, <1>3, InitType, TypeStep, TypedRows, ControlStep, RowsStep, LockStep, OrderStep, PTL
  DEF Spec

LoggedScore(u) == IF scoreLog[u] = <<>> THEN StartScore[u]
                  ELSE scoreLog[u][Len(scoreLog[u])].newScore

(* Without failures the score of a user with one custody is that of the    *)
(* last event, except between a write and its event.                       *)
ScoreOK ==
  faults = 0 =>
    \A c \in Custody, u \in User : OnlyCustody(c, u) =>
      /\ \A r \in Request : on[r] = c /\ pc[r] = "slog" =>
           trust[u] = Clamp(read[r] + Delta[op[r]])
      /\ (\A r \in Request : on[r] = c => pc[r] # "slog") =>
           trust[u] = LoggedScore(u)
(* A step that neither writes nor logs a score.                            *)
LEMMA ScoreKept ==
  ASSUME TypeOK, ScoreOK, UNCHANGED <<trust, scoreLog, on, faults>>,
         \A q \in Request :
           /\ pc'[q] = "slog" <=> pc[q] = "slog"
           /\ pc[q] = "slog" => op'[q] = op[q] /\ read'[q] = read[q]
  PROVE  ScoreOK'
<1>1. \A u \in User : LoggedScore(u)' = LoggedScore(u)
  BY DEF LoggedScore
<1>2. \A c \in Custody, u \in User : OnlyCustody(c, u)' <=> OnlyCustody(c, u)
  BY DEF OnlyCustody
<1> QED
  BY <1>1, <1>2 DEF ScoreOK

(* What was appended last is the last entry.                               *)
LEMMA LastEntry ==
  ASSUME NEW S, NEW s \in Seq(S), NEW e \in S
  PROVE  Append(s, e) # <<>> /\ Append(s, e)[Len(Append(s, e))] = e
OBVIOUS

(* All writers of a score of one custody have its row lock.                *)
LEMMA ScoreStep ==
  TypeOK /\ ControlOK /\ LockOK /\ ScoreOK /\ [Next]_vars => ScoreOK'
<1> SUFFICES ASSUME TypeOK, ControlOK, LockOK, ScoreOK, [Next]_vars PROVE ScoreOK'
  OBVIOUS
<1>0. /\ pc \in [Request -> {"idle"} \cup Active \cup Ended]
      /\ op \in [Request -> {"none", "create"} \cup Settling]
      /\ on \in [Request -> Custody]
      /\ read \in [Request -> 0..100]
      /\ trust \in [User -> 0..100]
      /\ Holder \in [Custody -> User]
  BY ConstantsAssumption DEF TypeOK
<1>00. \A r, q \in Request :
         faults = 0 /\ pc[r] \in Locked /\ pc[q] \in Locked /\ on[r] = on[q] => r = q
  BY <1>0 DEF LockOK
<1>000. \A c \in Custody, u \in User, r \in Request :
          OnlyCustody(c, u) /\ Holder[on[r]] = u => on[r] = c
  BY <1>0 DEF OnlyCustody
<1>0000. \A c \in Custody, u \in User : OnlyCustody(c, u)' <=> OnlyCustody(c, u)
  BY DEF OnlyCustody
<1>00000. \A c \in Custody, u \in User : OnlyCustody(c, u) => Holder[c] = u
  BY DEF OnlyCustody
<1> USE <1>0 DEF Goto, Locked, rows, logs, locks
<1>1. ASSUME NEW r \in Request, BeginCreate(r) PROVE ScoreOK'
  BY <1>1, ScoreKept DEF BeginCreate
<1>2. ASSUME NEW r \in Request, NEW o \in Settling, BeginSettle(r, o) PROVE ScoreOK'
  BY <1>2, ScoreKept DEF BeginSettle
<1>3. ASSUME NEW r \in Request, Insert(r) PROVE ScoreOK'
  BY <1>3, ScoreKept DEF Insert
<1>4. ASSUME NEW r \in Request, LogStarted(r) PROVE ScoreOK'
  BY <1>4, ScoreKept DEF LogStarted
<1>5. ASSUME NEW r \in Request, Update(r) PROVE ScoreOK'
  BY <1>5, ScoreKept DEF Update
<1>6. ASSUME NEW r \in Request, LogSettlement(r) PROVE ScoreOK'
  BY <1>6, ScoreKept DEF LogSettlement, AfterLog, AfterEscrow
<1>7. ASSUME NEW r \in Request, LogPetCancelled(r) PROVE ScoreOK'
  BY <1>7, ScoreKept DEF LogPetCancelled, AfterLog, AfterEscrow
<1>8. ASSUME NEW r \in Request, EscrowUpdate(r) PROVE ScoreOK'
  BY <1>8, ScoreKept DEF EscrowUpdate
<1>9. ASSUME NEW r \in Request, LogEscrow(r) PROVE ScoreOK'
  BY <1>9, ScoreKept DEF LogEscrow
<1>10. ASSUME NEW r \in Request, EscrowCommit(r) PROVE ScoreOK'
  BY <1>10, ScoreKept DEF EscrowCommit, AfterEscrow
<1>11. ASSUME NEW r \in Request, ReadScore(r) PROVE ScoreOK'
  BY <1>11, ScoreKept DEF ReadScore
<1>12. ASSUME NEW r \in Request, WriteScore(r) PROVE ScoreOK'
  <2> DEFINE n == Clamp(read[r] + Delta[op[r]])
  <2>1. /\ trust' = [trust EXCEPT ![Holder[on[r]]] = n]
        /\ UNCHANGED <<scoreLog, on, op, read, faults>>
        /\ pc[r] = "swrite" /\ pc' = [pc EXCEPT ![r] = "slog"]
    BY <1>12 DEF WriteScore
  <2>2. \A u \in User : LoggedScore(u)' = LoggedScore(u)
    BY <2>1 DEF LoggedScore
  <2> HIDE DEF n
  <2>3. \A q \in Request \ {r} : faults = 0 /\ pc[q] = "slog" => on[q] # on[r]
    BY <1>00, <2>1
  <2> SUFFICES ASSUME faults = 0, NEW c \in Custody, NEW u \in User, OnlyCustody(c, u)
               PROVE  /\ \A q \in Request : on[q] = c /\ pc'[q] = "slog" =>
                           trust'[u] = Clamp(read[q] + Delta[op[q]])
                      /\ (\A q \in Request : on[q] = c => pc'[q] # "slog") =>
                           trust'[u] = LoggedScore(u)
    BY <1>0000, <2>1, <2>2 DEF ScoreOK
  <2>4. /\ \A q \in Request : on[q] = c /\ pc[q] = "slog" =>
             trust[u] = Clamp(read[q] + Delta[op[q]])
        /\ (\A q \in Request : on[q] = c => pc[q] # "slog") => trust[u] = LoggedScore(u)
    BY DEF ScoreOK
  <2>5. CASE on[r] = c
    <3>1. trust'[u] = n /\ pc'[r] = "slog"
      BY <1>00000, <2>1, <2>5
    <3>2. \A q \in Request : on[q] = c /\ pc'[q] = "slog" => q = r
      BY <2>1, <2>3, <2>5
    <3> QED
      BY <2>5, <3>1, <3>2 DEF n
  <2>6. CASE on[r] # c
    <3>1. Holder[on[r]] # u
      BY <1>000, <2>6
    <3>2. trust'[u] = trust[u]
      BY <2>1, <3>1
    <3>3. \A q \in Request : on[q] = c => pc'[q] = pc[q]
      BY <2>1, <2>6
    <3> QED
      BY <2>4, <3>2, <3>3
  <2> QED
    BY <2>5, <2>6
<1>13. ASSUME NEW r \in Request, LogScore(r) PROVE ScoreOK'
  <2> DEFINE n == Clamp(read[r] + Delta[op[r]])
             v == Holder[on[r]]
             e == [previousScore |-> read[r], newScore |-> n, delta |-> Delta[op[r]]]
             Entries == [previousScore : 0..100, newScore : 0..100, delta : {5, -15}]
  <2>1. /\ scoreLog' = [scoreLog EXCEPT ![v] = Append(@, e)]
        /\ UNCHANGED <<trust, on, op, read, faults>>
        /\ pc[r] = "slog" /\ pc' = [pc EXCEPT ![r] = "commit"]
    BY <1>13 DEF LogScore
  <2>2. /\ scoreLog \in [User -> Seq(Entries)] /\ v \in User
        /\ e \in Entries /\ e.newScore = n
    BY <2>1, NewScoreType DEF TypeOK
  <2> HIDE DEF n, v, e, Entries
  <2>3. scoreLog'[v] = Append(scoreLog[v], e) /\ scoreLog[v] \in Seq(Entries)
    BY <2>1, <2>2
  <2>4. scoreLog'[v] # <<>> /\ scoreLog'[v][Len(scoreLog'[v])] = e
    <3>1. /\ Append(scoreLog[v], e) # <<>>
          /\ Append(scoreLog[v], e)[Len(Append(scoreLog[v], e))] = e
      BY <2>2, <2>3, LastEntry
    <3> QED
      BY <2>3, <3>1
  <2>5. \A u \in User : LoggedScore(u)' = IF scoreLog'[u] = <<>> THEN StartScore[u]
                                          ELSE scoreLog'[u][Len(scoreLog'[u])].newScore
    BY DEF LoggedScore
  <2>6. \A u \in User : u = v => LoggedScore(u)' = n
    BY <2>2, <2>4, <2>5
  <2>7. \A u \in User \ {v} : LoggedScore(u)' = LoggedScore(u)
    BY <2>1, <2>2 DEF LoggedScore
  <2>8. \A q \in Request \ {r} : faults = 0 /\ pc[q] = "slog" => on[q] # on[r]
    BY <1>00, <2>1
  <2> SUFFICES ASSUME faults = 0, NEW c \in Custody, NEW u \in User, OnlyCustody(c, u)
               PROVE  /\ \A q \in Request : on[q] = c /\ pc'[q] = "slog" =>
                           trust[u] = Clamp(read[q] + Delta[op[q]])
                      /\ (\A q \in Request : on[q] = c => pc'[q] # "slog") =>
                           trust[u] = LoggedScore(u)'
    BY <1>0000, <2>1 DEF ScoreOK
  <2>9. /\ \A q \in Request : on[q] = c /\ pc[q] = "slog" =>
             trust[u] = Clamp(read[q] + Delta[op[q]])
        /\ (\A q \in Request : on[q] = c => pc[q] # "slog") => trust[u] = LoggedScore(u)
    BY DEF ScoreOK
  <2>10. CASE on[r] = c
    <3>1. u = v /\ trust[u] = n
      BY <1>00000, <2>1, <2>9, <2>10 DEF v, n
    <3>2. \A q \in Request : on[q] = c => pc'[q] # "slog"
      BY <2>1, <2>8, <2>10
    <3> QED
      BY <2>6, <3>1, <3>2
  <2>11. CASE on[r] # c
    <3>1. u # v
      BY <1>000, <2>11 DEF v
    <3>2. \A q \in Request : on[q] = c => pc'[q] = pc[q]
      BY <2>1, <2>11
    <3> QED
      BY <2>7, <2>9, <3>1, <3>2
  <2> QED
    BY <2>10, <2>11
<1>14. ASSUME NEW r \in Request, Commit(r) PROVE ScoreOK'
  BY <1>14, ScoreKept DEF Commit
<1>15. ASSUME NEW r \in Request, CommitExpired(r) PROVE ScoreOK'
  BY <1>15, ScoreKept DEF CommitExpired
<1>16. ASSUME NEW r \in Request, Fail(r) PROVE ScoreOK'
  <2>1. faults' # 0
    BY <1>16 DEF Fail, TypeOK
  <2> QED
    BY <2>1 DEF ScoreOK
<1>17. ASSUME NEW r \in Request, CustodyTxExpires(r) PROVE ScoreOK'
  <2>1. faults' # 0
    BY <1>17 DEF CustodyTxExpires, TypeOK
  <2> QED
    BY <2>1 DEF ScoreOK
<1>18. ASSUME NEW r \in Request, EscrowTxExpires(r) PROVE ScoreOK'
  <2>1. faults' # 0
    BY <1>18 DEF EscrowTxExpires, TypeOK
  <2> QED
    BY <2>1 DEF ScoreOK
<1>19. CASE UNCHANGED vars
  BY <1>19, ScoreKept DEF vars
<1> QED
  BY <1>1, <1>2, <1>3, <1>4, <1>5, <1>6, <1>7, <1>8, <1>9, <1>10, <1>11,
     <1>12, <1>13, <1>14, <1>15, <1>16, <1>17, <1>18, <1>19
  DEF Next, Begin, Step, Fault

(* Without failures the score of a user with a single custody is the one   *)
(* the last event reports, whenever the row is free: although reading,     *)
(* writing and logging it are three statements, the row lock keeps them    *)
(* together.                                                                *)
THEOREM ScoreIsLogged == Spec => []ScoreFollowsLog
<1>1. Init => LockOK /\ ScoreOK
  <2> SUFFICES ASSUME Init PROVE LockOK /\ ScoreOK
    OBVIOUS
  <2>1. LockOK
    BY ConstantsAssumption DEF Init, LockOK, Locked
  <2>2. \A u \in User : trust[u] = LoggedScore(u)
    BY DEF Init, LoggedScore
  <2>3. \A q \in Request : pc[q] = "idle"
    BY DEF Init
  <2> QED
    BY <2>1, <2>2, <2>3 DEF ScoreOK
<1>2. TypeOK /\ LockOK /\ ScoreOK => ScoreFollowsLog
  <2> SUFFICES ASSUME TypeOK, LockOK, ScoreOK, faults = 0,
                      NEW c \in Custody, custodyLock[c] = NoRequest
               PROVE  \A r \in Request : on[r] = c => pc[r] # "slog"
    BY DEF ScoreFollowsLog, ScoreOK, LoggedScore
  <2> QED
    BY ConstantsAssumption DEF LockOK, Locked
<1> QED
  BY <1>1, <1>2, InitType, TypeStep, TypedRows, ControlStep, LockStep, ScoreStep, PTL DEF Spec
=============================================================================
