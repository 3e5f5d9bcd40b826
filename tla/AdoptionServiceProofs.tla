----------------------- MODULE AdoptionServiceProofs -----------------------
(***************************************************************************)
(* Proofs about AdoptionService for any set of adoptions, users, pets and  *)
(* requests, any seed and any number of failures.                          *)
(***************************************************************************)
EXTENDS AdoptionService, FiniteSetTheorems, TLAPS

-----------------------------------------------------------------------------
(* Type correctness.                                                       *)

(* A request is in the part of a handler that belongs to its operation.    *)
ControlOK ==
  \A r \in Request :
    /\ pc[r] \in {"rcheck", "rlog", "rcommit"} => op[r] = "request"
    /\ pc[r] \in {"update", "commit"} => op[r] \in {"approve", "reject"}
    /\ pc[r] = "dlog" => op[r] = "approve"
    /\ pc[r] \in {"write", "clog"} => op[r] = "complete"
    /\ pc[r] \in {"eupdate", "elog", "ecommit"} => op[r] \in {"release", "refund"}
    /\ pc[r] \in {"aupdate", "pupdate", "alog"} => op[r] = "release" /\ seen[r] # "NONE"

(* A transaction that closes leaves a lock table of requests.              *)
LEMMA CloseType ==
  ASSUME TypeOK, NEW r \in Request, Close(r)
  PROVE  /\ lock' \in [Row -> Request \cup {NoRequest}]
         /\ open' \subseteq Request
BY DEF TypeOK, Close

(* So does one that takes a row.                                           *)
LEMMA TakeRowType ==
  ASSUME TypeOK, NEW r \in Request, NEW row, TakeRow(r, row)
  PROVE  lock' \in [Row -> Request \cup {NoRequest}]
BY DEF TypeOK, TakeRow

(* Every step keeps a request within the handler it began.                 *)
LEMMA ControlStep == TypeOK /\ ControlOK /\ [Next]_vars => ControlOK'
<1> SUFFICES ASSUME TypeOK, ControlOK, [Next]_vars PROVE ControlOK'
  OBVIOUS
<1>0. /\ pc \in [Request -> {"idle"} \cup Active \cup Ended]
      /\ op \in [Request -> {"none", "request", "approve", "reject", "complete",
                             "release", "refund"}]
      /\ seen \in [Request -> AdoptionStatus \cup {"NONE"}]
  BY DEF TypeOK
<1> USE <1>0 DEF ControlOK, Goto
<1>1. ASSUME NEW r \in Request, BeginRequest(r) PROVE ControlOK'
  BY <1>1 DEF BeginRequest
<1>2. ASSUME NEW r \in Request, NEW o \in {"approve", "reject"}, BeginDecision(r, o)
      PROVE  ControlOK'
  BY <1>2 DEF BeginDecision
<1>3. ASSUME NEW r \in Request, BeginComplete(r) PROVE ControlOK'
  BY <1>3 DEF BeginComplete
<1>4. ASSUME NEW r \in Request, NEW o \in {"release", "refund"}, BeginPayout(r, o)
      PROVE  ControlOK'
  BY <1>4 DEF BeginPayout
<1>5. ASSUME NEW r \in Request, CheckActive(r) PROVE ControlOK'
  BY <1>5 DEF CheckActive
<1>6. ASSUME NEW r \in Request, LogRequested(r) PROVE ControlOK'
  BY <1>6 DEF LogRequested
<1>7. ASSUME NEW r \in Request, CommitRequest(r) PROVE ControlOK'
  BY <1>7 DEF CommitRequest
<1>8. ASSUME NEW r \in Request, UpdateAdoption(r) PROVE ControlOK'
  BY <1>8 DEF UpdateAdoption
<1>9. ASSUME NEW r \in Request, LogApproved(r) PROVE ControlOK'
  BY <1>9 DEF LogApproved
<1>10. ASSUME NEW r \in Request, CommitDecision(r) PROVE ControlOK'
  BY <1>10 DEF CommitDecision
<1>11. ASSUME NEW r \in Request, WriteStatus(r) PROVE ControlOK'
  BY <1>11 DEF WriteStatus
<1>12. ASSUME NEW r \in Request, LogStatus(r) PROVE ControlOK'
  BY <1>12 DEF LogStatus
<1>13. ASSUME NEW r \in Request, UpdateEscrow(r) PROVE ControlOK'
  BY <1>13 DEF UpdateEscrow
<1>14. ASSUME NEW r \in Request, LogPayout(r) PROVE ControlOK'
  BY <1>14 DEF LogPayout, Alone
<1>15. ASSUME NEW r \in Request, ReleaseAdoption(r) PROVE ControlOK'
  BY <1>15 DEF ReleaseAdoption
<1>16. ASSUME NEW r \in Request, ReleasePet(r) PROVE ControlOK'
  BY <1>16 DEF ReleasePet
<1>17. ASSUME NEW r \in Request, LogCompleted(r) PROVE ControlOK'
  BY <1>17 DEF LogCompleted
<1>18. ASSUME NEW r \in Request, CommitPayout(r) PROVE ControlOK'
  BY <1>18 DEF CommitPayout
<1>19. ASSUME NEW r \in Request, UseExpired(r) PROVE ControlOK'
  BY <1>19 DEF UseExpired
<1>20. ASSUME NEW r \in Request, Fail(r) PROVE ControlOK'
  BY <1>20 DEF Fail
<1>21. ASSUME NEW r \in Request, TxExpires(r) PROVE ControlOK'
  BY <1>21 DEF TxExpires
<1>22. ASSUME NEW a \in Adoption, Operator(a) PROVE ControlOK'
  BY <1>22 DEF Operator
<1>23. CASE UNCHANGED vars
  BY <1>23 DEF vars
<1> QED
  BY <1>1, <1>2, <1>3, <1>4, <1>5, <1>6, <1>7, <1>8, <1>9, <1>10, <1>11, <1>12,
     <1>13, <1>14, <1>15, <1>16, <1>17, <1>18, <1>19, <1>20, <1>21, <1>22, <1>23
  DEF Next, Begin, Step, Fault

(* Every step keeps the types: what a handler writes is a status of the    *)
(* schema, what it logs an event type, and locks belong to requests.       *)
LEMMA TypeStep == TypeOK /\ ControlOK /\ [Next]_vars => TypeOK'
<1> SUFFICES ASSUME TypeOK, ControlOK, [Next]_vars PROVE TypeOK'
  OBVIOUS
<1> USE ConstantsAssumption DEF TypeOK, Goto, rows, logs, txs, Active, Ended
<1>1. ASSUME NEW r \in Request, BeginRequest(r) PROVE TypeOK'
  <2>1. pc' \in [Request -> {"idle"} \cup Active \cup Ended]
    <3>1. \E l \in {"failed", "rcheck"} : Goto(r, l)
      BY <1>1 DEF BeginRequest
    <3> QED
      BY <3>1
  <2>3. open' \subseteq Request
    <3>1. open' \in {open, open \cup {r}}
      BY <1>1 DEF BeginRequest
    <3> QED
      BY <3>1
  <2>2. op' \in [Request -> {"none", "request", "approve", "reject", "complete",
                            "release", "refund"}]
    BY <1>1 DEF BeginRequest
  <2> QED
    BY <1>1, <2>1, <2>2, <2>3 DEF BeginRequest
<1>2. ASSUME NEW r \in Request, NEW o \in {"approve", "reject"}, BeginDecision(r, o)
      PROVE  TypeOK'
  <2>1. pc' \in [Request -> {"idle"} \cup Active \cup Ended]
    <3>1. \E l \in {"failed", "update"} : Goto(r, l)
      BY <1>2 DEF BeginDecision
    <3> QED
      BY <3>1
  <2>4. open' \subseteq Request
    <3>1. open' \in {open, open \cup {r}}
      BY <1>2 DEF BeginDecision
    <3> QED
      BY <3>1
  <2>2. op' \in [Request -> {"none", "request", "approve", "reject", "complete",
                            "release", "refund"}]
    BY <1>2 DEF BeginDecision
  <2> QED
    BY <1>2, <2>1, <2>2, <2>4 DEF BeginDecision
<1>3. ASSUME NEW r \in Request, BeginComplete(r) PROVE TypeOK'
  BY <1>3 DEF BeginComplete
<1>4. ASSUME NEW r \in Request, NEW o \in {"release", "refund"}, BeginPayout(r, o)
      PROVE  TypeOK'
  <2>1. pc' \in [Request -> {"idle"} \cup Active \cup Ended]
    <3>1. \E l \in {"failed", "eupdate"} : Goto(r, l)
      BY <1>4 DEF BeginPayout
    <3> QED
      BY <3>1
  <2>4. open' \subseteq Request
    <3>1. open' \in {open, open \cup {r}}
      BY <1>4 DEF BeginPayout
    <3> QED
      BY <3>1
  <2>2. op' \in [Request -> {"none", "request", "approve", "reject", "complete",
                            "release", "refund"}]
    BY <1>4 DEF BeginPayout
  <2>3. seen' \in [Request -> AdoptionStatus \cup {"NONE"}]
    BY <1>4 DEF BeginPayout
  <2> QED
    BY <1>4, <2>1, <2>2, <2>3, <2>4 DEF BeginPayout
<1>5. ASSUME NEW r \in Request, CheckActive(r) PROVE TypeOK'
  BY <1>5, CloseType DEF CheckActive
<1>6. ASSUME NEW r \in Request, LogRequested(r) PROVE TypeOK'
  BY <1>6 DEF LogRequested, AdoptionEvent
<1>7. ASSUME NEW r \in Request, CommitRequest(r) PROVE TypeOK'
  BY <1>7, CloseType DEF CommitRequest, AdoptionStatus
<1>8. ASSUME NEW r \in Request, UpdateAdoption(r) PROVE TypeOK'
  BY <1>8, TakeRowType DEF UpdateAdoption
<1>9. ASSUME NEW r \in Request, LogApproved(r) PROVE TypeOK'
  BY <1>9 DEF LogApproved, AdoptionEvent
<1>10. ASSUME NEW r \in Request, CommitDecision(r) PROVE TypeOK'
  BY <1>10, CloseType DEF CommitDecision, Target, AdoptionStatus, ControlOK
<1>11. ASSUME NEW r \in Request, WriteStatus(r) PROVE TypeOK'
  BY <1>11 DEF WriteStatus, Target, AdoptionStatus, ControlOK
<1>12. ASSUME NEW r \in Request, LogStatus(r) PROVE TypeOK'
  <2>1. StatusEvent[Target[op[r]]] \in AdoptionEvent
    BY <1>12 DEF LogStatus, ControlOK, Target, StatusEvent, AdoptionEvent
  <2> QED
    BY <1>12, <2>1 DEF LogStatus
<1>13. ASSUME NEW r \in Request, UpdateEscrow(r) PROVE TypeOK'
  BY <1>13, TakeRowType DEF UpdateEscrow
<1>14. ASSUME NEW r \in Request, LogPayout(r) PROVE TypeOK'
  <2>1. EscrowEvent[op[r]] \in {"ESCROW_RELEASED", "ESCROW_REFUNDED"}
    BY <1>14 DEF LogPayout, ControlOK, EscrowEvent
  <2>2. escrowLog' \in [Adoption -> Seq({"ESCROW_RELEASED", "ESCROW_REFUNDED"})]
    BY <1>14, <2>1 DEF LogPayout
  <2>3. /\ lock' \in [Row -> Request \cup {NoRequest}]
        /\ open' \subseteq Request
        /\ pc' \in [Request -> {"idle"} \cup Active \cup Ended]
    BY <1>14, CloseType DEF LogPayout
  <2> QED
    BY <1>14, <2>2, <2>3 DEF LogPayout
<1>15. ASSUME NEW r \in Request, ReleaseAdoption(r) PROVE TypeOK'
  BY <1>15, TakeRowType DEF ReleaseAdoption
<1>16. ASSUME NEW r \in Request, ReleasePet(r) PROVE TypeOK'
  BY <1>16, TakeRowType DEF ReleasePet
<1>17. ASSUME NEW r \in Request, LogCompleted(r) PROVE TypeOK'
  BY <1>17 DEF LogCompleted, AdoptionEvent
<1>18. ASSUME NEW r \in Request, CommitPayout(r) PROVE TypeOK'
  <2>1. EscrowTarget[op[r]] \in EscrowStatus
    BY <1>18 DEF CommitPayout, EscrowTarget, EscrowStatus, ControlOK
  <2>2. /\ adoption' \in [Adoption -> AdoptionStatus \cup {"NONE"}]
        /\ owner' \in [Pet -> User \cup {NoOwner}]
    <3>1. /\ adoption' \in {adoption, [adoption EXCEPT ![on[r]] = "COMPLETED"]}
          /\ owner' \in {owner, [owner EXCEPT ![PetOf[on[r]]] = Adopter[on[r]]]}
      BY <1>18 DEF CommitPayout
    <3>2. adoption' \in [Adoption -> AdoptionStatus \cup {"NONE"}]
      BY <3>1 DEF AdoptionStatus
    <3>3. Adopter[on[r]] \in User /\ PetOf[on[r]] \in Pet
      OBVIOUS
    <3>4. owner' \in [Pet -> User \cup {NoOwner}]
      BY <3>1, <3>3
    <3> QED
      BY <3>2, <3>4
  <2>3. escrow' \in [Adoption -> EscrowStatus \cup {"NONE"}]
    BY <1>18, <2>1 DEF CommitPayout
  <2>4. /\ lock' \in [Row -> Request \cup {NoRequest}]
        /\ open' \subseteq Request
    BY <1>18, CloseType DEF CommitPayout
  <2>5. pc' \in [Request -> {"idle"} \cup Active \cup Ended]
    BY <1>18 DEF CommitPayout
  <2> QED
    BY <1>18, <2>2, <2>3, <2>4, <2>5 DEF CommitPayout
<1>19. ASSUME NEW r \in Request, UseExpired(r) PROVE TypeOK'
  BY <1>19 DEF UseExpired
<1>20. ASSUME NEW r \in Request, Fail(r) PROVE TypeOK'
  <2>1. faults' \in 0..MaxFaults
    BY <1>20 DEF Fail
  <2> QED
    BY <1>20, <2>1, CloseType DEF Fail
<1>21. ASSUME NEW r \in Request, TxExpires(r) PROVE TypeOK'
  <2>1. faults' \in 0..MaxFaults
    BY <1>21 DEF TxExpires
  <2> QED
    BY <1>21, <2>1, CloseType DEF TxExpires
<1>22. ASSUME NEW a \in Adoption, Operator(a) PROVE TypeOK'
  BY <1>22 DEF Operator, AdoptionStatus, EscrowStatus
<1>23. CASE UNCHANGED vars
  BY <1>23 DEF vars
<1> QED
  BY <1>1, <1>2, <1>3, <1>4, <1>5, <1>6, <1>7, <1>8, <1>9, <1>10, <1>11, <1>12,
     <1>13, <1>14, <1>15, <1>16, <1>17, <1>18, <1>19, <1>20, <1>21, <1>22, <1>23
  DEF Next, Begin, Step, Fault

(* The seed is well typed and no request has begun.                        *)
LEMMA InitType == Init => TypeOK /\ ControlOK
<1> SUFFICES ASSUME Init PROVE TypeOK /\ ControlOK
  OBVIOUS
<1> USE ConstantsAssumption
<1>1. adoptionLog \in [Adoption -> Seq(AdoptionEvent)]
  <2>1. <<>> \in Seq(AdoptionEvent) /\ <<"ADOPTION_APPROVED">> \in Seq(AdoptionEvent)
    BY DEF AdoptionEvent
  <2> QED
    BY <2>1 DEF Init
<1>2. ControlOK
  BY DEF Init, ControlOK
<1>3. /\ adoption \in [Adoption -> AdoptionStatus \cup {"NONE"}]
      /\ escrow \in [Adoption -> EscrowStatus \cup {"NONE"}]
  BY DEF Init, AdoptionStatus, EscrowStatus
<1> QED
  BY <1>1, <1>2, <1>3 DEF Init, TypeOK

(* Every reachable state is well typed: every status one of the schema's,  *)
(* every event one of those the handlers log.                               *)
THEOREM AdoptionTypeCorrect == Spec => []TypeOK
  BY InitType, TypeStep, ControlStep, PTL DEF Spec
-----------------------------------------------------------------------------
(* The log is ahead of the rows.                                          *)

(* What a request relies on: no step deletes a row, so the adoption behind *)
(* an escrow, and the adoption a request has found, are still there; a     *)
(* release has read a status with the escrow.                              *)
RowsOK ==
  /\ \A a \in Adoption : escrow[a] # "NONE" => adoption[a] # "NONE"
  /\ \A r \in Request :
       pc[r] \in Active \ {"rcheck", "rlog", "rcommit"} => adoption[on[r]] # "NONE"
  /\ \A r \in Request : pc[r] \in {"eupdate", "elog", "ecommit"} => seen[r] # "NONE"

(* The first event of a stream, when it has one.                           *)
HeadOK(a) == \/ adoptionLog[a][1] = "ADOPTION_REQUESTED"
             \/ a \in Seeded /\ adoptionLog[a][1] = "ADOPTION_APPROVED"

(* What a request has logged by the time it reaches a control state.       *)
LogsOK ==
  /\ \A a \in Adoption : adoptionLog[a] # <<>> => HeadOK(a)
  /\ \A r \in Request :
       /\ pc[r] = "rcommit" => adoptionLog[on[r]] # <<>>
       /\ pc[r] = "commit" /\ op[r] = "approve" =>
            Logged(adoptionLog[on[r]], "ADOPTION_APPROVED")
       /\ pc[r] \in {"aupdate", "pupdate", "alog", "ecommit"} /\ op[r] = "release" =>
            Logged(escrowLog[on[r]], "ESCROW_RELEASED")
       /\ pc[r] = "ecommit" /\ op[r] = "release" =>
            Logged(adoptionLog[on[r]], "ADOPTION_COMPLETED")
  /\ LogAheadOfRows

(* Every step keeps the rows that requests have found.                     *)
LEMMA RowsStep == TypeOK /\ ControlOK /\ RowsOK /\ [Next]_vars => RowsOK'
<1> SUFFICES ASSUME TypeOK, ControlOK, RowsOK, [Next]_vars PROVE RowsOK'
  OBVIOUS
<1>0. /\ pc \in [Request -> {"idle"} \cup Active \cup Ended]
      /\ on \in [Request -> Adoption]
      /\ op \in [Request -> {"none", "request", "approve", "reject", "complete",
                             "release", "refund"}]
      /\ seen \in [Request -> AdoptionStatus \cup {"NONE"}]
      /\ adoption \in [Adoption -> AdoptionStatus \cup {"NONE"}]
      /\ escrow \in [Adoption -> EscrowStatus \cup {"NONE"}]
  BY DEF TypeOK
<1> USE <1>0 DEF RowsOK, Goto, rows, logs, txs, Active
<1>1. ASSUME NEW r \in Request, BeginRequest(r) PROVE RowsOK'
  BY <1>1 DEF BeginRequest
<1>2. ASSUME NEW r \in Request, NEW o \in {"approve", "reject"}, BeginDecision(r, o)
      PROVE  RowsOK'
  BY <1>2 DEF BeginDecision, Allowed
<1>3. ASSUME NEW r \in Request, BeginComplete(r) PROVE RowsOK'
  BY <1>3 DEF BeginComplete, Allowed
<1>4. ASSUME NEW r \in Request, NEW o \in {"release", "refund"}, BeginPayout(r, o)
      PROVE  RowsOK'
  BY <1>4 DEF BeginPayout
<1>5. ASSUME NEW r \in Request, CheckActive(r) PROVE RowsOK'
  BY <1>5 DEF CheckActive
<1>6. ASSUME NEW r \in Request, LogRequested(r) PROVE RowsOK'
  BY <1>6 DEF LogRequested
<1>7. ASSUME NEW r \in Request, CommitRequest(r) PROVE RowsOK'
  BY <1>7 DEF CommitRequest
<1>8. ASSUME NEW r \in Request, UpdateAdoption(r) PROVE RowsOK'
  BY <1>8 DEF UpdateAdoption
<1>9. ASSUME NEW r \in Request, LogApproved(r) PROVE RowsOK'
  BY <1>9 DEF LogApproved
<1>10. ASSUME NEW r \in Request, CommitDecision(r) PROVE RowsOK'
  BY <1>10 DEF CommitDecision, Target, ControlOK
<1>11. ASSUME NEW r \in Request, WriteStatus(r) PROVE RowsOK'
  BY <1>11 DEF WriteStatus, Target, ControlOK
<1>12. ASSUME NEW r \in Request, LogStatus(r) PROVE RowsOK'
  BY <1>12 DEF LogStatus
<1>13. ASSUME NEW r \in Request, UpdateEscrow(r) PROVE RowsOK'
  BY <1>13 DEF UpdateEscrow
<1>14. ASSUME NEW r \in Request, LogPayout(r) PROVE RowsOK'
  BY <1>14 DEF LogPayout, Alone
<1>15. ASSUME NEW r \in Request, ReleaseAdoption(r) PROVE RowsOK'
  BY <1>15 DEF ReleaseAdoption
<1>16. ASSUME NEW r \in Request, ReleasePet(r) PROVE RowsOK'
  BY <1>16 DEF ReleasePet
<1>17. ASSUME NEW r \in Request, LogCompleted(r) PROVE RowsOK'
  BY <1>17 DEF LogCompleted, ControlOK
<1>18. ASSUME NEW r \in Request, CommitPayout(r) PROVE RowsOK'
  BY <1>18 DEF CommitPayout, Alone
<1>19. ASSUME NEW r \in Request, UseExpired(r) PROVE RowsOK'
  BY <1>19 DEF UseExpired
<1>20. ASSUME NEW r \in Request, Fail(r) PROVE RowsOK'
  BY <1>20 DEF Fail
<1>21. ASSUME NEW r \in Request, TxExpires(r) PROVE RowsOK'
  BY <1>21 DEF TxExpires
<1>22. ASSUME NEW a \in Adoption, Operator(a) PROVE RowsOK'
  BY <1>22 DEF Operator
<1>23. CASE UNCHANGED vars
  BY <1>23 DEF vars
<1> QED
  BY <1>1, <1>2, <1>3, <1>4, <1>5, <1>6, <1>7, <1>8, <1>9, <1>10, <1>11, <1>12,
     <1>13, <1>14, <1>15, <1>16, <1>17, <1>18, <1>19, <1>20, <1>21, <1>22, <1>23
  DEF Next, Begin, Step, Fault

(* An append adds its event, keeps the others and the head.                *)
LEMMA LoggedAppend ==
  ASSUME NEW S, NEW s \in Seq(S), NEW e \in S
  PROVE  /\ Logged(Append(s, e), e)
         /\ \A x : Logged(s, x) => Logged(Append(s, e), x)
         /\ Append(s, e) # <<>>
         /\ s # <<>> => Append(s, e)[1] = s[1]
         /\ s = <<>> => Append(s, e)[1] = e
BY DEF Logged

(* A step appends one event to one stream of each kind at most.            *)
LEMMA OneAppend ==
  ASSUME TypeOK, ControlOK, [Next]_vars
  PROVE  /\ \/ UNCHANGED adoptionLog
            \/ \E a \in Adoption, e \in AdoptionEvent :
                 adoptionLog' = [adoptionLog EXCEPT ![a] = Append(@, e)]
         /\ \/ UNCHANGED escrowLog
            \/ \E a \in Adoption, e \in {"ESCROW_RELEASED", "ESCROW_REFUNDED"} :
                 escrowLog' = [escrowLog EXCEPT ![a] = Append(@, e)]
<1> DEFINE A == \/ UNCHANGED adoptionLog
                \/ \E a \in Adoption, e \in AdoptionEvent :
                     adoptionLog' = [adoptionLog EXCEPT ![a] = Append(@, e)]
           E == \/ UNCHANGED escrowLog
                \/ \E a \in Adoption, e \in {"ESCROW_RELEASED", "ESCROW_REFUNDED"} :
                     escrowLog' = [escrowLog EXCEPT ![a] = Append(@, e)]
<1>0. on \in [Request -> Adoption]
  BY DEF TypeOK
<1>1. ASSUME NEW r \in Request, BeginRequest(r) PROVE A /\ E
  BY <1>1 DEF BeginRequest, logs
<1>2. ASSUME NEW r \in Request, NEW o \in {"approve", "reject"}, BeginDecision(r, o)
      PROVE  A /\ E
  BY <1>2 DEF BeginDecision, logs
<1>3. ASSUME NEW r \in Request, BeginComplete(r) PROVE A /\ E
  BY <1>3 DEF BeginComplete, logs
<1>4. ASSUME NEW r \in Request, NEW o \in {"release", "refund"}, BeginPayout(r, o)
      PROVE  A /\ E
  BY <1>4 DEF BeginPayout, logs
<1>5. ASSUME NEW r \in Request, CheckActive(r) PROVE A /\ E
  BY <1>5 DEF CheckActive, logs
<1>6. ASSUME NEW r \in Request, LogRequested(r) PROVE A /\ E
  <2>1. UNCHANGED escrowLog /\ on[r] \in Adoption
    BY <1>6, <1>0 DEF LogRequested
  <2>2. adoptionLog' = [adoptionLog EXCEPT ![on[r]] = Append(@, "ADOPTION_REQUESTED")]
    BY <1>6 DEF LogRequested
  <2>3. "ADOPTION_REQUESTED" \in AdoptionEvent
    BY <1>6 DEF AdoptionEvent
  <2> QED
    BY <2>1, <2>2, <2>3
<1>7. ASSUME NEW r \in Request, CommitRequest(r) PROVE A /\ E
  BY <1>7 DEF CommitRequest, logs
<1>8. ASSUME NEW r \in Request, UpdateAdoption(r) PROVE A /\ E
  BY <1>8 DEF UpdateAdoption, logs
<1>9. ASSUME NEW r \in Request, LogApproved(r) PROVE A /\ E
  <2>1. UNCHANGED escrowLog /\ on[r] \in Adoption
    BY <1>9, <1>0 DEF LogApproved
  <2>2. adoptionLog' = [adoptionLog EXCEPT ![on[r]] = Append(@, "ADOPTION_APPROVED")]
    BY <1>9 DEF LogApproved
  <2>3. "ADOPTION_APPROVED" \in AdoptionEvent
    BY <1>9 DEF AdoptionEvent
  <2> QED
    BY <2>1, <2>2, <2>3
<1>10. ASSUME NEW r \in Request, CommitDecision(r) PROVE A /\ E
  BY <1>10 DEF CommitDecision, logs
<1>11. ASSUME NEW r \in Request, WriteStatus(r) PROVE A /\ E
  BY <1>11 DEF WriteStatus, logs
<1>12. ASSUME NEW r \in Request, LogStatus(r) PROVE A /\ E
  <2>1. UNCHANGED escrowLog /\ on[r] \in Adoption
    BY <1>12, <1>0 DEF LogStatus
  <2>2. adoptionLog' = [adoptionLog EXCEPT ![on[r]] = Append(@, StatusEvent[Target[op[r]]])]
    BY <1>12 DEF LogStatus
  <2>3. StatusEvent[Target[op[r]]] \in AdoptionEvent
    BY <1>12 DEF LogStatus, ControlOK, Target, StatusEvent, AdoptionEvent
  <2> QED
    BY <2>1, <2>2, <2>3
<1>13. ASSUME NEW r \in Request, UpdateEscrow(r) PROVE A /\ E
  BY <1>13 DEF UpdateEscrow, logs
<1>14. ASSUME NEW r \in Request, LogPayout(r) PROVE A /\ E
  <2>1. UNCHANGED adoptionLog /\ on[r] \in Adoption
    BY <1>14, <1>0 DEF LogPayout
  <2>2. escrowLog' = [escrowLog EXCEPT ![on[r]] = Append(@, EscrowEvent[op[r]])]
    BY <1>14 DEF LogPayout
  <2>3. EscrowEvent[op[r]] \in {"ESCROW_RELEASED", "ESCROW_REFUNDED"}
    BY <1>14 DEF LogPayout, ControlOK, EscrowEvent
  <2> QED
    BY <2>1, <2>2, <2>3
<1>15. ASSUME NEW r \in Request, ReleaseAdoption(r) PROVE A /\ E
  BY <1>15 DEF ReleaseAdoption, logs
<1>16. ASSUME NEW r \in Request, ReleasePet(r) PROVE A /\ E
  BY <1>16 DEF ReleasePet, logs
<1>17. ASSUME NEW r \in Request, LogCompleted(r) PROVE A /\ E
  <2>1. UNCHANGED escrowLog /\ on[r] \in Adoption
    BY <1>17, <1>0 DEF LogCompleted
  <2>2. adoptionLog' = [adoptionLog EXCEPT ![on[r]] = Append(@, "ADOPTION_COMPLETED")]
    BY <1>17 DEF LogCompleted
  <2>3. "ADOPTION_COMPLETED" \in AdoptionEvent
    BY <1>17 DEF AdoptionEvent
  <2> QED
    BY <2>1, <2>2, <2>3
<1>18. ASSUME NEW r \in Request, CommitPayout(r) PROVE A /\ E
  BY <1>18 DEF CommitPayout, logs
<1>19. ASSUME NEW r \in Request, UseExpired(r) PROVE A /\ E
  BY <1>19 DEF UseExpired, logs
<1>20. ASSUME NEW r \in Request, Fail(r) PROVE A /\ E
  BY <1>20 DEF Fail, logs
<1>21. ASSUME NEW r \in Request, TxExpires(r) PROVE A /\ E
  BY <1>21 DEF TxExpires, logs
<1>22. ASSUME NEW a \in Adoption, Operator(a) PROVE A /\ E
  BY <1>22 DEF Operator, logs
<1>23. CASE UNCHANGED vars
  BY <1>23 DEF vars, logs
<1> QED
  BY <1>1, <1>2, <1>3, <1>4, <1>5, <1>6, <1>7, <1>8, <1>9, <1>10, <1>11, <1>12,
     <1>13, <1>14, <1>15, <1>16, <1>17, <1>18, <1>19, <1>20, <1>21, <1>22, <1>23
  DEF Next, Begin, Step, Fault

(* The event log is append-only: an event that is in a stream stays there, *)
(* and the head of a stream stays its head.                                *)
LEMMA LogsGrow ==
  ASSUME TypeOK, ControlOK, [Next]_vars, NEW a \in Adoption
  PROVE  /\ \A x : Logged(adoptionLog[a], x) => Logged(adoptionLog'[a], x)
         /\ \A x : Logged(escrowLog[a], x) => Logged(escrowLog'[a], x)
         /\ adoptionLog[a] # <<>> =>
              adoptionLog'[a] # <<>> /\ adoptionLog'[a][1] = adoptionLog[a][1]
<1> DEFINE Payouts == {"ESCROW_RELEASED", "ESCROW_REFUNDED"}
<1>0. /\ adoptionLog \in [Adoption -> Seq(AdoptionEvent)]
      /\ escrowLog \in [Adoption -> Seq(Payouts)]
  BY DEF TypeOK
<1>1. \/ adoptionLog'[a] = adoptionLog[a]
      \/ \E e \in AdoptionEvent : adoptionLog'[a] = Append(adoptionLog[a], e)
  BY <1>0, OneAppend
<1>2. \/ escrowLog'[a] = escrowLog[a]
      \/ \E e \in Payouts : escrowLog'[a] = Append(escrowLog[a], e)
  BY <1>0, OneAppend
<1>3. adoptionLog[a] \in Seq(AdoptionEvent) /\ escrowLog[a] \in Seq(Payouts)
  BY <1>0
<1>4. /\ \A x : Logged(adoptionLog[a], x) => Logged(adoptionLog'[a], x)
      /\ adoptionLog[a] # <<>> =>
           adoptionLog'[a] # <<>> /\ adoptionLog'[a][1] = adoptionLog[a][1]
  <2>1. CASE adoptionLog'[a] = adoptionLog[a]
    BY <2>1
  <2>2. CASE \E e \in AdoptionEvent : adoptionLog'[a] = Append(adoptionLog[a], e)
    BY <2>2, <1>3, LoggedAppend
  <2> QED
    BY <1>1, <2>1, <2>2
<1>5. \A x : Logged(escrowLog[a], x) => Logged(escrowLog'[a], x)
  <2>1. CASE escrowLog'[a] = escrowLog[a]
    BY <2>1
  <2>2. CASE \E e \in Payouts : escrowLog'[a] = Append(escrowLog[a], e)
    BY <2>2, <1>3, LoggedAppend
  <2> QED
    BY <1>2, <2>1, <2>2
<1> QED
  BY <1>4, <1>5

(* A request that is about to commit has logged what it commits.           *)
LEMMA LogsStep ==
  TypeOK /\ ControlOK /\ RowsOK /\ LogsOK /\ [Next]_vars => LogsOK'
<1> SUFFICES ASSUME TypeOK, ControlOK, RowsOK, LogsOK, [Next]_vars PROVE LogsOK'
  OBVIOUS
<1>0. /\ pc \in [Request -> {"idle"} \cup Active \cup Ended]
      /\ op \in [Request -> {"none", "request", "approve", "reject", "complete",
                             "release", "refund"}]
      /\ on \in [Request -> Adoption]
      /\ adoption \in [Adoption -> AdoptionStatus \cup {"NONE"}]
      /\ escrow \in [Adoption -> EscrowStatus \cup {"NONE"}]
  BY DEF TypeOK
<1>00. \A a \in Adoption :
         /\ \A x : Logged(adoptionLog[a], x) => Logged(adoptionLog'[a], x)
         /\ \A x : Logged(escrowLog[a], x) => Logged(escrowLog'[a], x)
         /\ adoptionLog[a] # <<>> =>
              adoptionLog'[a] # <<>> /\ adoptionLog'[a][1] = adoptionLog[a][1]
  BY LogsGrow
<1>000. /\ adoptionLog \in [Adoption -> Seq(AdoptionEvent)]
        /\ escrowLog \in [Adoption -> Seq({"ESCROW_RELEASED", "ESCROW_REFUNDED"})]
  BY DEF TypeOK
<1> USE <1>0, <1>00 DEF LogsOK, LogAheadOfRows, HeadOK, Goto, rows
<1>1. ASSUME NEW r \in Request, BeginRequest(r) PROVE LogsOK'
  BY <1>1 DEF BeginRequest, logs
<1>2. ASSUME NEW r \in Request, NEW o \in {"approve", "reject"}, BeginDecision(r, o)
      PROVE  LogsOK'
  BY <1>2 DEF BeginDecision, logs
<1>3. ASSUME NEW r \in Request, BeginComplete(r) PROVE LogsOK'
  BY <1>3 DEF BeginComplete, logs
<1>4. ASSUME NEW r \in Request, NEW o \in {"release", "refund"}, BeginPayout(r, o)
      PROVE  LogsOK'
  BY <1>4 DEF BeginPayout, logs
<1>5. ASSUME NEW r \in Request, CheckActive(r) PROVE LogsOK'
  BY <1>5 DEF CheckActive, logs
<1>6. ASSUME NEW r \in Request, LogRequested(r) PROVE LogsOK'
  <2>1. /\ adoptionLog[on[r]] \in Seq(AdoptionEvent)
        /\ "ADOPTION_REQUESTED" \in AdoptionEvent
        /\ adoptionLog'[on[r]] = Append(adoptionLog[on[r]], "ADOPTION_REQUESTED")
        /\ \A a \in Adoption \ {on[r]} : adoptionLog'[a] = adoptionLog[a]
    BY <1>6, <1>000 DEF LogRequested, AdoptionEvent
  <2>2. /\ Logged(adoptionLog'[on[r]], "ADOPTION_REQUESTED")
        /\ adoptionLog'[on[r]] # <<>>
        /\ adoptionLog[on[r]] = <<>> => adoptionLog'[on[r]][1] = "ADOPTION_REQUESTED"
    BY <2>1, LoggedAppend
  <2>4. /\ UNCHANGED <<adoption, escrow, escrowLog, on, op>>
        /\ pc' = [pc EXCEPT ![r] = "rcommit"]
    BY <1>6 DEF LogRequested
  <2> QED
    BY <2>1, <2>2, <2>4
<1>7. ASSUME NEW r \in Request, CommitRequest(r) PROVE LogsOK'
  BY <1>7 DEF CommitRequest, logs
<1>8. ASSUME NEW r \in Request, UpdateAdoption(r) PROVE LogsOK'
  BY <1>8, <1>0 DEF UpdateAdoption, logs, ControlOK
<1>9. ASSUME NEW r \in Request, LogApproved(r) PROVE LogsOK'
  <2>1. /\ adoptionLog[on[r]] \in Seq(AdoptionEvent)
        /\ "ADOPTION_APPROVED" \in AdoptionEvent
        /\ adoptionLog'[on[r]] = Append(adoptionLog[on[r]], "ADOPTION_APPROVED")
        /\ \A a \in Adoption \ {on[r]} : adoptionLog'[a] = adoptionLog[a]
    BY <1>9, <1>000 DEF LogApproved, AdoptionEvent
  <2>2. /\ Logged(adoptionLog'[on[r]], "ADOPTION_APPROVED")
        /\ adoptionLog'[on[r]] # <<>>
    BY <2>1, LoggedAppend
  <2>3. adoptionLog[on[r]] # <<>>
    BY <1>9 DEF LogApproved, RowsOK, Active
  <2>4. /\ UNCHANGED <<adoption, escrow, escrowLog, on, op>>
        /\ pc' = [pc EXCEPT ![r] = "commit"]
    BY <1>9 DEF LogApproved
  <2> QED
    BY <2>1, <2>2, <2>3, <2>4
<1>10. ASSUME NEW r \in Request, CommitDecision(r) PROVE LogsOK'
  BY <1>10 DEF CommitDecision, logs, Target, ControlOK, RowsOK, Active
<1>11. ASSUME NEW r \in Request, WriteStatus(r) PROVE LogsOK'
  BY <1>11 DEF WriteStatus, logs, Target, ControlOK, RowsOK, Active
<1>12. ASSUME NEW r \in Request, LogStatus(r) PROVE LogsOK'
  <2>1. /\ \A a \in Adoption \ {on[r]} : adoptionLog'[a] = adoptionLog[a]
        /\ adoptionLog[on[r]] # <<>>
    BY <1>12 DEF LogStatus, RowsOK, Active
  <2> QED
    BY <1>12, <2>1 DEF LogStatus
<1>13. ASSUME NEW r \in Request, UpdateEscrow(r) PROVE LogsOK'
  BY <1>13 DEF UpdateEscrow, logs
<1>14. ASSUME NEW r \in Request, LogPayout(r) PROVE LogsOK'
  <2>1. EscrowEvent[op[r]] \in {"ESCROW_RELEASED", "ESCROW_REFUNDED"}
    BY <1>14 DEF LogPayout, ControlOK, EscrowEvent
  <2>2. Logged(escrowLog'[on[r]], EscrowEvent[op[r]])
    BY <1>14, <1>000, <2>1, LoggedAppend DEF LogPayout
  <2>3. op[r] = "release" => EscrowEvent[op[r]] = "ESCROW_RELEASED"
    BY DEF EscrowEvent
  <2>4. UNCHANGED <<adoption, escrow, adoptionLog, on, op>>
    BY <1>14 DEF LogPayout
  <2>5. /\ \A q \in Request \ {r} : pc'[q] = pc[q]
        /\ pc'[r] \in {"ecommit", "aupdate", "failed"}
    BY <1>14 DEF LogPayout
  <2>6. pc'[r] = "ecommit" => op[r] = "refund"
    BY <1>14 DEF LogPayout, Alone, RowsOK
  <2>7. \A a \in Adoption : adoptionLog'[a] # <<>> => HeadOK(a)'
    BY <2>4
  <2>8. LogAheadOfRows'
    BY <2>4
  <2>9. ASSUME NEW q \in Request
        PROVE  /\ pc'[q] = "rcommit" => adoptionLog'[on'[q]] # <<>>
               /\ pc'[q] = "commit" /\ op'[q] = "approve" =>
                    Logged(adoptionLog'[on'[q]], "ADOPTION_APPROVED")
               /\ pc'[q] \in {"aupdate", "pupdate", "alog", "ecommit"} /\ op'[q] = "release" =>
                    Logged(escrowLog'[on'[q]], "ESCROW_RELEASED")
               /\ pc'[q] = "ecommit" /\ op'[q] = "release" =>
                    Logged(adoptionLog'[on'[q]], "ADOPTION_COMPLETED")
    <3>1. CASE q = r
      BY <2>2, <2>3, <2>4, <2>5, <2>6, <3>1
    <3>2. CASE q # r
      BY <2>4, <2>5, <3>2
    <3> QED
      BY <3>1, <3>2
  <2> QED
    BY <2>7, <2>8, <2>9
<1>15. ASSUME NEW r \in Request, ReleaseAdoption(r) PROVE LogsOK'
  BY <1>15 DEF ReleaseAdoption, logs
<1>16. ASSUME NEW r \in Request, ReleasePet(r) PROVE LogsOK'
  BY <1>16 DEF ReleasePet, logs
<1>17. ASSUME NEW r \in Request, LogCompleted(r) PROVE LogsOK'
  <2>1. /\ adoptionLog[on[r]] \in Seq(AdoptionEvent)
        /\ "ADOPTION_COMPLETED" \in AdoptionEvent
        /\ adoptionLog'[on[r]] = Append(adoptionLog[on[r]], "ADOPTION_COMPLETED")
        /\ \A a \in Adoption \ {on[r]} : adoptionLog'[a] = adoptionLog[a]
    BY <1>17, <1>000 DEF LogCompleted, AdoptionEvent
  <2>2. /\ Logged(adoptionLog'[on[r]], "ADOPTION_COMPLETED")
        /\ adoptionLog'[on[r]] # <<>>
    BY <2>1, LoggedAppend
  <2>3. adoptionLog[on[r]] # <<>>
    BY <1>17 DEF LogCompleted, RowsOK, Active
  <2>4. /\ UNCHANGED <<adoption, escrow, escrowLog, on, op>>
        /\ pc[r] = "alog"
        /\ pc' = [pc EXCEPT ![r] = "ecommit"]
    BY <1>17 DEF LogCompleted
  <2> QED
    BY <2>1, <2>2, <2>3, <2>4
<1>18. ASSUME NEW r \in Request, CommitPayout(r) PROVE LogsOK'
  BY <1>18 DEF CommitPayout, logs, Alone, EscrowTarget, ControlOK, RowsOK, Active
<1>19. ASSUME NEW r \in Request, UseExpired(r) PROVE LogsOK'
  BY <1>19 DEF UseExpired, logs
<1>20. ASSUME NEW r \in Request, Fail(r) PROVE LogsOK'
  BY <1>20 DEF Fail, logs
<1>21. ASSUME NEW r \in Request, TxExpires(r) PROVE LogsOK'
  BY <1>21 DEF TxExpires, logs
<1>22. ASSUME NEW a \in Adoption, Operator(a) PROVE LogsOK'
  BY <1>22 DEF Operator, logs
<1>23. CASE UNCHANGED vars
  BY <1>23 DEF vars, logs
<1> QED
  BY <1>1, <1>2, <1>3, <1>4, <1>5, <1>6, <1>7, <1>8, <1>9, <1>10, <1>11, <1>12,
     <1>13, <1>14, <1>15, <1>16, <1>17, <1>18, <1>19, <1>20, <1>21, <1>22, <1>23
  DEF Next, Begin, Step, Fault

(* Whoever sees an adoption finds its request at the head of its stream,   *)
(* whoever sees it approved finds the approval, and a released escrow has   *)
(* both its release and the completion of its adoption in the log: for any  *)
(* interleaving of requests, failure and expiry of transactions.            *)
THEOREM RowsNeverAheadOfLog == Spec => []LogAheadOfRows
<1>1. Init => RowsOK
  BY ConstantsAssumption DEF Init, RowsOK, Active
<1>2. Init => LogsOK
  BY ConstantsAssumption DEF Init, LogsOK, HeadOK, LogAheadOfRows, Logged
<1>3. LogsOK => LogAheadOfRows
  BY DEF LogsOK
<1> QED
  BY <1>1, <1>2, <1>3, InitType, TypeStep, ControlStep, RowsStep, LogsStep, PTL DEF Spec

-----------------------------------------------------------------------------
(* Escrow, adoption and pet change hands together.                         *)

(* What AtomicRelease says of one step.                                    *)
ReleaseStep ==
  /\ \A a \in Adoption :
       escrow'[a] = "RELEASED" /\ escrow[a] # "RELEASED" =>
         adoption'[a] = "COMPLETED" /\ owner'[PetOf[a]] = Adopter[a]
  /\ \A p \in Pet :
       owner'[p] # owner[p] =>
         \E a \in Adoption : /\ PetOf[a] = p
                             /\ owner'[p] = Adopter[a]
                             /\ escrow'[a] = "RELEASED"

(* Only CommitPayout moves a pet or releases an escrow, and a release that *)
(* has read a status with the escrow does both.                            *)
LEMMA AtomicStep ==
  TypeOK /\ ControlOK /\ RowsOK /\ [Next]_vars => ReleaseStep
<1> SUFFICES ASSUME TypeOK, ControlOK, RowsOK, [Next]_vars PROVE ReleaseStep
  OBVIOUS
<1>0. /\ on \in [Request -> Adoption]
      /\ adoption \in [Adoption -> AdoptionStatus \cup {"NONE"}]
      /\ escrow \in [Adoption -> EscrowStatus \cup {"NONE"}]
      /\ owner \in [Pet -> User \cup {NoOwner}]
  BY DEF TypeOK
<1> USE ConstantsAssumption, <1>0
<1>1. ASSUME NEW r \in Request, BeginRequest(r) PROVE ReleaseStep
  BY <1>1 DEF BeginRequest, rows, ReleaseStep
<1>2. ASSUME NEW r \in Request, NEW o \in {"approve", "reject"}, BeginDecision(r, o)
      PROVE  ReleaseStep
  BY <1>2 DEF BeginDecision, rows, ReleaseStep
<1>3. ASSUME NEW r \in Request, BeginComplete(r) PROVE ReleaseStep
  BY <1>3 DEF BeginComplete, rows, ReleaseStep
<1>4. ASSUME NEW r \in Request, NEW o \in {"release", "refund"}, BeginPayout(r, o)
      PROVE  ReleaseStep
  BY <1>4 DEF BeginPayout, rows, ReleaseStep
<1>5. ASSUME NEW r \in Request, CheckActive(r) PROVE ReleaseStep
  BY <1>5 DEF CheckActive, rows, ReleaseStep
<1>6. ASSUME NEW r \in Request, LogRequested(r) PROVE ReleaseStep
  BY <1>6 DEF LogRequested, rows, ReleaseStep
<1>7. ASSUME NEW r \in Request, CommitRequest(r) PROVE ReleaseStep
  BY <1>7 DEF CommitRequest, rows, ReleaseStep, ReleaseStep
<1>8. ASSUME NEW r \in Request, UpdateAdoption(r) PROVE ReleaseStep
  BY <1>8 DEF UpdateAdoption, rows, ReleaseStep
<1>9. ASSUME NEW r \in Request, LogApproved(r) PROVE ReleaseStep
  BY <1>9 DEF LogApproved, rows, ReleaseStep
<1>10. ASSUME NEW r \in Request, CommitDecision(r) PROVE ReleaseStep
  BY <1>10 DEF CommitDecision, rows, ReleaseStep, ReleaseStep
<1>11. ASSUME NEW r \in Request, WriteStatus(r) PROVE ReleaseStep
  BY <1>11 DEF WriteStatus, rows, ReleaseStep, ReleaseStep
<1>12. ASSUME NEW r \in Request, LogStatus(r) PROVE ReleaseStep
  BY <1>12 DEF LogStatus, rows, ReleaseStep
<1>13. ASSUME NEW r \in Request, UpdateEscrow(r) PROVE ReleaseStep
  BY <1>13 DEF UpdateEscrow, rows, ReleaseStep
<1>14. ASSUME NEW r \in Request, LogPayout(r) PROVE ReleaseStep
  BY <1>14 DEF LogPayout, rows, ReleaseStep
<1>15. ASSUME NEW r \in Request, ReleaseAdoption(r) PROVE ReleaseStep
  BY <1>15 DEF ReleaseAdoption, rows, ReleaseStep
<1>16. ASSUME NEW r \in Request, ReleasePet(r) PROVE ReleaseStep
  BY <1>16 DEF ReleasePet, rows, ReleaseStep
<1>17. ASSUME NEW r \in Request, LogCompleted(r) PROVE ReleaseStep
  BY <1>17 DEF LogCompleted, rows, ReleaseStep
<1>18. ASSUME NEW r \in Request, CommitPayout(r) PROVE ReleaseStep
  <2>1. CASE op[r] = "refund"
    <3>1. UNCHANGED owner
      BY <1>18, <2>1 DEF CommitPayout, Alone
    <3>2. \A b \in Adoption : escrow'[b] \in {escrow[b], "REFUNDED"}
      BY <1>18, <2>1 DEF CommitPayout, EscrowTarget
    <3> QED
      BY <3>1, <3>2 DEF ReleaseStep
  <2>2. CASE op[r] = "release"
    <3>1. ~ Alone(r)
      BY <1>18, <2>2 DEF CommitPayout, Alone, RowsOK
    <3>2. /\ escrow' = [escrow EXCEPT ![on[r]] = "RELEASED"]
          /\ adoption' = [adoption EXCEPT ![on[r]] = "COMPLETED"]
          /\ owner' = [owner EXCEPT ![PetOf[on[r]]] = Adopter[on[r]]]
      BY <1>18, <2>2, <3>1 DEF CommitPayout, EscrowTarget
    <3> QED
      BY <3>2 DEF ReleaseStep
  <2> QED
    BY <1>18, <2>1, <2>2 DEF CommitPayout, ControlOK
<1>19. ASSUME NEW r \in Request, UseExpired(r) PROVE ReleaseStep
  BY <1>19 DEF UseExpired, rows, ReleaseStep
<1>20. ASSUME NEW r \in Request, Fail(r) PROVE ReleaseStep
  BY <1>20 DEF Fail, rows, ReleaseStep
<1>21. ASSUME NEW r \in Request, TxExpires(r) PROVE ReleaseStep
  BY <1>21 DEF TxExpires, rows, ReleaseStep
<1>22. ASSUME NEW a \in Adoption, Operator(a) PROVE ReleaseStep
  <2>1. UNCHANGED owner
    BY <1>22 DEF Operator
  <2>2. \A b \in Adoption : escrow'[b] \in {escrow[b], "FUNDED"}
    BY <1>22 DEF Operator
  <2> QED
    BY <2>1, <2>2 DEF ReleaseStep
<1>23. CASE UNCHANGED vars
  BY <1>23 DEF vars, rows, ReleaseStep
<1> QED
  BY <1>1, <1>2, <1>3, <1>4, <1>5, <1>6, <1>7, <1>8, <1>9, <1>10, <1>11, <1>12,
     <1>13, <1>14, <1>15, <1>16, <1>17, <1>18, <1>19, <1>20, <1>21, <1>22, <1>23
  DEF Next, Begin, Step, Fault

(* Whenever an escrow becomes RELEASED its adoption is COMPLETED and the    *)
(* pet is the adopter's in the same step, and no pet changes owner in any   *)
(* other way: the three rows of releaseEscrow commit together.              *)
THEOREM ReleaseIsAtomic == Spec => AtomicRelease
<1>1. Init => RowsOK
  BY ConstantsAssumption DEF Init, RowsOK, Active
<1>2. TypeOK /\ ControlOK /\ RowsOK /\ [Next]_vars => [ReleaseStep]_vars
  BY AtomicStep
<1> QED
  BY <1>1, <1>2, InitType, TypeStep, ControlStep, RowsStep, PTL
  DEF Spec, AtomicRelease, ReleaseStep


-----------------------------------------------------------------------------
(* Events of what did not happen.                                          *)

(* The four parts a request can have in the account of an adoption: what   *)
(* it logged is, or may still be, committed; the same of the payout; its   *)
(* release was refused; its transaction expired and it has not noticed.    *)
IsReported(r) ==
  \/ op[r] = "request"  /\ pc[r] \in {"rcommit", "done"}
  \/ op[r] = "approve"  /\ pc[r] \in {"commit", "done"}
  \/ op[r] = "complete" /\ pc[r] = "done"
  \/ op[r] = "release"  /\ pc[r] \in {"ecommit", "done"} /\ ~ Alone(r)

IsPaidOut(r) ==
  /\ op[r] \in {"release", "refund"}
  /\ pc[r] \in {"aupdate", "pupdate", "alog", "ecommit", "done"}

IsRefused(r) ==
  /\ op[r] = "release"
  /\ pc[r] = "failed"
  /\ ~ Alone(r)
  /\ ~ AdoptionCanTransition(seen[r], "COMPLETED")

IsDoomed(r) ==
  /\ pc[r] \in Active \ {"write", "clog"}
  /\ r \notin open

Doomed(a) == {r \in Request : on[r] = a /\ IsDoomed(r)}

(* An event whose request lost its transaction has been paid for although  *)
(* the request may still be counted among those that report it.            *)
Account ==
  \A a \in Adoption :
    /\ Cardinality(Reported(a)) <= Len(adoptionLog[a]) - Seeds(a)
    /\ Len(adoptionLog[a]) - Seeds(a) - Cardinality(Reported(a)) + Cardinality(Doomed(a))
         <= faults
    /\ Cardinality(PaidOut(a)) <= Len(escrowLog[a])
    /\ Len(escrowLog[a]) - Cardinality(PaidOut(a)) + Cardinality(Doomed(a))
         <= faults + Cardinality(Refused(a))

(* A step of a request changes nothing of the others.                      *)
Moves(r) ==
  /\ UNCHANGED on
  /\ \A q \in Request \ {r} :
       /\ pc'[q] = pc[q] /\ op'[q] = op[q] /\ seen'[q] = seen[q]
       /\ q \in open' <=> q \in open

(* What a step of a request does to the account of the adoption's events.  *)
AdoptionEntry(r) ==
  \/ /\ UNCHANGED adoptionLog
     /\ IsReported(r)' => IsReported(r)
     /\ \/ /\ faults' = faults + 1
           /\ IsDoomed(r)' => IsDoomed(r) \/ (IsReported(r) => IsReported(r)')
        \/ /\ faults' = faults
           /\ IsDoomed(r)' => IsDoomed(r)
           /\ IsReported(r) => IsReported(r)' \/ (IsDoomed(r) /\ ~ IsDoomed(r)')
  \/ /\ \E e \in AdoptionEvent :
          /\ adoptionLog' = [adoptionLog EXCEPT ![on[r]] = Append(@, e)]
          /\ e = "ADOPTION_APPROVED" => adoptionLog[on[r]] # <<>>
     /\ ~ IsReported(r) /\ IsReported(r)'
     /\ IsDoomed(r)' => IsDoomed(r)
     /\ faults' = faults

(* The same for the events of its escrow.                                  *)
EscrowEntry(r) ==
  /\ IsRefused(r) => IsRefused(r)'
  /\ \/ /\ UNCHANGED escrowLog
        /\ IsPaidOut(r)' => IsPaidOut(r)
        /\ \/ /\ faults' = faults + 1
              /\ IsDoomed(r)' => IsDoomed(r) \/ (IsPaidOut(r) => IsPaidOut(r)')
           \/ /\ faults' = faults
              /\ IsDoomed(r)' => IsDoomed(r)
              /\ IsPaidOut(r) => IsPaidOut(r)' \/ (IsDoomed(r) /\ ~ IsDoomed(r)')
     \/ /\ \E e \in {"ESCROW_RELEASED", "ESCROW_REFUNDED"} :
             escrowLog' = [escrowLog EXCEPT ![on[r]] = Append(@, e)]
        /\ ~ IsPaidOut(r)
        /\ IsPaidOut(r)' \/ (IsRefused(r)' /\ ~ IsRefused(r))
        /\ IsDoomed(r)' => IsDoomed(r)
        /\ faults' = faults

Entry(r) == Moves(r) /\ AdoptionEntry(r) /\ EscrowEntry(r)

(* A request that begins reports nothing yet, and its transaction is open. *)
LEMMA BeginEntry ==
  ASSUME TypeOK, NEW r \in Request, Begin(r)
  PROVE  Entry(r)
<1>0. /\ pc \in [Request -> {"idle"} \cup Active \cup Ended]
      /\ op \in [Request -> {"none", "request", "approve", "reject", "complete",
                             "release", "refund"}]
      /\ seen \in [Request -> AdoptionStatus \cup {"NONE"}]
      /\ faults \in Int
  BY DEF TypeOK
<1> DEFINE Moved(S) == /\ pc[r] = "idle"
                       /\ \A q \in Request \ {r} : /\ pc'[q] = pc[q] /\ op'[q] = op[q]
                                                   /\ seen'[q] = seen[q]
                                                   /\ q \in open' <=> q \in open
                       /\ pc'[r] \in S
                       /\ pc'[r] \in {"write", "failed"} \/ r \in open'
                       /\ UNCHANGED <<adoptionLog, escrowLog, on, faults>>
<1>1. Moved({"failed", "rcheck", "update", "write", "eupdate"})
  <2>1. ASSUME BeginRequest(r) PROVE Moved({"failed", "rcheck"})
    BY <1>0, <2>1 DEF BeginRequest, Goto, logs
  <2>2. ASSUME NEW o \in {"approve", "reject"}, BeginDecision(r, o)
        PROVE  Moved({"failed", "update"})
    BY <1>0, <2>2 DEF BeginDecision, Goto, logs
  <2>3. ASSUME BeginComplete(r) PROVE Moved({"failed", "write"})
    BY <1>0, <2>3 DEF BeginComplete, Goto, logs, txs
  <2>4. ASSUME NEW o \in {"release", "refund"}, BeginPayout(r, o)
        PROVE  Moved({"failed", "eupdate"})
    BY <1>0, <2>4 DEF BeginPayout, Goto, logs
  <2> QED
    BY <2>1, <2>2, <2>3, <2>4 DEF Begin
<1>2. ~ IsReported(r)' /\ ~ IsPaidOut(r)' /\ ~ IsDoomed(r)' /\ ~ IsRefused(r)
  BY <1>1 DEF IsReported, IsPaidOut, IsDoomed, IsRefused, Active
<1>3. ~ IsReported(r) /\ ~ IsPaidOut(r) /\ ~ IsDoomed(r)
  BY <1>1 DEF IsReported, IsPaidOut, IsDoomed, Active
<1> QED
  BY <1>1, <1>2, <1>3 DEF Entry, Moves, AdoptionEntry, EscrowEntry


(* A statement or a commit reports at most the event it has just logged.   *)
LEMMA StepEntry ==
  ASSUME TypeOK, ControlOK, RowsOK, LogsOK, NEW r \in Request, Step(r)
  PROVE  Entry(r)
<1>0. /\ pc \in [Request -> {"idle"} \cup Active \cup Ended]
      /\ on \in [Request -> Adoption]
      /\ faults \in Int
  BY DEF TypeOK
<1>00. UNCHANGED <<op, seen>> => (Alone(r)' <=> Alone(r))
  BY DEF Alone
<1> USE <1>0, <1>00 DEF Entry, Moves, Goto, logs, txs, IsReported, IsPaidOut, IsDoomed,
                        IsRefused
<1>1. ASSUME CheckActive(r) PROVE Entry(r)
  <2>1. Moves(r)
    BY <1>1 DEF CheckActive, Close
  <2>2. op[r] = "request"
    BY <1>1 DEF CheckActive, ControlOK
  <2> QED
    BY <1>1, <2>1, <2>2 DEF CheckActive, Close, AdoptionEntry, EscrowEntry, Active
<1>2. ASSUME LogRequested(r) PROVE Entry(r)
  <2>1. op[r] = "request"
    BY <1>2 DEF LogRequested, ControlOK
  <2> QED
    BY <1>2, <2>1 DEF LogRequested, AdoptionEntry, EscrowEntry, Active, AdoptionEvent
<1>3. ASSUME CommitRequest(r) PROVE Entry(r)
  <2>1. Moves(r)
    BY <1>3 DEF CommitRequest, Close
  <2>2. op[r] = "request"
    BY <1>3 DEF CommitRequest, ControlOK
  <2> QED
    BY <1>3, <2>1, <2>2 DEF CommitRequest, AdoptionEntry, EscrowEntry, Active
<1>4. ASSUME UpdateAdoption(r) PROVE Entry(r)
  <2>1. op[r] \in {"approve", "reject"}
    BY <1>4 DEF UpdateAdoption, ControlOK
  <2> QED
    BY <1>4, <2>1 DEF UpdateAdoption, AdoptionEntry, EscrowEntry, Active
<1>5. ASSUME LogApproved(r) PROVE Entry(r)
  <2>1. op[r] = "approve" /\ adoptionLog[on[r]] # <<>>
    BY <1>5 DEF LogApproved, ControlOK, RowsOK, LogsOK, LogAheadOfRows, Active
  <2> QED
    BY <1>5, <2>1 DEF LogApproved, AdoptionEntry, EscrowEntry, Active, AdoptionEvent
<1>6. ASSUME CommitDecision(r) PROVE Entry(r)
  <2>1. Moves(r)
    BY <1>6 DEF CommitDecision, Close
  <2>2. op[r] \in {"approve", "reject"}
    BY <1>6 DEF CommitDecision, ControlOK
  <2> QED
    BY <1>6, <2>1, <2>2 DEF CommitDecision, AdoptionEntry, EscrowEntry, Active
<1>7. ASSUME WriteStatus(r) PROVE Entry(r)
  BY <1>7 DEF WriteStatus, AdoptionEntry, EscrowEntry, Active
<1>8. ASSUME LogStatus(r) PROVE Entry(r)
  <2>1. op[r] = "complete"
    BY <1>8 DEF LogStatus, ControlOK
  <2>2. StatusEvent[Target[op[r]]] = "ADOPTION_COMPLETED"
    BY <2>1 DEF Target, StatusEvent
  <2>3. adoptionLog' = [adoptionLog EXCEPT ![on[r]] = Append(@, "ADOPTION_COMPLETED")]
    BY <1>8, <2>2 DEF LogStatus
  <2> QED
    BY <1>8, <2>1, <2>3 DEF LogStatus, AdoptionEntry, EscrowEntry, Active, AdoptionEvent
<1>9. ASSUME UpdateEscrow(r) PROVE Entry(r)
  BY <1>9 DEF UpdateEscrow, AdoptionEntry, EscrowEntry, Active
<1>10. ASSUME LogPayout(r) PROVE Entry(r)
  <2>1. /\ op[r] \in {"release", "refund"}
        /\ EscrowEvent[op[r]] \in {"ESCROW_RELEASED", "ESCROW_REFUNDED"}
    BY <1>10 DEF LogPayout, ControlOK, EscrowEvent
  <2>2. Moves(r)
    BY <1>10 DEF LogPayout, Close
  <2>3. UNCHANGED <<adoptionLog, on, op, seen, faults>> /\ pc[r] = "elog"
    BY <1>10 DEF LogPayout
  <2>4. escrowLog' = [escrowLog EXCEPT ![on[r]] = Append(@, EscrowEvent[op[r]])]
    BY <1>10 DEF LogPayout
  <2>5. \/ pc'[r] = "ecommit" /\ Alone(r) /\ open' = open
        \/ pc'[r] = "aupdate" /\ open' = open
        \/ /\ pc'[r] = "failed"
           /\ ~ Alone(r) /\ ~ AdoptionCanTransition(seen[r], "COMPLETED")
    BY <1>10 DEF LogPayout
  <2>6. IsDoomed(r)' => IsDoomed(r)
    BY <2>3, <2>5 DEF Active
  <2>7. ~ IsReported(r) /\ ~ IsReported(r)' /\ ~ IsPaidOut(r) /\ ~ IsRefused(r)
    BY <2>1, <2>3, <2>5
  <2>8. IsPaidOut(r)' \/ IsRefused(r)'
    BY <2>1, <2>3, <2>5 DEF Alone
  <2>9. AdoptionEntry(r)
    BY <2>3, <2>6, <2>7 DEF AdoptionEntry
  <2>10. EscrowEntry(r)
    BY <2>1, <2>3, <2>4, <2>6, <2>7, <2>8 DEF EscrowEntry
  <2> QED
    BY <2>2, <2>9, <2>10
<1>11. ASSUME ReleaseAdoption(r) PROVE Entry(r)
  BY <1>11 DEF ReleaseAdoption, AdoptionEntry, EscrowEntry, Active
<1>12. ASSUME ReleasePet(r) PROVE Entry(r)
  BY <1>12 DEF ReleasePet, AdoptionEntry, EscrowEntry, Active
<1>13. ASSUME LogCompleted(r) PROVE Entry(r)
  <2>1. op[r] = "release" /\ ~ Alone(r)
    BY <1>13 DEF LogCompleted, ControlOK, Alone
  <2> QED
    BY <1>13, <2>1 DEF LogCompleted, AdoptionEntry, EscrowEntry, Active, AdoptionEvent
<1>14. ASSUME CommitPayout(r) PROVE Entry(r)
  <2>1. Moves(r)
    BY <1>14 DEF CommitPayout, Close
  <2>2. op[r] \in {"release", "refund"}
    BY <1>14 DEF CommitPayout, ControlOK
  <2> QED
    BY <1>14, <2>1, <2>2 DEF CommitPayout, AdoptionEntry, EscrowEntry, Active
<1>15. ASSUME UseExpired(r) PROVE Entry(r)
  BY <1>15 DEF UseExpired, AdoptionEntry, EscrowEntry, Active
<1> QED
  BY <1>1, <1>2, <1>3, <1>4, <1>5, <1>6, <1>7, <1>8, <1>9, <1>10, <1>11, <1>12,
     <1>13, <1>14, <1>15 DEF Step

(* A failure or an expiry takes back one event of a request at most.       *)
LEMMA FaultEntry ==
  ASSUME TypeOK, ControlOK, NEW r \in Request, Fault(r)
  PROVE  Entry(r)
<1>0. /\ pc \in [Request -> {"idle"} \cup Active \cup Ended]
      /\ faults \in Int
  BY DEF TypeOK
<1> USE <1>0 DEF Moves, Goto, logs, IsReported, IsPaidOut, IsDoomed, IsRefused
<1>1. ASSUME Fail(r) PROVE Entry(r)
  <2>1. Moves(r)
    BY <1>1 DEF Fail, Close
  <2>2. /\ UNCHANGED <<adoptionLog, escrowLog>> /\ faults' = faults + 1
        /\ pc[r] \in Active /\ pc'[r] = "failed"
    BY <1>1 DEF Fail
  <2>3. ~ IsReported(r)' /\ ~ IsPaidOut(r)' /\ ~ IsDoomed(r)' /\ ~ IsRefused(r)
    BY <2>2 DEF Active
  <2> QED
    BY <2>1, <2>2, <2>3 DEF Entry, AdoptionEntry, EscrowEntry
<1>2. ASSUME TxExpires(r) PROVE Entry(r)
  <2>1. Moves(r)
    BY <1>2 DEF TxExpires, Close
  <2>2. /\ UNCHANGED <<adoptionLog, escrowLog, pc, op, seen>> /\ faults' = faults + 1
    BY <1>2 DEF TxExpires
  <2>3. /\ IsReported(r)' <=> IsReported(r)
        /\ IsPaidOut(r)' <=> IsPaidOut(r)
        /\ IsRefused(r)' <=> IsRefused(r)
    BY <2>2 DEF Alone
  <2> QED
    BY <2>1, <2>2, <2>3 DEF Entry, AdoptionEntry, EscrowEntry
<1> QED
  BY <1>1, <1>2 DEF Fault


(* When a set loses or gains one element, its cardinality says so.         *)
LEMMA CountMove ==
  ASSUME IsFiniteSet(Request), NEW S \in SUBSET Request, NEW T \in SUBSET Request,
         NEW r, S \ {r} = T \ {r}
  PROVE  /\ Cardinality(S) \in Nat
         /\ Cardinality(T) = Cardinality(S) + (IF r \in T THEN 1 ELSE 0)
                                            - (IF r \in S THEN 1 ELSE 0)
<1> DEFINE R == S \ {r}
<1>1. IsFiniteSet(S) /\ IsFiniteSet(T)
  BY FS_Subset
<1>2. /\ Cardinality(R) = Cardinality(S) - (IF r \in S THEN 1 ELSE 0)
      /\ Cardinality(T \ {r}) = Cardinality(T) - (IF r \in T THEN 1 ELSE 0)
      /\ Cardinality(S) \in Nat /\ Cardinality(T) \in Nat
  <2>1. /\ Cardinality(R) = IF r \in S THEN Cardinality(S) - 1 ELSE Cardinality(S)
        /\ Cardinality(T \ {r}) = IF r \in T THEN Cardinality(T) - 1 ELSE Cardinality(T)
    BY <1>1, FS_RemoveElement
  <2>2. Cardinality(S) \in Nat /\ Cardinality(T) \in Nat
    BY <1>1, FS_CardinalityType
  <2> QED
    BY <2>1, <2>2
<1>3. Cardinality(R) = Cardinality(T \ {r})
  OBVIOUS
<1> HIDE DEF R
<1> QED
  BY <1>2, <1>3

(* What the entry of a request is in numbers: the parts of another adoption *)
(* do not change, and of its own each may gain or lose the request.        *)
LEMMA EntryCounts ==
  ASSUME IsFiniteSet(Request), TypeOK, NEW r \in Request, Moves(r), NEW a \in Adoption
  PROVE  /\ /\ Cardinality(Reported(a)) \in Nat /\ Cardinality(PaidOut(a)) \in Nat
            /\ Cardinality(Refused(a)) \in Nat  /\ Cardinality(Doomed(a)) \in Nat
         /\ on[r] # a => /\ Cardinality(Reported(a))' = Cardinality(Reported(a))
                         /\ Cardinality(PaidOut(a))' = Cardinality(PaidOut(a))
                         /\ Cardinality(Refused(a))' = Cardinality(Refused(a))
                         /\ Cardinality(Doomed(a))' = Cardinality(Doomed(a))
         /\ on[r] = a =>
              /\ Cardinality(Reported(a))' = Cardinality(Reported(a))
                   + (IF IsReported(r)' THEN 1 ELSE 0) - (IF IsReported(r) THEN 1 ELSE 0)
              /\ Cardinality(PaidOut(a))' = Cardinality(PaidOut(a))
                   + (IF IsPaidOut(r)' THEN 1 ELSE 0) - (IF IsPaidOut(r) THEN 1 ELSE 0)
              /\ Cardinality(Refused(a))' = Cardinality(Refused(a))
                   + (IF IsRefused(r)' THEN 1 ELSE 0) - (IF IsRefused(r) THEN 1 ELSE 0)
              /\ Cardinality(Doomed(a))' = Cardinality(Doomed(a))
                   + (IF IsDoomed(r)' THEN 1 ELSE 0) - (IF IsDoomed(r) THEN 1 ELSE 0)
<1>1. /\ Reported(a) = {q \in Request : on[q] = a /\ IsReported(q)}
      /\ PaidOut(a) = {q \in Request : on[q] = a /\ IsPaidOut(q)}
      /\ Refused(a) = {q \in Request : on[q] = a /\ IsRefused(q)}
      /\ Doomed(a) = {q \in Request : on[q] = a /\ IsDoomed(q)}
  BY DEF Reported, IsReported, PaidOut, IsPaidOut, Refused, IsRefused, Doomed
<1>2. /\ Reported(a)' = {q \in Request : on'[q] = a /\ IsReported(q)'}
      /\ PaidOut(a)' = {q \in Request : on'[q] = a /\ IsPaidOut(q)'}
      /\ Refused(a)' = {q \in Request : on'[q] = a /\ IsRefused(q)'}
      /\ Doomed(a)' = {q \in Request : on'[q] = a /\ IsDoomed(q)'}
  BY DEF Reported, IsReported, PaidOut, IsPaidOut, Refused, IsRefused, Doomed
<1>3. ASSUME NEW q \in Request \ {r}
      PROVE  /\ IsReported(q)' <=> IsReported(q)
             /\ IsPaidOut(q)' <=> IsPaidOut(q)
             /\ IsRefused(q)' <=> IsRefused(q)
             /\ IsDoomed(q)' <=> IsDoomed(q)
  BY DEF Moves, IsReported, IsPaidOut, IsRefused, IsDoomed, Alone
<1>4. on' = on
  BY DEF Moves
<1>5. ASSUME NEW P, NEW Q, NEW p, NEW q,
             P \in SUBSET Request, Q \in SUBSET Request, P \ {r} = Q \ {r},
             p \in BOOLEAN, q \in BOOLEAN,
             r \in P <=> on[r] = a /\ p,
             r \in Q <=> on[r] = a /\ q
      PROVE  /\ Cardinality(P) \in Nat
             /\ on[r] # a => Cardinality(Q) = Cardinality(P)
             /\ on[r] = a => Cardinality(Q) = Cardinality(P) + (IF q THEN 1 ELSE 0)
                                                              - (IF p THEN 1 ELSE 0)
  <2>1. /\ Cardinality(P) \in Nat
        /\ Cardinality(Q) = Cardinality(P) + (IF r \in Q THEN 1 ELSE 0)
                                           - (IF r \in P THEN 1 ELSE 0)
    BY <1>5, CountMove
  <2> QED
    BY <1>5, <2>1
<1>6. /\ IsReported(r) \in BOOLEAN /\ IsReported(r)' \in BOOLEAN
      /\ IsPaidOut(r) \in BOOLEAN /\ IsPaidOut(r)' \in BOOLEAN
      /\ IsRefused(r) \in BOOLEAN /\ IsRefused(r)' \in BOOLEAN
      /\ IsDoomed(r) \in BOOLEAN /\ IsDoomed(r)' \in BOOLEAN
  BY DEF IsReported, IsPaidOut, IsRefused, IsDoomed
<1>7. /\ Reported(a) \ {r} = Reported(a)' \ {r}
      /\ PaidOut(a) \ {r} = PaidOut(a)' \ {r}
      /\ Refused(a) \ {r} = Refused(a)' \ {r}
      /\ Doomed(a) \ {r} = Doomed(a)' \ {r}
  BY <1>1, <1>2, <1>3, <1>4
<1>8. /\ Reported(a) \in SUBSET Request /\ Reported(a)' \in SUBSET Request
      /\ PaidOut(a) \in SUBSET Request /\ PaidOut(a)' \in SUBSET Request
      /\ Refused(a) \in SUBSET Request /\ Refused(a)' \in SUBSET Request
      /\ Doomed(a) \in SUBSET Request /\ Doomed(a)' \in SUBSET Request
  BY <1>1, <1>2
<1>9. /\ r \in Reported(a) <=> on[r] = a /\ IsReported(r)
      /\ r \in Reported(a)' <=> on[r] = a /\ IsReported(r)'
      /\ r \in PaidOut(a) <=> on[r] = a /\ IsPaidOut(r)
      /\ r \in PaidOut(a)' <=> on[r] = a /\ IsPaidOut(r)'
      /\ r \in Refused(a) <=> on[r] = a /\ IsRefused(r)
      /\ r \in Refused(a)' <=> on[r] = a /\ IsRefused(r)'
      /\ r \in Doomed(a) <=> on[r] = a /\ IsDoomed(r)
      /\ r \in Doomed(a)' <=> on[r] = a /\ IsDoomed(r)'
  BY <1>1, <1>2, <1>4
<1> HIDE DEF Reported, PaidOut, Refused, Doomed
<1>10. /\ Cardinality(Reported(a)) \in Nat
       /\ on[r] # a => Cardinality(Reported(a)') = Cardinality(Reported(a))
       /\ on[r] = a => Cardinality(Reported(a)') = Cardinality(Reported(a))
            + (IF IsReported(r)' THEN 1 ELSE 0) - (IF IsReported(r) THEN 1 ELSE 0)
  BY <1>5, <1>6, <1>7, <1>8, <1>9
<1>11. /\ Cardinality(PaidOut(a)) \in Nat
       /\ on[r] # a => Cardinality(PaidOut(a)') = Cardinality(PaidOut(a))
       /\ on[r] = a => Cardinality(PaidOut(a)') = Cardinality(PaidOut(a))
            + (IF IsPaidOut(r)' THEN 1 ELSE 0) - (IF IsPaidOut(r) THEN 1 ELSE 0)
  BY <1>5, <1>6, <1>7, <1>8, <1>9
<1>12. /\ Cardinality(Refused(a)) \in Nat
       /\ on[r] # a => Cardinality(Refused(a)') = Cardinality(Refused(a))
       /\ on[r] = a => Cardinality(Refused(a)') = Cardinality(Refused(a))
            + (IF IsRefused(r)' THEN 1 ELSE 0) - (IF IsRefused(r) THEN 1 ELSE 0)
  BY <1>5, <1>6, <1>7, <1>8, <1>9
<1>13. /\ Cardinality(Doomed(a)) \in Nat
       /\ on[r] # a => Cardinality(Doomed(a)') = Cardinality(Doomed(a))
       /\ on[r] = a => Cardinality(Doomed(a)') = Cardinality(Doomed(a))
            + (IF IsDoomed(r)' THEN 1 ELSE 0) - (IF IsDoomed(r) THEN 1 ELSE 0)
  BY <1>5, <1>6, <1>7, <1>8, <1>9
<1> QED
  BY <1>10, <1>11, <1>12, <1>13


(* An append makes a stream longer, and does not change whose approval is  *)
(* its head unless it is the first event of the stream.                    *)
LEMMA LengthAppend ==
  ASSUME NEW S, NEW s \in Seq(S), NEW e \in S
  PROVE  /\ Len(Append(s, e)) = Len(s) + 1
         /\ Len(s) \in Nat
         /\ Append(s, e) # <<>>
         /\ Append(s, e)[1] = IF s = <<>> THEN e ELSE s[1]
<1>1. /\ Len(Append(s, e)) = Len(s) + 1
      /\ Len(s) \in Nat
  OBVIOUS
<1>2. /\ Append(s, e) # <<>>
      /\ s # <<>> => Append(s, e)[1] = s[1]
      /\ s = <<>> => Append(s, e)[1] = e
  OBVIOUS
<1> QED
  BY <1>1, <1>2

(* Every entry keeps the account.                                          *)
LEMMA EntryKeeps ==
  ASSUME IsFiniteSet(Request), TypeOK, Account, NEW r \in Request, Entry(r)
  PROVE  Account'
<1> DEFINE Payouts == {"ESCROW_RELEASED", "ESCROW_REFUNDED"}
<1>0. /\ adoptionLog \in [Adoption -> Seq(AdoptionEvent)]
      /\ escrowLog \in [Adoption -> Seq(Payouts)]
      /\ on[r] \in Adoption /\ faults \in Int
  BY DEF TypeOK
<1>1. Moves(r) /\ AdoptionEntry(r) /\ EscrowEntry(r)
  BY DEF Entry
<1> SUFFICES ASSUME NEW a \in Adoption
             PROVE  /\ (Cardinality(Reported(a)) <= Len(adoptionLog[a]) - Seeds(a))'
                    /\ (Len(adoptionLog[a]) - Seeds(a) - Cardinality(Reported(a))
                          + Cardinality(Doomed(a)) <= faults)'
                    /\ (Cardinality(PaidOut(a)) <= Len(escrowLog[a]))'
                    /\ (Len(escrowLog[a]) - Cardinality(PaidOut(a)) + Cardinality(Doomed(a))
                          <= faults + Cardinality(Refused(a)))'
  BY DEF Account
<1> DEFINE R == Cardinality(Reported(a))
           P == Cardinality(PaidOut(a))
           F == Cardinality(Refused(a))
           D == Cardinality(Doomed(a))
           L == Len(adoptionLog[a])
           S == Seeds(a)
           E == Len(escrowLog[a])
<1>2. R <= L - S /\ L - S - R + D <= faults /\ P <= E /\ E - P + D <= faults + F
  BY DEF Account
<1>3. /\ R \in Nat /\ P \in Nat /\ F \in Nat /\ D \in Nat
      /\ on[r] # a => R' = R /\ P' = P /\ F' = F /\ D' = D
      /\ on[r] = a =>
           /\ R' = R + (IF IsReported(r)' THEN 1 ELSE 0) - (IF IsReported(r) THEN 1 ELSE 0)
           /\ P' = P + (IF IsPaidOut(r)' THEN 1 ELSE 0) - (IF IsPaidOut(r) THEN 1 ELSE 0)
           /\ F' = F + (IF IsRefused(r)' THEN 1 ELSE 0) - (IF IsRefused(r) THEN 1 ELSE 0)
           /\ D' = D + (IF IsDoomed(r)' THEN 1 ELSE 0) - (IF IsDoomed(r) THEN 1 ELSE 0)
  BY <1>1, EntryCounts
<1>4. L \in Nat /\ E \in Nat /\ S \in {0, 1} /\ faults' \in {faults, faults + 1}
  BY <1>0, <1>1 DEF Seeds, AdoptionEntry
<1>5. /\ UNCHANGED adoptionLog => L' = L /\ S' = S
      /\ UNCHANGED escrowLog => E' = E
  BY DEF Seeds
<1>6. ASSUME NEW e \in AdoptionEvent,
             adoptionLog' = [adoptionLog EXCEPT ![on[r]] = Append(@, e)],
             e = "ADOPTION_APPROVED" => adoptionLog[on[r]] # <<>>
      PROVE  L' = (IF on[r] = a THEN L + 1 ELSE L) /\ S' = S
  <2>1. CASE on[r] = a
    <3>1. adoptionLog'[a] = Append(adoptionLog[a], e) /\ adoptionLog[a] \in Seq(AdoptionEvent)
      BY <1>0, <1>6, <2>1
    <3>2. /\ Len(adoptionLog'[a]) = Len(adoptionLog[a]) + 1
          /\ adoptionLog'[a] # <<>>
          /\ adoptionLog'[a][1] = IF adoptionLog[a] = <<>> THEN e ELSE adoptionLog[a][1]
      BY <3>1, LengthAppend
    <3> QED
      BY <1>6, <2>1, <3>2 DEF Seeds
  <2>2. CASE on[r] # a
    <3>1. adoptionLog'[a] = adoptionLog[a]
      BY <1>0, <1>6, <2>2
    <3> QED
      BY <2>2, <3>1 DEF Seeds
  <2> QED
    BY <2>1, <2>2
<1>7. ASSUME NEW e \in Payouts, escrowLog' = [escrowLog EXCEPT ![on[r]] = Append(@, e)]
      PROVE  E' = IF on[r] = a THEN E + 1 ELSE E
  <2>1. CASE on[r] = a
    <3>1. escrowLog'[a] = Append(escrowLog[a], e) /\ escrowLog[a] \in Seq(Payouts)
      BY <1>0, <1>7, <2>1
    <3> QED
      BY <2>1, <3>1, LengthAppend
  <2>2. CASE on[r] # a
    BY <1>0, <1>7, <2>2
  <2> QED
    BY <2>1, <2>2
<1> HIDE DEF R, P, F, D, L, S, E
<1>8. /\ R \in Int /\ P \in Int /\ F \in Int /\ D \in Int
       /\ L \in Int /\ S \in Int /\ E \in Int /\ faults \in Int
  BY <1>0, <1>3, <1>4
<1>9. R' <= L' - S' /\ L' - S' - R' + D' <= faults'
  <2>1. ASSUME UNCHANGED adoptionLog,
               IsReported(r)' => IsReported(r),
               faults' = faults + 1,
               IsDoomed(r)' => IsDoomed(r) \/ (IsReported(r) => IsReported(r)')
        PROVE  R' <= L' - S' /\ L' - S' - R' + D' <= faults'
    BY <1>0, <1>2, <1>3, <1>4, <1>5, <2>1
  <2>2. ASSUME UNCHANGED adoptionLog,
               IsReported(r)' => IsReported(r),
               faults' = faults,
               IsDoomed(r)' => IsDoomed(r),
               IsReported(r) => IsReported(r)' \/ (IsDoomed(r) /\ ~ IsDoomed(r)')
        PROVE  R' <= L' - S' /\ L' - S' - R' + D' <= faults'
    BY <1>0, <1>2, <1>3, <1>4, <1>5, <2>2
  <2>3. ASSUME NEW e \in AdoptionEvent,
               adoptionLog' = [adoptionLog EXCEPT ![on[r]] = Append(@, e)],
               e = "ADOPTION_APPROVED" => adoptionLog[on[r]] # <<>>,
               ~ IsReported(r), IsReported(r)', IsDoomed(r)' => IsDoomed(r),
               faults' = faults
        PROVE  R' <= L' - S' /\ L' - S' - R' + D' <= faults'
    <3>1. L' = (IF on[r] = a THEN L + 1 ELSE L) /\ S' = S
      BY <1>6, <2>3
    <3>2. S' = S /\ faults' = faults
      BY <2>3, <3>1
    <3>3. CASE on[r] = a
      <4>1. R' = R + 1 /\ D' <= D /\ D' \in Int /\ L' = L + 1
        BY <1>3, <2>3, <3>1, <3>3
      <4>2. R' \in Int /\ L' \in Int /\ S' \in Int /\ faults' \in Int
        BY <1>8, <3>2, <4>1
      <4>3. R' <= L' - S'
        BY <1>2, <1>8, <3>2, <4>1
      <4>4. L' - S' - R' = L - S - R
        BY <1>8, <3>2, <4>1
      <4>5. L' - S' - R' + D' <= faults'
        <5>1. \A x, d, n, m \in Int : d <= n /\ x + n <= m => x + d <= m
          OBVIOUS
        <5>2. L - S - R \in Int /\ L - S - R + D <= faults /\ D' <= D
          BY <1>2, <1>8, <4>1
        <5>3. L - S - R + D' <= faults
          BY <1>8, <4>1, <5>1, <5>2
        <5> QED
          BY <3>2, <4>4, <5>3
      <4> QED
        BY <4>3, <4>5
    <3>4. CASE on[r] # a
      <4>1. R' = R /\ D' = D /\ L' = L
        BY <1>3, <3>1, <3>4
      <4> QED
        BY <1>2, <1>8, <3>2, <4>1
    <3> QED
      BY <3>3, <3>4
  <2> QED
    BY <1>1, <2>1, <2>2, <2>3 DEF AdoptionEntry
<1>10. P' <= E' /\ E' - P' + D' <= faults' + F'
  <2>0. IsRefused(r) => IsRefused(r)'
    BY <1>1 DEF EscrowEntry
  <2>1. ASSUME UNCHANGED escrowLog,
               IsPaidOut(r)' => IsPaidOut(r),
               faults' = faults + 1,
               IsDoomed(r)' => IsDoomed(r) \/ (IsPaidOut(r) => IsPaidOut(r)')
        PROVE  P' <= E' /\ E' - P' + D' <= faults' + F'
    BY <1>0, <1>2, <1>3, <1>4, <1>5, <2>0, <2>1
  <2>2. ASSUME UNCHANGED escrowLog,
               IsPaidOut(r)' => IsPaidOut(r),
               faults' = faults,
               IsDoomed(r)' => IsDoomed(r),
               IsPaidOut(r) => IsPaidOut(r)' \/ (IsDoomed(r) /\ ~ IsDoomed(r)')
        PROVE  P' <= E' /\ E' - P' + D' <= faults' + F'
    BY <1>0, <1>2, <1>3, <1>4, <1>5, <2>0, <2>2
  <2>3. ASSUME NEW e \in Payouts,
               escrowLog' = [escrowLog EXCEPT ![on[r]] = Append(@, e)],
               ~ IsPaidOut(r),
               IsPaidOut(r)' \/ (IsRefused(r)' /\ ~ IsRefused(r)),
               IsDoomed(r)' => IsDoomed(r),
               faults' = faults
        PROVE  P' <= E' /\ E' - P' + D' <= faults' + F'
    <3>1. E' = IF on[r] = a THEN E + 1 ELSE E
      BY <1>7, <2>3
    <3>2. CASE on[r] = a
      <4>1. /\ D' <= D /\ D' \in Int
            /\ F' >= F /\ F' \in Int
            /\ P' = P + 1 \/ (P' = P /\ F' = F + 1)
        <5>1. P' = P + IF IsPaidOut(r)' THEN 1 ELSE 0
          BY <1>3, <1>8, <2>3, <3>2
        <5>2. /\ F' = F + (IF IsRefused(r)' THEN 1 ELSE 0) - (IF IsRefused(r) THEN 1 ELSE 0)
              /\ D' = D + (IF IsDoomed(r)' THEN 1 ELSE 0) - (IF IsDoomed(r) THEN 1 ELSE 0)
          BY <1>3, <3>2
        <5>3. D' <= D /\ D' \in Int
          BY <1>8, <2>3, <5>2
        <5>4. F' >= F /\ F' \in Int
          BY <1>8, <2>0, <5>2
        <5>5. CASE IsPaidOut(r)'
          BY <1>8, <5>1, <5>3, <5>4, <5>5
        <5>6. CASE ~ IsPaidOut(r)'
          <6>1. IsRefused(r)' /\ ~ IsRefused(r)
            BY <2>3, <5>6
          <6>2. F' = F + 1 /\ P' = P
            BY <1>8, <5>1, <5>2, <5>6, <6>1
          <6> QED
            BY <5>3, <5>4, <6>2
        <5> QED
          BY <5>5, <5>6
      <4>2. E' = E + 1 /\ faults' = faults
        BY <2>3, <3>1, <3>2
      <4> QED
        BY <1>2, <1>8, <4>1, <4>2
    <3>3. CASE on[r] # a
      <4>1. P' = P /\ F' = F /\ D' = D /\ E' = E /\ faults' = faults
        BY <1>3, <2>3, <3>1, <3>3
      <4> QED
        BY <1>2, <1>8, <4>1
    <3> QED
      BY <3>2, <3>3
  <2> QED
    BY <1>1, <2>1, <2>2, <2>3 DEF EscrowEntry
<1> QED
  BY <1>9, <1>10 DEF R, P, F, D, L, S, E


(* At the start every event is of the seed.                                *)
LEMMA AccountInit == IsFiniteSet(Request) /\ Init => Account
<1> SUFFICES ASSUME Init, NEW a \in Adoption
             PROVE  /\ Cardinality(Reported(a)) <= Len(adoptionLog[a]) - Seeds(a)
                    /\ Len(adoptionLog[a]) - Seeds(a) - Cardinality(Reported(a))
                         + Cardinality(Doomed(a)) <= faults
                    /\ Cardinality(PaidOut(a)) <= Len(escrowLog[a])
                    /\ Len(escrowLog[a]) - Cardinality(PaidOut(a)) + Cardinality(Doomed(a))
                         <= faults + Cardinality(Refused(a))
  BY DEF Account
<1>1. /\ Reported(a) = {} /\ PaidOut(a) = {} /\ Refused(a) = {} /\ Doomed(a) = {}
  BY DEF Init, Reported, PaidOut, Refused, Doomed, IsDoomed, Active
<1>2. Cardinality({}) = 0
  BY FS_EmptySet
<1>3. /\ Len(adoptionLog[a]) = Seeds(a) /\ Seeds(a) \in {0, 1}
      /\ Len(escrowLog[a]) = 0 /\ faults = 0
  BY DEF Init, Seeds
<1> QED
  BY <1>1, <1>2, <1>3

(* Every step makes an entry for one request, or for none.                 *)
LEMMA AccountStep ==
  IsFiniteSet(Request) /\ TypeOK /\ ControlOK /\ RowsOK /\ LogsOK /\ Account /\ [Next]_vars
    => Account'
<1> SUFFICES ASSUME IsFiniteSet(Request), TypeOK, ControlOK, RowsOK, LogsOK, Account,
                    [Next]_vars
             PROVE  Account'
  OBVIOUS
<1>1. ASSUME NEW r \in Request, Begin(r) \/ Step(r) \/ Fault(r)
      PROVE  Account'
  BY <1>1, BeginEntry, StepEntry, FaultEntry, EntryKeeps
<1>2. ASSUME UNCHANGED <<adoptionLog, escrowLog, open, on, pc, op, seen, faults>>
      PROVE  Account'
  BY <1>2 DEF Account, Reported, PaidOut, Refused, Doomed, IsDoomed, Alone, Seeds
<1>3. ASSUME NEW a \in Adoption, Operator(a) PROVE Account'
  BY <1>2, <1>3 DEF Operator, logs, txs
<1> QED
  BY <1>1, <1>2, <1>3 DEF Next, vars, logs, txs

(* The account of finitely many requests is what OrphansAreFailures says.  *)
LEMMA AccountShows ==
  IsFiniteSet(Request) /\ TypeOK /\ Account => OrphansAreFailures
<1> SUFFICES ASSUME IsFiniteSet(Request), TypeOK, Account, NEW a \in Adoption
             PROVE  /\ Len(adoptionLog[a]) - Seeds(a) - Cardinality(Reported(a)) \in 0..faults
                    /\ Len(escrowLog[a]) - Cardinality(PaidOut(a))
                         \in 0..faults + Cardinality(Refused(a))
  BY DEF OrphansAreFailures
<1>1. /\ adoptionLog[a] \in Seq(AdoptionEvent)
      /\ escrowLog[a] \in Seq({"ESCROW_RELEASED", "ESCROW_REFUNDED"})
      /\ faults \in Nat
  BY ConstantsAssumption DEF TypeOK
<1>2. Len(adoptionLog[a]) \in Nat /\ Len(escrowLog[a]) \in Nat /\ Seeds(a) \in {0, 1}
  BY <1>1 DEF Seeds
<1>3. /\ Reported(a) \in SUBSET Request /\ PaidOut(a) \in SUBSET Request
      /\ Refused(a) \in SUBSET Request  /\ Doomed(a) \in SUBSET Request
  BY DEF Reported, PaidOut, Refused, Doomed
<1>4. /\ Cardinality(Reported(a)) \in Nat /\ Cardinality(PaidOut(a)) \in Nat
      /\ Cardinality(Refused(a)) \in Nat  /\ Cardinality(Doomed(a)) \in Nat
  BY <1>3, FS_Subset, FS_CardinalityType
<1>5. /\ Cardinality(Reported(a)) <= Len(adoptionLog[a]) - Seeds(a)
      /\ Len(adoptionLog[a]) - Seeds(a) - Cardinality(Reported(a)) + Cardinality(Doomed(a))
           <= faults
      /\ Cardinality(PaidOut(a)) <= Len(escrowLog[a])
      /\ Len(escrowLog[a]) - Cardinality(PaidOut(a)) + Cardinality(Doomed(a))
           <= faults + Cardinality(Refused(a))
  BY DEF Account
<1> DEFINE R == Cardinality(Reported(a))
           P == Cardinality(PaidOut(a))
           F == Cardinality(Refused(a))
           D == Cardinality(Doomed(a))
           L == Len(adoptionLog[a])
           S == Seeds(a)
           E == Len(escrowLog[a])
<1> HIDE DEF R, P, F, D, L, S, E
<1>6. L - S - R \in 0..faults /\ E - P \in 0..faults + F
  <2>1. /\ L \in Int /\ E \in Int /\ S \in Int /\ faults \in Int
        /\ R \in Int /\ P \in Int /\ F \in Int /\ D \in Nat
    BY <1>1, <1>2, <1>4 DEF R, P, F, D, L, S, E
  <2>2. R <= L - S /\ L - S - R + D <= faults /\ P <= E /\ E - P + D <= faults + F
    BY <1>5 DEF R, P, F, D, L, S, E
  <2> QED
    BY <2>1, <2>2
<1> QED
  BY <1>6 DEF R, P, F, D, L, S, E

(* For any interleaving of any finite number of requests: an event of an   *)
(* adoption or of a payout that was never committed is of a failed         *)
(* statement, of an expired transaction, or of a refused release; and      *)
(* nothing that was committed lacks its event.                             *)
THEOREM OrphansCostFailures ==
  ASSUME IsFiniteSet(Request)
  PROVE  Spec => []OrphansAreFailures
<1>1. Init => RowsOK /\ LogsOK
  BY ConstantsAssumption DEF Init, RowsOK, LogsOK, HeadOK, LogAheadOfRows, Logged, Active
<1>2. Init => Account
  BY AccountInit
<1>3. TypeOK /\ ControlOK /\ RowsOK /\ LogsOK /\ Account /\ [Next]_vars => Account'
  BY AccountStep
<1>4. TypeOK /\ Account => OrphansAreFailures
  BY AccountShows
<1> QED
  BY <1>1, <1>2, <1>3, <1>4, InitType, TypeStep, ControlStep, RowsStep, LogsStep, PTL DEF Spec
=============================================================================
