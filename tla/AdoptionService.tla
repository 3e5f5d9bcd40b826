--------------------------- MODULE AdoptionService ---------------------------
(***************************************************************************)
(* Adoptions, the escrow that pays for each of them, and the ownership of  *)
(* the pets: AdoptionService with the parts of EscrowService and           *)
(* EventsService that act on adoptions.                                    *)
(*                                                                         *)
(* As in CustodyService a request is a process, each awaited statement an  *)
(* action.  Statements inside an interactive transaction are invisible     *)
(* until its commit and lock the rows they update; logEvent commits on a   *)
(* connection of its own.  Completing an adoption uses no transaction.     *)
(***************************************************************************)
EXTENDS Lifecycle, Integers, Sequences, FiniteSets

CONSTANTS Adoption,    \* ids of adoption rows; each has an escrow at most
          User, Pet,   \* ids of user and pet rows
          Request,     \* the requests (and internal calls) of a run
          NoRequest,   \* owner of a row lock nobody holds
          NoOwner,     \* a null currentOwnerId
          PetOf,       \* PetOf[a]: petId of adoption a
          Adopter,     \* Adopter[a]: adopterId of adoption a
          StartOwner,  \* StartOwner[p]: currentOwnerId of pet p at the start, if any
          Seeded,      \* adoptions that may exist at the start
          MaxFaults    \* bound on statement failures and expired transactions

ASSUME ConstantsAssumption ==
  /\ NoRequest \notin Request
  /\ NoOwner \notin User
  /\ PetOf \in [Adoption -> Pet]
  /\ Adopter \in [Adoption -> User]
  /\ StartOwner \in [Pet -> User \cup {NoOwner}]
  /\ Seeded \subseteq Adoption
  /\ MaxFaults \in Nat

Row == ({"adoption", "escrow"} \X Adoption) \cup ({"pet"} \X Pet)

VARIABLES
  adoption,     \* committed status of each adoption row, or NONE
  escrow,       \* committed status of the escrow of each adoption, or NONE
  owner,        \* currentOwnerId of each pet
  adoptionLog,  \* events of each adoption, in insertion order
  escrowLog,    \* events of each escrow, in insertion order
  lock,         \* the request whose open transaction has updated a row
  open,         \* requests whose transaction is open
  on,           \* the adoption each request is about, fixed by its client
  pc, op,       \* control state and operation of each request
  seen,         \* the adoption status a release read with the escrow
  faults        \* failures so far

rows == <<adoption, escrow, owner>>
logs == <<adoptionLog, escrowLog>>
txs  == <<lock, open>>
vars == <<rows, logs, txs, on, pc, op, seen, faults>>

-----------------------------------------------------------------------------
ActiveStatus == {"REQUESTED", "PENDING", "APPROVED", "ESCROW_FUNDED"}

(* The status approveAdoption, rejectAdoption and completeAdoption set.    *)
Target == [approve |-> "APPROVED", reject |-> "REJECTED", complete |-> "COMPLETED"]

(* ADOPTION_STATUS_EVENT_MAP and the event approveAdoption logs.           *)
StatusEvent == [APPROVED |-> "ADOPTION_APPROVED", COMPLETED |-> "ADOPTION_COMPLETED"]

(* Mutant: a status the schema does not have.                              *)
EscrowTarget_NoSuchStatus == [release |-> "RELEASED", refund |-> "RETURNED"]

EscrowTarget == [release |-> "RELEASED", refund |-> "REFUNDED"]
EscrowEvent  == [release |-> "ESCROW_RELEASED", refund |-> "ESCROW_REFUNDED"]

Ended  == {"done", "failed"}
Active == {"rcheck", "rlog", "rcommit", "update", "dlog", "commit", "write", "clog",
           "eupdate", "elog", "aupdate", "pupdate", "alog", "ecommit"}

AdoptionRow(r) == <<"adoption", on[r]>>
EscrowRow(r)   == <<"escrow", on[r]>>
PetRow(r)      == <<"pet", PetOf[on[r]]>>

Goto(r, label) == pc' = [pc EXCEPT ![r] = label]

(* An update inside a transaction waits for the row and keeps it.          *)
TakeRow(r, row) ==
  /\ r \in open
  /\ lock[row] \in {NoRequest, r}
  /\ lock' = [lock EXCEPT ![row] = r]

(* A transaction ends, either way: its rows are free.                      *)
Close(r) ==
  /\ lock' = [row \in Row |-> IF lock[row] = r THEN NoRequest ELSE lock[row]]
  /\ open' = open \ {r}

PetHasAdoption(p) == \E a \in Adoption : PetOf[a] = p /\ adoption[a] # "NONE"

-----------------------------------------------------------------------------
(* The rows that exist at the start are those of the seed, if it was       *)
(* planted: an adoption whose escrow is funded and whose approval is in    *)
(* the log.  A pet nothing was seeded for may have no owner.               *)
Init ==
  /\ adoption \in [Adoption -> {"NONE", "ESCROW_FUNDED"}]
  /\ \A a \in Adoption \ Seeded : adoption[a] = "NONE"
  /\ escrow = [a \in Adoption |-> IF adoption[a] = "NONE" THEN "NONE" ELSE "FUNDED"]
  /\ owner \in [Pet -> User \cup {NoOwner}]
  /\ \A p \in Pet : \/ owner[p] = StartOwner[p]
                    \/ owner[p] = NoOwner /\ ~ PetHasAdoption(p)
  /\ adoptionLog = [a \in Adoption |->
                      IF adoption[a] = "NONE" THEN <<>> ELSE <<"ADOPTION_APPROVED">>]
  /\ escrowLog = [a \in Adoption |-> <<>>]
  /\ lock = [row \in Row |-> NoRequest]
  /\ open = {}
  /\ on \in [Request -> Adoption]
  /\ pc = [r \in Request |-> "idle"]
  /\ op = [r \in Request |-> "none"]
  /\ seen = [r \in Request |-> "NONE"]
  /\ faults = 0

-----------------------------------------------------------------------------
(* requestAdoption.                                                        *)

FreshId(a) == /\ adoption[a] = "NONE"
              /\ \A r \in Request : ~ (op[r] = "request" /\ on[r] = a)

(* The transaction opens and reads the pet, which must have an owner.      *)
BeginRequest(r) ==
  /\ pc[r] = "idle"
  /\ FreshId(on[r])
  /\ op' = [op EXCEPT ![r] = "request"]
  /\ IF owner[PetOf[on[r]]] = NoOwner
       THEN Goto(r, "failed") /\ UNCHANGED open
       ELSE Goto(r, "rcheck") /\ open' = open \cup {r}
  /\ UNCHANGED <<rows, logs, lock, on, seen, faults>>

PetHasActiveAdoption(p) == \E a \in Adoption : PetOf[a] = p /\ adoption[a] \in ActiveStatus

(* Mutant: the event is logged ahead of the search.                        *)
CheckActive_LogsFirst(r) ==
  /\ pc[r] = "rcheck"
  /\ r \in open
  /\ adoptionLog' = [adoptionLog EXCEPT ![on[r]] = Append(@, "ADOPTION_REQUESTED")]
  /\ IF PetHasActiveAdoption(PetOf[on[r]])
       THEN Goto(r, "failed") /\ Close(r)
       ELSE Goto(r, "rcommit") /\ UNCHANGED txs
  /\ UNCHANGED <<rows, escrowLog, on, op, seen, faults>>

(* The search for an active adoption of the pet sees committed rows only,  *)
(* and locks nothing.  The row created next is invisible to the others.    *)
CheckActive(r) ==
  /\ pc[r] = "rcheck"
  /\ r \in open
  /\ IF PetHasActiveAdoption(PetOf[on[r]])
       THEN Goto(r, "failed") /\ Close(r)
       ELSE Goto(r, "rlog") /\ UNCHANGED txs
  /\ UNCHANGED <<rows, logs, on, op, seen, faults>>

LogRequested(r) ==
  /\ pc[r] = "rlog"
  /\ adoptionLog' = [adoptionLog EXCEPT ![on[r]] = Append(@, "ADOPTION_REQUESTED")]
  /\ Goto(r, "rcommit")
  /\ UNCHANGED <<rows, escrowLog, txs, on, op, seen, faults>>

CommitRequest(r) ==
  /\ pc[r] = "rcommit"
  /\ r \in open
  /\ adoption' = [adoption EXCEPT ![on[r]] = "REQUESTED"]
  /\ Goto(r, "done")
  /\ Close(r)
  /\ UNCHANGED <<escrow, owner, logs, on, op, seen, faults>>

-----------------------------------------------------------------------------
(* approveAdoption and rejectAdoption.                                     *)

Allowed(a, status) == adoption[a] # "NONE" /\ AdoptionCanTransition(adoption[a], status)

BeginDecision(r, o) ==
  /\ pc[r] = "idle"
  /\ op' = [op EXCEPT ![r] = o]
  /\ IF Allowed(on[r], Target[o])
       THEN Goto(r, "update") /\ open' = open \cup {r}
       ELSE Goto(r, "failed") /\ UNCHANGED open
  /\ UNCHANGED <<rows, logs, lock, on, seen, faults>>

(* Mutant: an approval logs no event either.                               *)
UpdateAdoption_NoEvent(r) ==
  /\ pc[r] = "update"
  /\ TakeRow(r, AdoptionRow(r))
  /\ Goto(r, "commit")
  /\ UNCHANGED <<rows, logs, open, on, op, seen, faults>>

(* The update does not look at the status again.  A rejection logs no      *)
(* event: the schema has none for it.                                      *)
UpdateAdoption(r) ==
  /\ pc[r] = "update"
  /\ TakeRow(r, AdoptionRow(r))
  /\ Goto(r, IF op[r] = "approve" THEN "dlog" ELSE "commit")
  /\ UNCHANGED <<rows, logs, open, on, op, seen, faults>>

LogApproved(r) ==
  /\ pc[r] = "dlog"
  /\ adoptionLog' = [adoptionLog EXCEPT ![on[r]] = Append(@, "ADOPTION_APPROVED")]
  /\ Goto(r, "commit")
  /\ UNCHANGED <<rows, escrowLog, txs, on, op, seen, faults>>

(* Mutant: the transaction is never closed.                                *)
CommitDecision_StaysOpen(r) ==
  /\ pc[r] = "commit"
  /\ r \in open
  /\ adoption' = [adoption EXCEPT ![on[r]] = Target[op[r]]]
  /\ Goto(r, "done")
  /\ UNCHANGED <<escrow, owner, logs, txs, on, op, seen, faults>>

CommitDecision(r) ==
  /\ pc[r] = "commit"
  /\ r \in open
  /\ adoption' = [adoption EXCEPT ![on[r]] = Target[op[r]]]
  /\ Goto(r, "done")
  /\ Close(r)
  /\ UNCHANGED <<escrow, owner, logs, on, op, seen, faults>>

-----------------------------------------------------------------------------
(* updateAdoptionStatus, which its controller calls with COMPLETED only.   *)

BeginComplete(r) ==
  /\ pc[r] = "idle"
  /\ op' = [op EXCEPT ![r] = "complete"]
  /\ Goto(r, IF Allowed(on[r], "COMPLETED") THEN "write" ELSE "failed")
  /\ UNCHANGED <<rows, logs, txs, on, seen, faults>>

(* Without a transaction the update is committed when it returns, ahead of *)
(* its event.                                                              *)
WriteStatus(r) ==
  /\ pc[r] = "write"
  /\ lock[AdoptionRow(r)] = NoRequest
  /\ adoption' = [adoption EXCEPT ![on[r]] = Target[op[r]]]
  /\ Goto(r, "clog")
  /\ UNCHANGED <<escrow, owner, logs, txs, on, op, seen, faults>>

LogStatus(r) ==
  /\ pc[r] = "clog"
  /\ adoptionLog' = [adoptionLog EXCEPT ![on[r]] = Append(@, StatusEvent[Target[op[r]]])]
  /\ Goto(r, "done")
  /\ UNCHANGED <<rows, escrowLog, txs, on, op, seen, faults>>

-----------------------------------------------------------------------------
(* releaseEscrow and refundEscrow of an adoption's escrow.                 *)

BeginPayout(r, o) ==
  /\ pc[r] = "idle"
  /\ op' = [op EXCEPT ![r] = o]
  /\ IF escrow[on[r]] # "NONE"
       THEN /\ Goto(r, "eupdate")
            /\ open' = open \cup {r}
            /\ seen' = [seen EXCEPT ![r] = adoption[on[r]]]
       ELSE Goto(r, "failed") /\ UNCHANGED <<open, seen>>
  /\ UNCHANGED <<rows, logs, lock, on, faults>>

UpdateEscrow(r) ==
  /\ pc[r] = "eupdate"
  /\ TakeRow(r, EscrowRow(r))
  /\ Goto(r, "elog")
  /\ UNCHANGED <<rows, logs, open, on, op, seen, faults>>

(* An escrow whose adoption was gone when it was read is paid out with no  *)
(* further question, as a refund is.  Mutant: looks for the adoption anew. *)
Alone_LooksAgain(r) == op[r] = "refund" \/ adoption[on[r]] = "NONE"

Alone(r) == op[r] = "refund" \/ seen[r] = "NONE"

(* The payout is in the log before a release asserts that the adoption it  *)
(* read may be completed; when it may not, the transaction rolls back and  *)
(* the event stays.                                                        *)
LogPayout(r) ==
  /\ pc[r] = "elog"
  /\ escrowLog' = [escrowLog EXCEPT ![on[r]] = Append(@, EscrowEvent[op[r]])]
  /\ IF Alone(r) THEN Goto(r, "ecommit") /\ UNCHANGED txs
     ELSE IF AdoptionCanTransition(seen[r], "COMPLETED")
       THEN Goto(r, "aupdate") /\ UNCHANGED txs
       ELSE Goto(r, "failed") /\ Close(r)
  /\ UNCHANGED <<rows, adoptionLog, on, op, seen, faults>>

ReleaseAdoption(r) ==
  /\ pc[r] = "aupdate"
  /\ TakeRow(r, AdoptionRow(r))
  /\ Goto(r, "pupdate")
  /\ UNCHANGED <<rows, logs, open, on, op, seen, faults>>

(* Mutant: the pet changes hands outside the transaction.                  *)
ReleasePet_OutsideTx(r) ==
  /\ pc[r] = "pupdate"
  /\ lock[PetRow(r)] = NoRequest
  /\ owner' = [owner EXCEPT ![PetOf[on[r]]] = Adopter[on[r]]]
  /\ Goto(r, "alog")
  /\ UNCHANGED <<adoption, escrow, logs, txs, on, op, seen, faults>>

ReleasePet(r) ==
  /\ pc[r] = "pupdate"
  /\ TakeRow(r, PetRow(r))
  /\ Goto(r, "alog")
  /\ UNCHANGED <<rows, logs, open, on, op, seen, faults>>

LogCompleted(r) ==
  /\ pc[r] = "alog"
  /\ adoptionLog' = [adoptionLog EXCEPT ![on[r]] = Append(@, "ADOPTION_COMPLETED")]
  /\ Goto(r, "ecommit")
  /\ UNCHANGED <<rows, escrowLog, txs, on, op, seen, faults>>

CommitPayout(r) ==
  /\ pc[r] = "ecommit"
  /\ r \in open
  /\ escrow' = [escrow EXCEPT ![on[r]] = EscrowTarget[op[r]]]
  /\ IF Alone(r)
       THEN UNCHANGED <<adoption, owner>>
       ELSE /\ adoption' = [adoption EXCEPT ![on[r]] = "COMPLETED"]
            /\ owner' = [owner EXCEPT ![PetOf[on[r]]] = Adopter[on[r]]]
  /\ Goto(r, "done")
  /\ Close(r)
  /\ UNCHANGED <<logs, on, op, seen, faults>>

-----------------------------------------------------------------------------
(* Failures: a statement throws or the process dies; a transaction outlives *)
(* its limit while its handler awaits another connection; the next use of   *)
(* an expired transaction throws.                                           *)

Fail(r) ==
  /\ pc[r] \in Active
  /\ faults < MaxFaults
  /\ faults' = faults + 1
  /\ Goto(r, "failed")
  /\ Close(r)
  /\ UNCHANGED <<rows, logs, on, op, seen>>

TxExpires(r) ==
  /\ r \in open
  /\ faults < MaxFaults
  /\ faults' = faults + 1
  /\ Close(r)
  /\ UNCHANGED <<rows, logs, on, pc, op, seen>>

UseExpired(r) ==
  /\ pc[r] \in {"rcheck", "rcommit", "update", "commit",
                "eupdate", "aupdate", "pupdate", "ecommit"}
  /\ r \notin open
  /\ Goto(r, "failed")
  /\ UNCHANGED <<rows, logs, txs, on, op, seen, faults>>

-----------------------------------------------------------------------------
(* What the documentation assigns to a screening step and to a blockchain  *)
(* monitor that are not in the code: a request becomes PENDING, an approved *)
(* adoption gets an escrow and becomes ESCROW_FUNDED.  Single statements.   *)
Operator(a) ==
  /\ lock[<<"adoption", a>>] = NoRequest
  /\ \/ /\ adoption[a] = "REQUESTED"
        /\ adoption' = [adoption EXCEPT ![a] = "PENDING"]
        /\ UNCHANGED escrow
     \/ /\ adoption[a] = "APPROVED"
        /\ escrow[a] = "NONE"
        /\ adoption' = [adoption EXCEPT ![a] = "ESCROW_FUNDED"]
        /\ escrow' = [escrow EXCEPT ![a] = "FUNDED"]
  /\ UNCHANGED <<owner, logs, txs, on, pc, op, seen, faults>>

-----------------------------------------------------------------------------
Begin(r) == \/ BeginRequest(r)
            \/ \E o \in {"approve", "reject"} : BeginDecision(r, o)
            \/ BeginComplete(r)
            \/ \E o \in {"release", "refund"} : BeginPayout(r, o)

Step(r) ==
  \/ CheckActive(r) \/ LogRequested(r) \/ CommitRequest(r)
  \/ UpdateAdoption(r) \/ LogApproved(r) \/ CommitDecision(r)
  \/ WriteStatus(r) \/ LogStatus(r)
  \/ UpdateEscrow(r) \/ LogPayout(r) \/ ReleaseAdoption(r) \/ ReleasePet(r)
  \/ LogCompleted(r) \/ CommitPayout(r)
  \/ UseExpired(r)

Fault(r) == Fail(r) \/ TxExpires(r)

Quiet == \A r \in Request : pc[r] \in Ended

Next == \/ \E r \in Request : Begin(r) \/ Step(r) \/ Fault(r)
        \/ \E a \in Adoption : Operator(a)
        \/ Quiet /\ UNCHANGED vars

Spec == Init /\ [][Next]_vars

(* Every handler whose statement is answered goes on; nobody guarantees    *)
(* that a request comes or that the operator acts.                         *)
FairSpec == Spec /\ \A r \in Request : WF_vars(Step(r))

-----------------------------------------------------------------------------
(* Properties.                                                             *)

AdoptionEvent == {"ADOPTION_REQUESTED", "ADOPTION_APPROVED", "ADOPTION_COMPLETED"}

TypeOK ==
  /\ adoption \in [Adoption -> AdoptionStatus \cup {"NONE"}]
  /\ escrow \in [Adoption -> EscrowStatus \cup {"NONE"}]
  /\ owner \in [Pet -> User \cup {NoOwner}]
  /\ adoptionLog \in [Adoption -> Seq(AdoptionEvent)]
  /\ escrowLog \in [Adoption -> Seq({"ESCROW_RELEASED", "ESCROW_REFUNDED"})]
  /\ lock \in [Row -> Request \cup {NoRequest}]
  /\ open \subseteq Request
  /\ on \in [Request -> Adoption]
  /\ pc \in [Request -> {"idle"} \cup Active \cup Ended]
  /\ op \in [Request -> {"none", "request", "approve", "reject", "complete",
                         "release", "refund"}]
  /\ seen \in [Request -> AdoptionStatus \cup {"NONE"}]
  /\ faults \in 0..MaxFaults

Logged(log, e) == \E i \in DOMAIN log : log[i] = e

(* What is written inside a transaction is logged before it can be seen:    *)
(* whoever sees an adoption finds its request at the head of its stream, an *)
(* approved adoption has its ADOPTION_APPROVED, a released escrow has both  *)
(* its ESCROW_RELEASED and the ADOPTION_COMPLETED of its adoption.  (The    *)
(* reverse fails: what rolls back leaves its events.)                       *)
LogAheadOfRows ==
  \A a \in Adoption :
    /\ adoption[a] # "NONE" =>
         /\ adoptionLog[a] # <<>>
         /\ \/ adoptionLog[a][1] = "ADOPTION_REQUESTED"
            \/ a \in Seeded /\ adoptionLog[a][1] = "ADOPTION_APPROVED"
    /\ adoption[a] \in {"APPROVED", "ESCROW_FUNDED"} =>
         Logged(adoptionLog[a], "ADOPTION_APPROVED")
    /\ escrow[a] = "RELEASED" =>
         /\ Logged(escrowLog[a], "ESCROW_RELEASED")
         /\ Logged(adoptionLog[a], "ADOPTION_COMPLETED")

(* Escrow, adoption and pet change hands in one step: whenever an escrow   *)
(* becomes RELEASED its adoption is COMPLETED and the pet is the adopter's, *)
(* and no pet changes owner in any other way or to anybody else.            *)
AtomicRelease ==
  [][/\ \A a \in Adoption :
          escrow'[a] = "RELEASED" /\ escrow[a] # "RELEASED" =>
            adoption'[a] = "COMPLETED" /\ owner'[PetOf[a]] = Adopter[a]
     /\ \A p \in Pet :
          owner'[p] # owner[p] =>
            \E a \in Adoption : /\ PetOf[a] = p
                                /\ owner'[p] = Adopter[a]
                                /\ escrow'[a] = "RELEASED"]_vars

(* Requests that have logged an event of the adoption, and have committed   *)
(* what it reports or may still do so.  A completion commits first.         *)
Reported(a) ==
  {r \in Request :
     /\ on[r] = a
     /\ \/ op[r] = "request"  /\ pc[r] \in {"rcommit", "done"}
        \/ op[r] = "approve"  /\ pc[r] \in {"commit", "done"}
        \/ op[r] = "complete" /\ pc[r] = "done"
        \/ op[r] = "release"  /\ pc[r] \in {"ecommit", "done"} /\ ~ Alone(r)}

(* The same for the events of its escrow.                                   *)
PaidOut(a) ==
  {r \in Request : /\ on[r] = a
                   /\ op[r] \in {"release", "refund"}
                   /\ pc[r] \in {"aupdate", "pupdate", "alog", "ecommit", "done"}}

(* Releases that ended because of the status they had read.                 *)
Refused(a) ==
  {r \in Request : /\ on[r] = a
                   /\ op[r] = "release"
                   /\ pc[r] = "failed"
                   /\ ~ Alone(r)
                   /\ ~ AdoptionCanTransition(seen[r], "COMPLETED")}

(* The approval in the log of a seeded adoption is nobody's.                *)
Seeds(a) == IF adoptionLog[a] # <<>> /\ adoptionLog[a][1] = "ADOPTION_APPROVED"
              THEN 1 ELSE 0

(* No event is lost or logged twice, and an event of something that did not *)
(* happen was paid for: each of them cost a failed statement, a crash or an *)
(* expired transaction after the event, or, for an escrow, is of a release  *)
(* that was refused after it had been logged.                               *)
OrphansAreFailures ==
  \A a \in Adoption :
    /\ Len(adoptionLog[a]) - Seeds(a) - Cardinality(Reported(a)) \in 0..faults
    /\ Len(escrowLog[a]) - Cardinality(PaidOut(a))
         \in 0..faults + Cardinality(Refused(a))

(* Every accepted request is answered: escrow, adoption and pet rows are    *)
(* always taken in this order.                                              *)
EveryRequestEnds == \A r \in Request : pc[r] \in Active ~> pc[r] \in Ended

-----------------------------------------------------------------------------
(* What the documentation says, and the code does not keep.                *)

(* "Throws ConflictException if the pet ... already has an active adoption" *)
(* (adoption.service.ts): no pet has two active adoptions.                  *)
OneActiveAdoptionPerPet ==
  \A a, b \in Adoption :
    PetOf[a] = PetOf[b] /\ {adoption[a], adoption[b]} \subseteq ActiveStatus => a = b
=============================================================================
