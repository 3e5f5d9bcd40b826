--------------------------- MODULE CustodyService ---------------------------
(***************************************************************************)
(* Custody agreements, the deposit escrow behind each of them, the trust   *)
(* score of the holder, and the event streams the four kinds of entity     *)
(* leave in the event log: CustodyService with the parts of EscrowService, *)
(* UsersService and EventsService that it calls.                           *)
(*                                                                         *)
(* A request is a process: every awaited database statement of its handler *)
(* is one action, and statements of different requests interleave.  What   *)
(* the handler holds in a Prisma transaction is invisible until the commit *)
(* and rolls back with it; logEvent, updateTrustScore and the transaction  *)
(* of releaseEscrow and refundEscrow run on connections of their own, so   *)
(* their effects are visible at once and survive a rollback of the outer   *)
(* transaction.                                                            *)
(***************************************************************************)
EXTENDS Lifecycle, Integers, Sequences, FiniteSets

CONSTANTS Custody,     \* ids of custody rows
          User, Pet,   \* ids of user and pet rows
          Request,     \* the HTTP requests (and operator calls) of a run
          NoRequest,   \* owner of a row lock nobody holds
          Holder,      \* Holder[c]: holderId of custody c
          PetOf,       \* PetOf[c]: petId of custody c
          StartScore,  \* StartScore[u]: trustScore of user u at the start
          MaxFaults    \* bound on statement failures and expired transactions

ASSUME ConstantsAssumption ==
  /\ NoRequest \notin Request
  /\ Holder \in [Custody -> User]
  /\ PetOf \in [Custody -> Pet]
  /\ StartScore \in [User -> 0..100]
  /\ MaxFaults \in Nat

VARIABLES
  custody,      \* committed status of each custody row, or NONE
  escrow,       \* committed status of the escrow of each custody, or NONE
  trust,        \* trustScore of each user
  custodyLog,   \* lifecycle events of each custody, in insertion order
  escrowLog,    \* settlement events of each escrow, in insertion order
  petLog,       \* how many PET_CUSTODY_CANCELLED events each pet has
  scoreLog,     \* TRUST_SCORE_UPDATED events of each user
  custodyLock,  \* the request whose open transaction has updated the row
  escrowLock,   \* the same for the escrow row
  on,           \* the custody each request is about, fixed by its client
  pc, op,       \* control state and operation of each request
  read,         \* the trust score a request has read and not yet written
  faults        \* failures so far

rows  == <<custody, escrow, trust>>
logs  == <<custodyLog, escrowLog, petLog, scoreLog>>
locks == <<custodyLock, escrowLock>>
vars  == <<rows, logs, locks, on, pc, op, read, faults>>

-----------------------------------------------------------------------------
(* What the three settling operations write.                               *)

Settling == {"return", "violation", "cancel"}

Target == [return    |-> "RETURNED",
           violation |-> "VIOLATION",
           cancel    |-> "CANCELLED"]

TargetEvent == [return    |-> "CUSTODY_RETURNED",
                violation |-> "CUSTODY_VIOLATION",
                cancel    |-> "CUSTODY_CANCELLED"]

(* releaseEscrow for a return, refundEscrow for the other two.             *)
EscrowTarget == [return    |-> "RELEASED",
                 violation |-> "REFUNDED",
                 cancel    |-> "REFUNDED"]

EscrowEvent == [RELEASED |-> "ESCROW_RELEASED", REFUNDED |-> "ESCROW_REFUNDED"]

(* The second argument of updateTrustScore; a cancellation does not call it. *)
Delta == [return |-> 5, violation |-> -15]

(* Mutant: no lower limit.                                                 *)
Clamp_NoFloor(n) == IF n > 100 THEN 100 ELSE n

Clamp(n) == IF n < 0 THEN 0 ELSE IF n > 100 THEN 100 ELSE n

(* Control states.  The transaction of a settling operation is open from   *)
(* "update" to "commit"; its row lock is taken by Update.                  *)
Ended  == {"done", "failed"}
Locked == {"log", "petlog", "eupdate", "elog", "ecommit",
           "sread", "swrite", "slog", "commit"}
Active == {"insert", "started", "update"} \cup Locked

HasDeposit(c) == escrow[c] # "NONE"

AfterEscrow(r) == IF op[r] = "cancel" THEN "commit" ELSE "sread"

(* Mutant: the escrow is forgotten.                                        *)
AfterLog_NoPayout(r) == AfterEscrow(r)

AfterLog(r) == IF HasDeposit(on[r]) THEN "eupdate" ELSE AfterEscrow(r)

Goto(r, label) == pc' = [pc EXCEPT ![r] = label]

(* A request that ends gives back every row lock it still holds.           *)
Unlock(lock, r) == [c \in Custody |-> IF lock[c] = r THEN NoRequest ELSE lock[c]]

-----------------------------------------------------------------------------
(* The rows that exist when the process starts are those of the seed: an   *)
(* ACTIVE custody, with or without a deposit, whose start is in the log.   *)
(* No operation of the service activates a custody.                        *)
Init ==
  /\ custody \in [Custody -> {"NONE", "ACTIVE"}]
  /\ escrow \in [Custody -> {"NONE", "CREATED"}]
  /\ \A c \in Custody : custody[c] = "NONE" => escrow[c] = "NONE"
  /\ trust = StartScore
  /\ custodyLog = [c \in Custody |->
                     IF custody[c] = "ACTIVE" THEN <<"CUSTODY_STARTED">> ELSE <<>>]
  /\ escrowLog = [c \in Custody |-> <<>>]
  /\ petLog = [p \in Pet |-> 0]
  /\ scoreLog = [u \in User |-> <<>>]
  /\ custodyLock = [c \in Custody |-> NoRequest]
  /\ escrowLock = [c \in Custody |-> NoRequest]
  /\ pc = [r \in Request |-> "idle"]
  /\ op = [r \in Request |-> "none"]
  /\ on \in [Request -> Custody]
  /\ read = [r \in Request |-> 0]
  /\ faults = 0

-----------------------------------------------------------------------------
(* createCustody.                                                          *)

(* The checks that refuse a new custody: an adoption of the pet that is    *)
(* completed or under way (kept by another service, so any answer), and an *)
(* ACTIVE custody of the same pet.  The id is fresh: no row and no other   *)
(* request has it.                                                         *)
PetHasActiveCustody(p) == \E c \in Custody : PetOf[c] = p /\ custody[c] = "ACTIVE"

FreshId(c) == /\ custody[c] = "NONE"
              /\ \A r \in Request : ~ (op[r] = "create" /\ on[r] = c)

BeginCreate(r) ==
  /\ pc[r] = "idle"
  /\ FreshId(on[r])
  /\ op' = [op EXCEPT ![r] = "create"]
  /\ \/ ~ PetHasActiveCustody(PetOf[on[r]]) /\ Goto(r, "insert")
     \/ Goto(r, "failed")
  /\ UNCHANGED <<rows, logs, locks, on, read, faults>>

(* The transaction that creates the escrow, when the request names a       *)
(* deposit, and the PENDING custody.  Nothing else can see or block its    *)
(* rows before it commits.                                                 *)
Insert(r) ==
  /\ pc[r] = "insert"
  /\ custody' = [custody EXCEPT ![on[r]] = "PENDING"]
  /\ \E e \in {"NONE", "CREATED"} : escrow' = [escrow EXCEPT ![on[r]] = e]
  /\ Goto(r, "started")
  /\ UNCHANGED <<trust, logs, locks, on, op, read, faults>>

(* The event follows the commit.                                           *)
LogStarted(r) ==
  /\ pc[r] = "started"
  /\ custodyLog' = [custodyLog EXCEPT ![on[r]] = Append(@, "CUSTODY_STARTED")]
  /\ Goto(r, "done")
  /\ UNCHANGED <<rows, escrowLog, petLog, scoreLog, locks, on, op, read, faults>>

-----------------------------------------------------------------------------
(* returnCustody, violationCustody and cancelCustody.                      *)

(* The read that opens the transaction and the checks on what it returned: *)
(* the row exists and the status machine allows the transition.            *)
Allowed(c, o) == custody[c] # "NONE" /\ CustodyCanTransition(custody[c], Target[o])

BeginSettle(r, o) ==
  /\ pc[r] = "idle"
  /\ op' = [op EXCEPT ![r] = o]
  /\ Goto(r, IF Allowed(on[r], o) THEN "update" ELSE "failed")
  /\ UNCHANGED <<rows, logs, locks, on, read, faults>>

(* Mutant: the status is written outside the transaction.                  *)
Update_OutsideTx(r) ==
  /\ pc[r] = "update"
  /\ custodyLock[on[r]] = NoRequest
  /\ custodyLock' = [custodyLock EXCEPT ![on[r]] = r]
  /\ custody' = [custody EXCEPT ![on[r]] = Target[op[r]]]
  /\ Goto(r, "log")
  /\ UNCHANGED <<escrow, trust, logs, escrowLock, on, op, read, faults>>

(* Mutant: the update does not wait for the row.                           *)
Update_NoWait(r) ==
  /\ pc[r] = "update"
  /\ custodyLock' = [custodyLock EXCEPT ![on[r]] = r]
  /\ Goto(r, "log")
  /\ UNCHANGED <<rows, logs, escrowLock, on, op, read, faults>>

(* tx.custody.update waits for the row lock.  It does not look at the      *)
(* status again; the new one is visible at the commit.                     *)
Update(r) ==
  /\ pc[r] = "update"
  /\ custodyLock[on[r]] = NoRequest
  /\ custodyLock' = [custodyLock EXCEPT ![on[r]] = r]
  /\ Goto(r, "log")
  /\ UNCHANGED <<rows, logs, escrowLock, on, op, read, faults>>

LogSettlement(r) ==
  /\ pc[r] = "log"
  /\ custodyLog' = [custodyLog EXCEPT ![on[r]] = Append(@, TargetEvent[op[r]])]
  /\ Goto(r, IF op[r] = "cancel" THEN "petlog" ELSE AfterLog(r))
  /\ UNCHANGED <<rows, escrowLog, petLog, scoreLog, locks, on, op, read, faults>>

LogPetCancelled(r) ==
  /\ pc[r] = "petlog"
  /\ petLog' = [petLog EXCEPT ![PetOf[on[r]]] = @ + 1]
  /\ Goto(r, AfterLog(r))
  /\ UNCHANGED <<rows, custodyLog, escrowLog, scoreLog, locks, on, op, read, faults>>

(* releaseEscrow and refundEscrow: a transaction of their own.  Neither    *)
(* looks at the status the escrow has.                                     *)
EscrowUpdate(r) ==
  /\ pc[r] = "eupdate"
  /\ escrowLock[on[r]] = NoRequest
  /\ escrowLock' = [escrowLock EXCEPT ![on[r]] = r]
  /\ Goto(r, "elog")
  /\ UNCHANGED <<rows, logs, custodyLock, on, op, read, faults>>

(* Mutant: a failure to log is swallowed.                                  *)
LogEscrow_Swallowed(r) ==
  /\ pc[r] = "elog"
  /\ Goto(r, "ecommit")
  /\ UNCHANGED <<rows, logs, locks, on, op, read, faults>>

LogEscrow(r) ==
  /\ pc[r] = "elog"
  /\ escrowLog' = [escrowLog EXCEPT ![on[r]] =
                     Append(@, EscrowEvent[EscrowTarget[op[r]]])]
  /\ Goto(r, "ecommit")
  /\ UNCHANGED <<rows, custodyLog, petLog, scoreLog, locks, on, op, read, faults>>

EscrowCommit(r) ==
  /\ pc[r] = "ecommit"
  /\ escrowLock[on[r]] = r
  /\ escrow' = [escrow EXCEPT ![on[r]] = EscrowTarget[op[r]]]
  /\ escrowLock' = [escrowLock EXCEPT ![on[r]] = NoRequest]
  /\ Goto(r, AfterEscrow(r))
  /\ UNCHANGED <<custody, trust, logs, custodyLock, on, op, read, faults>>

(* updateTrustScore: a read, a write of the clamped sum, an event; no      *)
(* transaction and no lock between them.                                   *)
ReadScore(r) ==
  /\ pc[r] = "sread"
  /\ read' = [read EXCEPT ![r] = trust[Holder[on[r]]]]
  /\ Goto(r, "swrite")
  /\ UNCHANGED <<rows, logs, locks, on, op, faults>>

WriteScore(r) ==
  /\ pc[r] = "swrite"
  /\ trust' = [trust EXCEPT ![Holder[on[r]]] = Clamp(read[r] + Delta[op[r]])]
  /\ Goto(r, "slog")
  /\ UNCHANGED <<custody, escrow, logs, locks, on, op, read, faults>>

(* Mutant: the sum is logged before it is clamped.                         *)
LogScore_Unclamped(r) ==
  /\ pc[r] = "slog"
  /\ scoreLog' = [scoreLog EXCEPT ![Holder[on[r]]] =
                    Append(@, [previousScore |-> read[r],
                               newScore |-> read[r] + Delta[op[r]],
                               delta |-> Delta[op[r]]])]
  /\ Goto(r, "commit")
  /\ UNCHANGED <<rows, custodyLog, escrowLog, petLog, locks, on, op, read, faults>>

LogScore(r) ==
  /\ pc[r] = "slog"
  /\ scoreLog' = [scoreLog EXCEPT ![Holder[on[r]]] =
                    Append(@, [previousScore |-> read[r],
                               newScore |-> Clamp(read[r] + Delta[op[r]]),
                               delta |-> Delta[op[r]]])]
  /\ Goto(r, "commit")
  /\ UNCHANGED <<rows, custodyLog, escrowLog, petLog, locks, on, op, read, faults>>

(* Mutant: the row stays locked.                                           *)
Commit_KeepsLock(r) ==
  /\ pc[r] = "commit"
  /\ custodyLock[on[r]] = r
  /\ custody' = [custody EXCEPT ![on[r]] = Target[op[r]]]
  /\ Goto(r, "done")
  /\ UNCHANGED <<escrow, trust, logs, locks, on, op, read, faults>>

Commit(r) ==
  /\ pc[r] = "commit"
  /\ custodyLock[on[r]] = r
  /\ custody' = [custody EXCEPT ![on[r]] = Target[op[r]]]
  /\ custodyLock' = [custodyLock EXCEPT ![on[r]] = NoRequest]
  /\ Goto(r, "done")
  /\ UNCHANGED <<escrow, trust, logs, escrowLock, on, op, read, faults>>

-----------------------------------------------------------------------------
(* Failures.                                                               *)

(* A statement throws or the process dies: open transactions roll back,    *)
(* what was committed on other connections stays.                          *)
Fail(r) ==
  /\ pc[r] \in Active
  /\ faults < MaxFaults
  /\ faults' = faults + 1
  /\ custodyLock' = Unlock(custodyLock, r)
  /\ escrowLock' = Unlock(escrowLock, r)
  /\ Goto(r, "failed")
  /\ UNCHANGED <<rows, logs, on, op, read>>

(* An interactive transaction outlives its time limit: the database rolls  *)
(* it back and frees the row while the handler, awaiting a statement on    *)
(* another connection, runs on.                                            *)
CustodyTxExpires(r) ==
  /\ faults < MaxFaults
  /\ custodyLock[on[r]] = r
  /\ faults' = faults + 1
  /\ custodyLock' = [custodyLock EXCEPT ![on[r]] = NoRequest]
  /\ UNCHANGED <<rows, logs, escrowLock, on, pc, op, read>>

EscrowTxExpires(r) ==
  /\ faults < MaxFaults
  /\ escrowLock[on[r]] = r
  /\ faults' = faults + 1
  /\ escrowLock' = [escrowLock EXCEPT ![on[r]] = NoRequest]
  /\ UNCHANGED <<rows, logs, custodyLock, on, pc, op, read>>

(* The next use of an expired transaction throws.                          *)
CommitExpired(r) ==
  /\ \/ pc[r] = "commit" /\ custodyLock[on[r]] # r
     \/ pc[r] = "ecommit" /\ escrowLock[on[r]] # r
  /\ custodyLock' = Unlock(custodyLock, r)
  /\ Goto(r, "failed")
  /\ UNCHANGED <<rows, logs, escrowLock, on, op, read, faults>>

-----------------------------------------------------------------------------
Begin(r) == BeginCreate(r) \/ \E o \in Settling : BeginSettle(r, o)

(* The statements a handler issues once it has started.                    *)
Step(r) ==
  \/ Insert(r) \/ LogStarted(r)
  \/ Update(r) \/ LogSettlement(r) \/ LogPetCancelled(r)
  \/ EscrowUpdate(r) \/ LogEscrow(r) \/ EscrowCommit(r)
  \/ ReadScore(r) \/ WriteScore(r) \/ LogScore(r)
  \/ Commit(r) \/ CommitExpired(r)

Fault(r) == Fail(r) \/ CustodyTxExpires(r) \/ EscrowTxExpires(r)

(* Every request has been answered.                                        *)
Quiet == \A r \in Request : pc[r] \in Ended

Next == \/ \E r \in Request : Begin(r) \/ Step(r) \/ Fault(r)
        \/ Quiet /\ UNCHANGED vars

Spec == Init /\ [][Next]_vars

(* The event loop resumes every handler whose statement has been answered, *)
(* and the database answers a statement that is not waiting for a row.     *)
FairSpec == Spec /\ \A r \in Request : WF_vars(Step(r))

-----------------------------------------------------------------------------
(* Properties.                                                             *)

TypeOK ==
  /\ custody \in [Custody -> CustodyStatus \cup {"NONE"}]
  /\ escrow \in [Custody -> EscrowStatus \cup {"NONE"}]
  /\ trust \in [User -> 0..100]
  /\ custodyLog \in [Custody -> Seq({"CUSTODY_STARTED", "CUSTODY_RETURNED",
                                     "CUSTODY_VIOLATION", "CUSTODY_CANCELLED"})]
  /\ escrowLog \in [Custody -> Seq({"ESCROW_RELEASED", "ESCROW_REFUNDED"})]
  /\ petLog \in [Pet -> Nat]
  /\ scoreLog \in [User -> Seq([previousScore : 0..100, newScore : 0..100,
                                delta : {5, -15}])]
  /\ custodyLock \in [Custody -> Request \cup {NoRequest}]
  /\ escrowLock \in [Custody -> Request \cup {NoRequest}]
  /\ pc \in [Request -> {"idle"} \cup Active \cup Ended]
  /\ op \in [Request -> {"none", "create"} \cup Settling]
  /\ on \in [Request -> Custody]
  /\ read \in [Request -> 0..100]
  /\ faults \in 0..MaxFaults

Closed(c) == custody[c] \in {Target[o] : o \in Settling}

(* A custody is closed only when its deposit has been paid out: the inner  *)
(* transaction of releaseEscrow or refundEscrow commits before the outer   *)
(* one, whatever fails, expires or races.                                  *)
ClosedIsSettled ==
  \A c \in Custody : Closed(c) /\ HasDeposit(c) => escrow[c] \in EscrowSettled

Logged(log, e) == \E i \in DOMAIN log : log[i] = e

(* No committed settlement is missing from the event log: logEvent rethrows *)
(* and every handler logs before it commits, so a failed log undoes the     *)
(* change and a crash loses the change rather than the event.               *)
EventBacked ==
  /\ \A c \in Custody, o \in Settling :
       custody[c] = Target[o] => Logged(custodyLog[c], TargetEvent[o])
  /\ \A c \in Custody :
       escrow[c] \in EscrowSettled => Logged(escrowLog[c], EscrowEvent[escrow[c]])

(* Without failures, whoever has the row lock last decides custody and     *)
(* deposit together: when the row is free a RETURNED custody has its        *)
(* escrow RELEASED, any other closed one has it REFUNDED, also after a race *)
(* in which both handlers passed the status check.                          *)
DepositMatchesOutcome ==
  faults = 0 =>
    \A c \in Custody, o \in Settling :
      /\ custodyLock[c] = NoRequest
      /\ custody[c] = Target[o]
      /\ HasDeposit(c)
      => escrow[c] = EscrowTarget[o]

(* Without failures the settlement events of a custody were inserted in    *)
(* the order of the updates they report: the last one is the status of the *)
(* row whenever nobody is writing it.  CUSTODY_STARTED is not counted, it   *)
(* follows the commit that creates the row.                                 *)
LastSettlement(c) ==
  LET settled == {i \in DOMAIN custodyLog[c] : custodyLog[c][i] # "CUSTODY_STARTED"}
  IN  IF settled = {} THEN "NONE"
      ELSE custodyLog[c][CHOOSE i \in settled : \A j \in settled : j <= i]

LogFollowsRow ==
  faults = 0 =>
    \A c \in Custody :
      custodyLock[c] = NoRequest =>
        \/ LastSettlement(c) = "NONE" /\ ~ Closed(c)
        \/ \E o \in Settling : /\ custody[c] = Target[o]
                               /\ LastSettlement(c) = TargetEvent[o]

(* The score of a user with a single custody is serialised by that         *)
(* custody's row lock: without failures it is the newScore of the last      *)
(* event whenever the row is free.                                          *)
OnlyCustody(c, u) == {d \in Custody : Holder[d] = u} = {c}

ScoreFollowsLog ==
  faults = 0 =>
    \A c \in Custody, u \in User :
      OnlyCustody(c, u) /\ custodyLock[c] = NoRequest =>
        trust[u] = IF scoreLog[u] = <<>> THEN StartScore[u]
                   ELSE scoreLog[u][Len(scoreLog[u])].newScore

(* Every request that was accepted is answered: the custody lock is always *)
(* taken before the escrow lock, so no two requests wait for each other.    *)
EveryRequestEnds == \A r \in Request : pc[r] \in Active ~> pc[r] \in Ended

-----------------------------------------------------------------------------
(* What the documentation and the tests say, and the code does not keep.   *)

(* "terminal states are immutable" (custody-state-machine.service.spec.ts): *)
(* no step changes the status of a custody the table has no way out of.     *)
TerminalIsImmutable ==
  [][\A c \in Custody : custody[c] \in CustodyTerminal => custody'[c] = custody[c]]_vars

(* The requests for o that succeeded on custodies of u.                   *)
Succeeded(u, o) == {r \in Request : op[r] = o /\ pc[r] = "done" /\ Holder[on[r]] = u}

(* "updates trust score positively" and "penalizes trust score"             *)
(* (custody.controller.ts): without failures every success moves the score. *)
ScoreAddsUp ==
  Quiet /\ faults = 0 => \A u \in User :
    LET sum == StartScore[u] + 5 * Cardinality(Succeeded(u, "return"))
                             - 15 * Cardinality(Succeeded(u, "violation"))
    IN  sum \in 0..100 => trust[u] = sum

-----------------------------------------------------------------------------
(* What the deposit contract promises, and the mapping onto it.            *)

phase   == [c \in Custody |-> IF custody[c] = "NONE" THEN "none"
                              ELSE IF Closed(c) THEN "closed" ELSE "open"]
deposit == [c \in Custody |-> IF escrow[c] = "NONE" THEN "none"
                              ELSE IF escrow[c] \in EscrowSettled THEN "paid"
                              ELSE "held"]

Contract == INSTANCE DepositContract

(* The service implements the contract: a deposit leaves the escrow for    *)
(* good before its custody closes, and a closed custody stays closed.  Two *)
(* racing payouts of one deposit are one to the contract.                   *)
ImplementsContract == Contract!Spec
=============================================================================
