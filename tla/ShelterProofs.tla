---------------------------- MODULE ShelterProofs ----------------------------
(***************************************************************************)
(* Proofs about Shelter, for any set of pets, users, adoptions, custodies, *)
(* requests and removals and any number of failures.  What the services    *)
(* guarantee on their own is taken from the proofs about them: Shelter's   *)
(* instances of the services are those of the instances below.             *)
(***************************************************************************)
EXTENDS Shelter, TLAPS

AP == INSTANCE AdoptionServiceProofs
       WITH Request <- AdoptionRequest, PetOf <- AdoptionPet,
            MaxFaults <- AdoptionFaults, escrow <- payment,
            escrowLog <- paymentLog, on <- aOn, pc <- aPc, op <- aOp,
            faults <- aFaults

(* The custodies, while nobody replays their events.                       *)
CP == INSTANCE EventReplayProofs
       WITH Request <- CustodyRequest, PetOf <- CustodyPet,
            MaxFaults <- CustodyFaults, escrow <- deposit,
            escrowLog <- depositLog, on <- cOn, pc <- cPc, op <- cOp,
            faults <- cFaults, Admin <- {}, replay <- <<>>, audit <- {}

-----------------------------------------------------------------------------
(* The services.                                                           *)

(* What is proved of AdoptionService is proved of the adoptions here: the  *)
(* types, and that a request is in the part of a handler that belongs to   *)
(* its operation.                                                          *)
LEMMA SameAdoptions ==
  /\ A!Init <=> AP!Init
  /\ A!TypeOK <=> AP!TypeOK
  /\ A!TypeOK' <=> AP!TypeOK'
  /\ UNCHANGED adoptions <=> UNCHANGED AP!vars
  /\ \A r : /\ A!Begin(r) <=> AP!Begin(r)
            /\ A!Step(r) <=> AP!Step(r)
            /\ A!Fault(r) <=> AP!Fault(r)
  /\ \A a : A!Operator(a) <=> AP!Operator(a)
<1> USE DEF A!rows, A!logs, A!txs, A!Row, A!Active, A!Ended, A!Goto, A!Close,
        A!TakeRow, A!AdoptionRow, A!EscrowRow, A!PetRow, A!Alone, A!Target,
        A!EscrowTarget, A!EscrowEvent, A!StatusEvent, A!ActiveStatus,
        A!PetHasActiveAdoption, A!FreshId, A!Allowed, A!AdoptionCanTransition,
        A!AdoptionTransitions,
        AP!rows, AP!logs, AP!txs, AP!Row, AP!Active, AP!Ended, AP!Goto, AP!Close,
        AP!TakeRow, AP!AdoptionRow, AP!EscrowRow, AP!PetRow, AP!Alone, AP!Target,
        AP!EscrowTarget, AP!EscrowEvent, AP!StatusEvent, AP!ActiveStatus,
        AP!PetHasActiveAdoption, AP!FreshId, AP!Allowed, AP!AdoptionCanTransition,
        AP!AdoptionTransitions
<1>1. A!Init <=> AP!Init
  BY DEF A!Init, AP!Init, A!PetHasAdoption, AP!PetHasAdoption
<1>2. A!TypeOK <=> AP!TypeOK
  BY DEF A!TypeOK, AP!TypeOK, A!AdoptionStatus, AP!AdoptionStatus, A!EscrowStatus,
         AP!EscrowStatus, A!AdoptionEvent, AP!AdoptionEvent
<1>3. A!TypeOK' <=> AP!TypeOK'
  BY DEF A!TypeOK, AP!TypeOK, A!AdoptionStatus, AP!AdoptionStatus, A!EscrowStatus,
         AP!EscrowStatus, A!AdoptionEvent, AP!AdoptionEvent
<1>4. UNCHANGED adoptions <=> UNCHANGED AP!vars
  BY DEF adoptions, AP!vars
<1>5. \A r : A!Begin(r) <=> AP!Begin(r)
  BY DEF A!Begin, AP!Begin, A!BeginRequest, AP!BeginRequest, A!BeginDecision,
         AP!BeginDecision, A!BeginComplete, AP!BeginComplete, A!BeginPayout, AP!BeginPayout
<1>6. \A r : A!Step(r) <=> AP!Step(r)
  BY DEF A!Step, AP!Step, A!CheckActive, AP!CheckActive, A!LogRequested, AP!LogRequested,
         A!CommitRequest, AP!CommitRequest, A!UpdateAdoption, AP!UpdateAdoption,
         A!LogApproved, AP!LogApproved, A!CommitDecision, AP!CommitDecision,
         A!WriteStatus, AP!WriteStatus, A!LogStatus, AP!LogStatus,
         A!UpdateEscrow, AP!UpdateEscrow, A!LogPayout, AP!LogPayout,
         A!ReleaseAdoption, AP!ReleaseAdoption, A!ReleasePet, AP!ReleasePet,
         A!LogCompleted, AP!LogCompleted, A!CommitPayout, AP!CommitPayout,
         A!UseExpired, AP!UseExpired
<1>7. \A r : A!Fault(r) <=> AP!Fault(r)
  BY DEF A!Fault, AP!Fault, A!Fail, AP!Fail, A!TxExpires, AP!TxExpires
<1>8. \A a : A!Operator(a) <=> AP!Operator(a)
  BY DEF A!Operator, AP!Operator
<1> QED
  BY <1>1, <1>2, <1>3, <1>4, <1>5, <1>6, <1>7, <1>8

(* The same for CustodyService and the custodies.                          *)
LEMMA SameCustodies ==
  /\ C!Init <=> CP!Init
  /\ C!TypeOK <=> CP!TypeOK
  /\ C!TypeOK' <=> CP!TypeOK'
  /\ UNCHANGED custodies <=> UNCHANGED CP!vars
  /\ \A r : /\ C!BeginCreate(r) <=> CP!BeginCreate(r)
            /\ \A o : C!BeginSettle(r, o) <=> CP!BeginSettle(r, o)
            /\ C!Step(r) <=> CP!Step(r)
            /\ C!Fault(r) <=> CP!Fault(r)
  /\ C!Settling = CP!Settling
<1> USE DEF C!rows, C!logs, C!locks, C!Settling, C!Target, C!TargetEvent, C!EscrowTarget,
        C!EscrowEvent, C!Delta, C!Clamp, C!Ended, C!Locked, C!Active, C!HasDeposit,
        C!AfterEscrow, C!AfterLog, C!Goto, C!Unlock,
        CP!rows, CP!logs, CP!locks, CP!Settling, CP!Target, CP!TargetEvent, CP!EscrowTarget,
        CP!EscrowEvent, CP!Delta, CP!Clamp, CP!Ended, CP!Locked, CP!Active, CP!HasDeposit,
        CP!AfterEscrow, CP!AfterLog, CP!Goto, CP!Unlock
<1>1. C!Init <=> CP!Init
  BY DEF C!Init, CP!Init
<1>2. C!TypeOK <=> CP!TypeOK
  BY DEF C!TypeOK, CP!TypeOK, C!CustodyStatus, CP!CustodyStatus, C!EscrowStatus, CP!EscrowStatus
<1>3. C!TypeOK' <=> CP!TypeOK'
  BY DEF C!TypeOK, CP!TypeOK, C!CustodyStatus, CP!CustodyStatus, C!EscrowStatus, CP!EscrowStatus
<1>4. UNCHANGED custodies <=> UNCHANGED CP!vars
  BY DEF custodies, CP!vars
<1>5. \A r : C!BeginCreate(r) <=> CP!BeginCreate(r)
  BY DEF C!BeginCreate, CP!BeginCreate, C!FreshId, CP!FreshId,
         C!PetHasActiveCustody, CP!PetHasActiveCustody
<1>6. \A r : \A o : C!BeginSettle(r, o) <=> CP!BeginSettle(r, o)
  BY DEF C!BeginSettle, CP!BeginSettle, C!Allowed, CP!Allowed, C!CustodyCanTransition,
         CP!CustodyCanTransition, C!CustodyTransitions, CP!CustodyTransitions
<1>7. \A r : C!Step(r) <=> CP!Step(r)
  BY DEF C!Step, CP!Step, C!Insert, CP!Insert, C!LogStarted, CP!LogStarted,
         C!Update, CP!Update, C!LogSettlement, CP!LogSettlement,
         C!LogPetCancelled, CP!LogPetCancelled, C!EscrowUpdate, CP!EscrowUpdate,
         C!LogEscrow, CP!LogEscrow, C!EscrowCommit, CP!EscrowCommit,
         C!ReadScore, CP!ReadScore, C!WriteScore, CP!WriteScore, C!LogScore, CP!LogScore,
         C!Commit, CP!Commit, C!CommitExpired, CP!CommitExpired
<1>8. \A r : C!Fault(r) <=> CP!Fault(r)
  BY DEF C!Fault, CP!Fault, C!Fail, CP!Fail, C!CustodyTxExpires, CP!CustodyTxExpires,
         C!EscrowTxExpires, CP!EscrowTxExpires
<1>9. C!Settling = CP!Settling
  OBVIOUS
<1> QED
  BY <1>1, <1>2, <1>3, <1>4, <1>5, <1>6, <1>7, <1>8, <1>9

(* The steps of a service on its own keep its types and control states.    *)
LEMMA AdoptionsStep ==
  ASSUME A!TypeOK, AP!ControlOK,
         \/ \E r \in AdoptionRequest : A!Begin(r) \/ A!Step(r) \/ A!Fault(r)
         \/ \E a \in Adoption : A!Operator(a)
         \/ UNCHANGED adoptions
  PROVE  A!TypeOK' /\ AP!ControlOK'
<1>1. AP!TypeOK /\ [AP!Next]_(AP!vars)
  BY SameAdoptions DEF AP!Next
<1>2. AP!TypeOK'
  BY <1>1, AP!TypeStep, ShelterAssumption DEF AP!TypeStep, A!ConstantsAssumption
<1>3. AP!ControlOK'
  BY <1>1, AP!ControlStep, ShelterAssumption DEF AP!ControlStep, A!ConstantsAssumption
<1> QED
  BY <1>2, <1>3, SameAdoptions

(* So do those of the custody service.                                     *)
LEMMA CustodiesStep ==
  ASSUME C!TypeOK, CP!ControlOK,
         \/ \E r \in CustodyRequest :
              \/ C!BeginCreate(r) \/ C!Step(r) \/ C!Fault(r)
              \/ \E o \in C!Settling : C!BeginSettle(r, o)
         \/ UNCHANGED custodies
  PROVE  C!TypeOK' /\ CP!ControlOK'
<1>1. CP!TypeOK /\ [CP!Next]_(CP!vars)
  BY SameCustodies DEF CP!Next, CP!Begin
<1>2. CP!TypeOK'
  BY <1>1, CP!TypeStep, ShelterAssumption DEF CP!TypeStep, C!ConstantsAssumption
<1>3. CP!ControlOK'
  <2>1. CP!RowTypes
    BY <1>1, CP!TypedRows, ShelterAssumption DEF CP!TypedRows, C!ConstantsAssumption
  <2> QED
    BY <1>1, <2>1, CP!ControlStep, ShelterAssumption DEF CP!ControlStep, C!ConstantsAssumption
<1> QED
  BY <1>2, <1>3, SameCustodies
-----------------------------------------------------------------------------
(* Type correctness.                                                       *)

(* A statement of an adoption request throws: its transaction rolls back.  *)
Abandons(r) ==
  /\ A!Goto(r, "failed")
  /\ A!Close(r)
  /\ UNCHANGED <<adoption, payment, owner, adoptionLog, paymentLog, aOn, aOp, seen, aFaults>>

(* What a step of the shelter is to the adoptions, and to the custodies.   *)
AdoptionsMove ==
  \/ \E r \in AdoptionRequest : A!Begin(r) \/ A!Step(r) \/ A!Fault(r)
  \/ \E a \in Adoption : A!Operator(a)
  \/ UNCHANGED adoptions

CustodiesMove ==
  \/ \E r \in CustodyRequest :
       \/ C!BeginCreate(r) \/ C!Step(r) \/ C!Fault(r)
       \/ \E o \in C!Settling : C!BeginSettle(r, o)
  \/ UNCHANGED custodies

(* Every step, by what it is to the adoptions.                             *)
LEMMA AdoptionActs ==
  ASSUME [Next]_vars
  PROVE  \/ \E r \in AdoptionRequest : AdoptionStep(r)
         \/ \E r \in AdoptionRequest : Abandons(r) /\ UNCHANGED pets
         \/ \E r \in AdoptionRequest : (A!Begin(r) \/ A!Fault(r)) /\ UNCHANGED pets
         \/ \E a \in Adoption : A!Operator(a) /\ UNCHANGED pets
         \/ \E p \in Pet, u \in Lister : CreatePet(p, u)
         \/ \E m \in Removal : CommitRemove(m)
         \/ UNCHANGED adoptions
<1>1. ASSUME NEW r \in AdoptionRequest, AdoptionRowGone(r)
      PROVE  Abandons(r) /\ UNCHANGED pets
  BY <1>1 DEF AdoptionRowGone, Abandons
<1>2. ASSUME AdoptionElse
      PROVE  \/ \E r \in AdoptionRequest : (A!Begin(r) \/ A!Fault(r)) /\ UNCHANGED pets
             \/ \E a \in Adoption : A!Operator(a) /\ UNCHANGED pets
  BY <1>2 DEF AdoptionElse
<1>3. ASSUME NEW r \in CustodyRequest,
             \/ CustodyChecks(r) \/ BeginSettle(r) \/ CustodyStep(r)
             \/ CustodyRowGone(r) \/ CustodyFault(r)
      PROVE  UNCHANGED adoptions
  BY <1>3 DEF CustodyChecks, BeginSettle, CustodyStep, CustodyRowGone, CustodyFault
<1>4. ASSUME NEW m \in Removal, BeginRemove(m) \/ TakePet(m) \/ TakeDependent(m)
      PROVE  UNCHANGED adoptions
  BY <1>4 DEF BeginRemove, TakePet, TakeDependent
<1>5. ASSUME NEW m \in Removal, NEW r \in AdoptionRequest, BreakDeadlock(m, r)
      PROVE  UNCHANGED adoptions \/ (Abandons(r) /\ UNCHANGED pets)
  <2>1. CASE UNCHANGED adoptions
    BY <2>1
  <2>2. CASE ~ UNCHANGED adoptions
    <3>1. /\ A!Goto(r, "failed")
          /\ A!Close(r)
          /\ UNCHANGED <<adoption, payment, owner, adoptionLog, paymentLog,
                         aOn, aOp, seen, aFaults, pets>>
      BY <1>5, <2>2 DEF BreakDeadlock
    <3> QED
      BY <3>1 DEF Abandons
  <2> QED
    BY <2>1, <2>2
<1>6. ASSUME UNCHANGED vars PROVE UNCHANGED adoptions
  BY <1>6 DEF vars
<1> QED
  BY <1>1, <1>2, <1>3, <1>4, <1>5, <1>6 DEF Next, RemoveStep

(* The same, without what an adoption request waits for.                   *)
LEMMA AdoptionCases ==
  ASSUME [Next]_vars
  PROVE  \/ AdoptionsMove
         \/ \E r \in AdoptionRequest : Abandons(r)
         \/ \E p \in Pet, u \in Lister : CreatePet(p, u)
         \/ \E m \in Removal : CommitRemove(m)
BY AdoptionActs DEF AdoptionsMove, AdoptionStep

(* Every step, by what it is to the custodies.                             *)
LEMMA CustodyCases ==
  ASSUME [Next]_vars
  PROVE  \/ CustodiesMove
         \/ \E r \in CustodyRequest : CustodyRowGone(r)
         \/ \E m \in Removal : CommitRemove(m)
<1>1. ASSUME NEW r \in AdoptionRequest, AdoptionStep(r) \/ AdoptionRowGone(r)
      PROVE  CustodiesMove
  BY <1>1 DEF AdoptionStep, AdoptionRowGone, CustodiesMove
<1>2. CASE AdoptionElse
  BY <1>2 DEF AdoptionElse, CustodiesMove
<1>3. ASSUME NEW r \in CustodyRequest,
             CustodyChecks(r) \/ BeginSettle(r) \/ CustodyStep(r) \/ CustodyFault(r)
      PROVE  CustodiesMove
  BY <1>3 DEF CustodyChecks, BeginSettle, CustodyStep, CustodyFault, CustodiesMove
<1>4. ASSUME NEW p \in Pet, NEW u \in Lister, CreatePet(p, u) PROVE CustodiesMove
  BY <1>4 DEF CreatePet, CustodiesMove
<1>5. ASSUME NEW m \in Removal, BeginRemove(m) \/ TakePet(m) \/ TakeDependent(m)
      PROVE  CustodiesMove
  BY <1>5 DEF BeginRemove, TakePet, TakeDependent, CustodiesMove
<1>6. ASSUME NEW m \in Removal, NEW r \in AdoptionRequest, BreakDeadlock(m, r)
      PROVE  CustodiesMove
  BY <1>6 DEF BreakDeadlock, CustodiesMove
<1>7. CASE UNCHANGED vars
  BY <1>7 DEF vars, CustodiesMove
<1> QED
  BY <1>1, <1>2, <1>3, <1>4, <1>5, <1>6, <1>7 DEF Next, RemoveStep

(* The types of the shelter's own state.                                   *)
DependentRow == ({"adoption"} \X Adoption) \cup ({"custody"} \X Custody)

PetTypes ==
  /\ life \in [Pet -> {"absent", "listed", "gone"}]
  /\ checks \in [CustodyRequest -> 0 .. 2]
  /\ target \in [Removal -> Pet]
  /\ rPc \in [Removal -> {"idle", "delete", "cascade", "done", "failed"}]
  /\ claim \in [Removal -> SUBSET DependentRow]

Types == A!TypeOK /\ AP!ControlOK /\ C!TypeOK /\ CP!ControlOK /\ PetTypes

(* The steps that a service on its own does not have, a rollback, a new pet *)
(* and a removal, keep its types too.                                      *)
LEMMA AdoptionTypes ==
  ASSUME Types, [Next]_vars
  PROVE  A!TypeOK' /\ AP!ControlOK'
<1>0. A!TypeOK /\ AP!ControlOK
  BY DEF Types
<1>1. CASE AdoptionsMove
  BY <1>0, <1>1, AdoptionsStep DEF AdoptionsMove
<1>2. ASSUME NEW r \in AdoptionRequest, Abandons(r) PROVE A!TypeOK' /\ AP!ControlOK'
  BY <1>0, <1>2 DEF Abandons, A!Goto, A!Close, A!TypeOK, A!Ended, AP!ControlOK
<1>3. ASSUME NEW p \in Pet, NEW u \in Lister, CreatePet(p, u)
      PROVE  A!TypeOK' /\ AP!ControlOK'
  <2>1. owner' \in [Pet -> User \cup {NoOwner}]
    BY <1>0, <1>3, ShelterAssumption DEF CreatePet, A!TypeOK
  <2> QED
    BY <1>0, <1>3, <2>1 DEF CreatePet, A!TypeOK, AP!ControlOK
<1>4. ASSUME NEW m \in Removal, CommitRemove(m) PROVE A!TypeOK' /\ AP!ControlOK'
  <2>1. /\ owner' \in [Pet -> User \cup {NoOwner}]
        /\ adoption' \in [Adoption -> A!AdoptionStatus \cup {"NONE"}]
    BY <1>0, <1>4 DEF CommitRemove, Deleted, A!TypeOK
  <2> QED
    BY <1>0, <1>4, <2>1 DEF CommitRemove, A!TypeOK, AP!ControlOK
<1> QED
  BY <1>1, <1>2, <1>3, <1>4, AdoptionCases

(* The same for the custodies.                                             *)
LEMMA CustodyTypes ==
  ASSUME Types, [Next]_vars
  PROVE  C!TypeOK' /\ CP!ControlOK'
<1>0. C!TypeOK /\ CP!ControlOK
  BY DEF Types
<1>1. CASE CustodiesMove
  BY <1>0, <1>1, CustodiesStep DEF CustodiesMove
<1>2. ASSUME NEW r \in CustodyRequest, CustodyRowGone(r) PROVE C!TypeOK' /\ CP!ControlOK'
  BY <1>0, <1>2 DEF CustodyRowGone, C!Goto, C!TypeOK, C!Ended, CP!ControlOK, CP!Locked
<1>3. ASSUME NEW m \in Removal, CommitRemove(m) PROVE C!TypeOK' /\ CP!ControlOK'
  <2>1. custody' \in [Custody -> C!CustodyStatus \cup {"NONE"}]
    BY <1>0, <1>3 DEF CommitRemove, Deleted, C!TypeOK
  <2> QED
    BY <1>0, <1>3, <2>1 DEF CommitRemove, C!TypeOK, CP!ControlOK
<1> QED
  BY <1>1, <1>2, <1>3, CustodyCases

(* Every step keeps the types of the pets and the removals.                *)
LEMMA PetTypesStep ==
  ASSUME Types, [Next]_vars
  PROVE  PetTypes'
<1> USE DEF Types, PetTypes
<1>1. ASSUME UNCHANGED pets PROVE PetTypes'
  BY <1>1 DEF pets
<1>2. ASSUME NEW r \in AdoptionRequest, AdoptionStep(r) \/ AdoptionRowGone(r) PROVE PetTypes'
  BY <1>1, <1>2 DEF AdoptionStep, AdoptionRowGone
<1>3. CASE AdoptionElse
  BY <1>1, <1>3 DEF AdoptionElse
<1>4. ASSUME NEW r \in CustodyRequest, CustodyChecks(r) PROVE PetTypes'
  <2>1. /\ \/ UNCHANGED checks
           \/ checks[r] < 2 /\ checks' = [checks EXCEPT ![r] = @ + 1]
        /\ UNCHANGED <<life, target, rPc, claim>>
    BY <1>4 DEF CustodyChecks
  <2>2. checks' \in [CustodyRequest -> 0 .. 2]
    BY <2>1
  <2> QED
    BY <2>1, <2>2
<1>5. ASSUME NEW r \in CustodyRequest,
             BeginSettle(r) \/ CustodyStep(r) \/ CustodyRowGone(r) \/ CustodyFault(r)
      PROVE  PetTypes'
  BY <1>1, <1>5 DEF BeginSettle, CustodyStep, CustodyRowGone, CustodyFault
<1>6. ASSUME NEW p \in Pet, NEW u \in Lister, CreatePet(p, u) PROVE PetTypes'
  BY <1>6 DEF CreatePet
<1>7. ASSUME NEW m \in Removal, BeginRemove(m) PROVE PetTypes'
  BY <1>7 DEF BeginRemove
<1>8. ASSUME NEW m \in Removal, TakePet(m) PROVE PetTypes'
  BY <1>8 DEF TakePet
<1>9. ASSUME NEW m \in Removal, TakeDependent(m) PROVE PetTypes'
  <2>1. PICK row \in Dependents(target[m]) : claim' = [claim EXCEPT ![m] = @ \cup {row}]
    BY <1>9 DEF TakeDependent
  <2>2. row \in DependentRow
    BY <2>1 DEF Dependents, PetAdoptions, PetCustodies, DependentRow
  <2>3. claim' \in [Removal -> SUBSET DependentRow]
    <3> HIDE DEF DependentRow
    <3> QED
      BY <2>1, <2>2
  <2> QED
    BY <1>9, <2>3 DEF TakeDependent
<1>10. ASSUME NEW m \in Removal, CommitRemove(m) PROVE PetTypes'
  BY <1>10 DEF CommitRemove
<1>11. ASSUME NEW m \in Removal, NEW r \in AdoptionRequest, BreakDeadlock(m, r)
       PROVE  PetTypes'
  BY <1>1, <1>11 DEF BreakDeadlock
<1>12. CASE UNCHANGED vars
  BY <1>1, <1>12 DEF vars
<1> QED
  BY <1>2, <1>3, <1>4, <1>5, <1>6, <1>7, <1>8, <1>9, <1>10, <1>11, <1>12
  DEF Next, RemoveStep

(* The types are inductive.                                                *)
LEMMA TypesStep == Types /\ [Next]_vars => Types'
BY AdoptionTypes, CustodyTypes, PetTypesStep DEF Types

(* They hold at the start, by the proofs about the services.               *)
LEMMA TypesInit == Init => Types
<1> SUFFICES ASSUME Init PROVE Types
  OBVIOUS
<1>1. A!TypeOK /\ AP!ControlOK
  BY AP!InitType, ShelterAssumption, SameAdoptions
  DEF Init, AP!InitType, A!ConstantsAssumption
<1>2. C!TypeOK /\ CP!ControlOK
  BY CP!InitType, ShelterAssumption, SameCustodies
  DEF Init, CP!InitType, C!ConstantsAssumption
<1>3. PetTypes
  BY DEF Init, PetTypes
<1> QED
  BY <1>1, <1>2, <1>3 DEF Types

(* The rows of both services and the state of the pets are well typed,     *)
(* whatever a removal takes away under a running request.                  *)
THEOREM ShelterTypeCorrect == Spec => []TypeOK
<1>1. Types => TypeOK
  BY DEF Types, PetTypes, DependentRow, TypeOK
<1> QED
  BY <1>1, TypesInit, TypesStep, PTL DEF Spec

(* A pet that the database calls available is one that createCustody       *)
(* accepts, and the reverse: the searches of the two services leave no     *)
(* status of an adoption or a custody between them.                        *)
THEOREM SearchesAgree == Spec => []AvailableIsAccepted
<1>1. Types => AvailableIsAccepted
  BY DEF Types, A!TypeOK, A!AdoptionStatus, AvailableIsAccepted, DbAvailable, PetIsAdopted,
         AdoptionInProgress, PetAdoptions, PetCustodies, C!PetHasActiveCustody
<1> QED
  BY <1>1, TypesInit, TypesStep, PTL DEF Spec

-----------------------------------------------------------------------------
(* A payment and its pet.                                                  *)

HandsOver ==
  \A a \in Adoption :
    payment'[a] = "RELEASED" /\ payment[a] # "RELEASED" =>
      \/ adoption'[a] = "COMPLETED" /\ owner'[AdoptionPet[a]] = Adopter[a]
      \/ \E r \in AdoptionRequest :
           aOn[r] = a /\ aPc[r] = "ecommit" /\ seen[r] = "NONE"

(* Only the commit of a payout releases a payment, and it writes the       *)
(* adoption and the pet with it unless it found no adoption.               *)
LEMMA HandsOverStep == Types /\ [Next]_vars => HandsOver
<1> SUFFICES ASSUME Types, [Next]_vars, NEW a \in Adoption,
                    payment'[a] = "RELEASED", payment[a] # "RELEASED"
             PROVE  \/ adoption'[a] = "COMPLETED" /\ owner'[AdoptionPet[a]] = Adopter[a]
                    \/ \E r \in AdoptionRequest :
                         aOn[r] = a /\ aPc[r] = "ecommit" /\ seen[r] = "NONE"
  BY DEF HandsOver
<1>0. /\ payment \in [Adoption -> A!EscrowStatus \cup {"NONE"}]
      /\ adoption \in [Adoption -> A!AdoptionStatus \cup {"NONE"}]
      /\ owner \in [Pet -> User \cup {NoOwner}]
      /\ AdoptionPet \in [Adoption -> Pet]
      /\ aOn \in [AdoptionRequest -> Adoption]
  BY ShelterAssumption DEF Types, A!TypeOK, A!ConstantsAssumption
<1>1. ~ UNCHANGED payment
  OBVIOUS
<1>2. ASSUME NEW r \in AdoptionRequest, A!Begin(r) PROVE FALSE
  BY <1>1, <1>2 DEF A!Begin, A!BeginRequest, A!BeginDecision, A!BeginComplete, A!BeginPayout,
                    A!rows
<1>3. ASSUME NEW r \in AdoptionRequest, A!Fault(r) PROVE FALSE
  BY <1>1, <1>3 DEF A!Fault, A!Fail, A!TxExpires, A!rows
<1>4. ASSUME NEW b \in Adoption, A!Operator(b) PROVE FALSE
  BY <1>0, <1>4 DEF A!Operator
<1>5. ASSUME NEW r \in AdoptionRequest, Abandons(r) PROVE FALSE
  BY <1>1, <1>5 DEF Abandons
<1>6. ASSUME NEW p \in Pet, NEW u \in Lister, CreatePet(p, u) PROVE FALSE
  BY <1>1, <1>6 DEF CreatePet
<1>7. ASSUME NEW m \in Removal, CommitRemove(m) PROVE FALSE
  BY <1>1, <1>7 DEF CommitRemove
<1>8. ~ UNCHANGED adoptions
  BY <1>1 DEF adoptions
<1>9. PICK r \in AdoptionRequest : A!Step(r)
  BY <1>2, <1>3, <1>4, <1>5, <1>6, <1>7, <1>8, AdoptionCases DEF AdoptionsMove
<1>10. A!CommitPayout(r)
  BY <1>1, <1>9 DEF A!Step, A!CheckActive, A!LogRequested, A!CommitRequest, A!UpdateAdoption,
     A!LogApproved, A!CommitDecision, A!WriteStatus, A!LogStatus, A!UpdateEscrow, A!LogPayout,
     A!ReleaseAdoption, A!ReleasePet, A!LogCompleted, A!UseExpired, A!rows
<1>11. a = aOn[r] /\ aPc[r] = "ecommit" /\ A!EscrowTarget[aOp[r]] = "RELEASED"
  BY <1>0, <1>10 DEF A!CommitPayout
<1>12. aOp[r] # "refund"
  BY <1>11 DEF A!EscrowTarget
<1>13. CASE A!Alone(r)
  BY <1>11, <1>12, <1>13 DEF A!Alone
<1>14. CASE ~ A!Alone(r)
  BY <1>0, <1>10, <1>11, <1>14 DEF A!CommitPayout
<1> QED
  BY <1>13, <1>14

(* A payment is released together with the pet; only a release that found  *)
(* no adoption with the escrow pays without handing anything over.         *)
THEOREM PaymentHandsOver == Spec => ReleaseHandsOver
<1>1. Types /\ [Next]_vars => [HandsOver]_vars
  BY HandsOverStep
<1> QED
  BY <1>1, TypesInit, TypesStep, PTL DEF Spec, ReleaseHandsOver, HandsOver

-----------------------------------------------------------------------------
(* Who has the rows.                                                       *)

(* The transaction of r has updated the row of its adoption.               *)
HasAdoption(r) == \/ aPc[r] \in {"dlog", "commit", "pupdate", "alog"}
                  \/ aPc[r] = "ecommit" /\ ~ A!Alone(r)

LocksHeld ==
  \A r \in AdoptionRequest :
    r \in open /\ HasAdoption(r) => lock[<<"adoption", aOn[r]>>] = r

(* A row somebody has updated exists, and no removal has it.               *)
LockedRows ==
  /\ \A a \in Adoption :
       lock[<<"adoption", a>>] # NoRequest =>
         adoption[a] # "NONE" /\ ~ Claimed(<<"adoption", a>>)
  /\ \A c \in Custody :
       custodyLock[c] # NoRequest => custody[c] # "NONE" /\ ~ Claimed(<<"custody", c>>)

(* A removal that has a pet has it to itself, and the pet exists.          *)
PetsHeld ==
  /\ \A r \in AdoptionRequest, p \in Pet :
       RefersTo(r, p) => life[p] = "listed" /\ Removing(p) = {}
  /\ \A m, n \in Removal :
       rPc[m] = "cascade" =>
         /\ life[target[m]] = "listed"
         /\ rPc[n] = "cascade" /\ target[n] = target[m] => m = n

RowsBacked ==
  /\ \A a \in Adoption : adoption[a] # "NONE" => life[AdoptionPet[a]] = "listed"
  /\ \A c \in Custody : custody[c] # "NONE" => life[CustodyPet[c]] = "listed"

(* What a step does to the lock of an adoption: its holder lets go of it   *)
(* with the transaction, or a request takes it, of a row that exists and   *)
(* that no removal has.                                                    *)
FreesAdoption(r, a) ==
  /\ lock[<<"adoption", a>>] = r
  /\ lock'[<<"adoption", a>>] = NoRequest
  /\ r \notin open'

TakesAdoption(r, a) ==
  /\ lock[<<"adoption", a>>] \in {NoRequest, r}
  /\ lock'[<<"adoption", a>>] = r
  /\ adoption[a] # "NONE"
  /\ ~ Claimed(<<"adoption", a>>)
  /\ UNCHANGED <<adoption, claim>>

LockMoves(a) ==
  \/ lock'[<<"adoption", a>>] = lock[<<"adoption", a>>]
  \/ \E r \in AdoptionRequest : FreesAdoption(r, a) \/ TakesAdoption(r, a)

(* A transaction that ends frees the rows of its request and no other.     *)
LEMMA ClosedMoves ==
  ASSUME Types, NEW r \in AdoptionRequest, A!Close(r)
  PROVE  \A a \in Adoption : LockMoves(a)
BY DEF Types, A!TypeOK, A!Close, A!Row, LockMoves, FreesAdoption

(* An update of a row that exists and is not claimed moves one lock.       *)
LEMMA TakenMoves ==
  ASSUME Types, NEW r \in AdoptionRequest, NEW row \in A!Row, A!TakeRow(r, row),
         \A a \in Adoption : row = <<"adoption", a>> =>
           /\ adoption[a] # "NONE"
           /\ ~ Claimed(<<"adoption", a>>)
           /\ UNCHANGED <<adoption, claim>>
  PROVE  \A a \in Adoption : LockMoves(a)
<1> SUFFICES ASSUME NEW a \in Adoption PROVE LockMoves(a)
  OBVIOUS
<1>1. CASE row = <<"adoption", a>>
  BY <1>1 DEF Types, A!TypeOK, A!TakeRow, LockMoves, TakesAdoption
<1>2. CASE row # <<"adoption", a>>
  BY <1>2 DEF Types, A!TypeOK, A!TakeRow, LockMoves
<1> QED
  BY <1>1, <1>2

(* Which statements of a request move locks.                               *)
LEMMA StepMovesLocks ==
  ASSUME Types, NEW r \in AdoptionRequest, AdoptionStep(r)
  PROVE  \A a \in Adoption : LockMoves(a)
<1>0. /\ aOn[r] \in Adoption
      /\ AdoptionPet[aOn[r]] \in Pet
  BY ShelterAssumption DEF Types, A!TypeOK, A!ConstantsAssumption
<1>1. A!Step(r) /\ UNCHANGED pets /\ ~ AdoptionWaits(r) /\ ~ AdoptionFindsNothing(r)
  BY DEF AdoptionStep
<1>2. CASE UNCHANGED lock
  BY <1>2 DEF LockMoves
<1>3. CASE A!Close(r)
  BY <1>3, ClosedMoves
<1>4. CASE A!UpdateAdoption(r) \/ A!ReleaseAdoption(r)
  <2>1. A!TakeRow(r, <<"adoption", aOn[r]>>) /\ UNCHANGED <<adoption, claim>>
    BY <1>1, <1>4 DEF A!UpdateAdoption, A!ReleaseAdoption, A!AdoptionRow, A!rows, pets
  <2>2. Updates(r)
    BY <1>4, <2>1 DEF A!UpdateAdoption, A!ReleaseAdoption, A!TakeRow, Updates
  <2>3. adoption[aOn[r]] # "NONE" /\ ~ Claimed(<<"adoption", aOn[r]>>)
    BY <1>1, <2>2 DEF AdoptionWaits, AdoptionFindsNothing
  <2>4. <<"adoption", aOn[r]>> \in A!Row
    BY <1>0 DEF A!Row
  <2> QED
    BY <2>1, <2>3, <2>4, TakenMoves
<1>5. CASE A!UpdateEscrow(r)
  <2>1. A!TakeRow(r, <<"escrow", aOn[r]>>) /\ <<"escrow", aOn[r]>> \in A!Row
    BY <1>0, <1>5 DEF A!UpdateEscrow, A!EscrowRow, A!Row
  <2> QED
    BY <2>1, TakenMoves
<1>6. CASE A!ReleasePet(r)
  <2>1. A!TakeRow(r, <<"pet", AdoptionPet[aOn[r]]>>)
    BY <1>6 DEF A!ReleasePet, A!PetRow
  <2>2. <<"pet", AdoptionPet[aOn[r]]>> \in A!Row
    BY <1>0 DEF A!Row
  <2> QED
    BY <2>1, <2>2, TakenMoves
<1> QED
  BY <1>1, <1>2, <1>3, <1>4, <1>5, <1>6 DEF A!Step, A!CheckActive, A!LogRequested,
     A!CommitRequest, A!LogApproved, A!CommitDecision, A!WriteStatus, A!LogStatus, A!LogPayout,
     A!LogCompleted, A!CommitPayout, A!UseExpired, A!txs

(* Every step moves the locks of adoptions in one of these ways.           *)
LEMMA AdoptionLocksMove ==
  ASSUME Types, [Next]_vars
  PROVE  \A a \in Adoption : LockMoves(a)
<1>1. CASE UNCHANGED lock
  BY <1>1 DEF LockMoves
<1>2. ASSUME NEW r \in AdoptionRequest, Abandons(r) \/ A!Fault(r)
      PROVE  \A a \in Adoption : LockMoves(a)
  BY <1>2, ClosedMoves DEF Abandons, A!Fault, A!Fail, A!TxExpires
<1>3. ASSUME NEW r \in AdoptionRequest, A!Begin(r) PROVE UNCHANGED lock
  BY <1>3 DEF A!Begin, A!BeginRequest, A!BeginDecision, A!BeginComplete, A!BeginPayout, A!txs
<1>4. ASSUME NEW a \in Adoption, A!Operator(a) PROVE UNCHANGED lock
  BY <1>4 DEF A!Operator, A!txs
<1>5. ASSUME NEW p \in Pet, NEW u \in Lister, CreatePet(p, u) PROVE UNCHANGED lock
  BY <1>5 DEF CreatePet
<1>6. ASSUME NEW m \in Removal, CommitRemove(m) PROVE UNCHANGED lock
  BY <1>6 DEF CommitRemove
<1>7. CASE UNCHANGED adoptions
  BY <1>1, <1>7 DEF adoptions
<1> QED
  BY <1>1, <1>2, <1>3, <1>4, <1>5, <1>6, <1>7, AdoptionActs, StepMovesLocks

(* A request has its adoption from the statement that takes the row on,    *)
(* for as long as its transaction is open.                                 *)
StillHas(r) ==
  /\ aOn' = aOn
  /\ r \in open' /\ HasAdoption(r)' =>
       \/ r \in open /\ HasAdoption(r)
       \/ lock'[<<"adoption", aOn[r]>>] = r

(* A statement after the update finds the row in its own hands.            *)
LEMMA StepHolds ==
  ASSUME Types, NEW r \in AdoptionRequest, NEW s \in AdoptionRequest, AdoptionStep(s)
  PROVE  StillHas(r)
<1> USE DEF HasAdoption, StillHas, A!Goto, A!Close, A!Alone, A!txs
<1>0. /\ aPc \in [AdoptionRequest -> {"idle"} \cup A!Active \cup A!Ended]
      /\ open \subseteq AdoptionRequest
      /\ lock \in [A!Row -> AdoptionRequest \cup {NoRequest}]
      /\ aOn[r] \in Adoption
  BY DEF Types, A!TypeOK
<1>1. A!Step(s)
  BY DEF AdoptionStep
<1>2. /\ aOn' = aOn /\ aOp' = aOp /\ seen' = seen
      /\ open' \subseteq open
  BY <1>1 DEF A!Step, A!CheckActive, A!LogRequested, A!CommitRequest, A!UpdateAdoption,
     A!LogApproved, A!CommitDecision, A!WriteStatus, A!LogStatus, A!UpdateEscrow, A!LogPayout,
     A!ReleaseAdoption, A!ReleasePet, A!LogCompleted, A!CommitPayout, A!UseExpired
<1>3. \E label : A!Goto(s, label)
  BY <1>1 DEF A!Step, A!CheckActive, A!LogRequested, A!CommitRequest, A!UpdateAdoption,
     A!LogApproved, A!CommitDecision, A!WriteStatus, A!LogStatus, A!UpdateEscrow, A!LogPayout,
     A!ReleaseAdoption, A!ReleasePet, A!LogCompleted, A!CommitPayout, A!UseExpired
<1>4. CASE r # s
  BY <1>0, <1>2, <1>3, <1>4
<1>5. CASE r = s
  <2>1. CASE A!UpdateAdoption(s) \/ A!ReleaseAdoption(s)
    <3>1. lock' = [lock EXCEPT ![<<"adoption", aOn[r]>>] = r]
      BY <1>5, <2>1 DEF A!UpdateAdoption, A!ReleaseAdoption, A!TakeRow, A!AdoptionRow
    <3>2. <<"adoption", aOn[r]>> \in A!Row
      BY <1>0 DEF A!Row
    <3> QED
      BY <1>0, <1>2, <3>1, <3>2
  <2>2. CASE A!LogApproved(s) \/ A!ReleasePet(s) \/ A!LogCompleted(s)
    BY <1>0, <1>2, <1>5, <2>2 DEF A!LogApproved, A!ReleasePet, A!LogCompleted
  <2>3. CASE \/ A!CheckActive(s) \/ A!LogRequested(s) \/ A!CommitRequest(s)
             \/ A!CommitDecision(s) \/ A!WriteStatus(s) \/ A!LogStatus(s)
             \/ A!UpdateEscrow(s) \/ A!CommitPayout(s) \/ A!UseExpired(s)
    <3>1. aPc'[r] \in {"failed", "rlog", "rcommit", "done", "clog", "elog"}
      BY <1>0, <1>5, <2>3 DEF A!CheckActive, A!LogRequested, A!CommitRequest,
         A!CommitDecision, A!WriteStatus, A!LogStatus, A!UpdateEscrow, A!CommitPayout,
         A!UseExpired
    <3> QED
      BY <1>2, <3>1
  <2>4. CASE A!LogPayout(s)
    BY <1>0, <1>2, <1>5, <2>4 DEF A!LogPayout
  <2> QED
    BY <1>1, <2>1, <2>2, <2>3, <2>4 DEF A!Step
<1> QED
  BY <1>4, <1>5

(* Every other step leaves a request what it has.                          *)
LEMMA AdoptionHolds ==
  ASSUME Types, [Next]_vars, NEW r \in AdoptionRequest
  PROVE  StillHas(r)
<1>0. /\ aPc \in [AdoptionRequest -> {"idle"} \cup A!Active \cup A!Ended]
      /\ aOp \in [AdoptionRequest -> {"none", "request", "approve", "reject", "complete",
                                      "release", "refund"}]
      /\ seen \in [AdoptionRequest -> A!AdoptionStatus \cup {"NONE"}]
  BY DEF Types, A!TypeOK
<1> USE DEF HasAdoption, StillHas, A!Goto, A!Close, A!Alone, A!txs
<1>1. ASSUME NEW s \in AdoptionRequest, Abandons(s) PROVE StillHas(r)
  BY <1>0, <1>1 DEF Abandons
<1>2. ASSUME NEW s \in AdoptionRequest, A!Fault(s) PROVE StillHas(r)
  BY <1>0, <1>2 DEF A!Fault, A!Fail, A!TxExpires
<1>3. ASSUME NEW s \in AdoptionRequest, A!Begin(s) PROVE StillHas(r)
  <2>1. CASE r # s
    BY <1>0, <1>3, <2>1 DEF A!Begin, A!BeginRequest, A!BeginDecision, A!BeginComplete,
       A!BeginPayout
  <2>2. CASE r = s
    <3>1. aPc'[r] \in {"failed", "rcheck", "update", "write", "eupdate"} /\ aOn' = aOn
      BY <1>0, <1>3, <2>2 DEF A!Begin, A!BeginRequest, A!BeginDecision, A!BeginComplete,
         A!BeginPayout
    <3> QED
      BY <3>1
  <2> QED
    BY <2>1, <2>2
<1>4. ASSUME NEW a \in Adoption, A!Operator(a) PROVE StillHas(r)
  BY <1>4 DEF A!Operator
<1>5. ASSUME NEW p \in Pet, NEW u \in Lister, CreatePet(p, u) PROVE StillHas(r)
  BY <1>5 DEF CreatePet
<1>6. ASSUME NEW m \in Removal, CommitRemove(m) PROVE StillHas(r)
  BY <1>6 DEF CommitRemove
<1>7. CASE UNCHANGED adoptions
  BY <1>7 DEF adoptions
<1> HIDE DEF StillHas
<1> QED
  BY <1>1, <1>2, <1>3, <1>4, <1>5, <1>6, <1>7, AdoptionActs, StepHolds

(* Nobody takes a row from the transaction that has updated it.            *)
LEMMA LocksHeldStep == Types /\ LocksHeld /\ [Next]_vars => LocksHeld'
<1> SUFFICES ASSUME Types, LocksHeld, [Next]_vars, NEW r \in AdoptionRequest,
                    r \in open', HasAdoption(r)'
             PROVE  lock'[<<"adoption", aOn'[r]>>] = r
  BY DEF LocksHeld
<1>1. aOn' = aOn /\ aOn[r] \in Adoption /\ r # NoRequest
  BY AdoptionHolds, ShelterAssumption DEF StillHas, Types, A!TypeOK, A!ConstantsAssumption
<1>2. CASE lock'[<<"adoption", aOn[r]>>] = r
  BY <1>1, <1>2
<1>3. CASE r \in open /\ HasAdoption(r)
  <2>1. lock[<<"adoption", aOn[r]>>] = r
    BY <1>3 DEF LocksHeld
  <2>2. LockMoves(aOn[r])
    BY <1>1, AdoptionLocksMove
  <2> QED
    BY <1>1, <2>1, <2>2 DEF LockMoves, FreesAdoption, TakesAdoption
<1> QED
  BY <1>2, <1>3, AdoptionHolds DEF StillHas

-----------------------------------------------------------------------------
(* Which rows a step brings, and which it takes away.                      *)

(* An adoption comes with the request that refers to its pet, and goes     *)
(* only with a removal: a status is written over one that exists.          *)
AdoptionRowMoves(a) ==
  \/ adoption'[a] = "NONE" <=> adoption[a] = "NONE"
  \/ /\ adoption'[a] # "NONE"
     /\ \E r \in AdoptionRequest : RefersTo(r, AdoptionPet[a])
     /\ UNCHANGED pets
  \/ \E m \in Removal : CommitRemove(m)

CustodyRowMoves(c) ==
  \/ custody'[c] = "NONE" <=> custody[c] = "NONE"
  \/ custody'[c] # "NONE" /\ life[CustodyPet[c]] = "listed" /\ UNCHANGED pets
  \/ \E m \in Removal : CommitRemove(m)

(* A statement writes the status of an adoption that exists, because the   *)
(* row is locked or was found in the same step, or inserts one that refers *)
(* to its pet.                                                             *)
LEMMA StepMovesAdoption ==
  ASSUME Types, LocksHeld, LockedRows, NEW r \in AdoptionRequest, AdoptionStep(r),
         NEW a \in Adoption
  PROVE  AdoptionRowMoves(a)
<1>0. /\ adoption \in [Adoption -> A!AdoptionStatus \cup {"NONE"}]
      /\ aOn[r] \in Adoption
      /\ aOp[r] \in {"none", "request", "approve", "reject", "complete", "release", "refund"}
      /\ r # NoRequest
  BY ShelterAssumption DEF Types, A!TypeOK, A!ConstantsAssumption
<1>1. A!Step(r) /\ UNCHANGED pets /\ ~ AdoptionFindsNothing(r)
  BY DEF AdoptionStep
<1>2. CASE a # aOn[r] \/ UNCHANGED adoption
  <2>1. adoption'[a] = adoption[a]
    BY <1>0, <1>1, <1>2 DEF A!Step, A!CheckActive, A!LogRequested, A!CommitRequest,
       A!UpdateAdoption, A!LogApproved, A!CommitDecision, A!WriteStatus, A!LogStatus,
       A!UpdateEscrow, A!LogPayout, A!ReleaseAdoption, A!ReleasePet, A!LogCompleted,
       A!CommitPayout, A!UseExpired, A!rows
  <2> QED
    BY <2>1 DEF AdoptionRowMoves
<1>3. CASE a = aOn[r] /\ A!CommitRequest(r)
  BY <1>0, <1>1, <1>3 DEF A!CommitRequest, RefersTo, AdoptionRowMoves
<1>4. CASE a = aOn[r] /\ A!CommitDecision(r)
  <2>1. adoption[a] # "NONE"
    BY <1>0, <1>4 DEF A!CommitDecision, HasAdoption, LocksHeld, LockedRows
  <2>2. aOp[r] \in {"approve", "reject"}
    BY <1>4 DEF A!CommitDecision, Types, AP!ControlOK
  <2>3. adoption'[a] # "NONE"
    BY <1>0, <1>4, <2>2 DEF A!CommitDecision, A!Target
  <2> QED
    BY <2>1, <2>3 DEF AdoptionRowMoves
<1>5. CASE a = aOn[r] /\ A!WriteStatus(r)
  <2>1. adoption[a] # "NONE"
    BY <1>1, <1>5 DEF A!WriteStatus, Updates, AdoptionFindsNothing
  <2>2. aOp[r] = "complete"
    BY <1>5 DEF A!WriteStatus, Types, AP!ControlOK
  <2>3. adoption'[a] # "NONE"
    BY <1>0, <1>5, <2>2 DEF A!WriteStatus, A!Target
  <2> QED
    BY <2>1, <2>3 DEF AdoptionRowMoves
<1>6. CASE a = aOn[r] /\ A!CommitPayout(r) /\ ~ UNCHANGED adoption
  <2>1. ~ A!Alone(r) /\ adoption' = [adoption EXCEPT ![aOn[r]] = "COMPLETED"]
    BY <1>6 DEF A!CommitPayout
  <2>2. adoption[a] # "NONE"
    BY <1>0, <1>6, <2>1 DEF A!CommitPayout, HasAdoption, LocksHeld, LockedRows
  <2>3. adoption'[a] # "NONE"
    BY <1>0, <1>6, <2>1
  <2> QED
    BY <2>2, <2>3 DEF AdoptionRowMoves
<1> QED
  BY <1>1, <1>2, <1>3, <1>4, <1>5, <1>6 DEF A!Step, A!CheckActive, A!LogRequested,
     A!UpdateAdoption, A!LogApproved, A!LogStatus, A!UpdateEscrow, A!LogPayout,
     A!ReleaseAdoption, A!ReleasePet, A!LogCompleted, A!UseExpired, A!rows

(* So does every step, a removal apart.                                    *)
LEMMA AdoptionRowsMove ==
  ASSUME Types, LocksHeld, LockedRows, [Next]_vars, NEW a \in Adoption
  PROVE  AdoptionRowMoves(a)
<1>0. adoption \in [Adoption -> A!AdoptionStatus \cup {"NONE"}]
  BY DEF Types, A!TypeOK
<1>1. CASE UNCHANGED adoption
  BY <1>1 DEF AdoptionRowMoves
<1>2. ASSUME NEW r \in AdoptionRequest, Abandons(r) \/ A!Fault(r) PROVE UNCHANGED adoption
  BY <1>2 DEF Abandons, A!Fault, A!Fail, A!TxExpires, A!rows
<1>3. ASSUME NEW r \in AdoptionRequest, A!Begin(r) PROVE UNCHANGED adoption
  BY <1>3 DEF A!Begin, A!BeginRequest, A!BeginDecision, A!BeginComplete, A!BeginPayout, A!rows
<1>4. ASSUME NEW b \in Adoption, A!Operator(b) PROVE AdoptionRowMoves(a)
  <2>1. adoption'[a] = "NONE" <=> adoption[a] = "NONE"
    BY <1>0, <1>4 DEF A!Operator
  <2> QED
    BY <2>1 DEF AdoptionRowMoves
<1>5. ASSUME NEW p \in Pet, NEW u \in Lister, CreatePet(p, u) PROVE UNCHANGED adoption
  BY <1>5 DEF CreatePet
<1>6. ASSUME NEW m \in Removal, CommitRemove(m) PROVE AdoptionRowMoves(a)
  BY <1>6 DEF AdoptionRowMoves
<1>7. CASE UNCHANGED adoptions
  BY <1>1, <1>7 DEF adoptions
<1> QED
  BY <1>1, <1>2, <1>3, <1>4, <1>5, <1>6, <1>7, AdoptionActs, StepMovesAdoption

(* What a step of the shelter is to the custodies: only a statement of a   *)
(* request writes their rows or takes their locks.                         *)
LEMMA CustodyActs ==
  ASSUME [Next]_vars
  PROVE  \/ \E r \in CustodyRequest : CustodyStep(r)
         \/ \E r \in CustodyRequest : C!Fault(r) /\ UNCHANGED <<custody, pets>>
         \/ \E m \in Removal : CommitRemove(m) /\ UNCHANGED custodyLock
         \/ UNCHANGED <<custody, custodyLock>>
<1> USE DEF C!rows, C!locks, custodies
<1>1. ASSUME NEW r \in AdoptionRequest, AdoptionStep(r) \/ AdoptionRowGone(r)
      PROVE  UNCHANGED <<custody, custodyLock>>
  BY <1>1 DEF AdoptionStep, AdoptionRowGone
<1>2. CASE AdoptionElse
  BY <1>2 DEF AdoptionElse
<1>3. ASSUME NEW r \in CustodyRequest, CustodyChecks(r) \/ CustodyRowGone(r)
      PROVE  UNCHANGED <<custody, custodyLock>>
  BY <1>3 DEF CustodyChecks, CustodyRowGone, C!BeginCreate
<1>4. ASSUME NEW r \in CustodyRequest, BeginSettle(r)
      PROVE  UNCHANGED <<custody, custodyLock>>
  BY <1>4 DEF BeginSettle, C!BeginSettle
<1>5. ASSUME NEW r \in CustodyRequest, CustodyFault(r)
      PROVE  C!Fault(r) /\ UNCHANGED <<custody, pets>>
  BY <1>5 DEF CustodyFault, C!Fault, C!Fail, C!CustodyTxExpires, C!EscrowTxExpires
<1>6. ASSUME NEW p \in Pet, NEW u \in Lister, CreatePet(p, u)
      PROVE  UNCHANGED <<custody, custodyLock>>
  BY <1>6 DEF CreatePet
<1>7. ASSUME NEW m \in Removal, BeginRemove(m) \/ TakePet(m) \/ TakeDependent(m)
      PROVE  UNCHANGED <<custody, custodyLock>>
  BY <1>7 DEF BeginRemove, TakePet, TakeDependent
<1>8. ASSUME NEW m \in Removal, CommitRemove(m) PROVE UNCHANGED custodyLock
  BY <1>8 DEF CommitRemove
<1>9. ASSUME NEW m \in Removal, NEW r \in AdoptionRequest, BreakDeadlock(m, r)
      PROVE  UNCHANGED <<custody, custodyLock>>
  BY <1>9 DEF BreakDeadlock
<1>10. CASE UNCHANGED vars
  BY <1>10 DEF vars
<1> QED
  BY <1>1, <1>2, <1>3, <1>4, <1>5, <1>6, <1>7, <1>8, <1>9, <1>10 DEF Next, RemoveStep

(* A custody is settled under its lock, and inserted for a listed pet.     *)
LEMMA CustodyRowsMove ==
  ASSUME Types, LockedRows, [Next]_vars, NEW c \in Custody
  PROVE  CustodyRowMoves(c)
<1>0. custody \in [Custody -> C!CustodyStatus \cup {"NONE"}]
  BY DEF Types, C!TypeOK
<1>1. CASE UNCHANGED custody
  BY <1>1 DEF CustodyRowMoves
<1>2. ASSUME NEW r \in CustodyRequest, CustodyStep(r) PROVE CustodyRowMoves(c)
  <2>0. cOn[r] \in Custody /\ r # NoRequest
    BY ShelterAssumption DEF Types, C!TypeOK, C!ConstantsAssumption
  <2>1. C!Step(r) /\ UNCHANGED pets /\ ~ CustodyFindsNothing(r)
    BY <1>2 DEF CustodyStep
  <2>2. CASE C!Insert(r)
    <3>1. life[CustodyPet[cOn[r]]] = "listed"
      BY <2>1, <2>2 DEF C!Insert, CustodyFindsNothing
    <3>2. custody'[c] = IF c = cOn[r] THEN "PENDING" ELSE custody[c]
      BY <1>0, <2>2 DEF C!Insert
    <3> QED
      BY <2>1, <3>1, <3>2 DEF CustodyRowMoves
  <2>3. CASE C!Commit(r)
    <3>1. custody[cOn[r]] # "NONE"
      BY <2>0, <2>3 DEF C!Commit, LockedRows
    <3>2. cOp[r] \in C!Settling
      BY <2>3 DEF C!Commit, Types, CP!ControlOK, CP!Locked, C!Settling, CP!Settling
    <3>3. custody' = [custody EXCEPT ![cOn[r]] = C!Target[cOp[r]]] /\ C!Target[cOp[r]] # "NONE"
      BY <2>3, <3>2 DEF C!Commit, C!Settling, C!Target
    <3>4. custody'[c] = "NONE" <=> custody[c] = "NONE"
      BY <1>0, <2>0, <3>1, <3>3
    <3> QED
      BY <3>4 DEF CustodyRowMoves
  <2> QED
    BY <1>1, <2>1, <2>2, <2>3 DEF C!Step, C!LogStarted, C!Update, C!LogSettlement,
       C!LogPetCancelled, C!EscrowUpdate, C!LogEscrow, C!EscrowCommit, C!ReadScore,
       C!WriteScore, C!LogScore, C!CommitExpired, C!rows
<1>3. ASSUME NEW m \in Removal, CommitRemove(m) PROVE CustodyRowMoves(c)
  BY <1>3 DEF CustodyRowMoves
<1> QED
  BY <1>1, <1>2, <1>3, CustodyActs

(* The lock of a custody is let go of, or taken by a statement that waits  *)
(* for removals and found the row.                                         *)
CustodyLockMoves(c) ==
  \/ custodyLock'[c] \in {custodyLock[c], NoRequest}
  \/ /\ custody[c] # "NONE"
     /\ ~ Claimed(<<"custody", c>>)
     /\ UNCHANGED <<custody, claim>>

(* Every step moves the locks of custodies in one of these ways.           *)
LEMMA CustodyLocksMove ==
  ASSUME Types, [Next]_vars, NEW c \in Custody
  PROVE  CustodyLockMoves(c)
<1>0. /\ custodyLock \in [Custody -> CustodyRequest \cup {NoRequest}]
      /\ cOn \in [CustodyRequest -> Custody]
  BY DEF Types, C!TypeOK
<1>1. CASE UNCHANGED custodyLock
  BY <1>1 DEF CustodyLockMoves
<1>2. ASSUME NEW r \in CustodyRequest, C!Fault(r) PROVE CustodyLockMoves(c)
  BY <1>0, <1>2 DEF C!Fault, C!Fail, C!CustodyTxExpires, C!EscrowTxExpires, C!Unlock,
     CustodyLockMoves
<1>3. ASSUME NEW r \in CustodyRequest, CustodyStep(r) PROVE CustodyLockMoves(c)
  <2>1. C!Step(r) /\ UNCHANGED pets /\ ~ CustodyWaits(r) /\ ~ CustodyFindsNothing(r)
    BY <1>3 DEF CustodyStep
  <2>2. CASE C!Update(r)
    <3>1. /\ custody[cOn[r]] # "NONE"
          /\ ~ Claimed(<<"custody", cOn[r]>>)
          /\ UNCHANGED <<custody, claim>>
      BY <2>1, <2>2 DEF C!Update, C!rows, pets, CustodyWaits, CustodyFindsNothing
    <3>2. c # cOn[r] => custodyLock'[c] = custodyLock[c]
      BY <1>0, <2>2 DEF C!Update
    <3> QED
      BY <3>1, <3>2 DEF CustodyLockMoves
  <2>3. CASE C!Commit(r) \/ C!CommitExpired(r)
    BY <1>0, <2>3 DEF C!Commit, C!CommitExpired, C!Unlock, CustodyLockMoves
  <2> QED
    BY <1>1, <2>1, <2>2, <2>3 DEF C!Step, C!Insert, C!LogStarted, C!LogSettlement,
       C!LogPetCancelled, C!EscrowUpdate, C!LogEscrow, C!EscrowCommit, C!ReadScore,
       C!WriteScore, C!LogScore, C!locks
<1>4. ASSUME NEW m \in Removal, CommitRemove(m) PROVE CustodyLockMoves(c)
  BY <1>1, <1>4 DEF CommitRemove
<1> QED
  BY <1>1, <1>2, <1>3, <1>4, CustodyActs

-----------------------------------------------------------------------------
(* What a step does to a pet and to the removals of it.                    *)
PetActs ==
  \/ UNCHANGED <<life, target, rPc, claim>>
  \/ \E p \in Pet, u \in Lister : CreatePet(p, u)
  \/ \E m \in Removal : BeginRemove(m) \/ RemoveStep(m)
  \/ \E m \in Removal : /\ rPc' = [rPc EXCEPT ![m] = "failed"]
                        /\ claim' = [claim EXCEPT ![m] = {}]
                        /\ UNCHANGED <<adoptions, life, target>>

(* Every step, by what it is to the pets.                                  *)
LEMMA PetCases ==
  ASSUME [Next]_vars
  PROVE  PetActs
<1> USE DEF pets, PetActs
<1>1. ASSUME NEW r \in AdoptionRequest, AdoptionStep(r) \/ AdoptionRowGone(r) PROVE PetActs
  BY <1>1 DEF AdoptionStep, AdoptionRowGone
<1>2. CASE AdoptionElse
  BY <1>2 DEF AdoptionElse
<1>3. ASSUME NEW r \in CustodyRequest,
             \/ CustodyChecks(r) \/ BeginSettle(r) \/ CustodyStep(r)
             \/ CustodyRowGone(r) \/ CustodyFault(r)
      PROVE  PetActs
  BY <1>3 DEF CustodyChecks, BeginSettle, CustodyStep, CustodyRowGone, CustodyFault
<1>4. ASSUME NEW m \in Removal, NEW r \in AdoptionRequest, BreakDeadlock(m, r) PROVE PetActs
  BY <1>4 DEF BreakDeadlock
<1>5. CASE UNCHANGED vars
  BY <1>5 DEF vars
<1> QED
  BY <1>1, <1>2, <1>3, <1>4, <1>5 DEF Next

(* A removal takes a dependent row only when nobody has it.                *)
LEMMA ClaimsMove ==
  ASSUME Types, [Next]_vars, NEW row, Claimed(row)', ~ Claimed(row)
  PROVE  /\ row[1] = "adoption" => lock[row] = NoRequest
         /\ row[1] # "adoption" => custodyLock[row[2]] = NoRequest
         /\ UNCHANGED <<adoptions, custodies>>
<1>0. claim \in [Removal -> SUBSET DependentRow]
  BY DEF Types, PetTypes
<1>1. PICK n \in Removal : row \in claim'[n] /\ row \notin claim[n]
  BY DEF Claimed
<1>2. ASSUME NEW m \in Removal, claim' = [claim EXCEPT ![m] = {}] PROVE FALSE
  BY <1>0, <1>1, <1>2
<1>3. claim' # claim
  BY <1>1
<1>4. PICK m \in Removal : TakeDependent(m)
  <2>1. ASSUME NEW p \in Pet, NEW u \in Lister, CreatePet(p, u) PROVE UNCHANGED claim
    BY <2>1 DEF CreatePet
  <2>2. ASSUME NEW m \in Removal, BeginRemove(m) \/ TakePet(m) PROVE UNCHANGED claim
    BY <2>2 DEF BeginRemove, TakePet
  <2>3. ASSUME NEW m \in Removal, CommitRemove(m) PROVE FALSE
    BY <1>2, <2>3 DEF CommitRemove
  <2> QED
    BY <1>2, <1>3, <2>1, <2>2, <2>3, PetCases DEF PetActs, RemoveStep
<1>5. PICK taken \in Dependents(target[m]) \ claim[m] :
        /\ IF taken[1] = "adoption"
             THEN lock[taken] = NoRequest
             ELSE custodyLock[taken[2]] = NoRequest
        /\ claim' = [claim EXCEPT ![m] = @ \cup {taken}]
  BY <1>4 DEF TakeDependent
<1>6. row = taken
  BY <1>0, <1>1, <1>5
<1> QED
  BY <1>4, <1>5, <1>6 DEF TakeDependent

(* What a removal deletes, it has.                                         *)
LEMMA RemovedIsClaimed ==
  ASSUME Types, NEW m \in Removal, CommitRemove(m)
  PROVE  /\ \A a \in Adoption :
              adoption'[a] # adoption[a] =>
                AdoptionPet[a] = target[m] /\ adoption'[a] = "NONE" /\ Claimed(<<"adoption", a>>)
         /\ \A c \in Custody :
              custody'[c] # custody[c] =>
                CustodyPet[c] = target[m] /\ custody'[c] = "NONE" /\ Claimed(<<"custody", c>>)
<1>0. /\ adoption \in [Adoption -> A!AdoptionStatus \cup {"NONE"}]
      /\ custody \in [Custody -> C!CustodyStatus \cup {"NONE"}]
      /\ Dependents(target[m]) \subseteq claim[m]
  BY DEF Types, A!TypeOK, C!TypeOK, CommitRemove
<1>1. ASSUME NEW a \in Adoption, adoption'[a] # adoption[a]
      PROVE  AdoptionPet[a] = target[m] /\ adoption'[a] = "NONE" /\ Claimed(<<"adoption", a>>)
  <2>1. AdoptionPet[a] = target[m] /\ adoption'[a] = "NONE" /\ adoption[a] # "NONE"
    BY <1>0, <1>1 DEF CommitRemove, Deleted
  <2>2. <<"adoption", a>> \in Dependents(target[m])
    BY <2>1 DEF Dependents, PetAdoptions
  <2> QED
    BY <1>0, <2>1, <2>2 DEF Claimed
<1>2. ASSUME NEW c \in Custody, custody'[c] # custody[c]
      PROVE  CustodyPet[c] = target[m] /\ custody'[c] = "NONE" /\ Claimed(<<"custody", c>>)
  <2>1. CustodyPet[c] = target[m] /\ custody'[c] = "NONE" /\ custody[c] # "NONE"
    BY <1>0, <1>2 DEF CommitRemove, Deleted
  <2>2. <<"custody", c>> \in Dependents(target[m])
    BY <2>1 DEF Dependents, PetCustodies
  <2> QED
    BY <1>0, <2>1, <2>2 DEF Claimed
<1> QED
  BY <1>1, <1>2

(* A removal waits for whoever has a row, and they for it: a locked row    *)
(* stays, and stays unclaimed.                                             *)
LEMMA LockedRowsStep ==
  ASSUME Types, LocksHeld, LockedRows, [Next]_vars
  PROVE  LockedRows'
<1>1. ASSUME NEW a \in Adoption, lock'[<<"adoption", a>>] # NoRequest
      PROVE  adoption'[a] # "NONE" /\ ~ Claimed(<<"adoption", a>>)'
  <2> DEFINE row == <<"adoption", a>>
  <2>1. row[1] = "adoption"
    OBVIOUS
  <2>2. CASE lock'[row] = lock[row]
    <3>1. adoption[a] # "NONE" /\ ~ Claimed(row)
      BY <1>1, <2>2 DEF LockedRows
    <3>2. ~ Claimed(row)'
      BY <1>1, <2>1, <2>2, <3>1, ClaimsMove
    <3>3. adoption'[a] # "NONE"
      BY <3>1, RemovedIsClaimed, AdoptionRowsMove DEF AdoptionRowMoves
    <3> QED
      BY <3>2, <3>3
  <2>3. CASE \E r \in AdoptionRequest : TakesAdoption(r, a)
    BY <1>1, <2>3 DEF TakesAdoption, Claimed
  <2> QED
    BY <1>1, <2>2, <2>3, AdoptionLocksMove DEF LockMoves, FreesAdoption
<1>2. ASSUME NEW c \in Custody, custodyLock'[c] # NoRequest
      PROVE  custody'[c] # "NONE" /\ ~ Claimed(<<"custody", c>>)'
  <2> DEFINE row == <<"custody", c>>
  <2>1. row[1] # "adoption" /\ row[2] = c
    OBVIOUS
  <2>2. CASE custodyLock'[c] = custodyLock[c]
    <3>1. custody[c] # "NONE" /\ ~ Claimed(row)
      BY <1>2, <2>2 DEF LockedRows
    <3>2. ~ Claimed(row)'
      BY <1>2, <2>1, <2>2, <3>1, ClaimsMove
    <3>3. custody'[c] # "NONE"
      BY <3>1, RemovedIsClaimed, CustodyRowsMove DEF CustodyRowMoves
    <3> QED
      BY <3>2, <3>3
  <2>3. CASE /\ custody[c] # "NONE"
             /\ ~ Claimed(row)
             /\ UNCHANGED <<custody, claim>>
    BY <2>3 DEF Claimed
  <2> QED
    BY <1>2, <2>2, <2>3, CustodyLocksMove DEF CustodyLockMoves
<1> QED
  BY <1>1, <1>2 DEF LockedRows

-----------------------------------------------------------------------------
(* A request refers to a pet that it found, with no removal under way.     *)
Refers(r, p) ==
  \/ RefersTo(r, p)
  \/ life[p] = "listed" /\ Removing(p) = {} /\ UNCHANGED pets

(* No request starts to refer to a pet that is being removed.              *)
LEMMA AdoptionRefers ==
  ASSUME Types, [Next]_vars, NEW r \in AdoptionRequest, NEW p \in Pet, RefersTo(r, p)'
  PROVE  Refers(r, p)
<1>0. /\ aPc \in [AdoptionRequest -> {"idle"} \cup A!Active \cup A!Ended]
      /\ aOn' = aOn
      /\ aPc'[r] \in {"rlog", "rcommit"} /\ r \in open' /\ AdoptionPet[aOn[r]] = p
  BY AdoptionHolds DEF Types, A!TypeOK, StillHas, RefersTo
<1> USE DEF A!Goto, A!Close, A!txs
<1>1. CASE aPc'[r] = aPc[r] /\ open' \subseteq open
  BY <1>0, <1>1 DEF Refers, RefersTo
<1>2. ASSUME NEW s \in AdoptionRequest, Abandons(s) \/ A!Fault(s) PROVE Refers(r, p)
  BY <1>0, <1>1, <1>2 DEF Abandons, A!Fault, A!Fail, A!TxExpires
<1>3. ASSUME NEW s \in AdoptionRequest, A!Begin(s) PROVE Refers(r, p)
  <2>1. r # s
    BY <1>0, <1>3 DEF A!Begin, A!BeginRequest, A!BeginDecision, A!BeginComplete, A!BeginPayout
  <2>2. aPc'[r] = aPc[r]
    BY <1>0, <1>3, <2>1 DEF A!Begin, A!BeginRequest, A!BeginDecision, A!BeginComplete,
       A!BeginPayout
  <2>3. open' \subseteq open \cup {s}
    BY <1>3 DEF A!Begin, A!BeginRequest, A!BeginDecision, A!BeginComplete, A!BeginPayout
  <2> QED
    BY <1>0, <2>1, <2>2, <2>3 DEF Refers, RefersTo
<1>4. ASSUME NEW a \in Adoption, A!Operator(a) PROVE Refers(r, p)
  BY <1>1, <1>4 DEF A!Operator
<1>5. ASSUME NEW q \in Pet, NEW u \in Lister, CreatePet(q, u) PROVE Refers(r, p)
  BY <1>1, <1>5 DEF CreatePet
<1>6. ASSUME NEW m \in Removal, CommitRemove(m) PROVE Refers(r, p)
  BY <1>1, <1>6 DEF CommitRemove
<1>7. CASE UNCHANGED adoptions
  BY <1>1, <1>7 DEF adoptions
<1>8. ASSUME NEW s \in AdoptionRequest, AdoptionStep(s) PROVE Refers(r, p)
  <2>1. A!Step(s) /\ UNCHANGED pets /\ ~ AdoptionWaits(s) /\ ~ AdoptionFindsNothing(s)
    BY <1>8 DEF AdoptionStep
  <2>2. open' \subseteq open
    BY <2>1 DEF A!Step, A!CheckActive, A!LogRequested, A!CommitRequest, A!UpdateAdoption,
       A!LogApproved, A!CommitDecision, A!WriteStatus, A!LogStatus, A!UpdateEscrow, A!LogPayout,
       A!ReleaseAdoption, A!ReleasePet, A!LogCompleted, A!CommitPayout, A!UseExpired
  <2>3. CASE r # s
    <3>1. \E label : A!Goto(s, label)
      BY <2>1 DEF A!Step, A!CheckActive, A!LogRequested, A!CommitRequest, A!UpdateAdoption,
         A!LogApproved, A!CommitDecision, A!WriteStatus, A!LogStatus, A!UpdateEscrow,
         A!LogPayout, A!ReleaseAdoption, A!ReleasePet, A!LogCompleted, A!CommitPayout,
         A!UseExpired
    <3>2. aPc'[r] = aPc[r]
      BY <1>0, <2>3, <3>1
    <3> QED
      BY <1>1, <2>2, <3>2
  <2>4. CASE r = s
    <3>1. CASE A!CheckActive(s)
      <4>1. NeedsPet(s)
        BY <1>0, <2>4, <3>1 DEF A!CheckActive, NeedsPet
      <4> QED
        BY <1>0, <2>1, <2>4, <4>1 DEF AdoptionWaits, AdoptionFindsNothing, Refers
    <3>2. CASE A!LogRequested(s)
      BY <1>0, <2>4, <3>2 DEF A!LogRequested, Refers, RefersTo
    <3>3. \/ A!CheckActive(s)
          \/ A!LogRequested(s)
          \/ aPc'[s] \notin {"rlog", "rcommit"}
      BY <1>0, <2>1 DEF A!Step, A!CommitRequest, A!UpdateAdoption,
         A!LogApproved, A!CommitDecision, A!WriteStatus, A!LogStatus, A!UpdateEscrow,
         A!LogPayout, A!ReleaseAdoption, A!ReleasePet, A!LogCompleted, A!CommitPayout,
         A!UseExpired
    <3> QED
      BY <1>0, <2>4, <3>1, <3>2, <3>3
  <2> QED
    BY <2>3, <2>4
<1> QED
  BY <1>2, <1>3, <1>4, <1>5, <1>6, <1>7, <1>8, AdoptionActs

(* A removal takes a pet that no request refers to, alone.                 *)
LEMMA PetsHeldStep ==
  ASSUME Types, PetsHeld, [Next]_vars
  PROVE  PetsHeld'
<1>0. /\ life \in [Pet -> {"absent", "listed", "gone"}]
      /\ target \in [Removal -> Pet]
      /\ rPc \in [Removal -> {"idle", "delete", "cascade", "done", "failed"}]
  BY DEF Types, PetTypes
<1> DEFINE Kept(p) == life[p] = "listed" /\ Removing(p) = {}
           Alone(m, n) == rPc[m] = "cascade" =>
                            /\ life[target[m]] = "listed"
                            /\ rPc[n] = "cascade" /\ target[n] = target[m] => m = n
<1>1. /\ \A r \in AdoptionRequest, p \in Pet : RefersTo(r, p) => Kept(p)
      /\ \A m, n \in Removal : Alone(m, n)
  BY DEF PetsHeld
<1>2. ASSUME NEW p \in Pet, NEW r \in AdoptionRequest, RefersTo(r, p) PROVE Kept(p)'
  <2>0. Kept(p)
    BY <1>1, <1>2
  <2>1. ASSUME NEW q \in Pet, NEW u \in Lister, CreatePet(q, u) PROVE Kept(p)'
    BY <1>0, <2>0, <2>1 DEF CreatePet, Removing
  <2>2. ASSUME NEW m \in Removal, BeginRemove(m) PROVE Kept(p)'
    BY <1>0, <2>0, <2>2 DEF BeginRemove, Removing
  <2>3. ASSUME NEW m \in Removal, TakePet(m) PROVE Kept(p)'
    <3>1. target[m] # p /\ UNCHANGED <<life, target>>
      BY <1>2, <2>3 DEF TakePet
    <3>2. Removing(p)' = {}
      BY <1>0, <2>0, <2>3, <3>1 DEF TakePet, Removing
    <3> QED
      BY <2>0, <3>1, <3>2
  <2>4. ASSUME NEW m \in Removal, TakeDependent(m) PROVE Kept(p)'
    BY <2>0, <2>4 DEF TakeDependent, Removing
  <2>5. ASSUME NEW m \in Removal, CommitRemove(m) PROVE Kept(p)'
    <3>1. target[m] # p
      BY <1>0, <2>0, <2>5 DEF CommitRemove, Removing
    <3> QED
      BY <1>0, <2>0, <2>5, <3>1 DEF CommitRemove, Removing
  <2>6. ASSUME NEW m \in Removal, rPc' = [rPc EXCEPT ![m] = "failed"], UNCHANGED <<life, target>>
        PROVE  Kept(p)'
    BY <1>0, <2>0, <2>6 DEF Removing
  <2>7. CASE UNCHANGED <<life, target, rPc, claim>>
    BY <2>0, <2>7 DEF Removing
  <2> QED
    BY <2>1, <2>2, <2>3, <2>4, <2>5, <2>6, <2>7, PetCases DEF PetActs, RemoveStep
<1>3. ASSUME NEW p \in Pet, NEW r \in AdoptionRequest, RefersTo(r, p)' PROVE Kept(p)'
  <2>1. CASE Kept(p) /\ UNCHANGED pets
    BY <2>1 DEF pets, Removing
  <2> QED
    BY <1>2, <1>3, <2>1, AdoptionRefers DEF Refers
<1>4. ASSUME NEW m \in Removal, NEW n \in Removal PROVE Alone(m, n)'
  <2>0. Alone(m, n) /\ Alone(n, m)
    BY <1>1
  <2>1. ASSUME NEW q \in Pet, NEW u \in Lister, CreatePet(q, u) PROVE Alone(m, n)'
    BY <1>0, <2>0, <2>1 DEF CreatePet
  <2>2. ASSUME NEW k \in Removal, BeginRemove(k) PROVE Alone(m, n)'
    BY <1>0, <2>0, <2>2 DEF BeginRemove
  <2>3. ASSUME NEW k \in Removal, TakePet(k) PROVE Alone(m, n)'
    <3>1. /\ rPc[m] = "cascade" => target[m] # target[k]
          /\ rPc[n] = "cascade" => target[n] # target[k]
      BY <2>3 DEF TakePet, Removing
    <3>2. /\ UNCHANGED <<life, target>>
          /\ rPc' = [rPc EXCEPT ![k] = IF life[target[k]] = "listed" THEN "cascade" ELSE "failed"]
      BY <2>3 DEF TakePet
    <3> QED
      BY <1>0, <2>0, <3>1, <3>2
  <2>4. ASSUME NEW k \in Removal, TakeDependent(k) PROVE Alone(m, n)'
    BY <2>0, <2>4 DEF TakeDependent
  <2>5. ASSUME NEW k \in Removal, CommitRemove(k) PROVE Alone(m, n)'
    <3>1. /\ rPc[k] = "cascade" /\ target' = target
          /\ rPc' = [rPc EXCEPT ![k] = "done"]
          /\ life' = [life EXCEPT ![target[k]] = "gone"]
      BY <2>5 DEF CommitRemove
    <3>2. Alone(m, k)
      BY <1>1
    <3> QED
      BY <1>0, <2>0, <3>1, <3>2
  <2>6. ASSUME NEW k \in Removal, rPc' = [rPc EXCEPT ![k] = "failed"], UNCHANGED <<life, target>>
        PROVE  Alone(m, n)'
    BY <1>0, <2>0, <2>6
  <2>7. CASE UNCHANGED <<life, target, rPc, claim>>
    BY <2>0, <2>7
  <2> HIDE DEF Alone
  <2> QED
    BY <2>1, <2>2, <2>3, <2>4, <2>5, <2>6, <2>7, PetCases DEF PetActs, RemoveStep
<1> QED
  BY <1>3, <1>4 DEF PetsHeld

-----------------------------------------------------------------------------
(* Rows and pets.                                                          *)

(* A pet stays listed until a removal of it commits.                       *)
LEMMA ListedStays ==
  ASSUME Types, [Next]_vars, NEW p \in Pet, life[p] = "listed"
  PROVE  \/ life'[p] = "listed"
         \/ \E m \in Removal : CommitRemove(m) /\ target[m] = p
<1>0. life \in [Pet -> {"absent", "listed", "gone"}] /\ target \in [Removal -> Pet]
  BY DEF Types, PetTypes
<1>1. CASE UNCHANGED life
  BY <1>1
<1>2. ASSUME NEW q \in Pet, NEW u \in Lister, CreatePet(q, u) PROVE life'[p] = "listed"
  BY <1>0, <1>2 DEF CreatePet
<1>3. ASSUME NEW m \in Removal, BeginRemove(m) \/ TakePet(m) \/ TakeDependent(m)
      PROVE  UNCHANGED life
  BY <1>3 DEF BeginRemove, TakePet, TakeDependent
<1>4. ASSUME NEW m \in Removal, CommitRemove(m), target[m] # p PROVE life'[p] = "listed"
  BY <1>0, <1>4 DEF CommitRemove
<1> QED
  BY <1>1, <1>2, <1>3, <1>4, PetCases DEF PetActs, RemoveStep

(* A row comes for a listed pet, and a removal takes every row of its pet. *)
LEMMA RowsBackedStep ==
  ASSUME Types, LocksHeld, LockedRows, PetsHeld, RowsBacked, [Next]_vars
  PROVE  RowsBacked'
<1>0. /\ AdoptionPet \in [Adoption -> Pet]
      /\ CustodyPet \in [Custody -> Pet]
  BY ShelterAssumption DEF A!ConstantsAssumption, C!ConstantsAssumption
<1>1. ASSUME NEW a \in Adoption, adoption'[a] # "NONE"
      PROVE  life'[AdoptionPet[a]] = "listed"
  <2>1. life[AdoptionPet[a]] = "listed"
    <3>1. CASE adoption[a] # "NONE"
      BY <3>1 DEF RowsBacked
    <3>2. CASE \E r \in AdoptionRequest : RefersTo(r, AdoptionPet[a])
      BY <1>0, <3>2 DEF PetsHeld
    <3> QED
      BY <1>1, <3>1, <3>2, AdoptionRowsMove, RemovedIsClaimed DEF AdoptionRowMoves
  <2>2. ASSUME NEW m \in Removal, CommitRemove(m), target[m] = AdoptionPet[a] PROVE FALSE
    BY <1>1, <2>2 DEF CommitRemove, Deleted, Types, A!TypeOK
  <2> QED
    BY <1>0, <2>1, <2>2, ListedStays
<1>2. ASSUME NEW c \in Custody, custody'[c] # "NONE"
      PROVE  life'[CustodyPet[c]] = "listed"
  <2>1. life[CustodyPet[c]] = "listed"
    <3>1. CASE custody[c] # "NONE"
      BY <3>1 DEF RowsBacked
    <3> QED
      BY <1>2, <3>1, CustodyRowsMove, RemovedIsClaimed DEF CustodyRowMoves
  <2>2. ASSUME NEW m \in Removal, CommitRemove(m), target[m] = CustodyPet[c] PROVE FALSE
    BY <1>2, <2>2 DEF CommitRemove, Deleted, Types, C!TypeOK
  <2> QED
    BY <1>0, <2>1, <2>2, ListedStays
<1> QED
  BY <1>1, <1>2 DEF RowsBacked

(* The inductive invariant: a row that is locked exists and no removal has *)
(* it, so whoever writes it writes a row; a pet that a removal has is      *)
(* referred to by no row still to come; hence no row without its pet.      *)
ShelterInv == Types /\ LocksHeld /\ LockedRows /\ PetsHeld /\ RowsBacked

(* The conjuncts rest on one another: together they are inductive.         *)
LEMMA ShelterInvStep == ShelterInv /\ [Next]_vars => ShelterInv'
BY TypesStep, LocksHeldStep, LockedRowsStep, PetsHeldStep, RowsBackedStep DEF ShelterInv

(* They hold at the start, when nothing is locked.                         *)
LEMMA ShelterInvInit == Init => ShelterInv
<1> SUFFICES ASSUME Init PROVE ShelterInv
  OBVIOUS
<1>1. Types
  BY TypesInit
<1>2. A!Init /\ C!Init
  BY DEF Init
<1>3. LocksHeld
  BY <1>2 DEF A!Init, LocksHeld
<1>4. LockedRows
  <2>1. \A a \in Adoption : lock[<<"adoption", a>>] = NoRequest
    BY <1>2 DEF A!Init, A!Row
  <2>2. \A c \in Custody : custodyLock[c] = NoRequest
    BY <1>2 DEF C!Init
  <2> QED
    BY <2>1, <2>2 DEF LockedRows
<1>5. PetsHeld
  BY <1>2 DEF A!Init, Init, PetsHeld, RefersTo
<1>6. \A p \in Pet : life[p] # "listed" => Dependents(p) = {}
  BY DEF Init
<1>7. RowsBacked
  <2>1. ASSUME NEW a \in Adoption, adoption[a] # "NONE"
        PROVE  life[AdoptionPet[a]] = "listed"
    <3>1. AdoptionPet[a] \in Pet
      BY ShelterAssumption DEF A!ConstantsAssumption
    <3>2. <<"adoption", a>> \in Dependents(AdoptionPet[a])
      BY <2>1 DEF Dependents, PetAdoptions
    <3> QED
      BY <1>6, <3>1, <3>2
  <2>2. ASSUME NEW c \in Custody, custody[c] # "NONE"
        PROVE  life[CustodyPet[c]] = "listed"
    <3>1. CustodyPet[c] \in Pet
      BY ShelterAssumption DEF C!ConstantsAssumption
    <3>2. <<"custody", c>> \in Dependents(CustodyPet[c])
      BY <2>2 DEF Dependents, PetCustodies
    <3> QED
      BY <1>6, <3>1, <3>2
  <2> QED
    BY <2>1, <2>2 DEF RowsBacked
<1> QED
  BY <1>1, <1>3, <1>4, <1>5, <1>7 DEF ShelterInv

(* No adoption and no custody outlives its pet, however many requests and  *)
(* removals race for it, fail or end in a deadlock.                        *)
THEOREM RowsHavePets == Spec => []NoRowWithoutPet
<1>1. ShelterInv => NoRowWithoutPet
  BY DEF ShelterInv, RowsBacked, NoRowWithoutPet, Dependents, PetAdoptions, PetCustodies
<1> QED
  BY <1>1, ShelterInvInit, ShelterInvStep, PTL DEF Spec

-----------------------------------------------------------------------------
(* The register of the pets.                                               *)

(* The pets at the start are those of a register.                          *)
LEMMA RegisterInit == Init => Register!Init
<1> SUFFICES ASSUME Init PROVE Register!Init
  OBVIOUS
<1>1. owner \in [Pet -> User \cup {NoOwner}]
  BY DEF Init, A!Init
<1> QED
  BY <1>1 DEF Init, Register!Init

(* A handler of the adoptions hands a pet over, when it completes one, or  *)
(* leaves the owners alone.                                                *)
LEMMA StepHandsOver ==
  ASSUME ShelterInv, NEW r \in AdoptionRequest, AdoptionStep(r)
  PROVE  [Register!Next]_<<life, owner>>
<1>0. /\ aOn[r] \in Adoption
      /\ AdoptionPet[aOn[r]] \in Pet
      /\ Adopter[aOn[r]] \in User
      /\ r # NoRequest
  BY ShelterAssumption DEF ShelterInv, Types, A!TypeOK, A!ConstantsAssumption
<1>1. A!Step(r) /\ UNCHANGED life
  BY DEF AdoptionStep, pets
<1>2. CASE UNCHANGED owner
  BY <1>1, <1>2
<1>3. CASE A!CommitPayout(r) /\ ~ UNCHANGED owner
  <2>1. /\ ~ A!Alone(r)
        /\ owner' = [owner EXCEPT ![AdoptionPet[aOn[r]]] = Adopter[aOn[r]]]
        /\ r \in open /\ HasAdoption(r)
    BY <1>3 DEF A!CommitPayout, HasAdoption
  <2>2. adoption[aOn[r]] # "NONE"
    BY <1>0, <2>1 DEF ShelterInv, LocksHeld, LockedRows
  <2>3. life[AdoptionPet[aOn[r]]] = "listed"
    BY <1>0, <2>2 DEF ShelterInv, RowsBacked
  <2>4. Register!HandOver(AdoptionPet[aOn[r]], Adopter[aOn[r]])
    BY <1>1, <2>1, <2>3 DEF Register!HandOver
  <2> QED
    BY <1>0, <2>4 DEF Register!Next
<1> QED
  BY <1>1, <1>2, <1>3 DEF A!Step, A!CheckActive, A!LogRequested, A!CommitRequest,
     A!UpdateAdoption, A!LogApproved, A!CommitDecision, A!WriteStatus, A!LogStatus,
     A!UpdateEscrow, A!LogPayout, A!ReleaseAdoption, A!ReleasePet, A!LogCompleted,
     A!UseExpired, A!rows

(* Every step is one of the register, or leaves it alone.                  *)
LEMMA RegisterStep == ShelterInv /\ [Next]_vars => [Register!Next]_<<life, owner>>
<1> SUFFICES ASSUME ShelterInv, [Next]_vars PROVE [Register!Next]_<<life, owner>>
  OBVIOUS
<1>0. Types
  BY DEF ShelterInv
<1>1. ASSUME NEW m \in Removal, CommitRemove(m) PROVE Register!Next
  <2>1. target[m] \in Pet /\ life[target[m]] = "listed"
    BY <1>0, <1>1 DEF Types, PetTypes, ShelterInv, PetsHeld, CommitRemove
  <2>2. Register!Remove(target[m])
    BY <1>1, <2>1 DEF CommitRemove, Register!Remove
  <2> QED
    BY <2>1, <2>2 DEF Register!Next
<1>2. ASSUME NEW p \in Pet, NEW u \in Lister, CreatePet(p, u) PROVE Register!Next
  <2>1. Register!List(p, u)
    BY <1>2 DEF CreatePet, Register!List
  <2> QED
    BY <2>1, ShelterAssumption DEF Register!Next
<1>3. ASSUME ~ \E m \in Removal : CommitRemove(m),
             ~ \E p \in Pet, u \in Lister : CreatePet(p, u)
      PROVE  UNCHANGED life
  <2>1. ASSUME NEW m \in Removal, BeginRemove(m) \/ TakePet(m) \/ TakeDependent(m)
        PROVE  UNCHANGED life
    BY <2>1 DEF BeginRemove, TakePet, TakeDependent
  <2> QED
    BY <1>3, <2>1, PetCases DEF PetActs, RemoveStep
<1>4. ASSUME NEW r \in AdoptionRequest, Abandons(r) \/ A!Fault(r) PROVE UNCHANGED owner
  BY <1>4 DEF Abandons, A!Fault, A!Fail, A!TxExpires, A!rows
<1>5. ASSUME NEW r \in AdoptionRequest, A!Begin(r) PROVE UNCHANGED owner
  BY <1>5 DEF A!Begin, A!BeginRequest, A!BeginDecision, A!BeginComplete, A!BeginPayout, A!rows
<1>6. ASSUME NEW a \in Adoption, A!Operator(a) PROVE UNCHANGED owner
  BY <1>6 DEF A!Operator
<1>7. CASE UNCHANGED owner
  BY <1>1, <1>2, <1>3, <1>7
<1>8. CASE UNCHANGED adoptions
  BY <1>7, <1>8 DEF adoptions
<1> QED
  BY <1>1, <1>2, <1>4, <1>5, <1>6, <1>7, <1>8, AdoptionActs, StepHandsOver

(* The shelter implements the register: a pet changes hands only while it  *)
(* is listed, and once removed it is nobody's and never comes back, though *)
(* releases and removals take their rows in opposite orders.               *)
THEOREM ShelterImplementsRegister == Spec => ImplementsRegister
<1>1. Spec => Register!Spec
  BY RegisterInit, RegisterStep, ShelterInvInit, ShelterInvStep, PTL
  DEF Spec, Register!Spec
<1> QED
  BY <1>1 DEF ImplementsRegister

=============================================================================
