------------------------------ MODULE Shelter ------------------------------
(***************************************************************************)
(* The pets with the two services that act on them: PetsService and        *)
(* PetAvailabilityService beside AdoptionService and CustodyService, whose *)
(* rows refer to the pet and are deleted with it.                          *)
(*                                                                         *)
(* A removal is one statement of one request, but PostgreSQL takes its row *)
(* locks one after the other: the pet first, then every adoption and every *)
(* custody the cascade reaches.  It waits for whoever has one of them, and *)
(* whoever updates one of them, or inserts a row that refers to the pet,   *)
(* waits for it.  A release takes its rows the other way round, the        *)
(* adoption before the pet.                                                *)
(***************************************************************************)
EXTENDS Integers, Sequences, FiniteSets

CONSTANTS Pet, User, NoOwner, NoRequest,
          Lister,          \* the users whose role may create pets
          Adoption, AdoptionRequest, AdoptionPet, Adopter, StartOwner, Seeded,
          Custody, CustodyRequest, CustodyPet, Holder, StartScore,
          Removal,         \* requests to remove a pet
          AdoptionFaults,  \* the bound on faults in each of the services
          CustodyFaults

VARIABLES
  adoption, payment, owner, adoptionLog, paymentLog, lock, open,
  aOn, aPc, aOp, seen, aFaults,        \* the variables of AdoptionService
  custody, deposit, trust, custodyLog, depositLog, petLog, scoreLog,
  custodyLock, escrowLock,
  cOn, cPc, cOp, read, cFaults,        \* the variables of CustodyService
  life,         \* whether each pet is absent, listed or gone
  checks,       \* how many of its reads a createCustody has behind it
  target,       \* the pet each removal is about
  rPc,          \* control state of each removal
  claim         \* the dependent rows a removal has locked

A == INSTANCE AdoptionService
       WITH Request <- AdoptionRequest, PetOf <- AdoptionPet,
            MaxFaults <- AdoptionFaults, escrow <- payment,
            escrowLog <- paymentLog, on <- aOn, pc <- aPc, op <- aOp,
            faults <- aFaults

C == INSTANCE CustodyService
       WITH Request <- CustodyRequest, PetOf <- CustodyPet,
            MaxFaults <- CustodyFaults, escrow <- deposit,
            escrowLog <- depositLog, on <- cOn, pc <- cPc, op <- cOp,
            faults <- cFaults

(* The constants are those that the two services assume, and who may       *)
(* create a pet is a user.                                                 *)
ASSUME ShelterAssumption == /\ Lister \subseteq User
                            /\ A!ConstantsAssumption
                            /\ C!ConstantsAssumption

adoptions == <<adoption, payment, owner, adoptionLog, paymentLog, lock, open,
               aOn, aPc, aOp, seen, aFaults>>
custodies == <<custody, deposit, trust, custodyLog, depositLog, petLog, scoreLog,
               custodyLock, escrowLock, cOn, cPc, cOp, read, cFaults>>
pets      == <<life, checks, target, rPc, claim>>
vars      == <<adoptions, custodies, pets>>

-----------------------------------------------------------------------------
(* What a pet's rows say.                                                  *)

PetAdoptions(p) == {a \in Adoption : AdoptionPet[a] = p /\ adoption[a] # "NONE"}
PetCustodies(p) == {c \in Custody : CustodyPet[c] = p /\ custody[c] # "NONE"}

(* The rows that refer to a pet, which the database deletes with it.       *)
Dependents(p) == ({"adoption"} \X PetAdoptions(p)) \cup ({"custody"} \X PetCustodies(p))

(* getPetAvailability, and isAvailable in the list of pets.                *)
DbAvailable(p) ==
  /\ \A a \in PetAdoptions(p) : adoption[a] \in {"REJECTED", "CANCELLED"}
  /\ \A c \in PetCustodies(p) : custody[c] # "ACTIVE"

(* The three searches of createCustody.                                    *)
PetIsAdopted(p) == \E a \in PetAdoptions(p) : adoption[a] = "COMPLETED"

(* Mutant: a status is left out of the search.                             *)
AdoptionInProgress_NoPending(p) ==
  \E a \in PetAdoptions(p) : adoption[a] \in {"REQUESTED", "APPROVED", "ESCROW_FUNDED"}

AdoptionInProgress(p) ==
  \E a \in PetAdoptions(p) :
    adoption[a] \in {"REQUESTED", "PENDING", "APPROVED", "ESCROW_FUNDED"}

(* The removals that have the row of the pet, and of a dependent of it.    *)
Removing(p) == {m \in Removal : target[m] = p /\ rPc[m] = "cascade"}
Claimed(row) == \E m \in Removal : row \in claim[m]

-----------------------------------------------------------------------------
(* The seed has a funded adoption of one pet and an ACTIVE custody of      *)
(* another.                                                                *)
Init ==
  /\ A!Init
  /\ C!Init
  /\ life = [p \in Pet |-> IF owner[p] = NoOwner THEN "absent" ELSE "listed"]
  /\ \A p \in Pet :
       /\ life[p] = "absent" => Dependents(p) = {}
       /\ PetAdoptions(p) = {} \/ PetCustodies(p) = {}
  /\ checks = [r \in CustodyRequest |-> 0]
  /\ target \in [Removal -> Pet]
  /\ rPc = [m \in Removal |-> "idle"]
  /\ claim = [m \in Removal |-> {}]

-----------------------------------------------------------------------------
(* Adoptions.                                                              *)

(* The statement r issues next, in a live transaction or in none.          *)
Updates(r) == \/ aPc[r] = "write"
              \/ r \in open /\ aPc[r] \in {"update", "aupdate"}

NeedsPet(r) ==
  /\ r \in open
  /\ \/ aPc[r] = "pupdate"
     \/ aPc[r] = "rcheck" /\ ~ A!PetHasActiveAdoption(AdoptionPet[aOn[r]])

(* It waits for a removal.                                                 *)
AdoptionWaits(r) ==
  \/ Updates(r) /\ Claimed(<<"adoption", aOn[r]>>)
  \/ NeedsPet(r) /\ Removing(AdoptionPet[aOn[r]]) # {}

(* The row it updates, or the pet its new row refers to, is gone.          *)
AdoptionFindsNothing(r) ==
  \/ Updates(r) /\ adoption[aOn[r]] = "NONE"
  \/ NeedsPet(r) /\ life[AdoptionPet[aOn[r]]] # "listed"

AdoptionStep(r) ==
  /\ ~ AdoptionWaits(r)
  /\ ~ AdoptionFindsNothing(r)
  /\ A!Step(r)
  /\ UNCHANGED <<custodies, pets>>

(* Mutant: an update of many rows, which does not mind finding none.       *)
AdoptionRowGone_Ignored(r) ==
  /\ AdoptionFindsNothing(r)
  /\ A!Step(r)
  /\ UNCHANGED <<custodies, pets>>

(* The statement throws: record not found, or foreign key violated.        *)
AdoptionRowGone(r) ==
  /\ AdoptionFindsNothing(r)
  /\ A!Goto(r, "failed")
  /\ A!Close(r)
  /\ UNCHANGED <<adoption, payment, owner, adoptionLog, paymentLog,
                 aOn, aOp, seen, aFaults, custodies, pets>>

AdoptionElse ==
  /\ \/ \E r \in AdoptionRequest : A!Begin(r) \/ A!Fault(r)
     \/ \E a \in Adoption : ~ Claimed(<<"adoption", a>>) /\ A!Operator(a)
  /\ UNCHANGED <<custodies, pets>>

-----------------------------------------------------------------------------
(* Custodies.                                                              *)

(* createCustody searches for a completed adoption of the pet, then for    *)
(* one in progress, then for an active custody, in three statements.       *)
CustodyChecks(r) ==
  /\ cPc[r] = "idle"
  /\ LET p == CustodyPet[cOn[r]]
         refused == CASE checks[r] = 0 -> life[p] # "listed" \/ PetIsAdopted(p)
                      [] checks[r] = 1 -> AdoptionInProgress(p)
                      [] checks[r] = 2 -> C!PetHasActiveCustody(p)
     IN  \/ /\ ~ refused
            /\ checks[r] < 2
            /\ C!FreshId(cOn[r])
            /\ \A q \in CustodyRequest \ {r} : checks[q] > 0 => cOn[q] # cOn[r]
            /\ checks' = [checks EXCEPT ![r] = @ + 1]
            /\ UNCHANGED custodies
         \/ /\ refused \/ checks[r] = 2
            /\ C!BeginCreate(r)
            /\ cPc'[r] = IF refused THEN "failed" ELSE "insert"
            /\ UNCHANGED checks
  /\ UNCHANGED <<adoptions, life, target, rPc, claim>>

BeginSettle(r) ==
  /\ checks[r] = 0
  /\ \E o \in C!Settling : C!BeginSettle(r, o)
  /\ UNCHANGED <<adoptions, pets>>

CustodyWaits(r) ==
  \/ cPc[r] = "insert" /\ Removing(CustodyPet[cOn[r]]) # {}
  \/ cPc[r] = "update" /\ Claimed(<<"custody", cOn[r]>>)

CustodyFindsNothing(r) ==
  \/ cPc[r] = "insert" /\ life[CustodyPet[cOn[r]]] # "listed"
  \/ cPc[r] = "update" /\ custody[cOn[r]] = "NONE"

CustodyStep(r) ==
  /\ ~ CustodyWaits(r)
  /\ ~ CustodyFindsNothing(r)
  /\ C!Step(r)
  /\ UNCHANGED <<adoptions, pets>>

(* Mutant: no foreign key guards the insert.                               *)
CustodyRowGone_Ignored(r) ==
  /\ CustodyFindsNothing(r)
  /\ C!Step(r)
  /\ UNCHANGED <<adoptions, pets>>

CustodyRowGone(r) ==
  /\ CustodyFindsNothing(r)
  /\ C!Goto(r, "failed")
  /\ UNCHANGED <<custody, deposit, trust, custodyLog, depositLog, petLog, scoreLog,
                 custodyLock, escrowLock, cOn, cOp, read, cFaults, adoptions, pets>>

CustodyFault(r) == C!Fault(r) /\ UNCHANGED <<adoptions, pets>>

-----------------------------------------------------------------------------
(* Pets: create and remove.  An update changes data no property is about.  *)

CreatePet(p, u) ==
  /\ life[p] = "absent"
  /\ life' = [life EXCEPT ![p] = "listed"]
  /\ owner' = [owner EXCEPT ![p] = u]
  /\ UNCHANGED <<adoption, payment, adoptionLog, paymentLog, lock, open,
                 aOn, aPc, aOp, seen, aFaults, custodies, checks, target, rPc, claim>>

(* The pet is found and the caller is an administrator.                    *)
BeginRemove(m) ==
  /\ rPc[m] = "idle"
  /\ rPc' = [rPc EXCEPT ![m] = IF life[target[m]] = "listed" THEN "delete" ELSE "failed"]
  /\ UNCHANGED <<adoptions, custodies, life, checks, target, claim>>

(* A request whose uncommitted adoption refers to the pet.                 *)
RefersTo(r, p) == /\ aPc[r] \in {"rlog", "rcommit"}
                  /\ r \in open
                  /\ AdoptionPet[aOn[r]] = p

TakePet(m) ==
  LET p == target[m]
  IN  /\ rPc[m] = "delete"
      /\ lock[<<"pet", p>>] = NoRequest
      /\ ~ \E r \in AdoptionRequest : RefersTo(r, p)
      /\ Removing(p) = {}
      /\ rPc' = [rPc EXCEPT ![m] = IF life[p] = "listed" THEN "cascade" ELSE "failed"]
      /\ UNCHANGED <<adoptions, custodies, life, checks, target, claim>>

(* The cascade: adoptions before custodies, each when nobody has it.       *)
TakeDependent(m) ==
  /\ rPc[m] = "cascade"
  /\ \E row \in Dependents(target[m]) \ claim[m] :
       /\ IF row[1] = "adoption"
            THEN lock[row] = NoRequest
            ELSE /\ custodyLock[row[2]] = NoRequest
                 /\ {"adoption"} \X PetAdoptions(target[m]) \subseteq claim[m]
       /\ claim' = [claim EXCEPT ![m] = @ \cup {row}]
  /\ UNCHANGED <<adoptions, custodies, life, checks, target, rPc>>

Deleted(row, pet, p) ==
  [x \in DOMAIN row |-> IF pet[x] = p THEN "NONE" ELSE row[x]]

(* The rows go; the escrows behind them, and every event, stay.            *)
CommitRemove(m) ==
  LET p == target[m]
  IN  /\ rPc[m] = "cascade"
      /\ Dependents(p) \subseteq claim[m]
      /\ life' = [life EXCEPT ![p] = "gone"]
      /\ owner' = [owner EXCEPT ![p] = NoOwner]
      /\ adoption' = Deleted(adoption, AdoptionPet, p)
      /\ custody' = Deleted(custody, CustodyPet, p)
      /\ rPc' = [rPc EXCEPT ![m] = "done"]
      /\ claim' = [claim EXCEPT ![m] = {}]
      /\ UNCHANGED <<payment, adoptionLog, paymentLog, lock, open,
                     aOn, aPc, aOp, seen, aFaults,
                     deposit, trust, custodyLog, depositLog, petLog, scoreLog,
                     custodyLock, escrowLock, cOn, cPc, cOp, read, cFaults,
                     checks, target>>

(* A release that has the adoption waits for the pet; the removal that has *)
(* the pet waits for the adoption.  PostgreSQL ends one of the two.        *)
Deadlocked(m, r) ==
  /\ rPc[m] = "cascade"
  /\ aPc[r] = "pupdate"
  /\ r \in open
  /\ AdoptionPet[aOn[r]] = target[m]

BreakDeadlock(m, r) ==
  /\ Deadlocked(m, r)
  /\ \/ /\ rPc' = [rPc EXCEPT ![m] = "failed"]
        /\ claim' = [claim EXCEPT ![m] = {}]
        /\ UNCHANGED <<adoptions, life, checks, target>>
     \/ /\ A!Goto(r, "failed")
        /\ A!Close(r)
        /\ UNCHANGED <<adoption, payment, owner, adoptionLog, paymentLog,
                       aOn, aOp, seen, aFaults, pets>>
  /\ UNCHANGED custodies

RemoveStep(m) == TakePet(m) \/ TakeDependent(m) \/ CommitRemove(m)

-----------------------------------------------------------------------------
Quiet == /\ \A r \in AdoptionRequest : aPc[r] \in A!Ended
         /\ \A r \in CustodyRequest : cPc[r] \in C!Ended
         /\ \A m \in Removal : rPc[m] \in {"done", "failed"}

Next ==
  \/ \E r \in AdoptionRequest : AdoptionStep(r) \/ AdoptionRowGone(r)
  \/ AdoptionElse
  \/ \E r \in CustodyRequest : \/ CustodyChecks(r) \/ BeginSettle(r)
                               \/ CustodyStep(r) \/ CustodyRowGone(r)
                               \/ CustodyFault(r)
  \/ \E p \in Pet, u \in Lister : CreatePet(p, u)
  \/ \E m \in Removal : BeginRemove(m) \/ RemoveStep(m)
  \/ \E m \in Removal, r \in AdoptionRequest : BreakDeadlock(m, r)
  \/ Quiet /\ UNCHANGED vars

Spec == Init /\ [][Next]_vars

(* Some handler whose statement is answered goes on, or the deadlock       *)
(* detector of the database acts.  Requests are finite in number and in    *)
(* length, so this asks less than fairness for each of them.               *)
Answered ==
  \/ \E r \in AdoptionRequest : AdoptionStep(r) \/ AdoptionRowGone(r)
  \/ \E r \in CustodyRequest : \/ CustodyStep(r)
                               \/ CustodyRowGone(r)
                               \/ checks[r] > 0 /\ CustodyChecks(r)
  \/ \E m \in Removal : RemoveStep(m)
  \/ \E m \in Removal, r \in AdoptionRequest : BreakDeadlock(m, r)

FairSpec == Spec /\ WF_vars(Answered)

-----------------------------------------------------------------------------
(* Properties.                                                             *)

TypeOK ==
  /\ A!TypeOK
  /\ C!TypeOK
  /\ life \in [Pet -> {"absent", "listed", "gone"}]
  /\ checks \in [CustodyRequest -> 0..2]
  /\ target \in [Removal -> Pet]
  /\ rPc \in [Removal -> {"idle", "delete", "cascade", "done", "failed"}]
  /\ claim \in [Removal -> SUBSET (({"adoption"} \X Adoption) \cup ({"custody"} \X Custody))]

(* No adoption and no custody outlives its pet, whatever was being          *)
(* requested, decided or settled while the pet was removed.                 *)
NoRowWithoutPet == \A p \in Pet : life[p] # "listed" => Dependents(p) = {}

(* A payment is released together with the pet, also when the adoption or   *)
(* the pet is removed while the release runs: only a release that found no  *)
(* adoption with the escrow pays without handing anything over.             *)
ReleaseHandsOver ==
  [][\A a \in Adoption :
       payment'[a] = "RELEASED" /\ payment[a] # "RELEASED" =>
         \/ adoption'[a] = "COMPLETED" /\ owner'[AdoptionPet[a]] = Adopter[a]
         \/ \E r \in AdoptionRequest :
              aOn[r] = a /\ aPc[r] = "ecommit" /\ seen[r] = "NONE"]_vars

(* A pet the database calls available is one that createCustody accepts,    *)
(* and the reverse: two services decide it by different searches.           *)
AvailableIsAccepted ==
  \A p \in Pet :
    life[p] = "listed" =>
      (DbAvailable(p) <=> ~ (\/ PetIsAdopted(p)
                             \/ AdoptionInProgress(p)
                             \/ C!PetHasActiveCustody(p)))

(* Every accepted request is answered, removals included, though a release  *)
(* and a removal take their rows in opposite orders: again and again nobody *)
(* is under way.                                                            *)
NobodyUnderWay ==
  /\ \A r \in AdoptionRequest : aPc[r] \notin A!Active
  /\ \A r \in CustodyRequest : cPc[r] \notin C!Active
  /\ \A m \in Removal : rPc[m] \notin {"delete", "cascade"}

EveryoneEnds == []<>NobodyUnderWay

Register == INSTANCE PetRegister

(* The composition implements the register: a removal and a release of the  *)
(* same pet are one after the other, and a removed pet stays removed.       *)
ImplementsRegister == Register!Spec
=============================================================================
