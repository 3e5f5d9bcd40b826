----------------------- MODULE DocumentsServiceProofs -----------------------
(***************************************************************************)
(* Proofs about DocumentsService and UserAccounts: every invariant that    *)
(* the run checks, for any sets of accounts, adoptions and uploads.  They  *)
(* are inductive together with Admitted.                                   *)
(***************************************************************************)
EXTENDS DocumentsService, TLAPS

(* An upload that runs has passed the check of its caller.                 *)
Admitted == \A u \in Upload : pc[u] = "upload" => IsParticipant(u)

IInv == TypeOK /\ OneAccountPerEmail /\ ReferencesStand /\ UploadsAreWhole /\ Admitted

-----------------------------------------------------------------------------
(* The initial states satisfy the inductive invariant.                     *)
LEMMA Initially == DocInit => IInv
<1> SUFFICES ASSUME DocInit PROVE IInv
  OBVIOUS
<1> USE AccountAssumption, DocumentAssumption DEF DocInit, Init
<1>1. TypeOK
  BY DEF TypeOK, AccountTypeOK
<1>2. OneAccountPerEmail
  BY DEF OneAccountPerEmail
<1>3. ReferencesStand
  BY DEF ReferencesStand
<1>4. UploadsAreWhole
  BY DEF UploadsAreWhole
<1>5. Admitted
  BY DEF Admitted
<1> QED
  BY <1>1, <1>2, <1>3, <1>4, <1>5 DEF IInv

(* Every step keeps the types.                                             *)
LEMMA TypesKept == TypeOK /\ [Next]_vars => TypeOK'
<1> SUFFICES ASSUME TypeOK, [Next]_vars PROVE TypeOK'
  OBVIOUS
<1> USE AccountAssumption, DocumentAssumption
    DEF TypeOK, AccountTypeOK, accountVars, uploadVars
<1>1. CASE AccountStep /\ UNCHANGED uploadVars
  BY <1>1 DEF AccountStep, Register, CreateUser, RegisterFails,
              StoreAvatar, ShowAvatar, AvatarFails
<1>2. CASE \E x \in Account : DeleteProfile(x, RowsOf(x)) /\ UNCHANGED uploadVars
  BY <1>2 DEF DeleteProfile
<1>3. CASE \E a \in Adoption : RequestAdoption(a) \/ RemoveAdoption(a)
  BY <1>3 DEF RequestAdoption, RemoveAdoption
<1>4. ASSUME NEW u \in Upload, Begin(u) \/ UploadFile(u) \/ UploadFails(u)
      PROVE  TypeOK'
  <2>1. 1..size[u] \subseteq 1..MaxFiles
    OBVIOUS
  <2> QED
    BY <1>4, <2>1 DEF Begin, UploadFile, UploadFails, Goto
<1>5. ASSUME NEW u \in Upload, Record(u) \/ RecordUnanswered(u)
      PROVE  TypeOK'
  <2>1. FilesOf(u) \subseteq Upload \X (1..MaxFiles)
    BY DEF FilesOf
  <2> QED
    BY <1>5, <2>1 DEF Record, RecordUnanswered, Goto
<1>6. CASE UNCHANGED vars
  BY <1>6 DEF vars
<1> QED
  BY <1>1, <1>2, <1>3, <1>4, <1>5, <1>6 DEF Next

(* Every step keeps one account per e-mail.                                *)
LEMMA EmailsKept ==
  TypeOK /\ OneAccountPerEmail /\ [Next]_vars => OneAccountPerEmail'
<1> SUFFICES ASSUME TypeOK, OneAccountPerEmail, [Next]_vars
             PROVE  OneAccountPerEmail'
  OBVIOUS
<1> USE DEF TypeOK, AccountTypeOK, OneAccountPerEmail
<1>1. ASSUME NEW x \in Account, CreateUser(x) PROVE OneAccountPerEmail'
  BY <1>1 DEF CreateUser, Taken
<1>2. ASSUME NEW x \in Account, Register(x) \/ RegisterFails(x)
      PROVE  OneAccountPerEmail'
  BY <1>2 DEF Register, RegisterFails
<1>3. ASSUME NEW x \in Account, DeleteProfile(x, RowsOf(x)) PROVE OneAccountPerEmail'
  BY <1>3 DEF DeleteProfile
<1>4. CASE UNCHANGED account
  BY <1>4
<1> QED
  BY <1>1, <1>2, <1>3, <1>4
  DEF Next, AccountStep, StoreAvatar, ShowAvatar, AvatarFails, vars, accountVars,
      RequestAdoption, RemoveAdoption, Begin, UploadFile, UploadFails, Record,
      RecordUnanswered

(* Every step keeps the check of the caller.                               *)
LEMMA AdmissionKept == TypeOK /\ Admitted /\ [Next]_vars => Admitted'
<1> SUFFICES ASSUME TypeOK, Admitted, [Next]_vars PROVE Admitted'
  OBVIOUS
<1> USE DEF TypeOK, Admitted, IsParticipant
<1>1. ASSUME NEW u \in Upload, Begin(u) PROVE Admitted'
  BY <1>1 DEF Begin, Goto
<1>2. ASSUME NEW u \in Upload,
             UploadFile(u) \/ UploadFails(u) \/ Record(u) \/ RecordUnanswered(u)
      PROVE  Admitted'
  BY <1>2 DEF UploadFile, UploadFails, Record, RecordUnanswered, Goto
<1>3. CASE UNCHANGED <<by, about, pc>>
  BY <1>3
<1> QED
  BY <1>1, <1>2, <1>3
  DEF Next, vars, uploadVars, RequestAdoption, RemoveAdoption

(* Every step leaves of each upload all documents or none.                 *)
LEMMA WholenessKept == TypeOK /\ UploadsAreWhole /\ [Next]_vars => UploadsAreWhole'
<1> SUFFICES ASSUME TypeOK, UploadsAreWhole, [Next]_vars PROVE UploadsAreWhole'
  OBVIOUS
<1> USE DEF TypeOK, UploadsAreWhole
<1>1. ASSUME NEW u \in Upload,
             Begin(u) \/ UploadFile(u) \/ UploadFails(u) \/ (Record(u) /\ Refused(u))
      PROVE  UploadsAreWhole'
  BY <1>1 DEF Begin, UploadFile, UploadFails, Record, Goto, FilesOf
<1>2. ASSUME NEW u \in Upload,
             (Record(u) /\ ~ Refused(u)) \/ RecordUnanswered(u)
      PROVE  UploadsAreWhole'
  <2> SUFFICES ASSUME NEW w \in Upload
               PROVE  LET recorded == {f \in documents' : f[1] = w}
                      IN  /\ recorded \in {{}, FilesOf(w)}
                          /\ pc'[w] = "done" => recorded = FilesOf(w)
                          /\ recorded # {} => pc'[w] \in {"done", "failed"}
    BY <1>2 DEF Record, RecordUnanswered, FilesOf
  <2>1. /\ pc[u] = "upload" /\ documents' = documents \cup FilesOf(u)
        /\ pc' \in {[pc EXCEPT ![u] = "done"], [pc EXCEPT ![u] = "failed"]}
    BY <1>2 DEF Record, RecordUnanswered, Goto
  <2>2. {f \in documents : f[1] = u} = {}
    BY <2>1
  <2>3. {f \in documents' : f[1] = u} = FilesOf(u)
    BY <2>1, <2>2 DEF FilesOf
  <2>4. w # u => {f \in documents' : f[1] = w} = {f \in documents : f[1] = w}
    BY <2>1 DEF FilesOf
  <2> QED
    BY <2>1, <2>3, <2>4
<1>3. CASE UNCHANGED <<size, pc, documents>>
  BY <1>3 DEF FilesOf
<1> QED
  BY <1>1, <1>2, <1>3
  DEF Next, vars, uploadVars, RequestAdoption, RemoveAdoption

(* Every step leaves what rows refer to in place.                          *)
LEMMA ReferencesKept ==
  TypeOK /\ Admitted /\ ReferencesStand /\ [Next]_vars => ReferencesStand'
<1> SUFFICES ASSUME TypeOK, Admitted, ReferencesStand, [Next]_vars
             PROVE  ReferencesStand'
  OBVIOUS
<1> USE AccountAssumption, DocumentAssumption DEF TypeOK, AccountTypeOK, ReferencesStand
<1>1. CASE AccountStep /\ UNCHANGED uploadVars
  <2>1. ASSUME NEW x \in Account, Register(x) \/ CreateUser(x) \/ RegisterFails(x)
        PROVE  ReferencesStand'
    BY <1>1, <2>1 DEF Register, CreateUser, RegisterFails, uploadVars
  <2>2. ASSUME NEW v \in Avatar, StoreAvatar(v) \/ AvatarFails(v)
        PROVE  ReferencesStand'
    BY <1>1, <2>2 DEF StoreAvatar, AvatarFails, uploadVars
  <2>3. ASSUME NEW v \in Avatar, ShowAvatar(v)
        PROVE  ReferencesStand'
    BY <1>1, <2>3 DEF ShowAvatar, uploadVars
  <2> QED
    BY <1>1, <2>1, <2>2, <2>3 DEF AccountStep
<1>2. ASSUME NEW x \in Account, DeleteProfile(x, RowsOf(x)), UNCHANGED uploadVars
      PROVE  ReferencesStand'
  <2>1. \A a \in Adoption : row[a] = "there" => x # Adopter[a] /\ x # Giver[a]
    BY <1>2 DEF DeleteProfile, RowsOf
  <2>2. \A f \in documents : by[f[1]] # x
    BY <1>2 DEF DeleteProfile, RowsOf
  <2> QED
    BY <1>2, <2>1, <2>2 DEF DeleteProfile, uploadVars
<1>3. ASSUME NEW a \in Adoption, RequestAdoption(a) PROVE ReferencesStand'
  BY <1>3 DEF RequestAdoption, accountVars
<1>4. ASSUME NEW a \in Adoption, RemoveAdoption(a) PROVE ReferencesStand'
  BY <1>4 DEF RemoveAdoption, DocumentsOn, accountVars
<1>5. ASSUME NEW u \in Upload,
             Begin(u) \/ UploadFile(u) \/ UploadFails(u) \/ (Record(u) /\ Refused(u))
      PROVE  ReferencesStand'
  BY <1>5 DEF Begin, UploadFile, UploadFails, Record, accountVars
<1>6. ASSUME NEW u \in Upload,
             (Record(u) /\ ~ Refused(u)) \/ RecordUnanswered(u)
      PROVE  ReferencesStand'
  <2>1. /\ documents' = documents \cup FilesOf(u)
        /\ FilesOf(u) \subseteq files
        /\ row[about[u]] = "there" /\ account[by[u]] = "live" /\ pc[u] = "upload"
        /\ UNCHANGED <<accountVars, row, by, about, files>>
    BY <1>6 DEF Record, RecordUnanswered, Refused
  <2>2. by[u] \in {Adopter[about[u]], Giver[about[u]]} \cup Admin
    BY <2>1 DEF Admitted, IsParticipant
  <2>3. \A f \in FilesOf(u) : f[1] = u
    BY DEF FilesOf
  <2> QED
    BY <2>1, <2>2, <2>3 DEF accountVars
<1>7. CASE UNCHANGED vars
  BY <1>7 DEF vars, accountVars, uploadVars
<1> QED
  BY <1>1, <1>2, <1>3, <1>4, <1>5, <1>6, <1>7 DEF Next, Record

(* All of them hold in every reachable state.                              *)
LEMMA Inductive == Spec => []IInv
<1>1. IInv /\ [Next]_vars => IInv'
  BY TypesKept, EmailsKept, AdmissionKept, WholenessKept, ReferencesKept DEF IInv
<1> QED
  BY <1>1, Initially, PTL DEF Spec

-----------------------------------------------------------------------------
(* The state is well typed.                                                *)
THEOREM DocumentsTypeCorrect == Spec => []TypeOK
<1>1. IInv => TypeOK
  BY DEF IInv
<1> QED
  BY <1>1, Inductive, PTL

(* The unique index decides every race of registrations.                   *)
THEOREM EmailsAreUnique == Spec => []OneAccountPerEmail
<1>1. IInv => OneAccountPerEmail
  BY DEF IInv
<1> QED
  BY <1>1, Inductive, PTL

(* No deletion of an account or an adoption, before, during or after an     *)
(* upload, leaves a row that refers to nothing.                            *)
THEOREM NothingDangles == Spec => []ReferencesStand
<1>1. IInv => ReferencesStand
  BY DEF IInv
<1> QED
  BY <1>1, Inductive, PTL

(* An upload is recorded as a whole or not at all.                         *)
THEOREM UploadsAreAtomic == Spec => []UploadsAreWhole
<1>1. IInv => UploadsAreWhole
  BY DEF IInv
<1> QED
  BY <1>1, Inductive, PTL
=============================================================================
