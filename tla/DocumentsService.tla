-------------------------- MODULE DocumentsService --------------------------
(***************************************************************************)
(* Documents of adoptions, beside the accounts and the adoptions they      *)
(* refer to.  An upload finds the adoption and checks its caller, brings   *)
(* the files to Cloudinary one after the other, and then inserts a row for *)
(* each in one transaction.  Meanwhile users and adoptions may be deleted; *)
(* what fails in between leaves files nobody deletes.                      *)
(***************************************************************************)
EXTENDS UserAccounts

CONSTANTS Adoption, Adopter, Giver,   \* adoptions with their two parties
          Upload,                     \* requests that upload documents
          MaxFiles                    \* the most files a request may have

ASSUME DocumentAssumption ==
  /\ Adopter \in [Adoption -> Account]
  /\ Giver \in [Adoption -> Account]
  /\ MaxFiles \in Nat \ {0}

VARIABLES
  row,               \* whether each adoption is in the database
  by, about, size,   \* caller, adoption and number of files of each upload
  pc,                \* control state of each upload
  files,             \* the files Cloudinary has: <<u, i>> is file i of upload u
  documents          \* the files that have a row

uploadVars == <<row, by, about, size, pc, files, documents>>
vars == <<accountVars, uploadVars>>

FilesOf(u) == {u} \X (1..size[u])

(* File i of u is the next to travel.                                      *)
IsNext(u, i) == <<u, i>> \notin files /\ \A j \in 1..i - 1 : <<u, j>> \in files

DocumentsOn(a) == {f \in documents : about[f[1]] = a}

(* Mutant: users are deleted together with the documents they uploaded.    *)
RowsOf_NoDocuments(x) == {a \in Adoption : row[a] = "there" /\ x \in {Adopter[a], Giver[a]}}

(* The rows that refer to an account and keep it: adoptions and documents. *)
RowsOf(x) ==
  {a \in Adoption : row[a] = "there" /\ x \in {Adopter[a], Giver[a]}}
    \cup {f \in documents : by[f[1]] = x}

-----------------------------------------------------------------------------
DocInit ==
  /\ Init
  /\ row = [a \in Adoption |-> "none"]
  /\ by \in [Upload -> Account]
  /\ about \in [Upload -> Adoption]
  /\ size \in [Upload -> 1..MaxFiles]
  /\ pc = [u \in Upload |-> "idle"]
  /\ files = {}
  /\ documents = {}

Goto(u, l) == pc' = [pc EXCEPT ![u] = l]

(* An adoption is inserted while both parties have an account, and goes    *)
(* with its pet unless a document refers to it.                            *)
RequestAdoption(a) ==
  /\ row[a] = "none"
  /\ account[Adopter[a]] = "live"
  /\ account[Giver[a]] = "live"
  /\ row' = [row EXCEPT ![a] = "there"]
  /\ UNCHANGED <<accountVars, by, about, size, pc, files, documents>>

RemoveAdoption(a) ==
  /\ row[a] = "there"
  /\ DocumentsOn(a) = {}
  /\ row' = [row EXCEPT ![a] = "gone"]
  /\ UNCHANGED <<accountVars, by, about, size, pc, files, documents>>

-----------------------------------------------------------------------------
(* Uploads.                                                                *)

IsParticipant(u) == by[u] \in {Adopter[about[u]], Giver[about[u]]} \cup Admin

Begin(u) ==
  /\ pc[u] = "idle"
  /\ HasToken(by[u])
  /\ Goto(u, IF row[about[u]] = "there" /\ IsParticipant(u) THEN "upload" ELSE "failed")
  /\ UNCHANGED <<accountVars, row, by, about, size, files, documents>>

(* Mutant: a file whose answer was late is sent again after the last one.  *)
UploadFile_Again(u) ==
  /\ pc[u] = "upload"
  /\ \E i \in 1..size[u] + 1 : IsNext(u, i) /\ files' = files \cup {<<u, i>>}
  /\ UNCHANGED <<accountVars, row, by, about, size, pc, documents>>

UploadFile(u) ==
  /\ pc[u] = "upload"
  /\ \E i \in 1..size[u] : IsNext(u, i) /\ files' = files \cup {<<u, i>>}
  /\ UNCHANGED <<accountVars, row, by, about, size, pc, documents>>

(* Cloudinary reports an error, or keeps the file and its answer is lost,  *)
(* or the process dies.                                                    *)
UploadFails(u) ==
  /\ pc[u] = "upload"
  /\ Goto(u, "failed")
  /\ \/ UNCHANGED files
     \/ \E i \in 1..size[u] : IsNext(u, i) /\ files' = files \cup {<<u, i>>}
  /\ UNCHANGED <<accountVars, row, by, about, size, documents>>

(* The rows may refer to nothing: the transaction is refused as a whole.   *)
Refused(u) == row[about[u]] # "there" \/ account[by[u]] # "live"

(* Mutant: the rows are inserted one by one, and an error ends it midway.  *)
Record_OneByOne(u) ==
  /\ pc[u] = "upload"
  /\ FilesOf(u) \subseteq files
  /\ \/ /\ ~ Refused(u)
        /\ documents' = documents \cup FilesOf(u)
        /\ Goto(u, "done")
     \/ /\ ~ Refused(u)
        /\ documents' = documents \cup {<<u, 1>>}
        /\ Goto(u, "failed")
  /\ UNCHANGED <<accountVars, row, by, about, size, files>>

Record(u) ==
  /\ pc[u] = "upload"
  /\ FilesOf(u) \subseteq files
  /\ IF Refused(u)
       THEN Goto(u, "failed") /\ UNCHANGED documents
       ELSE Goto(u, "done") /\ documents' = documents \cup FilesOf(u)
  /\ UNCHANGED <<accountVars, row, by, about, size, files>>

(* The transaction commits and its answer is lost.                         *)
RecordUnanswered(u) ==
  /\ pc[u] = "upload"
  /\ FilesOf(u) \subseteq files
  /\ ~ Refused(u)
  /\ documents' = documents \cup FilesOf(u)
  /\ Goto(u, "failed")
  /\ UNCHANGED <<accountVars, row, by, about, size, files>>

-----------------------------------------------------------------------------
(* The system may stop anywhere: every request may be its last.            *)
Next ==
  \/ AccountStep /\ UNCHANGED uploadVars
  \/ \E x \in Account : DeleteProfile(x, RowsOf(x)) /\ UNCHANGED uploadVars
  \/ \E a \in Adoption : RequestAdoption(a) \/ RemoveAdoption(a)
  \/ \E u \in Upload : \/ Begin(u) \/ UploadFile(u) \/ UploadFails(u)
                       \/ Record(u) \/ RecordUnanswered(u)

Spec == DocInit /\ [][Next]_vars

-----------------------------------------------------------------------------
(* Properties.                                                             *)

TypeOK ==
  /\ AccountTypeOK
  /\ row \in [Adoption -> {"none", "there", "gone"}]
  /\ by \in [Upload -> Account]
  /\ about \in [Upload -> Adoption]
  /\ size \in [Upload -> 1..MaxFiles]
  /\ pc \in [Upload -> {"idle", "upload", "done", "failed"}]
  /\ files \subseteq Upload \X (1..MaxFiles)
  /\ documents \subseteq Upload \X (1..MaxFiles)

(* Whatever a row refers to is there: an adoption has both its parties, a  *)
(* document its file, its adoption and an uploader who may see it, an      *)
(* avatar its image; although the checks were made before the files         *)
(* travelled, tokens outlive accounts, and anything may be deleted.        *)
ReferencesStand ==
  /\ \A a \in Adoption :
       row[a] = "there" => account[Adopter[a]] = "live" /\ account[Giver[a]] = "live"
  /\ \A f \in documents :
       LET u == f[1]
       IN  /\ f \in files
           /\ row[about[u]] = "there"
           /\ account[by[u]] = "live"
           /\ by[u] \in {Adopter[about[u]], Giver[about[u]]} \cup Admin
  /\ \A x \in Account :
       avatar[x] # NoAvatar =>
         account[x] = "live" /\ AvatarOf[avatar[x]] = x /\ image[avatar[x]] = "shown"

(* Of the files of an upload all have a row or none; all when it was       *)
(* answered with success, so files without rows are those of requests that *)
(* still run or failed.                                                    *)
UploadsAreWhole ==
  \A u \in Upload :
    LET recorded == {f \in documents : f[1] = u}
    IN  /\ recorded \in {{}, FilesOf(u)}
        /\ pc[u] = "done" => recorded = FilesOf(u)
        /\ recorded # {} => pc[u] \in {"done", "failed"}
=============================================================================
