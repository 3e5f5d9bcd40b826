---------------------------- MODULE UserAccounts ----------------------------
(***************************************************************************)
(* The accounts of AuthService and UsersService.  A registration looks for *)
(* its e-mail, hashes the password and then inserts; only the unique index *)
(* serialises two of them.  A token carries the id and the role it was      *)
(* signed with, and nothing asks the database about either again: it acts  *)
(* for its account also after that was deleted.                            *)
(***************************************************************************)
EXTENDS Integers, FiniteSets

CONSTANTS Account,     \* ids of accounts, each the outcome of one registration
          Email, EmailOf,   \* addresses, and the one each registration gives
          Admin,       \* the accounts of administrators, which the seed makes
          Seed,        \* the accounts the seed makes
          Avatar, AvatarOf, \* uploads of an avatar, and the account each is for
          NoAvatar

ASSUME AccountAssumption ==
  /\ EmailOf \in [Account -> Email]
  /\ Admin \subseteq Seed /\ Seed \subseteq Account
  /\ \A x, y \in Seed : EmailOf[x] = EmailOf[y] => x = y
  /\ AvatarOf \in [Avatar -> Account] /\ NoAvatar \notin Avatar

VARIABLES
  account,   \* state of each account and of the registration that makes it
  avatar,    \* the image each account shows
  image      \* control state of the upload of each avatar

accountVars == <<account, avatar, image>>

Init ==
  /\ account = [x \in Account |-> IF x \in Seed THEN "live" ELSE "none"]
  /\ avatar = [x \in Account |-> NoAvatar]
  /\ image = [v \in Avatar |-> "idle"]

Taken(email) == \E x \in Account : account[x] = "live" /\ EmailOf[x] = email

(* Registration and login sign a token; deleting the account leaves it.    *)
HasToken(x) == account[x] \in {"live", "deleted"}

-----------------------------------------------------------------------------
(* Registrations.                                                          *)

Register(x) ==
  /\ account[x] = "none"
  /\ account' = [account EXCEPT ![x] = IF Taken(EmailOf[x]) THEN "refused" ELSE "hashing"]
  /\ UNCHANGED <<avatar, image>>

(* Mutant: the column is not unique.                                       *)
CreateUser_NoIndex(x) ==
  /\ account[x] = "hashing"
  /\ account' = [account EXCEPT ![x] = "live"]
  /\ UNCHANGED <<avatar, image>>

(* The insert, which the unique index may refuse.                          *)
CreateUser(x) ==
  /\ account[x] = "hashing"
  /\ account' = [account EXCEPT ![x] = IF Taken(EmailOf[x]) THEN "refused" ELSE "live"]
  /\ UNCHANGED <<avatar, image>>

(* The request dies while it hashes, or its insert fails.                  *)
RegisterFails(x) ==
  /\ account[x] = "hashing"
  /\ account' = [account EXCEPT ![x] = "refused"]
  /\ UNCHANGED <<avatar, image>>

-----------------------------------------------------------------------------
(* Profiles.  The token has its id as sub and checkOwnership compares       *)
(* userId: nobody but an administrator passes.                             *)
ByAdmin == \E y \in Admin : HasToken(y)

(* The database refuses to delete a user other rows refer to.              *)
DeleteProfile(x, rows) ==
  /\ ByAdmin
  /\ account[x] = "live"
  /\ rows = {}
  /\ account' = [account EXCEPT ![x] = "deleted"]
  /\ avatar' = [avatar EXCEPT ![x] = NoAvatar]
  /\ UNCHANGED image

StoreAvatar(v) ==
  /\ ByAdmin
  /\ image[v] = "idle"
  /\ image' = [image EXCEPT ![v] = "stored"]
  /\ UNCHANGED <<account, avatar>>

(* The update of the user, who may be gone or not have been there.         *)
ShowAvatar(v) ==
  /\ image[v] = "stored"
  /\ IF account[AvatarOf[v]] = "live"
       THEN /\ avatar' = [avatar EXCEPT ![AvatarOf[v]] = v]
            /\ image' = [image EXCEPT ![v] = "shown"]
       ELSE /\ image' = [image EXCEPT ![v] = "orphan"]
            /\ UNCHANGED avatar
  /\ UNCHANGED account

(* The upload or the update fails.                                         *)
AvatarFails(v) ==
  /\ image[v] \in {"idle", "stored"}
  /\ image' = [image EXCEPT ![v] = IF @ = "idle" THEN "failed" ELSE "orphan"]
  /\ UNCHANGED <<account, avatar>>

AccountStep ==
  \/ \E x \in Account : Register(x) \/ CreateUser(x) \/ RegisterFails(x)
  \/ \E v \in Avatar : StoreAvatar(v) \/ ShowAvatar(v) \/ AvatarFails(v)

-----------------------------------------------------------------------------
(* Properties.                                                             *)

AccountTypeOK ==
  /\ account \in [Account -> {"none", "hashing", "live", "refused", "deleted"}]
  /\ avatar \in [Account -> Avatar \cup {NoAvatar}]
  /\ image \in [Avatar -> {"idle", "stored", "shown", "orphan", "failed"}]

(* However many registrations pass the search for their e-mail together,   *)
(* one account has it; once that is deleted another may.                   *)
OneAccountPerEmail ==
  \A x, y \in Account :
    /\ account[x] = "live"
    /\ account[y] = "live"
    /\ EmailOf[x] = EmailOf[y]
    => x = y
=============================================================================
