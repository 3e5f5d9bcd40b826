----------------------------- MODULE EventReplay -----------------------------
(***************************************************************************)
(* EventReplayService beside CustodyService: an administrator rebuilds a   *)
(* custody, the escrow of a custody or the trust score of its holder from  *)
(* the event log while requests go on, and may write the result back.      *)
(*                                                                         *)
(* A replay reads the stream and then the row, in statements of their own; *)
(* a live one updates the row and writes the audit entry in a transaction, *)
(* which takes the row's lock like the transactions of the requests do.    *)
(***************************************************************************)
EXTENDS CustodyService, EventReducers

CONSTANT Admin   \* the requests that replay, each an aggregate of custody on[k]

ASSUME AdminAssumption == Admin \subseteq Request

VARIABLES
  replay,   \* state of each replay
  audit     \* audit entries committed: admin and action

replayVars == <<vars, replay, audit>>

Kind == {"CUSTODY", "ESCROW", "USER"}

Stream(k, kind) == CASE kind = "CUSTODY" -> custodyLog[on[k]]
                     [] kind = "ESCROW"  -> escrowLog[on[k]]
                     [] kind = "USER"    -> scoreLog[Holder[on[k]]]

(* Mutant: the closing events are mixed up.                                *)
Replayed_MixedUp(k) ==
  LET kind   == replay[k].kind
      status == Reduce(AdminStatus[kind], "NONE", SubSeq(Stream(k, kind), 1, replay[k].count))
  IN  IF status = "RETURNED" THEN "VIOLATION" ELSE status

(* Mutant: the last event is left out.                                     *)
Replayed_DropsLast(k) ==
  LET kind   == replay[k].kind
      status == Reduce(AdminStatus[kind], "NONE",
                       SubSeq(Stream(k, kind), 1, replay[k].count - 1))
  IN  IF status = "NONE" THEN "PENDING" ELSE status

(* Mutant: the type of the last event is taken for a status.               *)
Replayed_EventAsStatus(k) == Stream(k, replay[k].kind)[replay[k].count]

(* The status, or the score, the events read so far amount to.  A status   *)
(* starts from nothing, a score from the one in the user's row.            *)
Replayed(k) ==
  LET kind == replay[k].kind
  IN  Reduce(AdminStatus[kind], "NONE", SubSeq(Stream(k, kind), 1, replay[k].count))

ReplayedScore(k) ==
  ReduceScore(trust[Holder[on[k]]], SubSeq(Stream(k, "USER"), 1, replay[k].count))

CurrentStatus(k) == IF replay[k].kind = "CUSTODY" THEN custody[on[k]] ELSE escrow[on[k]]

(* diff, for the one field each reducer tracks.                            *)
Differs(k) == IF replay[k].kind = "USER" THEN ReplayedScore(k) # trust[Holder[on[k]]]
              ELSE Replayed(k) # CurrentStatus(k)

RecordMissing(k) == replay[k].kind # "USER" /\ CurrentStatus(k) = "NONE"

Running == {"events", "row", "apply", "auditing", "commit", "report"}

-----------------------------------------------------------------------------
ReplayInit ==
  /\ Init
  /\ replay = [k \in Admin |-> [at |-> "idle", kind |-> "NONE", live |-> FALSE,
                                count |-> 0, status |-> "NONE", score |-> 0]]
  /\ audit = {}

(* The first event tells the kind of the aggregate; without one, 404.      *)
BeginReplay(k, kind, live) ==
  /\ replay[k].at = "idle"
  /\ replay' = [replay EXCEPT ![k].kind = kind, ![k].live = live,
                  ![k].at = IF Stream(k, kind) = <<>> THEN "failed" ELSE "events"]
  /\ UNCHANGED <<vars, audit>>

(* The stream, or as many events of it as upToSequence says.               *)
ReadEvents(k) ==
  /\ replay[k].at = "events"
  /\ \E n \in 1 .. Len(Stream(k, replay[k].kind)) :
       replay' = [replay EXCEPT ![k].at = "row", ![k].count = n]
  /\ UNCHANGED <<vars, audit>>

(* The row as it is now, which decides what a live replay will write.      *)
ReadRow(k) ==
  /\ replay[k].at = "row"
  /\ LET applies == replay[k].live /\ ~ RecordMissing(k) /\ Differs(k)
         result  == [replay EXCEPT ![k].at = IF applies THEN "apply" ELSE "report"]
     IN  replay' = IF replay[k].kind = "USER"
                     THEN [result EXCEPT ![k].score = ReplayedScore(k)]
                     ELSE [result EXCEPT ![k].status = Replayed(k)]
  /\ UNCHANGED <<vars, audit>>

(* Mutant: the correction does not wait for the row.                       *)
ApplyUpdate_NoWait(k) ==
  /\ replay[k].at = "apply"
  /\ CASE replay[k].kind = "CUSTODY" ->
            custodyLock' = [custodyLock EXCEPT ![on[k]] = k] /\ UNCHANGED escrowLock
       [] replay[k].kind = "ESCROW" ->
            escrowLock' = [escrowLock EXCEPT ![on[k]] = k] /\ UNCHANGED custodyLock
       [] OTHER -> UNCHANGED locks
  /\ replay' = [replay EXCEPT ![k].at = "auditing"]
  /\ UNCHANGED <<rows, logs, on, pc, op, read, faults, audit>>

(* applyCorrectedState waits for the row, in a transaction.                *)
ApplyUpdate(k) ==
  /\ replay[k].at = "apply"
  /\ CASE replay[k].kind = "CUSTODY" ->
            /\ custodyLock[on[k]] = NoRequest
            /\ custodyLock' = [custodyLock EXCEPT ![on[k]] = k]
            /\ UNCHANGED escrowLock
       [] replay[k].kind = "ESCROW" ->
            /\ escrowLock[on[k]] = NoRequest
            /\ escrowLock' = [escrowLock EXCEPT ![on[k]] = k]
            /\ UNCHANGED custodyLock
       [] OTHER -> UNCHANGED locks
  /\ replay' = [replay EXCEPT ![k].at = "auditing"]
  /\ UNCHANGED <<rows, logs, on, pc, op, read, faults, audit>>

(* Mutant: the audit entry is written on a connection of its own.          *)
WriteAudit_OutsideTx(k) ==
  /\ replay[k].at = "auditing"
  /\ replay' = [replay EXCEPT ![k].at = "commit"]
  /\ audit' = audit \cup {<<k, "APPLIED">>}
  /\ UNCHANGED vars

(* The audit entry belongs to the same transaction.                        *)
WriteAudit(k) ==
  /\ replay[k].at = "auditing"
  /\ replay' = [replay EXCEPT ![k].at = "commit"]
  /\ UNCHANGED <<vars, audit>>

HasRow(k) == CASE replay[k].kind = "CUSTODY" -> custodyLock[on[k]] = k
               [] replay[k].kind = "ESCROW"  -> escrowLock[on[k]] = k
               [] OTHER -> TRUE

(* Mutant: the row is never given back.                                    *)
CommitReplay_KeepsLock(k) ==
  /\ replay[k].at = "commit"
  /\ HasRow(k)
  /\ CASE replay[k].kind = "CUSTODY" ->
            custody' = [custody EXCEPT ![on[k]] = replay[k].status]
            /\ UNCHANGED <<escrow, trust>>
       [] replay[k].kind = "ESCROW" ->
            escrow' = [escrow EXCEPT ![on[k]] = replay[k].status]
            /\ UNCHANGED <<custody, trust>>
       [] OTHER ->
            trust' = [trust EXCEPT ![Holder[on[k]]] = replay[k].score]
            /\ UNCHANGED <<custody, escrow>>
  /\ audit' = audit \cup {<<k, "APPLIED">>}
  /\ replay' = [replay EXCEPT ![k].at = "done"]
  /\ UNCHANGED <<logs, locks, on, pc, op, read, faults>>

CommitReplay(k) ==
  /\ replay[k].at = "commit"
  /\ HasRow(k)
  /\ CASE replay[k].kind = "CUSTODY" ->
            custody' = [custody EXCEPT ![on[k]] = replay[k].status]
            /\ UNCHANGED <<escrow, trust>>
       [] replay[k].kind = "ESCROW" ->
            escrow' = [escrow EXCEPT ![on[k]] = replay[k].status]
            /\ UNCHANGED <<custody, trust>>
       [] OTHER ->
            trust' = [trust EXCEPT ![Holder[on[k]]] = replay[k].score]
            /\ UNCHANGED <<custody, escrow>>
  /\ audit' = audit \cup {<<k, "APPLIED">>}
  /\ replay' = [replay EXCEPT ![k].at = "done"]
  /\ custodyLock' = Unlock(custodyLock, k)
  /\ escrowLock' = Unlock(escrowLock, k)
  /\ UNCHANGED <<logs, on, pc, op, read, faults>>

(* A dry run, or a live replay with nothing to write, is audited through   *)
(* the logging service.                                                    *)
Report(k) ==
  /\ replay[k].at = "report"
  /\ replay' = [replay EXCEPT ![k].at = "done"]
  /\ audit' = audit \cup {<<k, IF replay[k].live THEN "NOOP" ELSE "DRY_RUN">>}
  /\ UNCHANGED vars

-----------------------------------------------------------------------------
(* LoggingService.log swallows the failure of its insert.                  *)
ReportFails(k) ==
  /\ replay[k].at = "report"
  /\ faults < MaxFaults
  /\ faults' = faults + 1
  /\ replay' = [replay EXCEPT ![k].at = "done"]
  /\ UNCHANGED <<rows, logs, locks, on, pc, op, read, audit>>

(* Any other statement that fails ends the replay; its transaction, if it  *)
(* has one, rolls back.                                                    *)
ReplayFails(k) ==
  /\ replay[k].at \in Running \ {"report"}
  /\ faults < MaxFaults
  /\ faults' = faults + 1
  /\ replay' = [replay EXCEPT ![k].at = "failed"]
  /\ custodyLock' = Unlock(custodyLock, k)
  /\ escrowLock' = Unlock(escrowLock, k)
  /\ UNCHANGED <<rows, logs, on, pc, op, read, audit>>

(* Its transaction has outlived the time limit.                            *)
ReplayExpired(k) ==
  /\ replay[k].at \in {"auditing", "commit"}
  /\ ~ HasRow(k)
  /\ replay' = [replay EXCEPT ![k].at = "failed"]
  /\ UNCHANGED <<vars, audit>>

-----------------------------------------------------------------------------
ReplayStep(k) == \/ ReadEvents(k) \/ ReadRow(k) \/ ApplyUpdate(k) \/ WriteAudit(k)
                 \/ CommitReplay(k) \/ Report(k) \/ ReplayExpired(k)

ServiceStep(r) == Step(r) /\ UNCHANGED <<replay, audit>>

AllQuiet == /\ \A r \in Request \ Admin : pc[r] \in Ended
            /\ \A k \in Admin : replay[k].at \in Ended

ReplayNext ==
  \/ \E r \in Request \ Admin : \/ ServiceStep(r)
                                \/ (Begin(r) \/ Fault(r)) /\ UNCHANGED <<replay, audit>>
  \/ \E k \in Admin : \/ \E kind \in Kind, live \in BOOLEAN : BeginReplay(k, kind, live)
                      \/ ReplayStep(k)
                      \/ ReportFails(k) \/ ReplayFails(k)
                      \/ (CustodyTxExpires(k) \/ EscrowTxExpires(k))
                         /\ UNCHANGED <<replay, audit>>
  \/ AllQuiet /\ UNCHANGED replayVars

ReplaySpec == ReplayInit /\ [][ReplayNext]_replayVars

(* Handlers and replays alike go on when their statement is answered.      *)
ReplayFairSpec == /\ ReplaySpec
                  /\ \A r \in Request \ Admin : WF_replayVars(ServiceStep(r))
                  /\ \A k \in Admin : WF_replayVars(ReplayStep(k))

-----------------------------------------------------------------------------
(* Properties.                                                             *)

(* The state of the replays is well typed; a replayed score may be any.    *)
ReplayTypeOK ==
  /\ replay \in [Admin -> [at : {"idle"} \cup Running \cup Ended,
                           kind : Kind \cup {"NONE"}, live : BOOLEAN, count : Nat,
                           status : CustodyStatus \cup EscrowStatus \cup {"NONE"},
                           score : Int]]
  /\ audit \subseteq Admin \X {"APPLIED", "NOOP", "DRY_RUN"}
  /\ custody \in [Custody -> CustodyStatus \cup {"NONE"}]
  /\ escrow \in [Custody -> EscrowStatus \cup {"NONE"}]

(* Also with live replays of all or part of a stream no custody is closed  *)
(* and no escrow settled without its event: a replay writes what the log   *)
(* says, even when the rows say something else.                            *)
ReplayIsEventBacked == EventBacked

(* Without failures a live replay closes no custody whose deposit is unpaid. *)
(* It may read the event of a settlement that has not paid yet, but then    *)
(* waits for the row until that settlement, having paid, commits.  (With a  *)
(* failure it does close it: the event stays when the settlement is undone.) *)
ReplayKeepsSettled == faults = 0 => ClosedIsSettled

(* A status or a score that no request has written was written by a live   *)
(* replay whose audit entry commits in the same step, and an entry that    *)
(* says APPLIED commits with the values it is about.                       *)
AppliedIsAudited ==
  [][/\ rows' # rows /\ pc' = pc =>
          \E k \in Admin : replay[k].live /\ <<k, "APPLIED">> \in audit' \ audit
     /\ \A k \in Admin : <<k, "APPLIED">> \in audit' \ audit =>
          CASE replay[k].kind = "CUSTODY" -> custody'[on[k]] = replay[k].status
            [] replay[k].kind = "ESCROW"  -> escrow'[on[k]] = replay[k].status
            [] OTHER -> trust'[Holder[on[k]]] = replay[k].score]_replayVars

(* Without failures, when every live replay of a custody has read the whole *)
(* stream and nobody holds the row, the row says what the last event says,  *)
(* whatever happened between the reads and the write of a replay.  This     *)
(* needs CUSTODY_STARTED to be the first event: it is the only one that is  *)
(* not inserted under the row's lock, and it may come late.                 *)
StatusOf(e) == IF e = "CUSTODY_STARTED" THEN "PENDING"
               ELSE CHOOSE s \in {Target[o] : o \in Settling} :
                      \E o \in Settling : Target[o] = s /\ TargetEvent[o] = e

ReplayConverges ==
  faults = 0 =>
    \A c \in Custody :
      LET live == {k \in Admin : /\ on[k] = c /\ replay[k].kind = "CUSTODY"
                                 /\ replay[k].live}
          log  == custodyLog[c]
      IN  /\ live # {} /\ log # <<>>
          /\ custodyLock[c] = NoRequest
          /\ log[1] = "CUSTODY_STARTED"
          /\ \A k \in live : replay[k].at = "done" /\ replay[k].count = Len(log)
          => custody[c] = StatusOf(log[Len(log)])

(* Requests and replays all end: a replay holds one row at a time.         *)
EveryoneEnds ==
  /\ \A r \in Request \ Admin : pc[r] \in Active ~> pc[r] \in Ended
  /\ \A k \in Admin : replay[k].at \in Running ~> replay[k].at \in Ended

-----------------------------------------------------------------------------
(* What the documentation says, and the code does not keep.                *)

(* "so delta events apply on top of the correct baseline"                   *)
(* (event-replay.service.ts): without failures the replay of a user with    *)
(* one custody leaves the score of the last event.                          *)
ReplayKeepsScore == ScoreFollowsLog
=============================================================================
