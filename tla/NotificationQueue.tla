-------------------------- MODULE NotificationQueue --------------------------
(***************************************************************************)
(* The e-mails that announce what a handler did: the handler enqueues a    *)
(* job as a best effort, a worker of the same server runs it in one of its *)
(* slots, and BullMQ retries what throws and what stalls.  Approvals and   *)
(* rejections enqueue inside their transaction; completions and new        *)
(* custodies once the change is committed.                                 *)
(***************************************************************************)
EXTENDS Integers

CONSTANTS Notice,      \* runs of handlers, each with the mail it announces
          Inside,      \* those that enqueue before their commit
          Slot,        \* jobs the worker runs at the same time
          NoSlot,      \* holder of the lock of a job nobody runs
          NoNotice,    \* what an idle slot runs
          Attempts,    \* JOB_ATTEMPTS
          MaxStalls,   \* stalls a job survives
          MaxFaults    \* bound on failures of all kinds

ASSUME QueueAssumption ==
  /\ Inside \subseteq Notice
  /\ NoSlot \notin Slot
  /\ NoNotice \notin Notice
  /\ Attempts \in Nat \ {0}
  /\ MaxStalls \in Nat
  /\ MaxFaults \in Nat

VARIABLES
  step,        \* control state of each handler
  committed,   \* whether the change it announces is in the database
  job,         \* state of each job in Redis
  made,        \* attemptsMade of each job
  stalls,      \* how often each job stalled
  holder,      \* the slot that has the lock of each job
  slot, at,    \* job and control state of each slot
  sent,        \* mails the provider accepted
  faults       \* failures so far

handlerVars == <<step, committed>>
jobVars     == <<job, made, stalls, holder>>
workerVars  == <<slot, at>>
vars == <<handlerVars, jobVars, workerVars, sent, faults>>

JobEnded == {"completed", "failed"}

EnqueuesInside(n) == n \in Inside

Fault == faults < MaxFaults /\ faults' = faults + 1

-----------------------------------------------------------------------------
Init ==
  /\ step = [n \in Notice |-> "idle"]
  /\ committed = [n \in Notice |-> FALSE]
  /\ job = [n \in Notice |-> "none"]
  /\ made = [n \in Notice |-> 0]
  /\ stalls = [n \in Notice |-> 0]
  /\ holder = [n \in Notice |-> NoSlot]
  /\ slot = [s \in Slot |-> NoNotice]
  /\ at = [s \in Slot |-> "idle"]
  /\ sent = [n \in Notice |-> 0]
  /\ faults = 0

-----------------------------------------------------------------------------
(* Handlers.                                                               *)

Begin(n) ==
  /\ step[n] = "idle"
  /\ step' = [step EXCEPT ![n] = IF EnqueuesInside(n) THEN "enqueue" ELSE "commit"]
  /\ UNCHANGED <<committed, jobVars, workerVars, sent, faults>>

AfterEnqueue(n) == [step EXCEPT ![n] = IF EnqueuesInside(n) THEN "commit" ELSE "done"]

Enqueue(n) ==
  /\ step[n] = "enqueue"
  /\ job' = [job EXCEPT ![n] = "waiting"]
  /\ step' = AfterEnqueue(n)
  /\ UNCHANGED <<committed, made, stalls, holder, workerVars, sent, faults>>

(* What enqueueing throws is caught and logged.                            *)
EnqueueFails(n) ==
  /\ step[n] = "enqueue"
  /\ Fault
  /\ step' = AfterEnqueue(n)
  /\ UNCHANGED <<committed, jobVars, workerVars, sent>>

Commit(n) ==
  /\ step[n] = "commit"
  /\ committed' = [committed EXCEPT ![n] = TRUE]
  /\ step' = [step EXCEPT ![n] = IF EnqueuesInside(n) THEN "done" ELSE "enqueue"]
  /\ UNCHANGED <<jobVars, workerVars, sent, faults>>

(* Another statement fails, the commit itself, or the event in between.    *)
HandlerFails(n) ==
  /\ step[n] \in {"enqueue", "commit"}
  /\ Fault
  /\ step' = [step EXCEPT ![n] = "failed"]
  /\ UNCHANGED <<committed, jobVars, workerVars, sent>>

-----------------------------------------------------------------------------
(* The worker: BullMQ hands it a job under a lock, the processor sends.    *)

Take(s, n) ==
  /\ at[s] = "idle"
  /\ job[n] = "waiting"
  /\ job' = [job EXCEPT ![n] = "active"]
  /\ holder' = [holder EXCEPT ![n] = s]
  /\ slot' = [slot EXCEPT ![s] = n]
  /\ at' = [at EXCEPT ![s] = "send"]
  /\ UNCHANGED <<handlerVars, made, stalls, sent, faults>>

(* The provider accepts the mail for at least one recipient.               *)
Send(s) ==
  /\ at[s] = "send"
  /\ sent' = [sent EXCEPT ![slot[s]] = @ + 1]
  /\ at' = [at EXCEPT ![s] = "return"]
  /\ UNCHANGED <<handlerVars, jobVars, slot, faults>>

(* It refuses the mail, or accepts it and its answer is lost or has no     *)
(* message id: the processor cannot tell.                                  *)
SendFails(s) ==
  /\ at[s] = "send"
  /\ Fault
  /\ \/ UNCHANGED sent
     \/ sent' = [sent EXCEPT ![slot[s]] = @ + 1]
  /\ at' = [at EXCEPT ![s] = "log"]
  /\ UNCHANGED <<handlerVars, jobVars, slot>>

(* Mutant: the answer of the logging service never comes.                  *)
LogFailure_Hangs(s) == at[s] = "log" /\ UNCHANGED vars

(* The failure is logged, whether or not that works, and thrown again.     *)
LogFailure(s) ==
  /\ at[s] = "log"
  /\ at' = [at EXCEPT ![s] = "throw"]
  /\ UNCHANGED <<handlerVars, jobVars, slot, sent, faults>>

Leave(s) == /\ slot' = [slot EXCEPT ![s] = NoNotice]
            /\ at' = [at EXCEPT ![s] = "idle"]

(* Mutant: one attempt more.                                               *)
AfterFailure_OneMore(n) == IF made[n] < Attempts THEN "delayed" ELSE "failed"

(* The job waits for its back-off, until its attempts are used up.         *)
AfterFailure(n) == IF made[n] + 1 < Attempts THEN "delayed" ELSE "failed"

(* The end of a run counts for the job only under its lock.                *)
Finish(s) ==
  /\ at[s] \in {"return", "throw"}
  /\ Leave(s)
  /\ LET n == slot[s] IN
       IF holder[n] = s
         THEN /\ job' = [job EXCEPT ![n] = IF at[s] = "return" THEN "completed"
                                           ELSE AfterFailure(n)]
              /\ made' = [made EXCEPT ![n] = @ + 1]
              /\ holder' = [holder EXCEPT ![n] = NoSlot]
         ELSE UNCHANGED <<job, made, holder>>
  /\ UNCHANGED <<handlerVars, stalls, sent, faults>>

-----------------------------------------------------------------------------
(* Time: a back-off ends, a lock is not renewed, an active job without a   *)
(* lock is found stalled.                                                  *)

BackoffEnds(n) ==
  /\ job[n] = "delayed"
  /\ job' = [job EXCEPT ![n] = "waiting"]
  /\ UNCHANGED <<handlerVars, made, stalls, holder, workerVars, sent, faults>>

LoseLock(n) ==
  /\ holder[n] # NoSlot
  /\ Fault
  /\ holder' = [holder EXCEPT ![n] = NoSlot]
  /\ UNCHANGED <<handlerVars, job, made, stalls, workerVars, sent>>

Stalled(n) ==
  /\ job[n] = "active"
  /\ holder[n] = NoSlot
  /\ job' = [job EXCEPT ![n] = IF stalls[n] < MaxStalls THEN "waiting" ELSE "failed"]
  /\ stalls' = [stalls EXCEPT ![n] = @ + 1]
  /\ UNCHANGED <<handlerVars, made, holder, workerVars, sent, faults>>

(* The server dies with its handlers and its worker, and starts again; the *)
(* jobs are in Redis.                                                      *)
Crash ==
  /\ Fault
  /\ step' = [n \in Notice |-> IF step[n] \in {"enqueue", "commit"} THEN "failed" ELSE step[n]]
  /\ slot' = [s \in Slot |-> NoNotice]
  /\ at' = [s \in Slot |-> "idle"]
  /\ holder' = [n \in Notice |-> NoSlot]
  /\ UNCHANGED <<committed, job, made, stalls, sent>>

-----------------------------------------------------------------------------
Taken(n) == \E s \in Slot : Take(s, n)
SlotStep(s) == Send(s) \/ LogFailure(s) \/ Finish(s)

Quiet == /\ \A n \in Notice : step[n] \in {"done", "failed"} /\ job[n] \in {"none"} \cup JobEnded
         /\ \A s \in Slot : at[s] = "idle"

Next ==
  \/ \E n \in Notice : \/ Begin(n) \/ Enqueue(n) \/ EnqueueFails(n) \/ Commit(n)
                       \/ HandlerFails(n)
                       \/ Taken(n) \/ BackoffEnds(n) \/ LoseLock(n) \/ Stalled(n)
  \/ \E s \in Slot : SlotStep(s) \/ SendFails(s)
  \/ Crash
  \/ Quiet /\ UNCHANGED vars

Spec == Init /\ [][Next]_vars

(* The worker takes what waits while a slot is free, its awaits end, and   *)
(* BullMQ's timers run.                                                    *)
FairSpec ==
  /\ Spec
  /\ \A n \in Notice : WF_vars(Taken(n)) /\ WF_vars(BackoffEnds(n)) /\ WF_vars(Stalled(n))
  /\ \A s \in Slot : WF_vars(SlotStep(s))

-----------------------------------------------------------------------------
(* Properties.                                                             *)

TypeOK ==
  /\ step \in [Notice -> {"idle", "enqueue", "commit", "done", "failed"}]
  /\ committed \in [Notice -> BOOLEAN]
  /\ job \in [Notice -> {"none", "waiting", "active", "delayed"} \cup JobEnded]
  /\ made \in [Notice -> 0..Attempts]
  /\ stalls \in [Notice -> 0..MaxStalls + 1]
  /\ holder \in [Notice -> Slot \cup {NoSlot}]
  /\ slot \in [Slot -> Notice \cup {NoNotice}]
  /\ at \in [Slot -> {"idle", "send", "log", "throw", "return"}]
  /\ sent \in [Notice -> Nat]
  /\ faults \in 0..MaxFaults

(* A recipient gets a mail more than once when an answer is lost, a lock   *)
(* is not renewed or the server dies after the provider accepted it, but   *)
(* never more often than attempts and stalls allow together.               *)
SendsBounded == \A n \in Notice : sent[n] <= Attempts + MaxStalls

(* Every job that was enqueued is completed or given up.                   *)
EveryJobEnds == \A n \in Notice : job[n] = "waiting" ~> job[n] \in JobEnded
=============================================================================
