------------------------ MODULE NotificationQueueProofs ------------------------
(***************************************************************************)
(* Proofs about NotificationQueue for any set of notices and slots, any    *)
(* number of attempts and stalls and any number of failures.               *)
(***************************************************************************)
EXTENDS NotificationQueue, FiniteSetTheorems, TLAPS

-----------------------------------------------------------------------------
(* The inductive invariant.                                                *)

(* The slots that are about to hand the mail of a notice to the provider.  *)
Sending(n) == {s \in Slot : slot[s] = n /\ at[s] = "send"}

(* How often a job was taken: each time ends in an attempt that counts, in *)
(* a stall, or is under way.                                               *)
Takes(n) == made[n] + stalls[n] + (IF job[n] = "active" THEN 1 ELSE 0)

(* A handler enqueues once; a lock belongs to the slot that runs the job;  *)
(* a slot that is busy runs a job.                                         *)
OwnershipOK ==
  /\ \A n \in Notice :
       /\ step[n] \in {"idle", "enqueue"} => job[n] = "none"
       /\ step[n] = "commit" /\ n \notin Inside => job[n] = "none"
       /\ holder[n] # NoSlot => job[n] = "active"
  /\ \A n \in Notice, s \in Slot :
       holder[n] = s => slot[s] = n /\ at[s] # "idle"
  /\ \A s \in Slot : at[s] # "idle" => slot[s] \in Notice

(* What a job has left of its attempts and stalls.                         *)
BudgetOK ==
  \A n \in Notice :
    IF job[n] \in JobEnded THEN made[n] + stalls[n] <= Attempts + MaxStalls
                           ELSE made[n] < Attempts /\ stalls[n] <= MaxStalls

(* Each take sends at most once, and those of them that are still to come  *)
(* are counted already.                                                    *)
SendsOK ==
  \A n \in Notice : /\ IsFiniteSet(Sending(n))
                    /\ sent[n] + Cardinality(Sending(n)) <= Takes(n)

IInv == TypeOK /\ OwnershipOK /\ BudgetOK /\ SendsOK

-----------------------------------------------------------------------------
(* Every step keeps it.                                                    *)

(* Every step keeps the types: attempts and stalls stay within their       *)
(* limits, and the failures within their bound.                            *)
LEMMA TypeStep == TypeOK /\ OwnershipOK /\ BudgetOK /\ [Next]_vars => TypeOK'
<1> SUFFICES ASSUME TypeOK, OwnershipOK, BudgetOK, [Next]_vars PROVE TypeOK'
  OBVIOUS
<1> USE QueueAssumption DEF TypeOK, handlerVars, jobVars, workerVars, JobEnded
<1>1. ASSUME NEW n \in Notice, Begin(n) PROVE TypeOK'
  BY <1>1 DEF Begin
<1>2. ASSUME NEW n \in Notice, Enqueue(n) PROVE TypeOK'
  BY <1>2 DEF Enqueue, AfterEnqueue
<1>3. ASSUME NEW n \in Notice, EnqueueFails(n) PROVE TypeOK'
  <2>1. faults' \in 0..MaxFaults
    BY <1>3 DEF EnqueueFails, Fault
  <2> QED
    BY <1>3, <2>1 DEF EnqueueFails, AfterEnqueue
<1>4. ASSUME NEW n \in Notice, Commit(n) PROVE TypeOK'
  BY <1>4 DEF Commit
<1>5. ASSUME NEW n \in Notice, HandlerFails(n) PROVE TypeOK'
  <2>1. faults' \in 0..MaxFaults
    BY <1>5 DEF HandlerFails, Fault
  <2> QED
    BY <1>5, <2>1 DEF HandlerFails
<1>6. ASSUME NEW s \in Slot, NEW n \in Notice, Take(s, n) PROVE TypeOK'
  BY <1>6 DEF Take
<1>7. ASSUME NEW n \in Notice, BackoffEnds(n) PROVE TypeOK'
  BY <1>7 DEF BackoffEnds
<1>8. ASSUME NEW n \in Notice, LoseLock(n) PROVE TypeOK'
  <2>1. faults' \in 0..MaxFaults
    BY <1>8 DEF LoseLock, Fault
  <2> QED
    BY <1>8, <2>1 DEF LoseLock
<1>9. ASSUME NEW n \in Notice, Stalled(n) PROVE TypeOK'
  <2>1. stalls[n] + 1 \in 0..MaxStalls + 1
    BY <1>9 DEF Stalled, BudgetOK
  <2> QED
    BY <1>9, <2>1 DEF Stalled
<1>10. ASSUME NEW s \in Slot, Send(s) PROVE TypeOK'
  <2>1. slot[s] \in Notice
    BY <1>10 DEF Send, OwnershipOK
  <2> QED
    BY <1>10, <2>1 DEF Send
<1>11. ASSUME NEW s \in Slot, LogFailure(s) PROVE TypeOK'
  BY <1>11 DEF LogFailure
<1>12. ASSUME NEW s \in Slot, Finish(s) PROVE TypeOK'
  <2> DEFINE n == slot[s]
  <2>1. n \in Notice
    BY <1>12 DEF Finish, OwnershipOK
  <2>2. /\ slot' \in [Slot -> Notice \cup {NoNotice}]
        /\ at' \in [Slot -> {"idle", "send", "log", "throw", "return"}]
    BY <1>12 DEF Finish, Leave
  <2>3. CASE holder[n] = s
    <3>1. made[n] + 1 \in 0..Attempts
      BY <2>1, <2>3 DEF OwnershipOK, BudgetOK
    <3> QED
      BY <1>12, <2>1, <2>2, <2>3, <3>1 DEF Finish, AfterFailure
  <2>4. CASE holder[n] # s
    BY <1>12, <2>2, <2>4 DEF Finish
  <2> QED
    BY <2>3, <2>4
<1>13. ASSUME NEW s \in Slot, SendFails(s) PROVE TypeOK'
  <2>1. slot[s] \in Notice
    BY <1>13 DEF SendFails, OwnershipOK
  <2>2. faults' \in 0..MaxFaults
    BY <1>13 DEF SendFails, Fault
  <2>3. sent' \in [Notice -> Nat]
    BY <1>13, <2>1 DEF SendFails
  <2> QED
    BY <1>13, <2>2, <2>3 DEF SendFails
<1>14. CASE Crash
  <2>1. faults' \in 0..MaxFaults
    BY <1>14 DEF Crash, Fault
  <2> QED
    BY <1>14, <2>1 DEF Crash
<1>15. CASE UNCHANGED vars
  BY <1>15 DEF vars
<1> QED
  BY <1>1, <1>2, <1>3, <1>4, <1>5, <1>6, <1>7, <1>8, <1>9, <1>10, <1>11, <1>12,
     <1>13, <1>14, <1>15
  DEF Next, Taken, SlotStep

(* Every step keeps a lock with the slot that runs the job.                *)
LEMMA OwnershipStep == TypeOK /\ OwnershipOK /\ [Next]_vars => OwnershipOK'
<1> SUFFICES ASSUME TypeOK, OwnershipOK, [Next]_vars PROVE OwnershipOK'
  OBVIOUS
<1> USE QueueAssumption DEF TypeOK, OwnershipOK, handlerVars, jobVars, workerVars, JobEnded
<1>1. ASSUME NEW n \in Notice, Begin(n) PROVE OwnershipOK'
  BY <1>1 DEF Begin, EnqueuesInside
<1>2. ASSUME NEW n \in Notice, Enqueue(n) PROVE OwnershipOK'
  BY <1>2 DEF Enqueue, AfterEnqueue, EnqueuesInside
<1>3. ASSUME NEW n \in Notice, EnqueueFails(n) PROVE OwnershipOK'
  BY <1>3 DEF EnqueueFails, AfterEnqueue, EnqueuesInside
<1>4. ASSUME NEW n \in Notice, Commit(n) PROVE OwnershipOK'
  BY <1>4 DEF Commit, EnqueuesInside
<1>5. ASSUME NEW n \in Notice, HandlerFails(n) PROVE OwnershipOK'
  BY <1>5 DEF HandlerFails
<1>6. ASSUME NEW s \in Slot, NEW n \in Notice, Take(s, n) PROVE OwnershipOK'
  BY <1>6 DEF Take
<1>7. ASSUME NEW n \in Notice, BackoffEnds(n) PROVE OwnershipOK'
  BY <1>7 DEF BackoffEnds
<1>8. ASSUME NEW n \in Notice, LoseLock(n) PROVE OwnershipOK'
  BY <1>8 DEF LoseLock
<1>9. ASSUME NEW n \in Notice, Stalled(n) PROVE OwnershipOK'
  BY <1>9 DEF Stalled
<1>10. ASSUME NEW s \in Slot, Send(s) PROVE OwnershipOK'
  BY <1>10 DEF Send
<1>11. ASSUME NEW s \in Slot, LogFailure(s) PROVE OwnershipOK'
  BY <1>11 DEF LogFailure
<1>12. ASSUME NEW s \in Slot, Finish(s) PROVE OwnershipOK'
  BY <1>12 DEF Finish, Leave, AfterFailure
<1>13. ASSUME NEW s \in Slot, SendFails(s) PROVE OwnershipOK'
  BY <1>13 DEF SendFails
<1>14. CASE Crash
  BY <1>14 DEF Crash
<1>15. CASE UNCHANGED vars
  BY <1>15 DEF vars
<1> QED
  BY <1>1, <1>2, <1>3, <1>4, <1>5, <1>6, <1>7, <1>8, <1>9, <1>10, <1>11, <1>12,
     <1>13, <1>14, <1>15
  DEF Next, Taken, SlotStep

(* Every step keeps within the attempts and stalls of a job.               *)
LEMMA BudgetStep == TypeOK /\ OwnershipOK /\ BudgetOK /\ [Next]_vars => BudgetOK'
<1> SUFFICES ASSUME TypeOK, OwnershipOK, BudgetOK, [Next]_vars PROVE BudgetOK'
  OBVIOUS
<1>0. /\ job \in [Notice -> {"none", "waiting", "active", "delayed"} \cup JobEnded]
      /\ made \in [Notice -> 0..Attempts]
      /\ stalls \in [Notice -> 0..MaxStalls + 1]
      /\ slot \in [Slot -> Notice \cup {NoNotice}]
  BY DEF TypeOK
<1> USE QueueAssumption, <1>0 DEF BudgetOK, jobVars, JobEnded
<1>1. ASSUME NEW n \in Notice, Begin(n) PROVE BudgetOK'
  BY <1>1 DEF Begin
<1>2. ASSUME NEW n \in Notice, Enqueue(n) PROVE BudgetOK'
  BY <1>2 DEF Enqueue, OwnershipOK
<1>3. ASSUME NEW n \in Notice, EnqueueFails(n) PROVE BudgetOK'
  BY <1>3 DEF EnqueueFails
<1>4. ASSUME NEW n \in Notice, Commit(n) PROVE BudgetOK'
  BY <1>4 DEF Commit
<1>5. ASSUME NEW n \in Notice, HandlerFails(n) PROVE BudgetOK'
  BY <1>5 DEF HandlerFails
<1>6. ASSUME NEW s \in Slot, NEW n \in Notice, Take(s, n) PROVE BudgetOK'
  BY <1>6 DEF Take
<1>7. ASSUME NEW n \in Notice, BackoffEnds(n) PROVE BudgetOK'
  BY <1>7 DEF BackoffEnds
<1>8. ASSUME NEW n \in Notice, LoseLock(n) PROVE BudgetOK'
  BY <1>8 DEF LoseLock
<1>9. ASSUME NEW n \in Notice, Stalled(n) PROVE BudgetOK'
  BY <1>9 DEF Stalled
<1>10. ASSUME NEW s \in Slot, Send(s) PROVE BudgetOK'
  BY <1>10 DEF Send
<1>11. ASSUME NEW s \in Slot, LogFailure(s) PROVE BudgetOK'
  BY <1>11 DEF LogFailure
<1>12. ASSUME NEW s \in Slot, Finish(s) PROVE BudgetOK'
  <2> DEFINE n == slot[s]
  <2>1. n \in Notice
    BY <1>12 DEF Finish, OwnershipOK
  <2>2. CASE holder[n] = s
    <3>1. made[n] < Attempts /\ stalls[n] <= MaxStalls
      BY <2>1, <2>2 DEF OwnershipOK
    <3>2. /\ job' = [job EXCEPT ![n] = IF at[s] = "return" THEN "completed"
                                      ELSE AfterFailure(n)]
          /\ made' = [made EXCEPT ![n] = @ + 1]
          /\ UNCHANGED stalls
      BY <1>12, <2>2 DEF Finish
    <3>3. AfterFailure(n) = IF made[n] + 1 < Attempts THEN "delayed" ELSE "failed"
      BY DEF AfterFailure
    <3> QED
      BY <2>1, <3>1, <3>2, <3>3
  <2>3. CASE holder[n] # s
    BY <1>12, <2>3 DEF Finish
  <2> QED
    BY <2>2, <2>3
<1>13. ASSUME NEW s \in Slot, SendFails(s) PROVE BudgetOK'
  BY <1>13 DEF SendFails
<1>14. CASE Crash
  BY <1>14 DEF Crash
<1>15. CASE UNCHANGED vars
  BY <1>15 DEF vars
<1> QED
  BY <1>1, <1>2, <1>3, <1>4, <1>5, <1>6, <1>7, <1>8, <1>9, <1>10, <1>11, <1>12,
     <1>13, <1>14, <1>15
  DEF Next, Taken, SlotStep

(* A step that sends nothing and takes nothing back keeps the bound.       *)
LEMMA SendsKept ==
  ASSUME SendsOK, UNCHANGED sent,
         \A n \in Notice : Sending(n)' = Sending(n) /\ Takes(n)' = Takes(n)
  PROVE  SendsOK'
BY DEF SendsOK

(* Handing a mail to the provider, whatever comes of it, takes its slot    *)
(* out of the set of those that still have to.                             *)
LEMMA SendsMoved ==
  ASSUME TypeOK, SendsOK, NEW s \in Slot, slot[s] \in Notice, at[s] = "send",
         NEW l \in {"return", "log"}, at' = [at EXCEPT ![s] = l],
         UNCHANGED <<jobVars, slot>>,
         sent' = sent \/ sent' = [sent EXCEPT ![slot[s]] = @ + 1]
  PROVE  SendsOK'
<1> DEFINE n == slot[s]
<1>1. \A m \in Notice \ {n} : Sending(m)' = Sending(m)
  BY DEF Sending, TypeOK
<1>2. Sending(n)' = Sending(n) \ {s} /\ s \in Sending(n)
  BY DEF Sending, TypeOK
<1>3. \A m \in Notice : Takes(m)' = Takes(m)
  BY DEF Takes, jobVars
<1>4. IsFiniteSet(Sending(n)) /\ Cardinality(Sending(n)) \in Nat
  BY FS_CardinalityType DEF SendsOK
<1>5. IsFiniteSet(Sending(n)') /\ Cardinality(Sending(n)') = Cardinality(Sending(n)) - 1
  BY <1>2, <1>4, FS_RemoveElement
<1>6. /\ \A m \in Notice \ {n} : sent'[m] = sent[m]
      /\ sent[n] \in Nat /\ sent'[n] <= sent[n] + 1 /\ sent'[n] \in Nat
  BY DEF TypeOK
<1>7. Takes(n) \in Nat
  BY DEF Takes, TypeOK
<1>8. sent[n] + Cardinality(Sending(n)) <= Takes(n)
  BY DEF SendsOK
<1>9. sent'[n] + Cardinality(Sending(n)') <= Takes(n)'
  BY <1>3, <1>4, <1>5, <1>6, <1>7, <1>8
<1>10. ASSUME NEW m \in Notice, m # n
       PROVE  /\ IsFiniteSet(Sending(m)')
              /\ sent'[m] + Cardinality(Sending(m)') <= Takes(m)'
  BY <1>1, <1>3, <1>6, <1>10 DEF SendsOK
<1> QED
  BY <1>5, <1>9, <1>10 DEF SendsOK

(* Every step keeps the mails within the runs of their job.                *)
LEMMA SendsStep ==
  TypeOK /\ OwnershipOK /\ SendsOK /\ [Next]_vars => SendsOK'
<1> SUFFICES ASSUME TypeOK, OwnershipOK, SendsOK, [Next]_vars PROVE SendsOK'
  OBVIOUS
<1>0. /\ job \in [Notice -> {"none", "waiting", "active", "delayed"} \cup JobEnded]
      /\ made \in [Notice -> 0..Attempts]
      /\ stalls \in [Notice -> 0..MaxStalls + 1]
      /\ slot \in [Slot -> Notice \cup {NoNotice}]
      /\ at \in [Slot -> {"idle", "send", "log", "throw", "return"}]
      /\ sent \in [Notice -> Nat]
  BY DEF TypeOK
<1>1. ASSUME NEW n \in Notice, Begin(n) PROVE SendsOK'
  BY <1>1, SendsKept DEF Begin, handlerVars, Takes, Sending, jobVars, workerVars
<1>2. ASSUME NEW n \in Notice, Enqueue(n) PROVE SendsOK'
  BY <1>2, <1>0, SendsKept DEF Enqueue, handlerVars, OwnershipOK, Takes, Sending, workerVars
<1>3. ASSUME NEW n \in Notice, EnqueueFails(n) PROVE SendsOK'
  BY <1>3, SendsKept DEF EnqueueFails, handlerVars, Takes, Sending, jobVars, workerVars
<1>4. ASSUME NEW n \in Notice, Commit(n) PROVE SendsOK'
  BY <1>4, SendsKept DEF Commit, handlerVars, Takes, Sending, jobVars, workerVars
<1>5. ASSUME NEW n \in Notice, HandlerFails(n) PROVE SendsOK'
  BY <1>5, SendsKept DEF HandlerFails, handlerVars, Takes, Sending, jobVars, workerVars
<1>6. ASSUME NEW s \in Slot, NEW n \in Notice, Take(s, n) PROVE SendsOK'
  <2>1. /\ UNCHANGED <<sent, made, stalls>>
        /\ \A m \in Notice \ {n} : Sending(m)' = Sending(m) /\ Takes(m)' = Takes(m)
    BY <1>6, <1>0 DEF Take, Sending, Takes
  <2>2. Sending(n)' = Sending(n) \cup {s} /\ s \notin Sending(n)
    BY <1>6, <1>0 DEF Take, Sending
  <2>3. Takes(n)' = Takes(n) + 1 /\ Takes(n) \in Nat /\ sent[n] \in Nat
    BY <1>6, <1>0 DEF Take, Takes
  <2>4. /\ IsFiniteSet(Sending(n)) /\ Cardinality(Sending(n)) \in Nat
        /\ sent[n] + Cardinality(Sending(n)) <= Takes(n)
    BY FS_CardinalityType DEF SendsOK
  <2>5. /\ IsFiniteSet(Sending(n)')
        /\ Cardinality(Sending(n)') = Cardinality(Sending(n)) + 1
    BY <2>2, <2>4, FS_AddElement
  <2>6. sent'[n] + Cardinality(Sending(n)') <= Takes(n)'
    BY <2>1, <2>3, <2>4, <2>5
  <2> QED
    BY <2>1, <2>5, <2>6 DEF SendsOK
<1>7. ASSUME NEW n \in Notice, BackoffEnds(n) PROVE SendsOK'
  BY <1>7, <1>0, SendsKept DEF BackoffEnds, handlerVars, Takes, Sending, workerVars
<1>8. ASSUME NEW n \in Notice, LoseLock(n) PROVE SendsOK'
  BY <1>8, SendsKept DEF LoseLock, handlerVars, Takes, Sending, jobVars, workerVars
<1>9. ASSUME NEW n \in Notice, Stalled(n) PROVE SendsOK'
  BY <1>9, <1>0, SendsKept DEF Stalled, handlerVars, Takes, Sending, workerVars
<1>10. ASSUME NEW s \in Slot, Send(s) PROVE SendsOK'
  BY <1>10, SendsMoved DEF Send, handlerVars, OwnershipOK
<1>11. ASSUME NEW s \in Slot, LogFailure(s) PROVE SendsOK'
  BY <1>11, <1>0, SendsKept DEF LogFailure, handlerVars, Takes, Sending, jobVars
<1>12. ASSUME NEW s \in Slot, Finish(s) PROVE SendsOK'
  <2> DEFINE n == slot[s]
  <2>1. UNCHANGED <<sent, stalls>> /\ n \in Notice
    BY <1>12 DEF Finish, OwnershipOK
  <2>2. \A m \in Notice : Sending(m)' = Sending(m)
    BY <1>12, <1>0, QueueAssumption DEF Finish, Leave, Sending
  <2>3. \A m \in Notice : Takes(m)' = Takes(m)
    <3>1. CASE holder[n] = s
      <4>1. job[n] = "active"
        BY <2>1, <3>1, QueueAssumption DEF OwnershipOK
      <4>2. job' = [job EXCEPT ![n] = IF at[s] = "return" THEN "completed"
                                      ELSE AfterFailure(n)]
        BY <1>12, <3>1 DEF Finish
      <4>3. job'[n] # "active" /\ \A m \in Notice \ {n} : job'[m] = job[m]
        BY <1>0, <2>1, <4>2 DEF AfterFailure
      <4>4. made' = [made EXCEPT ![n] = @ + 1]
        BY <1>12, <3>1 DEF Finish
      <4> QED
        BY <1>0, <2>1, <4>1, <4>3, <4>4 DEF Takes
    <3>2. CASE holder[n] # s
      BY <1>12, <2>1, <3>2 DEF Finish, Takes
    <3> QED
      BY <3>1, <3>2
  <2> QED
    BY <2>1, <2>2, <2>3, SendsKept
<1>13. ASSUME NEW s \in Slot, SendFails(s) PROVE SendsOK'
  BY <1>13, SendsMoved DEF SendFails, handlerVars, OwnershipOK
<1>14. CASE Crash
  <2>1. UNCHANGED <<sent, made, stalls, job>>
    BY <1>14 DEF Crash
  <2>2. \A n \in Notice : Sending(n)' = {}
    BY <1>14 DEF Crash, Sending
  <2>3. IsFiniteSet({}) /\ Cardinality({}) = 0
    BY FS_EmptySet
  <2>4. ASSUME NEW n \in Notice PROVE sent[n] <= Takes(n)
    <3>1. /\ IsFiniteSet(Sending(n)) /\ Cardinality(Sending(n)) \in Nat
          /\ sent[n] + Cardinality(Sending(n)) <= Takes(n)
      BY FS_CardinalityType DEF SendsOK
    <3> QED
      BY <1>0, <3>1 DEF Takes
  <2>5. \A n \in Notice : Takes(n)' = Takes(n) /\ sent[n] \in Nat
    BY <1>0, <2>1 DEF Takes
  <2> QED
    BY <2>1, <2>2, <2>3, <2>4, <2>5 DEF SendsOK
<1>15. CASE UNCHANGED vars
  BY <1>15 DEF vars, SendsOK, Sending, Takes, jobVars, workerVars
<1> QED
  BY <1>1, <1>2, <1>3, <1>4, <1>5, <1>6, <1>7, <1>8, <1>9, <1>10, <1>11, <1>12,
     <1>13, <1>14, <1>15
  DEF Next, Taken, SlotStep

(* Nothing is enqueued at the start.                                       *)
LEMMA InitOK == Init => IInv
<1> SUFFICES ASSUME Init PROVE IInv
  OBVIOUS
<1>1. TypeOK
  BY QueueAssumption DEF Init, TypeOK
<1>2. OwnershipOK
  BY QueueAssumption DEF Init, OwnershipOK
<1>3. ASSUME NEW n \in Notice
      PROVE  job[n] = "none" /\ made[n] = 0 /\ stalls[n] = 0 /\ sent[n] = 0
  BY DEF Init
<1>4. BudgetOK
  <2> SUFFICES ASSUME NEW n \in Notice
               PROVE  /\ job[n] \notin JobEnded
                      /\ made[n] < Attempts /\ stalls[n] <= MaxStalls
    BY DEF BudgetOK
  <2> QED
    BY <1>3, QueueAssumption DEF JobEnded
<1>5. SendsOK
  <2> SUFFICES ASSUME NEW n \in Notice
               PROVE  /\ IsFiniteSet(Sending(n))
                      /\ sent[n] + Cardinality(Sending(n)) <= Takes(n)
    BY DEF SendsOK
  <2>1. Sending(n) = {}
    BY DEF Init, Sending
  <2>2. Takes(n) = 0
    BY <1>3 DEF Takes
  <2> QED
    BY <1>3, <2>1, <2>2, FS_EmptySet
<1> QED
  BY <1>1, <1>2, <1>4, <1>5 DEF IInv

(* The inductive invariant holds in every reachable state.                 *)
LEMMA Invariance == Spec => []IInv
<1>1. IInv /\ [Next]_vars => IInv'
  BY TypeStep, OwnershipStep, BudgetStep, SendsStep DEF IInv
<1> QED
  BY <1>1, InitOK, PTL DEF Spec

-----------------------------------------------------------------------------
(* Theorems.                                                               *)

(* Every reachable state is well typed; in particular no job makes more    *)
(* attempts or stalls than the queue allows, whatever slots do with runs    *)
(* whose lock they have lost.                                               *)
THEOREM QueueTypeCorrect == Spec => []TypeOK
<1>1. IInv => TypeOK
  BY DEF IInv
<1> QED
  BY <1>1, Invariance, PTL

(* No mail is accepted by the provider more often than its job has attempts *)
(* and stalls together, whatever answers are lost, locks not renewed and    *)
(* servers restarted.                                                       *)
THEOREM SendsAreBounded == Spec => []SendsBounded
<1>1. IInv => SendsBounded
  <2> SUFFICES ASSUME IInv, NEW n \in Notice PROVE sent[n] <= Attempts + MaxStalls
    BY DEF SendsBounded
  <2>1. /\ Cardinality(Sending(n)) \in Nat
        /\ sent[n] + Cardinality(Sending(n)) <= Takes(n)
    BY FS_CardinalityType DEF IInv, SendsOK
  <2>2. /\ sent[n] \in Nat /\ made[n] \in Nat /\ stalls[n] \in Nat
        /\ Attempts \in Nat /\ MaxStalls \in Nat
    BY QueueAssumption DEF IInv, TypeOK
  <2>3. Takes(n) <= Attempts + MaxStalls /\ Takes(n) \in Nat
    BY <2>2 DEF IInv, BudgetOK, Takes, JobEnded
  <2> QED
    BY <2>1, <2>2, <2>3
<1> QED
  BY <1>1, Invariance, PTL
=============================================================================
