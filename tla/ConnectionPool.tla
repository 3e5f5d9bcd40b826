--------------------------- MODULE ConnectionPool ---------------------------
(***************************************************************************)
(* The connections of PrismaService.  Its adapter keeps one pool for the   *)
(* process: an interactive transaction has a connection of it until it     *)
(* ends, and every statement issued outside one borrows another.  Handlers *)
(* open transactions and then, still inside, log events and call services  *)
(* that ask the same pool again.                                           *)
(*                                                                         *)
(* A statement waits for a connection without limit.  An interactive       *)
(* transaction is rolled back when it gets too old, and its connection     *)
(* goes back to the pool under the running handler.                        *)
(***************************************************************************)
EXTENDS Integers, Sequences, FiniteSets

CONSTANTS Request,    \* the requests of a run
          MaxSize     \* the largest pool considered

ASSUME PoolAssumption == MaxSize \in Nat \ {0} /\ IsFiniteSet(Request)

VARIABLES
  size,      \* connections in the pool, fixed by the configuration
  lent,      \* <<r, k>> when request r has a connection for nesting level k
  op, at,    \* operation of each request, and how many of its steps are taken
  pc         \* idle, running, done or failed

vars == <<size, lent, op, at, pc>>

-----------------------------------------------------------------------------
(* How many connections each handler has after each of its steps, when     *)
(* none was taken from it.  A step up asks the pool for one: to open a     *)
(* transaction when another step up may follow inside, for one statement   *)
(* otherwise.  violationCustody is as return, approveAdoption as request.  *)
ReturnCustody   == <<1, 2, 1, 2, 3, 2, 1, 2, 1, 2, 1, 2, 1, 0>>
CancelCustody   == <<1, 2, 1, 2, 1, 2, 3, 2, 1, 0>>
CreateCustody   == <<1, 0, 1, 0, 1, 0, 1, 0, 1, 0, 1, 0, 1, 0>>
RequestAdoption == <<1, 2, 1, 0>>
UpdateAdoption  == <<1, 0, 1, 0, 1, 0, 1, 0>>
ReleaseEscrow   == <<1, 2, 1, 2, 1, 0>>

(* Mutant: a payout logs in a transaction of its own.                      *)
Profile_Deeper == [return |-> <<1, 2, 3, 4, 3, 2, 1, 0>>]

Profile ==
  [return |-> ReturnCustody,   cancel   |-> CancelCustody,
   create |-> CreateCustody,   adopt    |-> RequestAdoption,
   complete |-> UpdateAdoption, release |-> ReleaseEscrow]

Op == DOMAIN Profile

(* The deepest of them: the log of an escrow's payout inside a settlement. *)
Depth == 3

Level(r) == IF at[r] = 0 THEN 0 ELSE Profile[op[r]][at[r]]

Finished(r) == at[r] = Len(Profile[op[r]])

NextLevel(r) == Profile[op[r]][at[r] + 1]

GoesUp(r)   == pc[r] = "running" /\ ~ Finished(r) /\ NextLevel(r) > Level(r)
GoesDown(r) == pc[r] = "running" /\ ~ Finished(r) /\ NextLevel(r) < Level(r)

Of(r) == {s \in lent : s[1] = r}

Free == Cardinality(lent) < size

(* A request that waits for a connection while the pool has none.          *)
Waits(r) == GoesUp(r) /\ ~ Free

-----------------------------------------------------------------------------
Init ==
  /\ size \in 1..MaxSize
  /\ lent = {}
  /\ op \in [Request -> Op]
  /\ at = [r \in Request |-> 0]
  /\ pc = [r \in Request |-> "idle"]

Begin(r) ==
  /\ pc[r] = "idle"
  /\ pc' = [pc EXCEPT ![r] = "running"]
  /\ UNCHANGED <<size, lent, op, at>>

Take(r) ==
  /\ GoesUp(r)
  /\ Free
  /\ lent' = lent \cup {<<r, NextLevel(r)>>}
  /\ at' = [at EXCEPT ![r] = @ + 1]
  /\ UNCHANGED <<size, op, pc>>

(* Mutant: a statement keeps its connection until the request ends.        *)
Give_Keeps(r) ==
  /\ GoesDown(r)
  /\ at' = [at EXCEPT ![r] = @ + 1]
  /\ UNCHANGED <<size, lent, op, pc>>

(* A statement returns, or a transaction commits, on its own connection.   *)
Give(r) ==
  /\ GoesDown(r)
  /\ <<r, Level(r)>> \in lent
  /\ lent' = lent \ {<<r, Level(r)>>}
  /\ at' = [at EXCEPT ![r] = @ + 1]
  /\ UNCHANGED <<size, op, pc>>

Answer(r) ==
  /\ pc[r] = "running"
  /\ Finished(r)
  /\ pc' = [pc EXCEPT ![r] = "done"]
  /\ UNCHANGED <<size, lent, op, at>>

(* The handler is left by an exception: its transactions roll back.        *)
End(r) ==
  /\ pc' = [pc EXCEPT ![r] = "failed"]
  /\ lent' = lent \ Of(r)
  /\ UNCHANGED <<size, op, at>>

(* A statement throws, or a transaction cannot be opened in time.          *)
Fail(r) == pc[r] = "running" /\ End(r)

(* The handler uses, or commits, a transaction that was taken from it: not *)
(* before the statement it waits for has been answered.                    *)
UseExpired(r) ==
  /\ pc[r] = "running"
  /\ ~ Waits(r)
  /\ Level(r) > 0
  /\ <<r, Level(r)>> \notin lent
  /\ End(r)

(* Mutant: transactions have no time limit.                                *)
Expire_Never(r, k) == FALSE /\ UNCHANGED vars

(* A transaction at level k has something under way inside it for too long. *)
Expire(r, k) ==
  /\ pc[r] = "running"
  /\ <<r, k>> \in lent
  /\ k < Level(r) \/ GoesUp(r)
  /\ lent' = lent \ {<<r, k>>}
  /\ UNCHANGED <<size, op, at, pc>>

Step(r) == Take(r) \/ Give(r) \/ Answer(r) \/ UseExpired(r)

Quiet == \A r \in Request : pc[r] \in {"done", "failed"}

Next ==
  \/ \E r \in Request : \/ Begin(r) \/ Step(r) \/ Fail(r)
                        \/ \E k \in 1..Depth : Expire(r, k)
  \/ Quiet /\ UNCHANGED vars

Spec == Init /\ [][Next]_vars

(* Handlers go on when the pool serves them, and the timer of every        *)
(* transaction runs out in the end.  A request that has to wait gets its    *)
(* turn: the queue of the pool is first come, first served.                *)
FairSpec ==
  /\ Spec
  /\ \A r \in Request : SF_vars(Step(r))
  /\ \A r \in Request, k \in 1..Depth : WF_vars(Expire(r, k))

-----------------------------------------------------------------------------
(* Properties.                                                             *)

TypeOK ==
  /\ size \in 1..MaxSize
  /\ lent \subseteq Request \X (1..Depth)
  /\ op \in [Request -> Op]
  /\ at \in [Request -> Nat]
  /\ \A r \in Request : at[r] <= Len(Profile[op[r]])
  /\ pc \in [Request -> {"idle", "running", "done", "failed"}]

(* A pool with more connections than requests times nested levels is never *)
(* exhausted by requests that all wait for one another: when somebody waits *)
(* somebody else has what it needs to go on.                                *)
Roomy == size > Cardinality(Request) * (Depth - 1)

SomeoneCanGo ==
  Roomy /\ (\E r \in Request : Waits(r)) =>
    \E r \in Request : pc[r] = "running" /\ ~ GoesUp(r)

(* In a pool of any size every request ends, because a transaction that     *)
(* waits for too long gives its connection to somebody else.                *)
EveryRequestEnds == \A r \in Request : pc[r] = "running" ~> pc[r] \in {"done", "failed"}
=============================================================================
