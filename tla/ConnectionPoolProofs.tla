------------------------ MODULE ConnectionPoolProofs ------------------------
(***************************************************************************)
(* Proofs about ConnectionPool, for any number of requests and any size of *)
(* the pool: connections do not leak, and a pool with more connections     *)
(* than requests times nested levels is never exhausted for good.          *)
(***************************************************************************)
EXTENDS ConnectionPool, FiniteSetTheorems, TLAPS

(* No connection leaks: a request has connections only while it runs, and  *)
(* none above its present nesting level, whatever expired or threw on the   *)
(* way; so the pool is whole again when all is quiet.                       *)
NoLeak ==
  \A s \in lent : pc[s[1]] = "running" /\ s[2] <= Level(s[1])

LevelAfter(o, i) == IF i = 0 THEN 0 ELSE Profile[o][i]

(* Every handler takes and gives one connection at a time, never has more  *)
(* than Depth, and ends with none.                                         *)
LEMMA ProfileShape ==
  ASSUME NEW o \in Op
  PROVE  /\ Len(Profile[o]) \in Nat \ {0}
         /\ \A i \in 0..Len(Profile[o]) : LevelAfter(o, i) \in 0..Depth
         /\ \A i \in 0..Len(Profile[o]) - 1 :
              LevelAfter(o, i + 1) \in {LevelAfter(o, i) - 1, LevelAfter(o, i) + 1}
         /\ LevelAfter(o, Len(Profile[o])) = 0
<1>1. o \in {"return", "cancel", "create", "adopt", "complete", "release"}
  BY DEF Op, Profile
<1>2. CASE o = "return"
  BY <1>2 DEF Profile, ReturnCustody, LevelAfter, Depth
<1>3. CASE o = "cancel"
  BY <1>3 DEF Profile, CancelCustody, LevelAfter, Depth
<1>4. CASE o = "create"
  BY <1>4 DEF Profile, CreateCustody, LevelAfter, Depth
<1>5. CASE o = "adopt"
  BY <1>5 DEF Profile, RequestAdoption, LevelAfter, Depth
<1>6. CASE o = "complete"
  BY <1>6 DEF Profile, UpdateAdoption, LevelAfter, Depth
<1>7. CASE o = "release"
  BY <1>7 DEF Profile, ReleaseEscrow, LevelAfter, Depth
<1> QED
  BY <1>1, <1>2, <1>3, <1>4, <1>5, <1>6, <1>7

(* What the shape says of a request that runs.                             *)
LEMMA LevelShape ==
  ASSUME TypeOK, NEW r \in Request
  PROVE  /\ Level(r) \in 0..Depth
         /\ Finished(r) => Level(r) = 0
         /\ ~ Finished(r) =>
              /\ NextLevel(r) \in 0..Depth
              /\ NextLevel(r) \in {Level(r) - 1, Level(r) + 1}
              /\ at[r] + 1 <= Len(Profile[op[r]])
<1> DEFINE o == op[r]
<1>1. o \in Op /\ at[r] \in Nat /\ at[r] <= Len(Profile[o])
  BY DEF TypeOK
<1>2. /\ Len(Profile[o]) \in Nat \ {0}
      /\ \A i \in 0..Len(Profile[o]) : LevelAfter(o, i) \in 0..Depth
      /\ \A i \in 0..Len(Profile[o]) - 1 :
           LevelAfter(o, i + 1) \in {LevelAfter(o, i) - 1, LevelAfter(o, i) + 1}
      /\ LevelAfter(o, Len(Profile[o])) = 0
  BY <1>1, ProfileShape
<1>3. Level(r) = LevelAfter(o, at[r])
  BY DEF Level, LevelAfter
<1>4. Finished(r) => Level(r) = 0
  BY <1>2, <1>3 DEF Finished
<1>5. ASSUME ~ Finished(r)
      PROVE  at[r] \in 0..Len(Profile[o]) - 1 /\ NextLevel(r) = LevelAfter(o, at[r] + 1)
  BY <1>1, <1>2, <1>5 DEF Finished, NextLevel, LevelAfter
<1>6. ASSUME ~ Finished(r)
      PROVE  /\ NextLevel(r) \in 0..Depth
             /\ NextLevel(r) \in {Level(r) - 1, Level(r) + 1}
             /\ at[r] + 1 <= Len(Profile[o])
  BY <1>2, <1>3, <1>5, <1>6
<1> QED
  BY <1>1, <1>2, <1>3, <1>4, <1>6

(* The level after a step.                                                 *)
LEMMA LevelStep ==
  ASSUME TypeOK, NEW r \in Request, at' = [at EXCEPT ![r] = @ + 1], UNCHANGED op
  PROVE  /\ Level(r)' = NextLevel(r)
         /\ \A q \in Request \ {r} : Level(q)' = Level(q)
  BY DEF TypeOK, Level, NextLevel

-----------------------------------------------------------------------------
IInv == TypeOK /\ NoLeak

(* The initial states satisfy the inductive invariant.                     *)
LEMMA Initially == Init => IInv
<1> SUFFICES ASSUME Init PROVE IInv
  OBVIOUS
<1>1. \A o \in Op : Len(Profile[o]) \in Nat \ {0}
  BY ProfileShape
<1> QED
  BY <1>1, PoolAssumption DEF Init, IInv, TypeOK, NoLeak

(* Every step keeps it.                                                    *)
LEMMA Kept == IInv /\ [Next]_vars => IInv'
<1> SUFFICES ASSUME IInv, [Next]_vars PROVE IInv'
  OBVIOUS
<1>0. TypeOK /\ NoLeak
  BY DEF IInv
<1>1. ASSUME NEW r \in Request, Begin(r) PROVE IInv'
  BY <1>0, <1>1 DEF Begin, IInv, TypeOK, NoLeak, Level
<1>2. ASSUME NEW r \in Request, Take(r) PROVE IInv'
  <2>1. /\ NextLevel(r) > Level(r) /\ Level(r) \in 0..Depth
        /\ NextLevel(r) \in 0..Depth /\ at[r] + 1 <= Len(Profile[op[r]])
        /\ pc[r] = "running"
    BY <1>0, <1>2, LevelShape DEF Take, GoesUp
  <2>2. Level(r)' = NextLevel(r) /\ \A q \in Request \ {r} : Level(q)' = Level(q)
    BY <1>0, <1>2, LevelStep DEF Take
  <2>3. NextLevel(r) \in 1..Depth
    BY <2>1 DEF Depth
  <2>4. TypeOK'
    BY <1>0, <1>2, <2>1, <2>3 DEF Take, TypeOK
  <2>5. ASSUME NEW s \in lent' PROVE pc'[s[1]] = "running" /\ s[2] <= Level(s[1])'
    <3>1. CASE s = <<r, NextLevel(r)>>
      BY <1>2, <2>1, <2>2, <2>3, <3>1 DEF Take
    <3>2. CASE s \in lent
      <4>1. s[1] \in Request /\ s[2] \in 1..Depth
        BY <1>0, <3>2 DEF TypeOK
      <4>2. pc[s[1]] = "running" /\ s[2] <= Level(s[1])
        BY <1>0, <3>2 DEF NoLeak
      <4>3. CASE s[1] = r
        BY <1>2, <2>1, <2>2, <4>1, <4>2, <4>3 DEF Take, Depth
      <4>4. CASE s[1] # r
        BY <1>2, <2>2, <4>1, <4>2, <4>4 DEF Take
      <4> QED
        BY <4>3, <4>4
    <3> QED
      BY <1>2, <2>5, <3>1, <3>2 DEF Take
  <2> QED
    BY <2>4, <2>5 DEF IInv, NoLeak
<1>3. ASSUME NEW r \in Request, Give(r) PROVE IInv'
  <2>1. /\ NextLevel(r) = Level(r) - 1 /\ Level(r) \in 0..Depth
        /\ at[r] + 1 <= Len(Profile[op[r]])
    BY <1>0, <1>3, LevelShape DEF Give, GoesDown, Depth
  <2>2. Level(r)' = NextLevel(r) /\ \A q \in Request \ {r} : Level(q)' = Level(q)
    BY <1>0, <1>3, LevelStep DEF Give
  <2>3. TypeOK'
    BY <1>0, <1>3, <2>1 DEF Give, TypeOK
  <2>4. ASSUME NEW s \in lent' PROVE pc'[s[1]] = "running" /\ s[2] <= Level(s[1])'
    <3>1. s \in lent /\ s # <<r, Level(r)>>
      BY <1>3, <2>4 DEF Give
    <3>2. s[1] \in Request /\ s[2] \in 1..Depth /\ s = <<s[1], s[2]>>
      BY <1>0, <3>1 DEF TypeOK
    <3>3. pc[s[1]] = "running" /\ s[2] <= Level(s[1])
      BY <1>0, <3>1 DEF NoLeak
    <3>4. CASE s[1] = r
      BY <1>3, <2>1, <2>2, <3>1, <3>2, <3>3, <3>4 DEF Give, Depth
    <3>5. CASE s[1] # r
      BY <1>3, <2>2, <3>2, <3>3, <3>5 DEF Give
    <3> QED
      BY <3>4, <3>5
  <2> QED
    BY <2>3, <2>4 DEF IInv, NoLeak
<1>4. ASSUME NEW r \in Request, Answer(r) PROVE IInv'
  <2>1. Level(r) = 0
    BY <1>0, <1>4, LevelShape DEF Answer
  <2>2. \A s \in lent : s[1] # r
    BY <1>0, <2>1 DEF TypeOK, NoLeak, Depth
  <2> QED
    BY <1>0, <1>4, <2>2 DEF Answer, IInv, TypeOK, NoLeak, Level
<1>5. ASSUME NEW r \in Request, End(r) PROVE IInv'
  <2>1. \A s \in lent' : s \in lent /\ s[1] # r
    BY <1>5 DEF End, Of
  <2> QED
    BY <1>0, <1>5, <2>1 DEF End, IInv, TypeOK, NoLeak, Level
<1>6. ASSUME NEW r \in Request, NEW k \in 1..Depth, Expire(r, k) PROVE IInv'
  BY <1>0, <1>6 DEF Expire, IInv, TypeOK, NoLeak, Level
<1>7. CASE UNCHANGED vars
  BY <1>0, <1>7 DEF vars, IInv, TypeOK, NoLeak, Level
<1> QED
  BY <1>1, <1>2, <1>3, <1>4, <1>5, <1>6, <1>7 DEF Next, Step, Fail, UseExpired

(* The inductive invariant holds in every reachable state.                 *)
LEMMA Inductive == Spec => []IInv
  BY Initially, Kept, PTL DEF Spec

-----------------------------------------------------------------------------
(* If everybody waited, every connection would be at a level below the     *)
(* deepest, and the pool would be larger than all of those together.       *)
LEMMA RoomyPoolServes == IInv => SomeoneCanGo
<1> SUFFICES ASSUME IInv, Roomy, NEW w \in Request, Waits(w),
                    \A r \in Request : pc[r] = "running" => GoesUp(r)
             PROVE  FALSE
  BY DEF SomeoneCanGo
<1> DEFINE Below == Request \X (1..Depth - 1)
<1>1. TypeOK /\ NoLeak
  BY DEF IInv
<1>2. lent \subseteq Below
  <2> SUFFICES ASSUME NEW s \in lent PROVE s \in Below
    OBVIOUS
  <2>1. s \in Request \X (1..Depth) /\ s[1] \in Request /\ s[2] \in 1..Depth
    BY <1>1 DEF TypeOK
  <2>2. pc[s[1]] = "running" /\ s[2] <= Level(s[1])
    BY <1>1 DEF NoLeak
  <2>3. GoesUp(s[1])
    BY <2>1, <2>2
  <2>4. Level(s[1]) \in 0..Depth - 1
    BY <1>1, <2>1, <2>3, LevelShape DEF GoesUp, Depth
  <2> QED
    BY <2>1, <2>2, <2>4 DEF Depth
<1>3. IsFiniteSet(1..Depth - 1) /\ Cardinality(1..Depth - 1) = Depth - 1
  <2>1. 1 \in Int /\ Depth - 1 \in Int /\ 1 <= Depth - 1
    BY DEF Depth
  <2>2. /\ IsFiniteSet(1..Depth - 1)
        /\ Cardinality(1..Depth - 1) = IF 1 > Depth - 1 THEN 0 ELSE Depth - 1 - 1 + 1
    BY <2>1, FS_Interval, Zenon
  <2> QED
    BY <2>1, <2>2
<1>4. IsFiniteSet(Below) /\ Cardinality(Below) = Cardinality(Request) * (Depth - 1)
  BY <1>3, PoolAssumption, FS_Product
<1>5. IsFiniteSet(lent) /\ Cardinality(lent) <= Cardinality(Below)
  BY <1>2, <1>4, FS_Subset
<1>6. Cardinality(lent) \in Nat /\ Cardinality(Below) \in Nat
  BY <1>4, <1>5, FS_CardinalityType
<1>7. size \in Nat /\ size > Cardinality(Below) /\ ~ (Cardinality(lent) < size)
  BY <1>1, <1>4, PoolAssumption DEF TypeOK, Roomy, Waits, Free
<1> QED
  BY <1>5, <1>6, <1>7

-----------------------------------------------------------------------------
(* The state is well typed.                                                *)
THEOREM PoolTypeCorrect == Spec => []TypeOK
<1>1. IInv => TypeOK
  BY DEF IInv
<1> QED
  BY <1>1, Inductive, PTL

(* However transactions expire or throw, no connection stays lent to a     *)
(* request that has ended.                                                 *)
THEOREM ConnectionsReturn == Spec => []NoLeak
<1>1. IInv => NoLeak
  BY DEF IInv
<1> QED
  BY <1>1, Inductive, PTL

(* The size a pool needs for any number of requests at the same time.      *)
THEOREM RoomyPoolIsEnough == Spec => []SomeoneCanGo
  BY RoomyPoolServes, Inductive, PTL
=============================================================================
