-------------------------- MODULE EventLedgerProofs --------------------------
(***************************************************************************)
(* Proofs about EventLedger, for any number of aggregates, calls and       *)
(* failures and any hash.                                                  *)
(***************************************************************************)
EXTENDS EventLedger, TLAPS

(* While a call has its transaction nobody else commits to its aggregate,  *)
(* so the number it read stays the next one.                               *)
Fresh ==
  /\ \A k \in Call : /\ pc[k] \in {"insert", "commit"}
                     /\ HasTx(k)
                     => next[k] = Len(stored[of[k]]) + 1
  /\ Consecutive

IInv == TypeOK /\ Fresh

(* The highest number of a stream that counts 1, 2, 3, ... is its length.  *)
LEMMA HighestIsLength ==
  ASSUME NEW s \in Seq(Nat), \A i \in DOMAIN s : s[i] = i
  PROVE  Highest(s) = Len(s)
<1>1. CASE s = <<>>
  BY <1>1 DEF Highest
<1>2. CASE s # <<>>
  <2>1. Len(s) \in 1 .. Len(s) /\ DOMAIN s = 1 .. Len(s)
    BY <1>2
  <2>2. Numbers(s) = 1 .. Len(s)
    BY <2>1 DEF Numbers
  <2>3. Len(s) \in Numbers(s) /\ \A n \in Numbers(s) : n <= Len(s)
    BY <2>1, <2>2
  <2>4. \A m \in Numbers(s) : (\A n \in Numbers(s) : n <= m) => m = Len(s)
    BY <2>1, <2>2, <2>3
  <2> QED
    BY <1>2, <2>3, <2>4 DEF Highest
<1> QED
  BY <1>1, <1>2

(* Extending a counting stream by its next number keeps it counting.       *)
LEMMA CountingAppend ==
  ASSUME NEW s \in Seq(Nat), \A i \in DOMAIN s : s[i] = i
  PROVE  LET t == Append(s, Len(s) + 1)
         IN  t \in Seq(Nat) /\ \A i \in DOMAIN t : t[i] = i
OBVIOUS

(* A transaction's end frees only its own lock.                            *)
LEMMA ReleaseType ==
  ASSUME TypeOK, NEW k \in Call
  PROVE  /\ Release(k) \in [Key -> Call \cup {NoCall}]
         /\ \A j \in Call : Release(k)[Hash[of[j]]] = j => HasTx(j) /\ j # k
BY LedgerAssumption DEF TypeOK, Release, HasTx

(* The initial state is consistent.                                        *)
LEMMA InitOK == Init => IInv
BY LedgerAssumption DEF Init, IInv, TypeOK, Fresh, Consecutive, HasTx, Open, Ended

(* Every step keeps the types and the streams.                             *)
LEMMA StepOK == IInv /\ [Next]_vars => IInv'
<1> SUFFICES ASSUME IInv, [Next]_vars PROVE IInv'
  OBVIOUS
<1> USE LedgerAssumption DEF IInv, TypeOK, Fresh, Consecutive, HasTx, Open, Ended, Goto
<1>1. ASSUME NEW k \in Call, NEW o \in {"append", "peek"}, Begin(k, o) PROVE IInv'
  BY <1>1 DEF Begin
<1>2. ASSUME NEW k \in Call, Lock(k) PROVE IInv'
  BY <1>2 DEF Lock
<1>3. ASSUME NEW k \in Call, ReadLatest(k) PROVE IInv'
  <2>1. NextNumber(stored[of[k]]) = Len(stored[of[k]]) + 1
    BY HighestIsLength DEF NextNumber
  <2> QED
    BY <1>3, <2>1 DEF ReadLatest
<1>4. ASSUME NEW k \in Call, Insert(k) PROVE IInv'
  BY <1>4 DEF Insert
<1>5. ASSUME NEW k \in Call, Commit(k) PROVE IInv'
  <2>1. holder' = Release(k) /\ UNCHANGED <<op, of, next, faults>> /\ HasTx(k)
    BY <1>5 DEF Commit
  <2>2. pc' \in [Call -> {"idle", "lock"} \cup Open \cup Ended] /\ pc'[k] = "done"
        /\ \A j \in Call \ {k} : pc'[j] = pc[j]
    BY <1>5 DEF Commit
  <2>3. CASE op[k] = "append"
    <3>1. stored' = [stored EXCEPT ![of[k]] = Append(@, Len(stored[of[k]]) + 1)]
      BY <1>5, <2>3 DEF Commit
    <3>2. stored' \in [Aggregate -> Seq(Nat)] /\ Consecutive'
      BY <3>1, CountingAppend
    <3>3. \A j \in Call : HasTx(j)' => HasTx(j) /\ j # k /\ stored'[of[j]] = stored[of[j]]
      BY <2>1, <3>1, ReleaseType
    <3>4. /\ Len(stored'[of[k]]) = Len(stored[of[k]]) + 1
          /\ \A j \in Call : Len(stored[of[j]]) <= Len(stored'[of[j]])
      BY <3>1
    <3>5. TypeOK'
      BY <2>1, <2>2, <3>2, ReleaseType
    <3>6. \A j \in Call : pc'[j] \in {"insert", "commit"} /\ HasTx(j)'
                          => next'[j] = Len(stored'[of'[j]]) + 1
      BY <2>1, <2>2, <3>3
    <3> QED
      BY <3>2, <3>5, <3>6
  <2>4. CASE op[k] # "append"
    BY <1>5, <2>1, <2>2, <2>4, ReleaseType DEF Commit
  <2> QED
    BY <2>3, <2>4
<1>6. ASSUME NEW k \in Call, UseExpired(k) PROVE IInv'
  BY <1>6 DEF UseExpired
<1>7. ASSUME NEW k \in Call, Fail(k) PROVE IInv'
  BY <1>7, ReleaseType DEF Fail
<1>8. ASSUME NEW k \in Call, TxExpires(k) PROVE IInv'
  BY <1>8, ReleaseType DEF TxExpires
<1>9. CASE UNCHANGED vars
  BY <1>9 DEF vars
<1> QED
  BY <1>1, <1>2, <1>3, <1>4, <1>5, <1>6, <1>7, <1>8, <1>9 DEF Next, Step

(* The inductive invariant holds in every reachable state.                 *)
LEMMA Invariance == Spec => []IInv
<1> QED
  BY InitOK, StepOK, PTL DEF Spec

(* Every reachable state is well typed: every number handed out is a       *)
(* natural number and every advisory lock is held by a call or free.       *)
THEOREM LedgerTypeCorrect == Spec => []TypeOK
<1>1. IInv => TypeOK
  BY DEF IInv
<1> QED
  BY <1>1, Invariance, PTL

(* The committed events of every aggregate are numbered 1, 2, 3, ..., for  *)
(* any number of racing, failing and expiring calls and any hash.           *)
THEOREM StreamsAreConsecutive == Spec => []Consecutive
<1>1. IInv => Consecutive
  BY DEF IInv, Fresh
<1> QED
  BY <1>1, Invariance, PTL

(* getNextSequenceNumber hands out the number that comes next, whatever     *)
(* raced it or expired: who has lost the lock has lost the transaction.     *)
THEOREM HandedOutNumbersAreNext == Spec => HandedOutIsNext
<1> DEFINE HandsOutNext ==
             \A k \in Call :
               op[k] = "peek" /\ pc[k] # "done" /\ pc'[k] = "done" =>
                 next[k] = Len(stored[of[k]]) + 1
<1>1. IInv /\ [Next]_vars => HandsOutNext
  <2> SUFFICES ASSUME IInv, [Next]_vars, NEW k \in Call, pc[k] # "done", pc'[k] = "done"
               PROVE  next[k] = Len(stored[of[k]]) + 1
    OBVIOUS
  <2>1. pc \in [Call -> {"idle", "lock"} \cup Open \cup Ended]
    BY DEF IInv, TypeOK
  <2>2. Commit(k)
    BY <2>1 DEF Next, Step, Begin, Lock, ReadLatest, Insert, Commit, UseExpired, Fail,
       TxExpires, vars, Goto
  <2> QED
    BY <2>2 DEF Commit, IInv, Fresh
<1> QED
  BY <1>1, Invariance, PTL DEF Spec, HandedOutIsNext

(* detectGaps reports nothing about a stream this service has written.     *)
THEOREM IntegrityCheckPasses == Spec => []NoGaps
<1>1. IInv => NoGaps
  <2> SUFFICES ASSUME IInv, NEW a \in Aggregate PROVE DetectGaps(stored[a]) = {}
    BY DEF NoGaps
  <2>1. stored[a] \in Seq(Nat) /\ \A i \in DOMAIN stored[a] : stored[a][i] = i
    BY DEF IInv, TypeOK, Fresh, Consecutive
  <2>2. Highest(stored[a]) = Len(stored[a])
    BY <2>1, HighestIsLength
  <2>3. 1 .. Len(stored[a]) \subseteq Numbers(stored[a])
    BY <2>1 DEF Numbers
  <2> QED
    BY <2>2, <2>3 DEF DetectGaps
<1> QED
  BY <1>1, Invariance, PTL

(* The service implements the serial ledger: each commit extends one       *)
(* stream by its next number, every other step is a stutter.                *)
THEOREM ServiceImplementsSerialLedger == Spec => ImplementsSerialLedger
<1>1. Init => Serial!Init
  BY DEF Init, Serial!Init
<1>2. IInv /\ [Next]_vars => [Serial!Next]_stored
  <2> SUFFICES ASSUME IInv, [Next]_vars, stored' # stored PROVE Serial!Next
    OBVIOUS
  <2>1. PICK k \in Call : Commit(k)
    BY DEF Next, Step, Begin, Lock, ReadLatest, Insert, UseExpired, Fail, TxExpires, vars
  <2>2. stored' = [stored EXCEPT ![of[k]] = Append(@, Len(stored[of[k]]) + 1)]
    BY <2>1 DEF Commit, IInv, TypeOK, Fresh
  <2>3. of[k] \in Aggregate
    BY DEF IInv, TypeOK
  <2> QED
    BY <2>2, <2>3 DEF Serial!Next, Serial!Extend, IInv, TypeOK
<1> QED
  BY <1>1, <1>2, Invariance, PTL DEF Spec, Serial!Spec, ImplementsSerialLedger
=============================================================================
