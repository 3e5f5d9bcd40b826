------------------------- MODULE EventReplayProofs -------------------------
(***************************************************************************)
(* Proofs about EventReplay, for any set of custodies, requests and        *)
(* administrators and any number of failures, and about the fold that a    *)
(* replay is, for any stream.                                              *)
(***************************************************************************)
EXTENDS EventReplay, CustodyServiceProofs

-----------------------------------------------------------------------------
(* The fold.                                                               *)

(* Induction over the numbers up to a limit.                               *)
LEMMA Reaches ==
  ASSUME NEW n \in Nat, NEW S, 0 \in S, \A i \in 0 .. n - 1 : i \in S => i + 1 \in S
  PROVE  n \in S
<1> DEFINE T == {i \in 1 .. n + 1 : i - 1 \in S}
<1>1. T \in SUBSET (1 .. n + 1) /\ 1 \in T /\ n + 1 \in Nat
  OBVIOUS
<1>2. PICK i \in T : \A j \in T : j <= i
  <2> HIDE DEF T
  <2> QED
    BY <1>1, LastPosition
<1>3. ASSUME i # n + 1 PROVE FALSE
  <2>1. i \in 1 .. n /\ i - 1 \in S
    BY <1>3
  <2>2. i - 1 \in 0 .. n - 1 /\ (i - 1) + 1 = i
    BY <2>1
  <2>3. i \in S /\ i + 1 \in 1 .. n + 1 /\ (i + 1) - 1 = i
    BY <2>1, <2>2
  <2>4. i + 1 \in T /\ ~ (i + 1 <= i)
    BY <2>1, <2>3
  <2> QED
    BY <1>2, <2>4
<1> QED
  BY <1>3

(* f gives the state after each of m steps from start, in X.               *)
States(f, m, X, start, step) ==
  /\ f \in [0 .. m -> X]
  /\ f[0] = start
  /\ \A n \in 1 .. m : f[n] = step[n][f[n - 1]]

(* Whatever the events do to a state, there is a function that gives the   *)
(* state after each number of them.                                        *)
LEMMA FoldExists ==
  ASSUME NEW N \in Nat, NEW X, NEW start \in X, NEW step \in [1 .. N -> [X -> X]]
  PROVE  \E f : States(f, N, X, start, step)
<1> DEFINE Upto(f, m) == States(f, m, X, start, step)
           T == {m \in 0 .. N : \E f : Upto(f, m)}
<1>1. 0 \in T
  <2>1. Upto([n \in 0 .. 0 |-> start], 0)
    BY DEF States
  <2> HIDE DEF Upto
  <2> QED
    BY <2>1
<1>2. ASSUME NEW m \in 0 .. N - 1, m \in T PROVE m + 1 \in T
  <2>1. PICK f : Upto(f, m)
    BY <1>2
  <2> DEFINE g == [n \in 0 .. m + 1 |-> IF n = m + 1 THEN step[n][f[n - 1]] ELSE f[n]]
  <2>2. f[m] \in X /\ step[m + 1][f[m]] \in X /\ g[0] = start
    BY <2>1 DEF States
  <2>3. g \in [0 .. m + 1 -> X]
    BY <2>1, <2>2 DEF States
  <2>4. ASSUME NEW n \in 1 .. m + 1 PROVE g[n] = step[n][g[n - 1]]
    <3>1. n \in 0 .. m + 1 /\ n - 1 \in 0 .. m + 1 /\ n - 1 # m + 1
      OBVIOUS
    <3>2. g[n - 1] = f[n - 1]
      BY <3>1
    <3>3. g[n] = step[n][f[n - 1]]
      BY <2>1, <3>1 DEF States
    <3> QED
      BY <3>2, <3>3
  <2>5. m + 1 \in 0 .. N
    OBVIOUS
  <2>6. Upto(g, m + 1)
    <3> HIDE DEF g
    <3> QED
      BY <2>2, <2>3, <2>4 DEF States
  <2> HIDE DEF g, Upto
  <2> QED
    BY <2>5, <2>6
<1>3. N \in T
  <2> HIDE DEF T
  <2> QED
    BY <1>1, <1>2, Reaches
<1> QED
  BY <1>3

(* The states after each number of events of the stream.                   *)
IsFold(f, table, start, stream) ==
  f = [n \in 0 .. Len(stream) |->
         IF n = 0 THEN start
         ELSE IF stream[n] \in DOMAIN table THEN table[stream[n]]
         ELSE f[n - 1]]

(* Reduce is the last of them.                                             *)
LEMMA ReduceSteps ==
  ASSUME NEW table, NEW start, NEW S, NEW stream \in Seq(S)
  PROVE  \E f : /\ IsFold(f, table, start, stream)
                /\ Reduce(table, start, stream) = f[Len(stream)]
<1> DEFINE N == Len(stream)
           X == {start} \cup {table[e] : e \in DOMAIN table}
           step == [n \in 1 .. N |-> [x \in X |->
                      IF stream[n] \in DOMAIN table THEN table[stream[n]] ELSE x]]
<1>1. N \in Nat /\ start \in X
  OBVIOUS
<1>2. step \in [1 .. N -> [X -> X]]
  OBVIOUS
<1>3. PICK f : States(f, N, X, start, step)
  <2> HIDE DEF N, X, step
  <2> QED
    BY <1>1, <1>2, FoldExists
<1>4. ASSUME NEW n \in 0 .. N
      PROVE  f[n] = IF n = 0 THEN start
                    ELSE IF stream[n] \in DOMAIN table THEN table[stream[n]]
                    ELSE f[n - 1]
  <2>1. CASE n = 0
    BY <1>3, <2>1 DEF States
  <2>2. CASE n # 0
    <3>1. n \in 1 .. N /\ n - 1 \in 0 .. N
      BY <2>2
    <3> HIDE DEF X
    <3> QED
      BY <1>3, <2>2, <3>1 DEF States
  <2> QED
    BY <2>1, <2>2
<1>5. IsFold(f, table, start, stream)
  <2>1. f = [n \in 0 .. N |-> f[n]]
    BY <1>3 DEF States
  <2> QED
    BY <1>4, <2>1 DEF IsFold
<1> DEFINE state == CHOOSE g : IsFold(g, table, start, stream)
<1>6. IsFold(state, table, start, stream)
  <2> HIDE DEF X
  <2> QED
    BY <1>5
<1>7. Reduce(table, start, stream) = state[N]
  BY DEF Reduce, IsFold
<1> HIDE DEF state
<1> QED
  BY <1>6, <1>7

(* Replaying a stream gives the state of the last event that the reducer   *)
(* knows, or the state it started from.                                    *)
THEOREM ReduceIsLast ==
  ASSUME NEW table, NEW start, NEW S, NEW stream \in Seq(S)
  PROVE  \/ /\ Reduce(table, start, stream) = start
            /\ \A i \in DOMAIN stream : stream[i] \notin DOMAIN table
         \/ \E i \in DOMAIN stream :
              /\ stream[i] \in DOMAIN table
              /\ Reduce(table, start, stream) = table[stream[i]]
              /\ \A j \in DOMAIN stream : j > i => stream[j] \notin DOMAIN table
<1>1. PICK f : /\ IsFold(f, table, start, stream)
               /\ Reduce(table, start, stream) = f[Len(stream)]
  BY ReduceSteps
<1> DEFINE Known(i) == stream[i] \in DOMAIN table
           Read(n) == \/ f[n] = start /\ \A i \in 1 .. n : ~ Known(i)
                      \/ \E i \in 1 .. n : /\ Known(i)
                                           /\ f[n] = table[stream[i]]
                                           /\ \A j \in 1 .. n : j > i => ~ Known(j)
           T == {n \in 0 .. Len(stream) : Read(n)}
<1>2. 0 \in T
  BY <1>1 DEF IsFold
<1>3. ASSUME NEW n \in 0 .. Len(stream) - 1, n \in T PROVE n + 1 \in T
  <2>1. /\ n + 1 \in 0 .. Len(stream) /\ n + 1 # 0 /\ n \in Nat
        /\ 1 .. n + 1 = (1 .. n) \cup {n + 1} /\ (n + 1) - 1 = n
        /\ \A j \in 1 .. n + 1 : j > n + 1 => FALSE
        /\ \A i \in 1 .. n : n + 1 > i
    OBVIOUS
  <2>2. f[n + 1] = IF Known(n + 1) THEN table[stream[n + 1]] ELSE f[n]
    BY <1>1, <2>1 DEF IsFold
  <2>3. Read(n)
    BY <1>3
  <2>4. Read(n + 1)
    <3> HIDE DEF Known
    <3>1. CASE Known(n + 1)
      BY <3>1, <2>1, <2>2
    <3>2. CASE ~ Known(n + 1)
      BY <3>2, <2>1, <2>2, <2>3
    <3> QED
      BY <3>1, <3>2
  <2> QED
    BY <2>1, <2>4
<1>4. Len(stream) \in T
  <2>1. Len(stream) \in Nat
    OBVIOUS
  <2> HIDE DEF T
  <2> QED
    BY <1>2, <1>3, <2>1, Reaches
<1>5. DOMAIN stream = 1 .. Len(stream)
  OBVIOUS
<1> QED
  BY <1>1, <1>4, <1>5

(* A replayed score is a number: the events of updateTrustScore carry      *)
(* deltas, which are added up without a limit.                             *)
LEMMA ReduceScoreType ==
  ASSUME NEW start \in Int, NEW S, NEW stream \in Seq(S),
         \A e \in S : "trustScore" \notin DOMAIN e /\ e.delta \in Int
  PROVE  ReduceScore(start, stream) \in Int
<1> DEFINE N == Len(stream)
           Sums(f) == f = [n \in 0 .. N |->
                             IF n = 0 THEN start
                             ELSE IF "trustScore" \in DOMAIN stream[n] THEN stream[n].trustScore
                             ELSE f[n - 1] + stream[n].delta]
           step == [n \in 1 .. N |-> [x \in Int |-> x + stream[n].delta]]
<1>1. N \in Nat
  OBVIOUS
<1>2. \A n \in 1 .. N : /\ "trustScore" \notin DOMAIN stream[n]
                        /\ stream[n].delta \in Int
  OBVIOUS
<1>3. step \in [1 .. N -> [Int -> Int]]
  BY <1>2
<1>4. PICK f : States(f, N, Int, start, step)
  <2> HIDE DEF N, step
  <2> QED
    BY <1>1, <1>3, FoldExists
<1>5. ASSUME NEW n \in 0 .. N
      PROVE  f[n] = IF n = 0 THEN start
                    ELSE IF "trustScore" \in DOMAIN stream[n] THEN stream[n].trustScore
                    ELSE f[n - 1] + stream[n].delta
  <2>1. CASE n = 0
    BY <1>4, <2>1 DEF States
  <2>2. CASE n # 0
    <3>1. n \in 1 .. N /\ n - 1 \in 0 .. N
      BY <2>2
    <3> QED
      BY <1>2, <1>4, <2>2, <3>1 DEF States
  <2> QED
    BY <2>1, <2>2
<1>6. Sums(f)
  <2>1. f = [n \in 0 .. N |-> f[n]]
    BY <1>4 DEF States
  <2> HIDE DEF step
  <2> QED
    BY <1>5, <2>1
<1> DEFINE score == CHOOSE g : Sums(g)
<1>7. Sums(score)
  <2> HIDE DEF Sums
  <2> QED
    BY <1>6
<1>8. ReduceScore(start, stream) = score[N]
  BY DEF ReduceScore
<1>9. \A n \in 0 .. N : score[n] \in Int
  <2> HIDE DEF score
  <2> DEFINE T == {n \in 0 .. N : score[n] \in Int}
  <2>1. 0 \in T
    BY <1>7
  <2>2. ASSUME NEW n \in 0 .. N - 1, n \in T PROVE n + 1 \in T
    <3>1. /\ n + 1 \in 0 .. N /\ n + 1 # 0 /\ (n + 1) - 1 = n /\ n + 1 \in 1 .. N
      OBVIOUS
    <3>2. score[n + 1] = score[n] + stream[n + 1].delta
      BY <1>2, <1>7, <3>1
    <3> QED
      BY <1>2, <2>2, <3>1, <3>2
  <2>3. ASSUME NEW n \in 0 .. N PROVE n \in T
    <3>1. n \in Nat /\ \A i \in 0 .. n - 1 : i \in T => i + 1 \in T
      BY <2>2
    <3> HIDE DEF T
    <3> QED
      BY <2>1, <3>1, Reaches
  <2> QED
    BY <2>3
<1> HIDE DEF score
<1> QED
  BY <1>1, <1>8, <1>9

-----------------------------------------------------------------------------
(* What a replay has read, and what it is about to write.                  *)

(* The event streams hold no event that their reducer does not know, so    *)
(* the replay of a prefix is the status of its last event.                 *)
LEMMA ReplayOfPrefix ==
  ASSUME NEW table, NEW stream \in Seq(DOMAIN table), NEW n \in 1 .. Len(stream)
  PROVE  Reduce(table, "NONE", SubSeq(stream, 1, n)) = table[stream[n]]
<1> DEFINE s == SubSeq(stream, 1, n)
<1>1. /\ s \in Seq(DOMAIN table) /\ DOMAIN s = 1 .. n
      /\ \A i \in 1 .. n : s[i] = stream[i] /\ s[i] \in DOMAIN table
  OBVIOUS
<1> HIDE DEF s
<1>2. \/ \A i \in DOMAIN s : s[i] \notin DOMAIN table
      \/ \E i \in DOMAIN s : /\ Reduce(table, "NONE", s) = table[s[i]]
                             /\ \A j \in DOMAIN s : j > i => s[j] \notin DOMAIN table
  BY <1>1, ReduceIsLast
<1>3. n \in 1 .. n
  OBVIOUS
<1>4. PICK i \in 1 .. n : /\ Reduce(table, "NONE", s) = table[s[i]]
                          /\ \A j \in 1 .. n : ~ (j > i)
  BY <1>1, <1>2, <1>3
<1>5. i = n
  BY <1>4
<1> QED
  BY <1>1, <1>4, <1>5 DEF s

(* The types of a replay, and those a service keeps when a replay has      *)
(* written a score of any size.                                            *)
Numbers == /\ trust \in [User -> Int]
           /\ scoreLog \in [User -> Seq([previousScore : Int, newScore : Int, delta : Int])]
           /\ read \in [Request -> Int]

ReplayTypes ==
  /\ RowTypes
  /\ ReplayTypeOK
  /\ Numbers

(* A replay reads at least one event, and no more than there are.          *)
ReadOK ==
  \A k \in Admin :
    /\ replay[k].at \in Running \cup {"done"} => replay[k].kind \in Kind
    /\ replay[k].at \in (Running \ {"events"}) \cup {"done"} =>
         replay[k].count \in 1 .. Len(Stream(k, replay[k].kind))

(* What a live replay writes is the status of the last event it has read,  *)
(* over a row that exists.                                                 *)
WritesOK ==
  \A k \in Admin :
    replay[k].at \in {"apply", "auditing", "commit"} =>
      /\ replay[k].live
      /\ replay[k].kind = "CUSTODY" =>
           /\ custody[on[k]] # "NONE"
           /\ replay[k].status = AdminStatus["CUSTODY"][custodyLog[on[k]][replay[k].count]]
      /\ replay[k].kind = "ESCROW" =>
           /\ escrow[on[k]] # "NONE"
           /\ replay[k].status = AdminStatus["ESCROW"][escrowLog[on[k]][replay[k].count]]

(* Only a replay that has committed has its entry, and its request does    *)
(* nothing else.                                                           *)
AuditOK ==
  \A k \in Admin : /\ <<k, "APPLIED">> \in audit => replay[k].at = "done"
                   /\ pc[k] = "idle"

(* A step is one of a service, which leaves the replays alone, or one of a *)
(* replay.                                                                 *)
ReplayAct(k) == \/ \E kind \in Kind, live \in BOOLEAN : BeginReplay(k, kind, live)
                \/ ReplayStep(k) \/ ReportFails(k) \/ ReplayFails(k)

(* A step is one of the custody service, or one of a replay.               *)
LEMMA ReplayCases ==
  ASSUME [ReplayNext]_replayVars
  PROVE  \/ [Next]_vars /\ UNCHANGED <<replay, audit>>
         \/ \E k \in Admin : ReplayAct(k)
BY AdminAssumption DEF ReplayNext, ReplayAct, ServiceStep, Next, Fault, replayVars

(* The score of a service step is a number whatever it was before.         *)
LEMMA NumbersStep == RowTypes /\ ControlOK /\ Numbers /\ [Next]_vars => Numbers'
<1> SUFFICES ASSUME RowTypes, ControlOK, Numbers, [Next]_vars PROVE Numbers'
  OBVIOUS
<1> DEFINE Entry == [previousScore : Int, newScore : Int, delta : Int]
<1>1. on \in [Request -> Custody] /\ \A r \in Request : Holder[on[r]] \in User
  BY ConstantsAssumption DEF RowTypes
<1>2. ASSUME NEW r \in Request, pc[r] \in {"swrite", "slog"}
      PROVE  Delta[op[r]] \in Int /\ Clamp(read[r] + Delta[op[r]]) \in Int
  <2>1. Delta[op[r]] \in Int /\ read[r] \in Int
    BY <1>2 DEF ControlOK, Delta, Numbers
  <2> QED
    BY <2>1, ClampRange
<1>3. ASSUME NEW r \in Request, ReadScore(r) PROVE Numbers'
  BY <1>1, <1>3 DEF ReadScore, rows, logs, Numbers
<1>4. ASSUME NEW r \in Request, WriteScore(r) PROVE Numbers'
  BY <1>2, <1>4 DEF WriteScore, logs, Numbers
<1>5. ASSUME NEW r \in Request, LogScore(r) PROVE Numbers'
  <2> DEFINE e == [previousScore |-> read[r],
                   newScore |-> Clamp(read[r] + Delta[op[r]]),
                   delta |-> Delta[op[r]]]
  <2>1. e \in Entry
    BY <1>2, <1>5 DEF LogScore, Numbers
  <2>2. scoreLog' = [scoreLog EXCEPT ![Holder[on[r]]] = Append(@, e)]
    BY <1>5 DEF LogScore
  <2> HIDE DEF e
  <2>3. \A s \in Seq(Entry) : Append(s, e) \in Seq(Entry)
    BY <2>1
  <2>4. scoreLog' \in [User -> Seq(Entry)]
    <3> HIDE DEF Entry
    <3>1. scoreLog \in [User -> Seq(Entry)]
      BY DEF Numbers, Entry
    <3> QED
      BY <2>2, <2>3, <3>1
  <2> QED
    BY <1>5, <2>4 DEF LogScore, rows, Numbers
<1>6. ASSUME UNCHANGED <<trust, scoreLog, read>> PROVE Numbers'
  BY <1>6 DEF Numbers
<1>7. \/ UNCHANGED <<trust, scoreLog, read>>
      \/ \E r \in Request : ReadScore(r) \/ WriteScore(r) \/ LogScore(r)
  BY DEF Next, Begin, Step, Fault, vars, rows, logs, BeginCreate, BeginSettle, Insert,
         LogStarted, Update, LogSettlement, LogPetCancelled, EscrowUpdate, LogEscrow,
         EscrowCommit, Commit, CommitExpired, Fail, CustodyTxExpires, EscrowTxExpires
<1> QED
  BY <1>3, <1>4, <1>5, <1>6, <1>7

(* The reducers know every event that the services log.                    *)
LEMMA Tables ==
  /\ DOMAIN AdminStatus["CUSTODY"] = CustodyEvents
  /\ \A e \in CustodyEvents : AdminStatus["CUSTODY"][e] \in CustodyStatus \ {"ACTIVE"}
  /\ {"ESCROW_RELEASED", "ESCROW_REFUNDED"} \subseteq DOMAIN AdminStatus["ESCROW"]
  /\ AdminStatus["ESCROW"]["ESCROW_RELEASED"] = "RELEASED"
  /\ AdminStatus["ESCROW"]["ESCROW_REFUNDED"] = "REFUNDED"
BY DEF AdminStatus, CustodyEvents, CustodyStatus

(* What a replay of a status finds.                                        *)
LEMMA ReplayedStatus ==
  ASSUME ReplayTypes, ReadOK, NEW k \in Admin, replay[k].at = "row"
  PROVE  /\ replay[k].kind = "CUSTODY" =>
              Replayed(k) = AdminStatus["CUSTODY"][custodyLog[on[k]][replay[k].count]]
         /\ replay[k].kind = "ESCROW" =>
              Replayed(k) = AdminStatus["ESCROW"][escrowLog[on[k]][replay[k].count]]
<1>1. /\ on[k] \in Custody
      /\ custodyLog[on[k]] \in Seq(CustodyEvents)
      /\ escrowLog[on[k]] \in Seq({"ESCROW_RELEASED", "ESCROW_REFUNDED"})
  BY AdminAssumption DEF ReplayTypes, RowTypes, CustodyEvents
<1>2. replay[k].count \in 1 .. Len(Stream(k, replay[k].kind))
  BY DEF ReadOK, Running
<1>3. ASSUME replay[k].kind = "CUSTODY"
      PROVE  Replayed(k) = AdminStatus["CUSTODY"][custodyLog[on[k]][replay[k].count]]
  <2>1. custodyLog[on[k]] \in Seq(DOMAIN AdminStatus["CUSTODY"])
    BY <1>1, Tables
  <2>2. Stream(k, replay[k].kind) = custodyLog[on[k]]
    BY <1>3 DEF Stream
  <2> QED
    BY <1>2, <1>3, <2>1, <2>2, ReplayOfPrefix DEF Replayed
<1>4. ASSUME replay[k].kind = "ESCROW"
      PROVE  Replayed(k) = AdminStatus["ESCROW"][escrowLog[on[k]][replay[k].count]]
  <2>1. escrowLog[on[k]] \in Seq(DOMAIN AdminStatus["ESCROW"])
    BY <1>1, Tables
  <2>2. Stream(k, replay[k].kind) = escrowLog[on[k]]
    BY <1>4 DEF Stream
  <2> QED
    BY <1>2, <1>4, <2>1, <2>2, ReplayOfPrefix DEF Replayed
<1> QED
  BY <1>3, <1>4

(* What a replay may write is of the type of the row.                      *)
LEMMA ReplayedType ==
  ASSUME ReplayTypes, ReadOK, NEW k \in Admin, replay[k].at = "row"
  PROVE  /\ replay[k].kind # "USER" => Replayed(k) \in CustodyStatus \cup EscrowStatus
         /\ replay[k].kind = "USER" => ReplayedScore(k) \in Int
<1>1. /\ on[k] \in Custody
      /\ custodyLog[on[k]] \in Seq(CustodyEvents)
      /\ escrowLog[on[k]] \in Seq({"ESCROW_RELEASED", "ESCROW_REFUNDED"})
  BY AdminAssumption DEF ReplayTypes, RowTypes, CustodyEvents
<1>2. /\ replay[k].kind \in Kind
      /\ replay[k].count \in 1 .. Len(Stream(k, replay[k].kind))
  BY DEF ReadOK, Running
<1>3. CASE replay[k].kind = "CUSTODY"
  <2>1. custodyLog[on[k]][replay[k].count] \in CustodyEvents
    BY <1>1, <1>2, <1>3 DEF Stream
  <2> QED
    BY <1>3, <2>1, ReplayedStatus, Tables
<1>4. CASE replay[k].kind = "ESCROW"
  <2>1. escrowLog[on[k]][replay[k].count] \in {"ESCROW_RELEASED", "ESCROW_REFUNDED"}
    BY <1>1, <1>2, <1>4 DEF Stream
  <2> QED
    BY <1>4, <2>1, ReplayedStatus, Tables DEF EscrowStatus
<1>5. CASE replay[k].kind = "USER"
  <2> DEFINE Entry == [previousScore : Int, newScore : Int, delta : Int]
             u == Holder[on[k]]
             s == SubSeq(Stream(k, "USER"), 1, replay[k].count)
  <2>1. u \in User /\ trust[u] \in Int /\ scoreLog[u] \in Seq(Entry)
    BY <1>1, ConstantsAssumption DEF ReplayTypes, Numbers
  <2>2. Stream(k, "USER") = scoreLog[u] /\ replay[k].count \in 1 .. Len(scoreLog[u])
    BY <1>2, <1>5 DEF Stream
  <2>3. \A e \in Entry : "trustScore" \notin DOMAIN e /\ e.delta \in Int
    OBVIOUS
  <2> HIDE DEF Entry, u
  <2>4. s \in Seq(Entry)
    BY <2>1, <2>2
  <2> HIDE DEF s
  <2>5. ReduceScore(trust[u], s) \in Int
    BY <2>1, <2>3, <2>4, ReduceScoreType
  <2> QED
    BY <1>5, <2>5 DEF ReplayedScore, u, s
<1> QED
  BY <1>2, <1>3, <1>4, <1>5 DEF Kind

(* A stream that grows keeps its events where they were.                   *)
LEMMA PrefixKept ==
  ASSUME NEW S, NEW s \in Seq(S), NEW t, NEW e \in S, t \in {s, Append(s, e)}
  PROVE  /\ Len(t) \in Nat /\ Len(s) <= Len(t)
         /\ \A i \in 1 .. Len(s) : t[i] = s[i]
OBVIOUS

(* The streams of the log grow, and no row disappears.                     *)
LEMMA StreamsGrow ==
  ASSUME ReplayTypes, ControlOK, RowsOK, [Next]_vars, UNCHANGED replay, NEW k \in Admin
  PROVE  /\ on'[k] = on[k]
         /\ \A i \in 1 .. Len(custodyLog[on[k]]) : custodyLog'[on[k]][i] = custodyLog[on[k]][i]
         /\ \A i \in 1 .. Len(escrowLog[on[k]]) : escrowLog'[on[k]][i] = escrowLog[on[k]][i]
         /\ \A kind \in Kind : 1 .. Len(Stream(k, kind)) \subseteq 1 .. Len(Stream(k, kind)')
         /\ custody[on[k]] # "NONE" => custody'[on[k]] # "NONE"
         /\ escrow[on[k]] # "NONE" => escrow'[on[k]] # "NONE"
<1> DEFINE c == on[k]
           u == Holder[c]
           Entry == [previousScore : Int, newScore : Int, delta : Int]
           Stay == /\ custody[c] # "NONE" => custody'[c] # "NONE"
                   /\ escrow[c] # "NONE" => escrow'[c] # "NONE"
<1>1. /\ k \in Request /\ c \in Custody /\ u \in User
      /\ custodyLog[c] \in Seq(CustodyEvents)
      /\ escrowLog[c] \in Seq(EscrowEvents)
      /\ scoreLog[u] \in Seq(Entry)
  BY AdminAssumption, ConstantsAssumption
  DEF ReplayTypes, RowTypes, Numbers, CustodyEvents, EscrowEvents
<1>2. on' = on
  BY DEF Next, Begin, Step, Fault, vars, BeginCreate, BeginSettle, Insert, LogStarted,
         Update, LogSettlement, LogPetCancelled, EscrowUpdate, LogEscrow, EscrowCommit,
         ReadScore, WriteScore, LogScore, Commit, CommitExpired, Fail,
         CustodyTxExpires, EscrowTxExpires
<1>3. /\ \A i \in 1 .. Len(custodyLog[c]) : custodyLog'[c][i] = custodyLog[c][i]
      /\ Len(custodyLog'[c]) \in Nat /\ Len(custodyLog[c]) <= Len(custodyLog'[c])
      /\ \A i \in 1 .. Len(escrowLog[c]) : escrowLog'[c][i] = escrowLog[c][i]
      /\ Len(escrowLog'[c]) \in Nat /\ Len(escrowLog[c]) <= Len(escrowLog'[c])
  <2> HIDE DEF c
  <2>1. /\ custodyLog'[c] = custodyLog[c]
           \/ \E e \in CustodyEvents : custodyLog'[c] = Append(custodyLog[c], e)
        /\ escrowLog'[c] = escrowLog[c]
           \/ \E e \in EscrowEvents : escrowLog'[c] = Append(escrowLog[c], e)
    BY <1>1, LogsExtend DEF ReplayTypes
  <2>2. /\ Len(custodyLog'[c]) \in Nat /\ Len(custodyLog[c]) <= Len(custodyLog'[c])
        /\ \A i \in 1 .. Len(custodyLog[c]) : custodyLog'[c][i] = custodyLog[c][i]
    <3>1. PICK e \in CustodyEvents : custodyLog'[c] \in {custodyLog[c], Append(custodyLog[c], e)}
      BY <2>1 DEF CustodyEvents
    <3>2. custodyLog[c] \in Seq(CustodyEvents)
      BY <1>1
    <3> QED
      BY <3>1, <3>2, PrefixKept
  <2>3. /\ Len(escrowLog'[c]) \in Nat /\ Len(escrowLog[c]) <= Len(escrowLog'[c])
        /\ \A i \in 1 .. Len(escrowLog[c]) : escrowLog'[c][i] = escrowLog[c][i]
    <3>1. PICK e \in EscrowEvents : escrowLog'[c] \in {escrowLog[c], Append(escrowLog[c], e)}
      BY <2>1 DEF EscrowEvents
    <3>2. escrowLog[c] \in Seq(EscrowEvents)
      BY <1>1
    <3> QED
      BY <3>1, <3>2, PrefixKept
  <2> QED
    BY <2>2, <2>3
<1>4. Len(scoreLog'[u]) \in Nat /\ Len(scoreLog[u]) <= Len(scoreLog'[u])
  <2>1. ASSUME NEW r \in Request, LogScore(r)
        PROVE  \E e : scoreLog'[u] \in {scoreLog[u], Append(scoreLog[u], e)}
    BY <1>1, <2>1 DEF LogScore, ReplayTypes, Numbers
  <2>2. \/ UNCHANGED scoreLog
        \/ \E r \in Request : LogScore(r)
    BY DEF Next, Begin, Step, Fault, vars, logs, BeginCreate, BeginSettle, Insert,
           LogStarted, Update, LogSettlement, LogPetCancelled, EscrowUpdate, LogEscrow,
           EscrowCommit, ReadScore, WriteScore, Commit, CommitExpired, Fail,
           CustodyTxExpires, EscrowTxExpires
  <2>3. \E e : scoreLog'[u] \in {scoreLog[u], Append(scoreLog[u], e)}
    BY <2>1, <2>2
  <2> QED
    BY <1>1, <2>3
<1>5. Stay
  <2>1. ASSUME NEW r \in Request, Insert(r) PROVE Stay
    BY <1>1, <2>1 DEF Insert, RowsOK, ReplayTypes, RowTypes
  <2>2. ASSUME NEW r \in Request, EscrowCommit(r) PROVE Stay
    BY <1>1, <2>2 DEF EscrowCommit, EscrowTarget, ControlOK, Settling, Locked,
                      ReplayTypes, RowTypes
  <2>3. ASSUME NEW r \in Request, Commit(r) PROVE Stay
    BY <1>1, <2>3 DEF Commit, Target, ControlOK, Settling, Locked, ReplayTypes, RowTypes
  <2>4. \/ UNCHANGED <<custody, escrow>>
        \/ \E r \in Request : Insert(r) \/ EscrowCommit(r) \/ Commit(r)
    BY DEF Next, Begin, Step, Fault, vars, rows, BeginCreate, BeginSettle,
           LogStarted, Update, LogSettlement, LogPetCancelled, EscrowUpdate, LogEscrow,
           ReadScore, WriteScore, LogScore, CommitExpired, Fail,
           CustodyTxExpires, EscrowTxExpires
  <2> QED
    BY <2>1, <2>2, <2>3, <2>4
<1>6. ASSUME NEW kind \in Kind
      PROVE  1 .. Len(Stream(k, kind)) \subseteq 1 .. Len(Stream(k, kind)')
  <2>1. CASE kind = "CUSTODY"
    BY <1>1, <1>2, <1>3, <2>1 DEF Stream
  <2>2. CASE kind = "ESCROW"
    BY <1>1, <1>2, <1>3, <2>2 DEF Stream
  <2>3. CASE kind = "USER"
    BY <1>1, <1>2, <1>4, <2>3 DEF Stream
  <2> QED
    BY <2>1, <2>2, <2>3 DEF Kind
<1> QED
  BY <1>2, <1>3, <1>5, <1>6

(* A step of a replay leaves the handlers, the log and the other replays   *)
(* alone, and only its commit writes a row.                                *)
LEMMA ReplayFrame ==
  ASSUME ReplayTypes, NEW k \in Admin, ReplayAct(k)
  PROVE  /\ UNCHANGED <<logs, on, pc, op, read>>
         /\ \A j \in Admin \ {k} : replay'[j] = replay[j]
         /\ \A j \in Admin : <<j, "APPLIED">> \in audit' \ audit => j = k /\ CommitReplay(k)
         /\ rows' = rows \/ CommitReplay(k)
<1> DEFINE Frame == /\ UNCHANGED <<logs, on, pc, op, read>>
                    /\ \A j \in Admin \ {k} : replay'[j] = replay[j]
                    /\ \A j \in Admin : <<j, "APPLIED">> \in audit' \ audit =>
                                          j = k /\ CommitReplay(k)
                    /\ rows' = rows \/ CommitReplay(k)
<1>0. replay = [j \in Admin |-> replay[j]]
  BY DEF ReplayTypes, ReplayTypeOK
<1> USE <1>0
<1>1. ASSUME NEW kind \in Kind, NEW live \in BOOLEAN, BeginReplay(k, kind, live) PROVE Frame
  BY <1>1 DEF BeginReplay, vars
<1>2. ASSUME ReadEvents(k) PROVE Frame
  BY <1>2 DEF ReadEvents, vars
<1>3. ASSUME ReadRow(k) PROVE Frame
  <2>1. /\ UNCHANGED <<vars, audit>>
        /\ \A j \in Admin \ {k} : replay'[j] = replay[j]
    BY <1>3 DEF ReadRow
  <2> QED
    BY <2>1 DEF vars
<1>4. ASSUME ApplyUpdate(k) PROVE Frame
  BY <1>4 DEF ApplyUpdate
<1>5. ASSUME WriteAudit(k) PROVE Frame
  BY <1>5 DEF WriteAudit, vars
<1>6. ASSUME CommitReplay(k) PROVE Frame
  <2>1. /\ UNCHANGED <<logs, on, pc, op, read>>
        /\ \A j \in Admin \ {k} : replay'[j] = replay[j]
        /\ audit' = audit \cup {<<k, "APPLIED">>}
    BY <1>6 DEF CommitReplay
  <2> QED
    BY <1>6, <2>1
<1>7. ASSUME Report(k) PROVE Frame
  <2>1. /\ UNCHANGED vars
        /\ \A j \in Admin \ {k} : replay'[j] = replay[j]
        /\ audit' \subseteq audit \cup {<<k, "NOOP">>, <<k, "DRY_RUN">>}
    BY <1>7 DEF Report
  <2> QED
    BY <2>1 DEF vars
<1>8. ASSUME ReplayExpired(k) PROVE Frame
  BY <1>8 DEF ReplayExpired, vars
<1>9. ASSUME ReportFails(k) PROVE Frame
  BY <1>9 DEF ReportFails
<1>10. ASSUME ReplayFails(k) PROVE Frame
  BY <1>10 DEF ReplayFails
<1> QED
  BY <1>1, <1>2, <1>3, <1>4, <1>5, <1>6, <1>7, <1>8, <1>9, <1>10
  DEF ReplayAct, ReplayStep

(* The state of one replay.                                                *)
Replay == [at : {"idle"} \cup Running \cup Ended, kind : Kind \cup {"NONE"},
           live : BOOLEAN, count : Nat,
           status : CustodyStatus \cup EscrowStatus \cup {"NONE"}, score : Int]

(* A replay writes a status of the right kind, or a score.                 *)
LEMMA WrittenType ==
  ASSUME ReplayTypes, ReadOK, WritesOK, NEW k \in Admin, replay[k].at = "commit"
  PROVE  /\ replay[k].kind = "CUSTODY" => replay[k].status \in CustodyStatus \ {"ACTIVE"}
         /\ replay[k].kind = "ESCROW" => replay[k].status \in EscrowSettled
         /\ replay[k].score \in Int
<1>1. /\ on[k] \in Custody
      /\ custodyLog[on[k]] \in Seq(CustodyEvents)
      /\ escrowLog[on[k]] \in Seq({"ESCROW_RELEASED", "ESCROW_REFUNDED"})
  BY AdminAssumption DEF ReplayTypes, RowTypes, CustodyEvents
<1>2. replay[k].count \in 1 .. Len(Stream(k, replay[k].kind))
  BY DEF ReadOK, Running
<1>3. ASSUME replay[k].kind = "CUSTODY"
      PROVE  replay[k].status \in CustodyStatus \ {"ACTIVE"}
  <2>1. custodyLog[on[k]][replay[k].count] \in CustodyEvents
    BY <1>1, <1>2, <1>3 DEF Stream
  <2> QED
    BY <1>3, <2>1, Tables DEF WritesOK
<1>4. ASSUME replay[k].kind = "ESCROW" PROVE replay[k].status \in EscrowSettled
  <2>1. escrowLog[on[k]][replay[k].count] \in {"ESCROW_RELEASED", "ESCROW_REFUNDED"}
    BY <1>1, <1>2, <1>4 DEF Stream
  <2> QED
    BY <1>4, <2>1, Tables DEF WritesOK, EscrowSettled
<1>5. replay[k].score \in Int
  BY DEF ReplayTypes, ReplayTypeOK
<1> QED
  BY <1>3, <1>4, <1>5

(* Every kind of aggregate has a stream.                                   *)
LEMMA StreamLength ==
  ASSUME ReplayTypes, NEW k \in Admin, NEW kind \in Kind
  PROVE  Len(Stream(k, kind)) \in Nat
<1>1. on[k] \in Custody /\ Holder[on[k]] \in User
  BY AdminAssumption, ConstantsAssumption DEF ReplayTypes, RowTypes
<1>2. /\ Len(custodyLog[on[k]]) \in Nat
      /\ Len(escrowLog[on[k]]) \in Nat
  BY <1>1 DEF ReplayTypes, RowTypes
<1>3. Len(scoreLog[Holder[on[k]]]) \in Nat
  BY <1>1 DEF ReplayTypes, Numbers
<1> QED
  BY <1>2, <1>3 DEF Stream, Kind

(* The types of the replays, and of the rows that a replay writes.         *)
LEMMA ReplayTypesStep ==
  ReplayTypes /\ ControlOK /\ ReadOK /\ WritesOK /\ [ReplayNext]_replayVars => ReplayTypes'
<1> SUFFICES ASSUME ReplayTypes, ControlOK, ReadOK, WritesOK, [ReplayNext]_replayVars
             PROVE  ReplayTypes'
  OBVIOUS
<1>1. ASSUME [Next]_vars, UNCHANGED <<replay, audit>> PROVE ReplayTypes'
  <2>1. RowTypes' /\ Numbers'
    BY <1>1, RowTypesStep, NumbersStep DEF ReplayTypes
  <2> QED
    BY <1>1, <2>1 DEF ReplayTypes, ReplayTypeOK, RowTypes
<1>2. ASSUME NEW k \in Admin, ReplayAct(k) PROVE ReplayTypes'
  <2>0. /\ UNCHANGED <<logs, on, pc, op, read>>
        /\ rows' = rows \/ CommitReplay(k)
        /\ k \in Request /\ on[k] \in Custody /\ Holder[on[k]] \in User
    BY <1>2, ReplayFrame, AdminAssumption, ConstantsAssumption DEF ReplayTypes, RowTypes
  <2>1. replay \in [Admin -> Replay] /\ audit \subseteq Admin \X {"APPLIED", "NOOP", "DRY_RUN"}
    BY DEF ReplayTypes, ReplayTypeOK, Replay
  <2>2. replay' \in [Admin -> Replay]
    <3> SUFFICES ASSUME NEW x \in Replay, x = replay[k]
                 PROVE  \E y \in Replay : replay' = [replay EXCEPT ![k] = y]
      BY <2>1
    <3> USE <2>1
    <3>1. ASSUME NEW kind \in Kind, NEW live \in BOOLEAN, BeginReplay(k, kind, live)
          PROVE  \E y \in Replay : replay' = [replay EXCEPT ![k] = y]
      <4> DEFINE y == [x EXCEPT !.kind = kind, !.live = live,
                         !.at = IF Stream(k, kind) = <<>> THEN "failed" ELSE "events"]
      <4>1. y \in Replay
        BY DEF Replay, Running, Ended
      <4>2. replay' = [replay EXCEPT ![k] = y]
        BY <3>1 DEF BeginReplay
      <4> QED
        BY <4>1, <4>2
    <3>2. ASSUME ReadEvents(k) PROVE \E y \in Replay : replay' = [replay EXCEPT ![k] = y]
      <4>1. PICK n \in 1 .. Len(Stream(k, x.kind)) :
              replay' = [replay EXCEPT ![k].at = "row", ![k].count = n]
        BY <3>2 DEF ReadEvents
      <4> DEFINE y == [x EXCEPT !.at = "row", !.count = n]
      <4>0. n \in Nat
        BY <3>2, StreamLength DEF ReadEvents, ReadOK, Running
      <4>2. y \in Replay
        BY <4>0 DEF Replay, Running
      <4>3. replay' = [replay EXCEPT ![k] = y]
        BY <4>1
      <4> QED
        BY <4>2, <4>3
    <3>3. ASSUME ReadRow(k) PROVE \E y \in Replay : replay' = [replay EXCEPT ![k] = y]
      <4>1. PICK at \in {"apply", "report"} :
              replay' = IF x.kind = "USER"
                          THEN [replay EXCEPT ![k].at = at, ![k].score = ReplayedScore(k)]
                          ELSE [replay EXCEPT ![k].at = at, ![k].status = Replayed(k)]
        BY <3>3 DEF ReadRow
      <4>2. /\ x.kind # "USER" => Replayed(k) \in CustodyStatus \cup EscrowStatus
            /\ x.kind = "USER" => ReplayedScore(k) \in Int
        BY <3>3, ReplayedType DEF ReadRow
      <4> DEFINE y == IF x.kind = "USER"
                        THEN [x EXCEPT !.at = at, !.score = ReplayedScore(k)]
                        ELSE [x EXCEPT !.at = at, !.status = Replayed(k)]
      <4>3. CASE x.kind = "USER"
        <5>1. y = [x EXCEPT !.at = at, !.score = ReplayedScore(k)]
          BY <4>3
        <5>2. y \in Replay
          BY <4>2, <4>3, <5>1 DEF Replay, Running
        <5>3. replay' = [replay EXCEPT ![k] = y]
          BY <4>1, <4>3
        <5> QED
          BY <5>2, <5>3
      <4>4. CASE x.kind # "USER"
        <5>1. y = [x EXCEPT !.at = at, !.status = Replayed(k)]
          BY <4>4
        <5>2. y \in Replay
          BY <4>2, <4>4, <5>1 DEF Replay, Running
        <5>3. replay' = [replay EXCEPT ![k] = y]
          BY <4>1, <4>4
        <5> QED
          BY <5>2, <5>3
      <4> QED
        BY <4>3, <4>4
    <3>4. ASSUME NEW at \in Running \cup Ended, replay' = [replay EXCEPT ![k].at = at]
          PROVE  \E y \in Replay : replay' = [replay EXCEPT ![k] = y]
      <4> DEFINE y == [x EXCEPT !.at = at]
      <4>1. y \in Replay
        BY DEF Replay
      <4>2. replay' = [replay EXCEPT ![k] = y]
        BY <3>4
      <4> QED
        BY <4>1, <4>2
    <3>5. ASSUME ApplyUpdate(k) \/ WriteAudit(k) \/ CommitReplay(k) \/ Report(k)
                 \/ ReplayExpired(k) \/ ReportFails(k) \/ ReplayFails(k)
          PROVE  \E at \in Running \cup Ended : replay' = [replay EXCEPT ![k].at = at]
      BY <3>5 DEF ApplyUpdate, WriteAudit, CommitReplay, Report, ReplayExpired,
                  ReportFails, ReplayFails, Running, Ended
    <3> QED
      BY <1>2, <3>1, <3>2, <3>3, <3>4, <3>5 DEF ReplayAct, ReplayStep
  <2>3. audit' \subseteq Admin \X {"APPLIED", "NOOP", "DRY_RUN"}
    <3>1. CASE CommitReplay(k)
      BY <2>1, <3>1 DEF CommitReplay
    <3>2. CASE Report(k)
      <4>1. PICK a \in {"NOOP", "DRY_RUN"} : audit' = audit \cup {<<k, a>>}
        BY <3>2 DEF Report
      <4> QED
        BY <2>1, <4>1
    <3>3. CASE UNCHANGED audit
      BY <2>1, <3>3
    <3> QED
      BY <1>2, <3>1, <3>2, <3>3 DEF ReplayAct, ReplayStep, BeginReplay, ReadEvents, ReadRow,
         ApplyUpdate, WriteAudit, ReplayExpired, ReportFails, ReplayFails
  <2>4. /\ custody' \in [Custody -> CustodyStatus \cup {"NONE"}]
        /\ escrow' \in [Custody -> EscrowStatus \cup {"NONE"}]
        /\ trust' \in [User -> Int]
    <3>0. /\ custody \in [Custody -> CustodyStatus \cup {"NONE"}]
          /\ escrow \in [Custody -> EscrowStatus \cup {"NONE"}]
          /\ trust \in [User -> Int]
      BY DEF ReplayTypes, RowTypes, Numbers
    <3>1. CASE rows' = rows
      BY <3>0, <3>1 DEF rows
    <3>2. CASE CommitReplay(k)
      BY <2>0, <3>0, <3>2, WrittenType DEF CommitReplay, EscrowSettled, EscrowStatus
    <3> QED
      BY <2>0, <3>1, <3>2
  <2>5. /\ custodyLock' \in [Custody -> Request \cup {NoRequest}]
        /\ escrowLock' \in [Custody -> Request \cup {NoRequest}]
    <3>1. /\ custodyLock \in [Custody -> Request \cup {NoRequest}]
          /\ escrowLock \in [Custody -> Request \cup {NoRequest}]
      BY DEF ReplayTypes, RowTypes
    <3>2. CASE ApplyUpdate(k)
      BY <2>0, <3>1, <3>2 DEF ApplyUpdate, locks
    <3>3. CASE CommitReplay(k) \/ ReplayFails(k)
      BY <2>0, <3>1, <3>3, UnlockType DEF CommitReplay, ReplayFails
    <3>4. CASE UNCHANGED locks
      BY <3>1, <3>4 DEF locks
    <3> QED
      BY <1>2, <3>2, <3>3, <3>4 DEF ReplayAct, ReplayStep, BeginReplay, ReadEvents, ReadRow,
         WriteAudit, Report, ReplayExpired, ReportFails, vars
  <2>6. faults' \in 0 .. MaxFaults
    <3>1. faults \in 0 .. MaxFaults /\ MaxFaults \in Nat
      BY ConstantsAssumption DEF ReplayTypes, RowTypes
    <3>2. faults' = faults \/ (faults < MaxFaults /\ faults' = faults + 1)
      BY <1>2 DEF ReplayAct, ReplayStep, BeginReplay, ReadEvents, ReadRow, ApplyUpdate,
         WriteAudit, CommitReplay, Report, ReplayExpired, ReportFails, ReplayFails, vars
    <3> QED
      BY <3>1, <3>2
  <2> QED
    BY <2>0, <2>2, <2>3, <2>4, <2>5, <2>6
    DEF ReplayTypes, ReplayTypeOK, RowTypes, Numbers, Replay, logs
<1> QED
  BY <1>1, <1>2, ReplayCases

(* The request of an administrator is not one of a service.                *)
LEMMA AdminsIdle ==
  ASSUME ReplayTypes, AuditOK, [ReplayNext]_replayVars, NEW k \in Admin
  PROVE  pc'[k] = "idle"
<1>0. pc[k] = "idle" /\ k \in Request /\ pc = [r \in Request |-> pc[r]]
  BY AdminAssumption DEF AuditOK, ReplayTypes, RowTypes
<1>1. ASSUME NEW r \in Request \ Admin, Begin(r) \/ Step(r) \/ Fault(r)
      PROVE  pc'[k] = pc[k]
  BY <1>0, <1>1 DEF Begin, Step, Fault, Goto, BeginCreate, BeginSettle, Insert, LogStarted,
     Update, LogSettlement, LogPetCancelled, EscrowUpdate, LogEscrow, EscrowCommit,
     ReadScore, WriteScore, LogScore, Commit, CommitExpired, Fail,
     CustodyTxExpires, EscrowTxExpires
<1>2. ASSUME NEW j \in Admin, ReplayAct(j) PROVE pc'[k] = pc[k]
  BY <1>2, ReplayFrame
<1>3. ASSUME NEW j \in Admin, CustodyTxExpires(j) \/ EscrowTxExpires(j) PROVE pc'[k] = pc[k]
  BY <1>3 DEF CustodyTxExpires, EscrowTxExpires
<1>4. CASE UNCHANGED replayVars
  BY <1>0, <1>4 DEF replayVars, vars
<1> QED
  BY <1>0, <1>1, <1>2, <1>3, <1>4 DEF ReplayNext, ReplayAct, ServiceStep

(* The commit of a replay leaves a row where one was.                      *)
LEMMA CommitKeepsRows ==
  ASSUME ReplayTypes, ReadOK, WritesOK, NEW k \in Admin, ReplayAct(k), NEW c \in Custody
  PROVE  /\ custody'[c] = "NONE" <=> custody[c] = "NONE"
         /\ escrow'[c] = "NONE" <=> escrow[c] = "NONE"
<1>1. /\ custody \in [Custody -> CustodyStatus \cup {"NONE"}]
      /\ escrow \in [Custody -> EscrowStatus \cup {"NONE"}]
      /\ on[k] \in Custody
  BY AdminAssumption DEF ReplayTypes, RowTypes
<1>2. CASE rows' = rows
  BY <1>2 DEF rows
<1>3. CASE CommitReplay(k)
  <2>1. /\ replay[k].kind = "CUSTODY" =>
             custody[on[k]] # "NONE" /\ replay[k].status # "NONE"
        /\ replay[k].kind = "ESCROW" =>
             escrow[on[k]] # "NONE" /\ replay[k].status # "NONE"
    BY <1>3, WrittenType DEF CommitReplay, WritesOK, CustodyStatus, EscrowSettled
  <2>2. CASE replay[k].kind = "CUSTODY"
    BY <1>1, <1>3, <2>1, <2>2 DEF CommitReplay
  <2>3. CASE replay[k].kind = "ESCROW"
    BY <1>1, <1>3, <2>1, <2>3 DEF CommitReplay
  <2>4. CASE replay[k].kind \notin {"CUSTODY", "ESCROW"}
    BY <1>1, <1>3, <2>4 DEF CommitReplay
  <2> QED
    BY <2>2, <2>3, <2>4
<1> QED
  BY <1>2, <1>3, ReplayFrame

(* What a replay holds stays true of the streams and rows, because the     *)
(* log only grows and no row disappears.                                   *)
LEMMA ReadStep ==
  ReplayTypes /\ ControlOK /\ RowsOK /\ ReadOK /\ WritesOK /\ AuditOK
  /\ [ReplayNext]_replayVars
  => ReadOK' /\ WritesOK' /\ AuditOK'
<1> SUFFICES ASSUME ReplayTypes, ControlOK, RowsOK, ReadOK, WritesOK, AuditOK,
                    [ReplayNext]_replayVars
             PROVE  ReadOK' /\ WritesOK' /\ AuditOK'
  OBVIOUS
<1>0. \A j \in Admin : pc'[j] = "idle"
  BY AdminsIdle
<1>1. ASSUME [Next]_vars, UNCHANGED <<replay, audit>> PROVE ReadOK' /\ WritesOK' /\ AuditOK'
  <2>1. AuditOK'
    BY <1>0, <1>1 DEF AuditOK
  <2>2. ReadOK'
    <3> SUFFICES ASSUME NEW k \in Admin,
                        replay[k].at \in (Running \ {"events"}) \cup {"done"}
                 PROVE  replay[k].count \in 1 .. Len(Stream(k, replay[k].kind)')
      BY <1>1 DEF ReadOK
    <3>1. replay[k].kind \in Kind
      BY DEF ReadOK
    <3> QED
      BY <1>1, <3>1, StreamsGrow DEF ReadOK
  <2>3. WritesOK'
    <3> SUFFICES ASSUME NEW k \in Admin, replay[k].at \in {"apply", "auditing", "commit"}
                 PROVE  /\ replay[k].live
                        /\ replay[k].kind = "CUSTODY" =>
                             /\ custody'[on'[k]] # "NONE"
                             /\ replay[k].status =
                                  AdminStatus["CUSTODY"][custodyLog'[on'[k]][replay[k].count]]
                        /\ replay[k].kind = "ESCROW" =>
                             /\ escrow'[on'[k]] # "NONE"
                             /\ replay[k].status =
                                  AdminStatus["ESCROW"][escrowLog'[on'[k]][replay[k].count]]
      BY <1>1 DEF WritesOK
    <3>1. replay[k].count \in 1 .. Len(Stream(k, replay[k].kind))
      BY DEF ReadOK, Running
    <3>2. /\ on'[k] = on[k]
          /\ \A i \in 1 .. Len(custodyLog[on[k]]) : custodyLog'[on[k]][i] = custodyLog[on[k]][i]
          /\ \A i \in 1 .. Len(escrowLog[on[k]]) : escrowLog'[on[k]][i] = escrowLog[on[k]][i]
          /\ custody[on[k]] # "NONE" => custody'[on[k]] # "NONE"
          /\ escrow[on[k]] # "NONE" => escrow'[on[k]] # "NONE"
      BY <1>1, StreamsGrow
    <3> QED
      BY <3>1, <3>2 DEF WritesOK, Stream
  <2> QED
    BY <2>1, <2>2, <2>3
<1>2. ASSUME NEW k \in Admin, ReplayAct(k) PROVE ReadOK' /\ WritesOK' /\ AuditOK'
  <2>0. /\ UNCHANGED <<custodyLog, escrowLog, scoreLog, on>>
        /\ \A j \in Admin \ {k} : replay'[j] = replay[j]
        /\ \A j \in Admin : <<j, "APPLIED">> \in audit' \ audit => j = k /\ CommitReplay(k)
        /\ \A c \in Custody : /\ custody'[c] = "NONE" <=> custody[c] = "NONE"
                              /\ escrow'[c] = "NONE" <=> escrow[c] = "NONE"
        /\ \A j \in Admin : on[j] \in Custody
    BY <1>2, ReplayFrame, CommitKeepsRows, AdminAssumption DEF logs, ReplayTypes, RowTypes
  <2>1. \A j \in Admin : \A kind : Stream(j, kind)' = Stream(j, kind)
    BY <2>0 DEF Stream
  <2>2. replay \in [Admin -> Replay]
    BY DEF ReplayTypes, ReplayTypeOK, Replay
  <2> DEFINE x == replay[k]
             y == replay'[k]
             Read == /\ y.at \in Running \cup {"done"} => y.kind \in Kind
                     /\ y.at \in (Running \ {"events"}) \cup {"done"} =>
                          y.count \in 1 .. Len(Stream(k, y.kind))
             Writes == y.at \in {"apply", "auditing", "commit"} =>
                         /\ y.live
                         /\ y.kind = "CUSTODY" =>
                              /\ custody[on[k]] # "NONE"
                              /\ y.status = AdminStatus["CUSTODY"][custodyLog[on[k]][y.count]]
                         /\ y.kind = "ESCROW" =>
                              /\ escrow[on[k]] # "NONE"
                              /\ y.status = AdminStatus["ESCROW"][escrowLog[on[k]][y.count]]
             Own == Read /\ Writes /\ (y.at = "done" \/ x.at # "done")
  <2>3. ASSUME NEW kind \in Kind, NEW live \in BOOLEAN, BeginReplay(k, kind, live) PROVE Own
    BY <2>2, <2>3 DEF BeginReplay, Replay, Running
  <2>4. ASSUME ReadEvents(k) PROVE Own
    <3>1. PICK n \in 1 .. Len(Stream(k, x.kind)) :
            replay' = [replay EXCEPT ![k].at = "row", ![k].count = n]
      BY <2>4 DEF ReadEvents
    <3>2. y.at = "row" /\ y.count = n /\ y.kind = x.kind /\ x.at = "events"
      BY <2>2, <2>4, <3>1 DEF Replay, ReadEvents
    <3> QED
      BY <3>2 DEF ReadOK, Running
  <2>5. ASSUME ReadRow(k) PROVE Own
    <3>1. /\ x.at = "row" /\ y.kind = x.kind /\ y.live = x.live /\ y.count = x.count
          /\ x.kind # "USER" => y.status = Replayed(k)
          /\ y.at \in {"apply", "report"}
          /\ y.at = "apply" => x.live /\ ~ RecordMissing(k)
      BY <2>2, <2>5 DEF ReadRow, Replay
    <3>2. Read
      BY <3>1 DEF ReadOK, Running
    <3>3. Writes
      BY <3>1, ReplayedStatus DEF RecordMissing, CurrentStatus
    <3> QED
      BY <3>1, <3>2, <3>3
  <2>6. ASSUME NEW at \in {"auditing", "commit"}, replay' = [replay EXCEPT ![k].at = at],
               x.at \in {"apply", "auditing"}
        PROVE  Own
    <3>1. /\ y.at = at /\ y.kind = x.kind /\ y.live = x.live /\ y.count = x.count
          /\ y.status = x.status
      BY <2>2, <2>6 DEF Replay
    <3>2. Read
      BY <2>6, <3>1 DEF ReadOK, Running
    <3>3. Writes
      BY <2>6, <3>1 DEF WritesOK
    <3> QED
      BY <2>6, <3>2, <3>3
  <2>7. ASSUME NEW at \in Ended, replay' = [replay EXCEPT ![k].at = at],
               x.at \in Running, at = "failed" \/ x.at # "events"
        PROVE  Own
    <3>1. y.at = at /\ y.kind = x.kind /\ y.count = x.count
      BY <2>2, <2>7 DEF Replay
    <3>2. CASE at = "failed"
      BY <2>7, <3>1, <3>2 DEF Running
    <3>3. CASE at = "done" /\ x.at \in Running \ {"events"}
      BY <2>7, <3>1, <3>3 DEF ReadOK, Running
    <3> QED
      BY <2>7, <3>2, <3>3 DEF Ended
  <2>8. Own
    BY <1>2, <2>3, <2>4, <2>5, <2>6, <2>7
    DEF ReplayAct, ReplayStep, ApplyUpdate, WriteAudit, CommitReplay, Report, ReplayExpired,
        ReportFails, ReplayFails, Running, Ended
  <2>9. CommitReplay(k) => y.at = "done"
    BY <2>2 DEF CommitReplay, Replay
  <2>10. ReadOK'
    <3> SUFFICES ASSUME NEW j \in Admin
                 PROVE  /\ replay'[j].at \in Running \cup {"done"} => replay'[j].kind \in Kind
                        /\ replay'[j].at \in (Running \ {"events"}) \cup {"done"} =>
                             replay'[j].count \in 1 .. Len(Stream(j, replay'[j].kind))
      BY <2>1 DEF ReadOK
    <3> QED
      BY <2>0, <2>8 DEF ReadOK
  <2>11. WritesOK'
    <3>1. ASSUME NEW j \in Admin \ {k} PROVE replay'[j] = replay[j]
      BY <2>0
    <3> QED
      BY <2>0, <2>8, <3>1 DEF WritesOK
  <2>12. AuditOK'
    <3> SUFFICES ASSUME NEW j \in Admin, <<j, "APPLIED">> \in audit'
                 PROVE  replay'[j].at = "done"
      BY <1>0 DEF AuditOK
    <3>1. CASE <<j, "APPLIED">> \in audit
      <4>1. replay[j].at = "done"
        BY <3>1 DEF AuditOK
      <4> QED
        BY <2>0, <2>8, <4>1
    <3>2. CASE <<j, "APPLIED">> \notin audit
      <4>1. <<j, "APPLIED">> \in audit' \ audit
        BY <3>2
      <4>2. j = k /\ CommitReplay(k)
        BY <2>0, <4>1
      <4> QED
        BY <2>9, <4>2
    <3> QED
      BY <3>1, <3>2
  <2> QED
    BY <2>10, <2>11, <2>12
<1> QED
  BY <1>1, <1>2, ReplayCases

(* A replay disturbs neither the rows that the handlers rely on nor what   *)
(* the log says of them: it writes what the log says.                      *)
LEMMA ServicesStep ==
  ReplayTypes /\ ControlOK /\ RowsOK /\ LogsOK /\ ReadOK /\ WritesOK
  /\ [ReplayNext]_replayVars
  => ControlOK' /\ RowsOK' /\ LogsOK'
<1> SUFFICES ASSUME ReplayTypes, ControlOK, RowsOK, LogsOK, ReadOK, WritesOK,
                    [ReplayNext]_replayVars
             PROVE  ControlOK' /\ RowsOK' /\ LogsOK'
  OBVIOUS
<1>1. CASE [Next]_vars
  BY <1>1, ControlStep, RowsStep, LogsStep DEF ReplayTypes
<1>2. ASSUME NEW k \in Admin, ReplayAct(k) PROVE ControlOK' /\ RowsOK' /\ LogsOK'
  <2>0. /\ UNCHANGED <<custodyLog, escrowLog, on, pc, op>>
        /\ \A c \in Custody : /\ custody'[c] = "NONE" <=> custody[c] = "NONE"
                              /\ escrow'[c] = "NONE" <=> escrow[c] = "NONE"
        /\ on \in [Request -> Custody] /\ k \in Request
    BY <1>2, ReplayFrame, CommitKeepsRows, AdminAssumption DEF logs, ReplayTypes, RowTypes
  <2>1. ControlOK'
    BY <2>0 DEF ControlOK
  <2>2. RowsOK'
    BY <2>0 DEF RowsOK, HasDeposit
  <2>3. EventBacked'
    <3>1. EventBacked
      BY DEF LogsOK
    <3>2. CASE rows' = rows
      BY <2>0, <3>1, <3>2 DEF rows, EventBacked
    <3>3. CASE CommitReplay(k)
      <4>0. /\ on[k] \in Custody
            /\ custody \in [Custody -> CustodyStatus \cup {"NONE"}]
            /\ escrow \in [Custody -> EscrowStatus \cup {"NONE"}]
            /\ custodyLog[on[k]] \in Seq(CustodyEvents)
            /\ escrowLog[on[k]] \in Seq(EscrowEvents)
            /\ replay[k].count \in 1 .. Len(Stream(k, replay[k].kind))
        BY <2>0, <3>3
        DEF ReplayTypes, RowTypes, CustodyEvents, EscrowEvents, ReadOK, Running, CommitReplay
      <4>1. CASE replay[k].kind = "CUSTODY"
        <5> DEFINE e == custodyLog[on[k]][replay[k].count]
        <5>1. replay[k].count \in DOMAIN custodyLog[on[k]] /\ e \in CustodyEvents
          BY <4>0, <4>1 DEF Stream
        <5>2. Logged(custodyLog[on[k]], e)
          BY <5>1 DEF Logged
        <5>3. replay[k].status = AdminStatus["CUSTODY"][e]
          BY <3>3, <4>1 DEF WritesOK, CommitReplay
        <5>4. \A o \in Settling : AdminStatus["CUSTODY"][e] = Target[o] => e = TargetEvent[o]
          <6> HIDE DEF e
          <6> QED
            BY <5>1 DEF CustodyEvents, AdminStatus, Settling, Target, TargetEvent
        <5>5. /\ custody' = [custody EXCEPT ![on[k]] = replay[k].status]
              /\ UNCHANGED escrow
          BY <3>3, <4>1 DEF CommitReplay
        <5> HIDE DEF e
        <5> QED
          BY <2>0, <3>1, <4>0, <5>2, <5>3, <5>4, <5>5 DEF EventBacked
      <4>2. CASE replay[k].kind = "ESCROW"
        <5> DEFINE e == escrowLog[on[k]][replay[k].count]
        <5>1. replay[k].count \in DOMAIN escrowLog[on[k]] /\ e \in EscrowEvents
          BY <4>0, <4>2 DEF Stream
        <5>2. Logged(escrowLog[on[k]], e)
          BY <5>1 DEF Logged
        <5>3. replay[k].status = AdminStatus["ESCROW"][e]
          BY <3>3, <4>2 DEF WritesOK, CommitReplay
        <5>4. EscrowEvent[AdminStatus["ESCROW"][e]] = e
          <6> HIDE DEF e
          <6> QED
            BY <5>1 DEF EscrowEvents, AdminStatus, EscrowEvent
        <5>5. /\ escrow' = [escrow EXCEPT ![on[k]] = replay[k].status]
              /\ UNCHANGED custody
          BY <3>3, <4>2 DEF CommitReplay
        <5> HIDE DEF e
        <5> QED
          BY <2>0, <3>1, <4>0, <5>2, <5>3, <5>4, <5>5 DEF EventBacked
      <4>3. CASE replay[k].kind \notin {"CUSTODY", "ESCROW"}
        <5>1. UNCHANGED <<custody, escrow>>
          BY <3>3, <4>3 DEF CommitReplay
        <5> QED
          BY <2>0, <3>1, <5>1 DEF EventBacked
      <4> QED
        BY <4>1, <4>2, <4>3
    <3> QED
      BY <1>2, <3>2, <3>3, ReplayFrame
  <2> QED
    BY <2>0, <2>1, <2>2, <2>3 DEF LogsOK
<1> QED
  BY <1>1, <1>2, ReplayCases

ReplayInv == /\ ReplayTypes /\ ControlOK /\ RowsOK /\ LogsOK
             /\ ReadOK /\ WritesOK /\ AuditOK

(* The conjuncts rest on one another: together they are inductive.         *)
LEMMA ReplayInvStep == ReplayInv /\ [ReplayNext]_replayVars => ReplayInv'
BY ReplayTypesStep, ServicesStep, ReadStep DEF ReplayInv

(* They hold before the first request.                                     *)
LEMMA ReplayInvInit == ReplayInit => ReplayInv
<1> SUFFICES ASSUME ReplayInit PROVE ReplayInv
  OBVIOUS
<1>1. TypeOK /\ ControlOK
  BY InitType DEF ReplayInit
<1>2. RowTypes
  BY <1>1, TypedRows
<1>3. Numbers
  <2> DEFINE Entry == [previousScore : Int, newScore : Int, delta : Int]
  <2>0. trust \in [User -> 0 .. 100] /\ read \in [Request -> {0}]
    BY ConstantsAssumption DEF ReplayInit, Init
  <2>1. trust \in [User -> Int] /\ read \in [Request -> Int]
    BY <2>0
  <2>2. scoreLog = [u \in User |-> <<>>]
    BY DEF ReplayInit, Init
  <2> HIDE DEF Entry
  <2>3. scoreLog \in [User -> Seq(Entry)]
    BY <2>2
  <2> QED
    BY <2>1, <2>3 DEF Numbers, Entry
<1>4. ReplayTypeOK
  BY <1>2 DEF ReplayInit, ReplayTypeOK, RowTypes, Running, Ended
<1>5. RowsOK
  BY DEF ReplayInit, Init, RowsOK, Locked, HasDeposit
<1>6. LogsOK
  BY DEF ReplayInit, Init, LogsOK, EventBacked, Target, Settling, Locked, EscrowSettled
<1>7. ReadOK /\ WritesOK /\ AuditOK
  BY AdminAssumption DEF ReplayInit, Init, ReadOK, WritesOK, AuditOK, Running
<1> QED
  BY <1>1, <1>2, <1>3, <1>4, <1>5, <1>6, <1>7 DEF ReplayInv, ReplayTypes

(* The replays and the rows they write are well typed: whatever a replay   *)
(* has read, it writes a status of the row's own kind.                     *)
THEOREM ReplayTypeCorrect == ReplaySpec => []ReplayTypeOK
<1>1. ReplayInv => ReplayTypeOK
  BY DEF ReplayInv, ReplayTypes
<1> QED
  BY <1>1, ReplayInvInit, ReplayInvStep, PTL DEF ReplaySpec

(* With live replays of all or part of a stream, run by any number of      *)
(* administrators beside the requests, every settlement in a row still has *)
(* its event in the log.                                                   *)
THEOREM ReplayKeepsEventBacked == ReplaySpec => []ReplayIsEventBacked
<1>1. ReplayInv => ReplayIsEventBacked
  BY DEF ReplayInv, LogsOK, ReplayIsEventBacked
<1> QED
  BY <1>1, ReplayInvInit, ReplayInvStep, PTL DEF ReplaySpec

(* A row that changes while no request moves is written by the commit of a *)
(* live replay, which leaves its entry in the audit log in the same step;  *)
(* and an entry commits with the values that it is about.                  *)
Audited ==
  /\ rows' # rows /\ pc' = pc =>
       \E k \in Admin : replay[k].live /\ <<k, "APPLIED">> \in audit' \ audit
  /\ \A k \in Admin : <<k, "APPLIED">> \in audit' \ audit =>
       CASE replay[k].kind = "CUSTODY" -> custody'[on[k]] = replay[k].status
         [] replay[k].kind = "ESCROW"  -> escrow'[on[k]] = replay[k].status
         [] OTHER -> trust'[Holder[on[k]]] = replay[k].score

(* The service writes a row only by going on with a request.               *)
LEMMA ServiceMoves ==
  ASSUME ReplayTypes, [Next]_vars, rows' # rows
  PROVE  pc' # pc
<1>0. pc \in [Request -> {"idle"} \cup Active \cup Ended]
  BY DEF ReplayTypes, RowTypes
<1>1. ASSUME NEW r \in Request, Insert(r) PROVE pc' # pc
  BY <1>0, <1>1 DEF Insert, Goto
<1>2. ASSUME NEW r \in Request, EscrowCommit(r) PROVE pc' # pc
  BY <1>0, <1>2 DEF EscrowCommit, Goto, AfterEscrow
<1>3. ASSUME NEW r \in Request, WriteScore(r) PROVE pc' # pc
  BY <1>0, <1>3 DEF WriteScore, Goto
<1>4. ASSUME NEW r \in Request, Commit(r) PROVE pc' # pc
  BY <1>0, <1>4 DEF Commit, Goto
<1>5. \/ UNCHANGED rows
      \/ \E r \in Request : Insert(r) \/ EscrowCommit(r) \/ WriteScore(r) \/ Commit(r)
  BY DEF Next, Begin, Step, Fault, vars, BeginCreate, BeginSettle, LogStarted, Update,
         LogSettlement, LogPetCancelled, EscrowUpdate, LogEscrow, ReadScore, LogScore,
         CommitExpired, Fail, CustodyTxExpires, EscrowTxExpires
<1> QED
  BY <1>1, <1>2, <1>3, <1>4, <1>5

(* A row that a replay writes has its audit entry.                         *)
LEMMA AuditedStep == ReplayInv /\ [ReplayNext]_replayVars => Audited
<1> SUFFICES ASSUME ReplayInv, [ReplayNext]_replayVars PROVE Audited
  OBVIOUS
<1>0. ReplayTypes /\ WritesOK /\ AuditOK
  BY DEF ReplayInv
<1>1. CASE [Next]_vars /\ UNCHANGED <<replay, audit>>
  BY <1>0, <1>1, ServiceMoves DEF Audited
<1>2. ASSUME NEW k \in Admin, ReplayAct(k) PROVE Audited
  <2>1. /\ rows' = rows \/ CommitReplay(k)
        /\ \A j \in Admin : <<j, "APPLIED">> \in audit' \ audit => j = k /\ CommitReplay(k)
    BY <1>0, <1>2, ReplayFrame
  <2>2. ASSUME CommitReplay(k)
        PROVE  /\ replay[k].live /\ <<k, "APPLIED">> \in audit' \ audit
               /\ CASE replay[k].kind = "CUSTODY" -> custody'[on[k]] = replay[k].status
                    [] replay[k].kind = "ESCROW"  -> escrow'[on[k]] = replay[k].status
                    [] OTHER -> trust'[Holder[on[k]]] = replay[k].score
    <3>1. /\ on[k] \in Custody /\ Holder[on[k]] \in User
          /\ custody \in [Custody -> CustodyStatus \cup {"NONE"}]
          /\ escrow \in [Custody -> EscrowStatus \cup {"NONE"}]
          /\ trust \in [User -> Int]
      BY <1>0, AdminAssumption, ConstantsAssumption DEF ReplayTypes, RowTypes, Numbers
    <3>2. replay[k].live /\ <<k, "APPLIED">> \notin audit
      BY <1>0, <2>2 DEF CommitReplay, WritesOK, AuditOK
    <3>3. <<k, "APPLIED">> \in audit'
      BY <2>2 DEF CommitReplay
    <3>4. CASE replay[k].kind = "CUSTODY"
      BY <2>2, <3>1, <3>2, <3>3, <3>4 DEF CommitReplay
    <3>5. CASE replay[k].kind = "ESCROW"
      BY <2>2, <3>1, <3>2, <3>3, <3>5 DEF CommitReplay
    <3>6. CASE replay[k].kind \notin {"CUSTODY", "ESCROW"}
      BY <2>2, <3>1, <3>2, <3>3, <3>6 DEF CommitReplay
    <3> QED
      BY <3>4, <3>5, <3>6
  <2> QED
    BY <2>1, <2>2 DEF Audited
<1> QED
  BY <1>1, <1>2, ReplayCases

(* No administrator's correction goes without its entry in the audit log,  *)
(* and no entry without its correction.                                    *)
THEOREM CorrectionsAreAudited == ReplaySpec => AppliedIsAudited
<1>1. ReplayInv /\ [ReplayNext]_replayVars => [Audited]_replayVars
  BY AuditedStep
<1> QED
  BY <1>1, ReplayInvInit, ReplayInvStep, PTL DEF ReplaySpec, AppliedIsAudited, Audited

-----------------------------------------------------------------------------
(* Live replays of a custody that have read everything.                    *)

(* Without failures the row lock is with whoever is between an update and  *)
(* its commit, a request or a replay.                                      *)
ReplayLocks ==
  faults = 0 =>
    /\ \A r \in Request : /\ pc[r] \in Locked => custodyLock[on[r]] = r
                          /\ pc[r] \in {"elog", "ecommit"} => escrowLock[on[r]] = r
    /\ \A k \in Admin :
         replay[k].at \in {"auditing", "commit"} /\ replay[k].kind = "CUSTODY" =>
           custodyLock[on[k]] = k

(* The locks are taken and given back with their states.                   *)
LEMMA ReplayLocksStep ==
  ReplayInv /\ ReplayLocks /\ [ReplayNext]_replayVars => ReplayLocks'
<1> SUFFICES ASSUME ReplayInv, ReplayLocks, [ReplayNext]_replayVars PROVE ReplayLocks'
  OBVIOUS
<1>0. /\ pc \in [Request -> {"idle"} \cup Active \cup Ended]
      /\ on \in [Request -> Custody]
      /\ custodyLock \in [Custody -> Request \cup {NoRequest}]
      /\ escrowLock \in [Custody -> Request \cup {NoRequest}]
      /\ faults \in Nat
      /\ \A k \in Admin : k \in Request /\ pc[k] = "idle"
      /\ NoRequest \notin Request
  <2>1. RowTypes /\ AuditOK
    BY DEF ReplayInv, ReplayTypes
  <2>2. faults \in Nat
    BY <2>1, ConstantsAssumption DEF RowTypes
  <2> QED
    BY <2>1, <2>2, AdminAssumption, ConstantsAssumption DEF RowTypes, AuditOK
<1>1. ASSUME [Next]_vars, UNCHANGED <<replay, audit>> PROVE ReplayLocks'
  <2> USE <1>0, <1>1 DEF ReplayLocks, Goto, Locked, locks
  <2>1. ASSUME NEW r \in Request, BeginCreate(r) PROVE ReplayLocks'
    BY <2>1 DEF BeginCreate
  <2>2. ASSUME NEW r \in Request, NEW o \in Settling, BeginSettle(r, o) PROVE ReplayLocks'
    BY <2>2 DEF BeginSettle
  <2>3. ASSUME NEW r \in Request, Insert(r) PROVE ReplayLocks'
    BY <2>3 DEF Insert
  <2>4. ASSUME NEW r \in Request, LogStarted(r) PROVE ReplayLocks'
    BY <2>4 DEF LogStarted
  <2>5. ASSUME NEW r \in Request, Update(r) PROVE ReplayLocks'
    BY <2>5 DEF Update
  <2>6. ASSUME NEW r \in Request, LogSettlement(r) PROVE ReplayLocks'
    BY <2>6 DEF LogSettlement, AfterLog, AfterEscrow
  <2>7. ASSUME NEW r \in Request, LogPetCancelled(r) PROVE ReplayLocks'
    BY <2>7 DEF LogPetCancelled, AfterLog, AfterEscrow
  <2>8. ASSUME NEW r \in Request, EscrowUpdate(r) PROVE ReplayLocks'
    BY <2>8 DEF EscrowUpdate
  <2>9. ASSUME NEW r \in Request, LogEscrow(r) PROVE ReplayLocks'
    BY <2>9 DEF LogEscrow
  <2>10. ASSUME NEW r \in Request, EscrowCommit(r) PROVE ReplayLocks'
    BY <2>10 DEF EscrowCommit, AfterEscrow
  <2>11. ASSUME NEW r \in Request, ReadScore(r) PROVE ReplayLocks'
    BY <2>11 DEF ReadScore
  <2>12. ASSUME NEW r \in Request, WriteScore(r) PROVE ReplayLocks'
    BY <2>12 DEF WriteScore
  <2>13. ASSUME NEW r \in Request, LogScore(r) PROVE ReplayLocks'
    BY <2>13 DEF LogScore
  <2>14. ASSUME NEW r \in Request, Commit(r) PROVE ReplayLocks'
    BY <2>14 DEF Commit
  <2>15. ASSUME NEW r \in Request, CommitExpired(r) PROVE ReplayLocks'
    BY <2>15 DEF CommitExpired
  <2>16. ASSUME NEW r \in Request, Fault(r) PROVE ReplayLocks'
    <3>1. faults' = faults + 1
      BY <2>16 DEF Fault, Fail, CustodyTxExpires, EscrowTxExpires
    <3>2. faults' # 0
      BY <1>0, <3>1
    <3> QED
      BY <3>2
  <2>17. CASE UNCHANGED vars
    BY <2>17 DEF vars
  <2> QED
    BY <2>1, <2>2, <2>3, <2>4, <2>5, <2>6, <2>7, <2>8, <2>9, <2>10, <2>11, <2>12,
       <2>13, <2>14, <2>15, <2>16, <2>17 DEF Next, Begin, Step
<1>2. ASSUME NEW k \in Admin, ReplayAct(k) PROVE ReplayLocks'
  <2>0. /\ UNCHANGED <<on, pc>>
        /\ \A j \in Admin \ {k} : replay'[j] = replay[j]
        /\ replay \in [Admin -> Replay]
    BY <1>2, ReplayFrame DEF ReplayInv, ReplayTypes, ReplayTypeOK, Replay
  <2>1. CASE ApplyUpdate(k)
    <3>1. replay'[k].kind = replay[k].kind /\ faults' = faults
      BY <2>0, <2>1 DEF ApplyUpdate, Replay
    <3>2. CASE replay[k].kind = "CUSTODY"
      BY <1>0, <2>0, <2>1, <3>1, <3>2 DEF ApplyUpdate, ReplayLocks, Locked
    <3>3. CASE replay[k].kind = "ESCROW"
      BY <1>0, <2>0, <2>1, <3>1, <3>3 DEF ApplyUpdate, ReplayLocks, Locked
    <3>4. CASE replay[k].kind \notin {"CUSTODY", "ESCROW"}
      BY <1>0, <2>0, <2>1, <3>1, <3>4 DEF ApplyUpdate, ReplayLocks, Locked, locks
    <3> QED
      BY <3>2, <3>3, <3>4
  <2>2. CASE CommitReplay(k)
    <3>1. replay'[k].at = "done" /\ faults' = faults
      BY <2>0, <2>2 DEF CommitReplay, Replay
    <3> QED
      BY <1>0, <2>0, <2>2, <3>1 DEF CommitReplay, ReplayLocks, Locked, Unlock
  <2>3. CASE ReportFails(k) \/ ReplayFails(k)
    <3>1. faults' = faults + 1
      BY <2>3 DEF ReportFails, ReplayFails
    <3>2. faults' # 0
      BY <1>0, <3>1
    <3> QED
      BY <3>2 DEF ReplayLocks
  <2>4. CASE WriteAudit(k)
    <3>1. /\ UNCHANGED <<faults, custodyLock, escrowLock>>
          /\ replay[k].at = "auditing" /\ replay'[k].kind = replay[k].kind
      BY <2>0, <2>4 DEF WriteAudit, vars, locks, Replay
    <3> QED
      BY <1>0, <2>0, <3>1 DEF ReplayLocks
  <2>5. ASSUME UNCHANGED vars, replay'[k].at \notin {"auditing", "commit"}
        PROVE  ReplayLocks'
    BY <1>0, <2>0, <2>5 DEF ReplayLocks, vars, locks
  <2>6. ASSUME NEW kind \in Kind, NEW live \in BOOLEAN, BeginReplay(k, kind, live)
        PROVE  ReplayLocks'
    BY <2>0, <2>5, <2>6 DEF BeginReplay, Replay
  <2>7. ASSUME ReadEvents(k) PROVE ReplayLocks'
    BY <2>0, <2>5, <2>7 DEF ReadEvents, Replay
  <2>8. ASSUME ReadRow(k) PROVE ReplayLocks'
    <3>1. replay'[k].at \in {"apply", "report"}
      BY <2>0, <2>8 DEF ReadRow, Replay
    <3> QED
      BY <2>5, <2>8, <3>1 DEF ReadRow
  <2>9. ASSUME Report(k) PROVE ReplayLocks'
    BY <2>0, <2>5, <2>9 DEF Report, Replay
  <2>10. ASSUME ReplayExpired(k) PROVE ReplayLocks'
    BY <2>0, <2>5, <2>10 DEF ReplayExpired, Replay
  <2> QED
    BY <1>2, <2>1, <2>2, <2>3, <2>4, <2>6, <2>7, <2>8, <2>9, <2>10
    DEF ReplayAct, ReplayStep
<1> QED
  BY <1>1, <1>2, ReplayCases

(* The start of a custody: one request creates it, nothing is logged of a  *)
(* row that is not there, and until its start is logged a custody is        *)
(* PENDING or has been settled.                                            *)
CreateOK ==
  /\ \A r, q \in Request :
       op[r] = "create" /\ op[q] = "create" /\ on[r] = on[q] => r = q
  /\ \A c \in Custody : custody[c] = "NONE" => custodyLog[c] = <<>>
  /\ \A r \in Request : pc[r] = "started" =>
       /\ custody[on[r]] # "NONE"
       /\ ~ Logged(custodyLog[on[r]], "CUSTODY_STARTED")
       /\ custodyLog[on[r]] = <<>> => custody[on[r]] = "PENDING"

(* Another event is not the start.                                         *)
LEMMA NotLoggedAppend ==
  ASSUME NEW S, NEW s \in Seq(S), NEW e \in S, NEW x, x # e, ~ Logged(s, x)
  PROVE  ~ Logged(Append(s, e), x) /\ Append(s, e) # <<>>
BY DEF Logged

(* What is logged is not an empty log.                                     *)
LEMMA LoggedNotEmpty ==
  ASSUME NEW s, NEW x, Logged(s, x)
  PROVE  s # <<>>
BY DEF Logged

(* A step that leaves the rows and the log of the custodies alone.         *)
LEMMA CreateKept ==
  ASSUME CreateOK, UNCHANGED <<custody, custodyLog, on>>,
         \A q \in Request : pc'[q] = "started" => pc[q] = "started",
         \A q \in Request : op'[q] = "create" => op[q] = "create"
  PROVE  CreateOK'
BY DEF CreateOK

(* No replay comes between the creation of a custody and its event.        *)
LEMMA CreateStep == ReplayInv /\ CreateOK /\ [ReplayNext]_replayVars => CreateOK'
<1> SUFFICES ASSUME ReplayInv, CreateOK, [ReplayNext]_replayVars PROVE CreateOK'
  OBVIOUS
<1>0. /\ pc \in [Request -> {"idle"} \cup Active \cup Ended]
      /\ op \in [Request -> {"none", "create"} \cup Settling]
      /\ on \in [Request -> Custody]
      /\ custody \in [Custody -> CustodyStatus \cup {"NONE"}]
      /\ custodyLog \in [Custody -> Seq(CustodyEvents)]
      /\ ControlOK /\ RowsOK
  BY DEF ReplayInv, ReplayTypes, RowTypes, CustodyEvents
<1>1. ASSUME [Next]_vars, UNCHANGED <<replay, audit>> PROVE CreateOK'
  <2> USE <1>0, CreateKept DEF Goto, rows, logs
  <2>1. ASSUME NEW r \in Request, BeginCreate(r) PROVE CreateOK'
    <3>1. /\ UNCHANGED <<custody, custodyLog, on>>
          /\ op' = [op EXCEPT ![r] = "create"]
          /\ \A q \in Request : ~ (op[q] = "create" /\ on[q] = on[r])
          /\ \A q \in Request : pc'[q] = "started" => pc[q] = "started"
      BY <2>1 DEF BeginCreate, FreshId
    <3> QED
      BY <3>1 DEF CreateOK
  <2>2. ASSUME NEW r \in Request, NEW o \in Settling, BeginSettle(r, o) PROVE CreateOK'
    BY <2>2 DEF BeginSettle, Settling
  <2>3. ASSUME NEW r \in Request, Insert(r) PROVE CreateOK'
    <3>1. /\ custody' = [custody EXCEPT ![on[r]] = "PENDING"]
          /\ UNCHANGED <<custodyLog, on, op>>
          /\ pc' = [pc EXCEPT ![r] = "started"]
          /\ custodyLog[on[r]] = <<>>
          /\ custody[on[r]] = "NONE"
      BY <2>3 DEF Insert, RowsOK, CreateOK
    <3>2. ~ Logged(<<>>, "CUSTODY_STARTED")
      BY DEF Logged
    <3> QED
      BY <3>1, <3>2 DEF CreateOK
  <2>4. ASSUME NEW r \in Request, LogStarted(r) PROVE CreateOK'
    <3>1. /\ UNCHANGED <<custody, on, op>>
          /\ \A c \in Custody \ {on[r]} : custodyLog'[c] = custodyLog[c]
          /\ pc' = [pc EXCEPT ![r] = "done"]
          /\ custody[on[r]] # "NONE" /\ op[r] = "create"
      BY <2>4 DEF LogStarted, CreateOK, ControlOK
    <3>2. \A q \in Request \ {r} : pc[q] = "started" => on[q] # on[r]
      BY <3>1 DEF CreateOK, ControlOK
    <3> QED
      BY <3>1, <3>2 DEF CreateOK
  <2>5. ASSUME NEW r \in Request, Update(r) PROVE CreateOK'
    BY <2>5 DEF Update
  <2>6. ASSUME NEW r \in Request, LogSettlement(r) PROVE CreateOK'
    <3> DEFINE e == TargetEvent[op[r]]
    <3>1. /\ UNCHANGED <<custody, on, op>>
          /\ custodyLog' = [custodyLog EXCEPT ![on[r]] = Append(@, e)]
          /\ \A q \in Request : pc'[q] = "started" => pc[q] = "started"
          /\ custody[on[r]] # "NONE"
      BY <2>6 DEF LogSettlement, AfterLog, AfterEscrow, RowsOK, Locked
    <3>2. e \in CustodyEvents /\ e # "CUSTODY_STARTED"
      BY <2>6 DEF LogSettlement, ControlOK, Locked, TargetEvent, Settling, CustodyEvents
    <3> HIDE DEF e
    <3>3. ~ Logged(custodyLog[on[r]], "CUSTODY_STARTED") =>
             ~ Logged(custodyLog'[on[r]], "CUSTODY_STARTED")
      BY <3>1, <3>2, NotLoggedAppend
    <3>4. custodyLog'[on[r]] # <<>>
      <4>1. custodyLog'[on[r]] = Append(custodyLog[on[r]], e) /\ custodyLog[on[r]] \in Seq(CustodyEvents)
        BY <3>1
      <4>2. Logged(custodyLog'[on[r]], e)
        BY <3>2, <4>1, LoggedAppend
      <4> QED
        BY <4>2, LoggedNotEmpty
    <3>5. \A c \in Custody \ {on[r]} : custodyLog'[c] = custodyLog[c]
      BY <3>1
    <3> QED
      BY <3>1, <3>3, <3>4, <3>5 DEF CreateOK
  <2>7. ASSUME NEW r \in Request, LogPetCancelled(r) PROVE CreateOK'
    BY <2>7 DEF LogPetCancelled, AfterLog, AfterEscrow
  <2>8. ASSUME NEW r \in Request, EscrowUpdate(r) PROVE CreateOK'
    BY <2>8 DEF EscrowUpdate
  <2>9. ASSUME NEW r \in Request, LogEscrow(r) PROVE CreateOK'
    BY <2>9 DEF LogEscrow
  <2>10. ASSUME NEW r \in Request, EscrowCommit(r) PROVE CreateOK'
    BY <2>10 DEF EscrowCommit, AfterEscrow
  <2>11. ASSUME NEW r \in Request, ReadScore(r) PROVE CreateOK'
    BY <2>11 DEF ReadScore
  <2>12. ASSUME NEW r \in Request, WriteScore(r) PROVE CreateOK'
    BY <2>12 DEF WriteScore
  <2>13. ASSUME NEW r \in Request, LogScore(r) PROVE CreateOK'
    BY <2>13 DEF LogScore
  <2>14. ASSUME NEW r \in Request, Commit(r) PROVE CreateOK'
    <3>1. /\ custody' = [custody EXCEPT ![on[r]] = Target[op[r]]]
          /\ UNCHANGED <<custodyLog, on, op>>
          /\ pc' = [pc EXCEPT ![r] = "done"]
          /\ op[r] \in Settling
      BY <2>14 DEF Commit, ControlOK, Locked
    <3>2. Logged(custodyLog[on[r]], TargetEvent[op[r]])
      BY <2>14 DEF Commit, ReplayInv, LogsOK, Locked
    <3>3. Target[op[r]] # "NONE" /\ custodyLog[on[r]] # <<>>
      BY <3>1, <3>2, LoggedNotEmpty DEF Target, Settling
    <3> QED
      BY <3>1, <3>3 DEF CreateOK
  <2>15. ASSUME NEW r \in Request, CommitExpired(r) PROVE CreateOK'
    BY <2>15 DEF CommitExpired
  <2>16. ASSUME NEW r \in Request, Fail(r) PROVE CreateOK'
    BY <2>16 DEF Fail
  <2>17. ASSUME NEW r \in Request, CustodyTxExpires(r) \/ EscrowTxExpires(r) PROVE CreateOK'
    BY <2>17 DEF CustodyTxExpires, EscrowTxExpires
  <2>18. CASE UNCHANGED vars
    BY <2>18 DEF vars
  <2> QED
    BY <1>1, <2>1, <2>2, <2>3, <2>4, <2>5, <2>6, <2>7, <2>8, <2>9, <2>10, <2>11, <2>12,
       <2>13, <2>14, <2>15, <2>16, <2>17, <2>18 DEF Next, Begin, Step, Fault
<1>2. ASSUME NEW k \in Admin, ReplayAct(k) PROVE CreateOK'
  <2>0. /\ UNCHANGED <<custodyLog, on, pc, op>>
        /\ rows' = rows \/ CommitReplay(k)
        /\ \A c \in Custody : custody'[c] = "NONE" <=> custody[c] = "NONE"
    BY <1>2, ReplayFrame, CommitKeepsRows DEF logs, ReplayInv
  <2>1. CASE rows' = rows
    BY <2>0, <2>1, CreateKept DEF rows
  <2>2. CASE CommitReplay(k)
    <3>1. \A c \in Custody : custodyLog[c] = <<>> => custody'[c] = custody[c]
      <4>1. CASE replay[k].kind = "CUSTODY"
        <5>1. replay[k].count \in 1 .. Len(custodyLog[on[k]])
          BY <2>2, <4>1 DEF CommitReplay, ReplayInv, ReadOK, Running, Stream
        <5>2. custodyLog[on[k]] # <<>>
          BY <5>1
        <5> QED
          BY <1>0, <2>2, <4>1, <5>2 DEF CommitReplay
      <4>2. CASE replay[k].kind # "CUSTODY"
        BY <2>2, <4>2 DEF CommitReplay
      <4> QED
        BY <4>1, <4>2
    <3> QED
      BY <1>0, <2>0, <3>1 DEF CreateOK
  <2> QED
    BY <2>0, <2>1, <2>2
<1> QED
  BY <1>1, <1>2, ReplayCases

(* A live replay of a custody never leaves it ACTIVE: no event says so.    *)
NeverActive ==
  \A k \in Admin :
    /\ replay[k].at \in {"report", "done"} /\ replay[k].kind = "CUSTODY" /\ replay[k].live
    => custody[on[k]] # "ACTIVE"

(* A replay that is done does no more.                                     *)
LEMMA DoneStays ==
  ASSUME ReplayTypes, NEW k \in Admin, ReplayAct(k)
  PROVE  \A j \in Admin : replay[j].at = "done" => replay'[j] = replay[j]
<1>1. replay[k].at # "done"
  BY DEF ReplayAct, ReplayStep, BeginReplay, ReadEvents, ReadRow, ApplyUpdate, WriteAudit,
     CommitReplay, Report, ReplayExpired, ReportFails, ReplayFails, Running
<1> QED
  BY <1>1, ReplayFrame

(* No step makes a custody ACTIVE.                                         *)
LEMMA ActivatesNone ==
  ASSUME ReplayInv, [ReplayNext]_replayVars, NEW c \in Custody, custody[c] # "ACTIVE"
  PROVE  custody'[c] # "ACTIVE"
<1>0. /\ on \in [Request -> Custody]
      /\ custody \in [Custody -> CustodyStatus \cup {"NONE"}]
      /\ ControlOK /\ ReplayTypes /\ ReadOK /\ WritesOK
  BY DEF ReplayInv, ReplayTypes, RowTypes
<1>1. ASSUME NEW r \in Request, Insert(r) PROVE custody'[c] # "ACTIVE"
  BY <1>0, <1>1 DEF Insert
<1>2. ASSUME NEW r \in Request, Commit(r) PROVE custody'[c] # "ACTIVE"
  <2>1. Target[op[r]] # "ACTIVE" /\ custody' = [custody EXCEPT ![on[r]] = Target[op[r]]]
    BY <1>0, <1>2 DEF Commit, ControlOK, Locked, Settling, Target
  <2> QED
    BY <1>0, <2>1
<1>3. ASSUME [Next]_vars PROVE custody'[c] # "ACTIVE"
  <2>1. UNCHANGED custody \/ \E r \in Request : Insert(r) \/ Commit(r)
    BY <1>3 DEF Next, Begin, Step, Fault, vars, rows, BeginCreate, BeginSettle, LogStarted,
       Update, LogSettlement, LogPetCancelled, EscrowUpdate, LogEscrow, EscrowCommit,
       ReadScore, WriteScore, LogScore, CommitExpired, Fail, CustodyTxExpires, EscrowTxExpires
  <2> QED
    BY <1>1, <1>2, <2>1
<1>4. ASSUME NEW k \in Admin, ReplayAct(k) PROVE custody'[c] # "ACTIVE"
  <2>1. CASE rows' = rows
    BY <2>1 DEF rows
  <2>2. CASE CommitReplay(k)
    <3>1. replay[k].kind = "CUSTODY" => replay[k].status # "ACTIVE"
      BY <1>0, <2>2, WrittenType DEF CommitReplay
    <3>2. \/ UNCHANGED custody
          \/ /\ custody' = [custody EXCEPT ![on[k]] = replay[k].status]
             /\ replay[k].kind = "CUSTODY"
      BY <2>2 DEF CommitReplay
    <3> QED
      BY <1>0, <3>1, <3>2
  <2> QED
    BY <1>0, <1>4, <2>1, <2>2, ReplayFrame
<1> QED
  BY <1>3, <1>4, ReplayCases

(* No event leads to ACTIVE, so no live replay leaves a custody in it.     *)
LEMMA NeverActiveStep == ReplayInv /\ NeverActive /\ [ReplayNext]_replayVars => NeverActive'
<1> SUFFICES ASSUME ReplayInv, NeverActive, [ReplayNext]_replayVars, NEW j \in Admin,
                    replay'[j].at \in {"report", "done"}, replay'[j].kind = "CUSTODY",
                    replay'[j].live, custody'[on'[j]] = "ACTIVE"
             PROVE  FALSE
  BY DEF NeverActive
<1>0. /\ on \in [Request -> Custody] /\ j \in Request
      /\ custody \in [Custody -> CustodyStatus \cup {"NONE"}]
      /\ ReplayTypes /\ ReadOK /\ WritesOK
  BY AdminAssumption DEF ReplayInv, ReplayTypes, RowTypes
<1>1. on' = on
  <2>1. ASSUME [Next]_vars PROVE on' = on
    BY <2>1 DEF Next, Begin, Step, Fault, vars, BeginCreate, BeginSettle, Insert, LogStarted,
       Update, LogSettlement, LogPetCancelled, EscrowUpdate, LogEscrow, EscrowCommit,
       ReadScore, WriteScore, LogScore, Commit, CommitExpired, Fail,
       CustodyTxExpires, EscrowTxExpires
  <2> QED
    BY <1>0, <2>1, ReplayFrame, ReplayCases
<1>2. custody[on[j]] = "ACTIVE"
  BY <1>0, <1>1, ActivatesNone
<1>3. ~ (replay'[j] = replay[j])
  BY <1>2 DEF NeverActive
<1>4. PICK k \in Admin : ReplayAct(k)
  BY <1>3, ReplayCases
<1>5. j = k /\ replay \in [Admin -> Replay]
  BY <1>0, <1>3, <1>4, ReplayFrame DEF ReplayTypes, ReplayTypeOK, Replay
<1>6. ASSUME NEW kind \in Kind, NEW live \in BOOLEAN, BeginReplay(k, kind, live) PROVE FALSE
  BY <1>5, <1>6 DEF BeginReplay, Replay
<1>7. ASSUME ReadEvents(k) PROVE FALSE
  BY <1>5, <1>7 DEF ReadEvents, Replay
<1>8. ASSUME ReadRow(k) PROVE FALSE
  <2>1. /\ replay'[k].kind = replay[k].kind /\ replay'[k].live = replay[k].live
        /\ replay[k].at = "row"
    BY <1>5, <1>8 DEF ReadRow, Replay
  <2>2. replay[k].kind = "CUSTODY" /\ replay[k].live
    BY <1>5, <2>1
  <2>3. RecordMissing(k) \/ ~ Differs(k)
    BY <1>5, <1>8, <2>2 DEF ReadRow, Replay
  <2>4. Replayed(k) = AdminStatus["CUSTODY"][custodyLog[on[k]][replay[k].count]]
    BY <1>0, <2>1, <2>2, ReplayedStatus
  <2>5. custodyLog[on[k]][replay[k].count] \in CustodyEvents
    <3>1. custodyLog[on[k]] \in Seq(CustodyEvents)
      BY <1>0, <1>5 DEF ReplayTypes, RowTypes, CustodyEvents
    <3>2. replay[k].count \in 1 .. Len(custodyLog[on[k]])
      BY <1>0, <2>1, <2>2 DEF ReadOK, Running, Stream
    <3> QED
      BY <3>1, <3>2
  <2>6. Replayed(k) # "ACTIVE"
    BY <2>4, <2>5, Tables
  <2> QED
    BY <1>2, <1>5, <2>2, <2>3, <2>6 DEF RecordMissing, Differs, CurrentStatus
<1>9. ASSUME ApplyUpdate(k) \/ WriteAudit(k) \/ ReplayExpired(k) \/ ReplayFails(k) PROVE FALSE
  <2>1. ApplyUpdate(k) \/ WriteAudit(k) => FALSE
    BY <1>5 DEF ApplyUpdate, WriteAudit, Replay
  <2>2. ReplayExpired(k) \/ ReplayFails(k) => FALSE
    BY <1>5 DEF ReplayExpired, ReplayFails, Replay
  <2> QED
    BY <1>9, <2>1, <2>2
<1>10. ASSUME CommitReplay(k) PROVE FALSE
  <2>1. replay[k].kind = "CUSTODY" /\ custody'[on[k]] = replay[k].status
    BY <1>0, <1>5, <1>10 DEF CommitReplay, Replay
  <2>2. replay[k].status # "ACTIVE"
    BY <1>0, <1>10, <2>1, WrittenType DEF CommitReplay
  <2> QED
    BY <1>1, <1>5, <2>1, <2>2
<1>11. ASSUME Report(k) \/ ReportFails(k) PROVE FALSE
  <2>1. /\ replay'[k].kind = replay[k].kind /\ replay'[k].live = replay[k].live
        /\ replay[k].at = "report"
    BY <1>5, <1>11 DEF Report, ReportFails, Replay
  <2> QED
    BY <1>2, <1>5, <2>1 DEF NeverActive
<1> QED
  BY <1>4, <1>6, <1>7, <1>8, <1>9, <1>10, <1>11 DEF ReplayAct, ReplayStep

LastEvent(c) == custodyLog[c][Len(custodyLog[c])]

Begun(c) == custodyLog[c] # <<>> /\ custodyLog[c][1] = "CUSTODY_STARTED"

Unannounced(c) == \A r \in Request : on[r] = c => pc[r] \notin Announced

(* A live replay that read less than the log has by now.                   *)
Stale(c) ==
  \E k \in Admin : /\ on[k] = c /\ replay[k].kind = "CUSTODY" /\ replay[k].live
                   /\ replay[k].at = "done" /\ replay[k].count < Len(custodyLog[c])

Settled(c) == \/ custody[c] = AdminStatus["CUSTODY"][LastEvent(c)]
              \/ Stale(c)
              \/ custody[c] = "ACTIVE" /\ Len(custodyLog[c]) = 1

(* Without failures, in a log that begins with the start, the last event   *)
(* is that of the request that has announced one; where nobody has, it is  *)
(* that of the row, unless the row is one of the seed that nobody has      *)
(* settled or a replay has written over it what the log no longer says.    *)
Agrees(c) ==
  Begun(c) => /\ \A r \in Request : on[r] = c /\ pc[r] \in Announced =>
                   LastEvent(c) = TargetEvent[op[r]]
              /\ Unannounced(c) => Settled(c)

Agreement == faults = 0 => \A c \in Custody : Agrees(c)

(* A step that neither announces a settlement nor writes the row.          *)
LEMMA AgreesKept ==
  ASSUME NEW c \in Custody, Agrees(c), UNCHANGED on,
         custodyLog'[c] = custodyLog[c], custody'[c] = custody[c],
         \A q \in Request : /\ pc'[q] \in Announced <=> pc[q] \in Announced
                            /\ pc[q] \in Announced => op'[q] = op[q],
         \A j \in Admin : replay[j].at = "done" => replay'[j] = replay[j]
  PROVE  Agrees(c)'
<1>1. /\ LastEvent(c)' = LastEvent(c)
      /\ Begun(c)' <=> Begun(c)
      /\ Unannounced(c)' <=> Unannounced(c)
  BY DEF LastEvent, Begun, Unannounced
<1>2. Stale(c) => Stale(c)'
  BY DEF Stale
<1>3. Settled(c) => Settled(c)'
  BY <1>1, <1>2 DEF Settled
<1> HIDE DEF Announced
<1> QED
  BY <1>1, <1>3 DEF Agrees

(* Steps of the services: a settlement is announced and committed under    *)
(* the row lock, and a start that comes late is not the first event.       *)
LEMMA AgreesService ==
  ASSUME ReplayInv, ReplayLocks, CreateOK, faults = 0, faults' = 0,
         [Next]_vars, UNCHANGED <<replay, audit>>, NEW c \in Custody, Agrees(c)
  PROVE  Agrees(c)'
<1>0. /\ pc \in [Request -> {"idle"} \cup Active \cup Ended]
      /\ op \in [Request -> {"none", "create"} \cup Settling]
      /\ on \in [Request -> Custody]
      /\ custody \in [Custody -> CustodyStatus \cup {"NONE"}]
      /\ custodyLog \in [Custody -> Seq(CustodyEvents)]
      /\ ControlOK /\ RowsOK /\ LogsOK
  BY DEF ReplayInv, ReplayTypes, RowTypes, CustodyEvents
<1>00. \A r, q \in Request :
         pc[r] \in Locked /\ pc[q] \in Locked /\ on[r] = on[q] => r = q
  BY DEF ReplayLocks
<1>000. \A o \in Settling : /\ TargetEvent[o] \in CustodyEvents \ {"CUSTODY_STARTED"}
                            /\ AdminStatus["CUSTODY"][TargetEvent[o]] = Target[o]
  BY DEF Settling, TargetEvent, Target, AdminStatus, CustodyEvents
<1> USE <1>0 DEF Announced, Goto, Locked, rows, logs
<1>1. ASSUME NEW r \in Request, BeginCreate(r) PROVE Agrees(c)'
  BY <1>1, AgreesKept DEF BeginCreate
<1>2. ASSUME NEW r \in Request, NEW o \in Settling, BeginSettle(r, o) PROVE Agrees(c)'
  BY <1>2, AgreesKept DEF BeginSettle
<1>3. ASSUME NEW r \in Request, Insert(r) PROVE Agrees(c)'
  <2>1. CASE c = on[r]
    <3>1. custodyLog'[c] = <<>>
      BY <1>3, <2>1 DEF Insert, RowsOK, CreateOK
    <3> QED
      BY <3>1 DEF Agrees, Begun
  <2>2. CASE c # on[r]
    BY <1>3, <2>2, AgreesKept DEF Insert
  <2> QED
    BY <2>1, <2>2
<1>4. ASSUME NEW r \in Request, LogStarted(r) PROVE Agrees(c)'
  <2>1. CASE c # on[r]
    BY <1>4, <2>1, AgreesKept DEF LogStarted
  <2>2. CASE c = on[r]
    <3>1. /\ custodyLog'[c] = Append(custodyLog[c], "CUSTODY_STARTED")
          /\ UNCHANGED <<custody, on, op>>
          /\ \A q \in Request : pc'[q] \in Announced => pc[q] \in Announced
          /\ ~ Logged(custodyLog[c], "CUSTODY_STARTED")
          /\ custodyLog[c] = <<>> => custody[c] = "PENDING"
          /\ "CUSTODY_STARTED" \in CustodyEvents
      BY <1>4, <2>2 DEF LogStarted, CreateOK, CustodyEvents
    <3>2. CASE custodyLog[c] = <<>>
      <4>1. LastEvent(c)' = "CUSTODY_STARTED"
        BY <3>1, <3>2 DEF LastEvent
      <4>2. \A q \in Request : on[q] = c => pc[q] \notin Announced
        BY <3>2, LoggedNotEmpty DEF LogsOK
      <4>3. custody'[c] = AdminStatus["CUSTODY"]["CUSTODY_STARTED"]
        BY <3>1, <3>2 DEF AdminStatus
      <4> HIDE DEF Announced
      <4> QED
        BY <3>1, <4>1, <4>2, <4>3 DEF Agrees, Settled
    <3>3. CASE custodyLog[c] # <<>>
      <4>1. /\ custodyLog[c] \in Seq(CustodyEvents)
            /\ custodyLog'[c][1] = custodyLog[c][1] /\ 1 \in DOMAIN custodyLog[c]
        BY <3>1, <3>3
      <4> QED
        BY <3>1, <4>1 DEF Agrees, Begun, Logged
    <3> QED
      BY <3>2, <3>3
  <2> QED
    BY <2>1, <2>2
<1>5. ASSUME NEW r \in Request, Update(r) PROVE Agrees(c)'
  BY <1>5, AgreesKept DEF Update
<1>6. ASSUME NEW r \in Request, LogSettlement(r) PROVE Agrees(c)'
  <2>1. /\ UNCHANGED <<custody, on, op>>
        /\ \A q \in Request \ {r} : pc'[q] = pc[q]
        /\ pc[r] = "log" /\ pc'[r] \in Announced
        /\ custodyLog' = [custodyLog EXCEPT ![on[r]] = Append(@, TargetEvent[op[r]])]
    BY <1>6 DEF LogSettlement, AfterLog, AfterEscrow
  <2>2. CASE c # on[r]
    <3>1. /\ custodyLog'[c] = custodyLog[c]
          /\ \A q \in Request : on[q] = c => pc'[q] = pc[q]
      BY <2>1, <2>2
    <3>2. /\ LastEvent(c)' = LastEvent(c)
          /\ Begun(c)' <=> Begun(c)
          /\ Unannounced(c)' <=> Unannounced(c)
          /\ Stale(c)' <=> Stale(c)
      BY <2>1, <3>1 DEF LastEvent, Begun, Unannounced, Stale
    <3>3. Settled(c)' <=> Settled(c)
      BY <2>1, <3>1, <3>2 DEF Settled
    <3> HIDE DEF Announced
    <3> QED
      BY <2>1, <3>1, <3>2, <3>3 DEF Agrees
  <2>3. CASE c = on[r]
    <3>1. TargetEvent[op[r]] \in CustodyEvents
      BY <1>000, <2>1 DEF ControlOK
    <3>2. LastEvent(c)' = TargetEvent[op[r]]
      <4>1. /\ custodyLog'[c] = Append(custodyLog[c], TargetEvent[op[r]])
            /\ custodyLog[c] \in Seq(CustodyEvents)
        BY <2>1, <2>3
      <4> HIDE DEF Announced
      <4> QED
        BY <3>1, <4>1 DEF LastEvent
    <3>3. \A q \in Request \ {r} : on[q] = c => pc[q] \notin Announced
      BY <1>00, <2>1, <2>3
    <3> HIDE DEF Announced
    <3>4. ~ Unannounced(c)'
      BY <2>1, <2>3 DEF Unannounced
    <3> QED
      BY <2>1, <2>3, <3>2, <3>3, <3>4 DEF Agrees
  <2> QED
    BY <2>2, <2>3
<1>7. ASSUME NEW r \in Request, LogPetCancelled(r) PROVE Agrees(c)'
  BY <1>7, AgreesKept DEF LogPetCancelled, AfterLog, AfterEscrow
<1>8. ASSUME NEW r \in Request, EscrowUpdate(r) PROVE Agrees(c)'
  BY <1>8, AgreesKept DEF EscrowUpdate
<1>9. ASSUME NEW r \in Request, LogEscrow(r) PROVE Agrees(c)'
  BY <1>9, AgreesKept DEF LogEscrow
<1>10. ASSUME NEW r \in Request, EscrowCommit(r) PROVE Agrees(c)'
  BY <1>10, AgreesKept DEF EscrowCommit, AfterEscrow
<1>11. ASSUME NEW r \in Request, ReadScore(r) PROVE Agrees(c)'
  BY <1>11, AgreesKept DEF ReadScore
<1>12. ASSUME NEW r \in Request, WriteScore(r) PROVE Agrees(c)'
  BY <1>12, AgreesKept DEF WriteScore
<1>13. ASSUME NEW r \in Request, LogScore(r) PROVE Agrees(c)'
  BY <1>13, AgreesKept DEF LogScore
<1>14. ASSUME NEW r \in Request, Commit(r) PROVE Agrees(c)'
  <2>1. /\ UNCHANGED <<custodyLog, on, op>>
        /\ \A q \in Request \ {r} : pc'[q] = pc[q]
        /\ pc[r] \in Announced /\ pc'[r] \notin Announced
        /\ custody' = [custody EXCEPT ![on[r]] = Target[op[r]]]
        /\ op[r] \in Settling
    BY <1>14 DEF Commit, ControlOK
  <2>2. /\ LastEvent(c)' = LastEvent(c)
        /\ Begun(c)' <=> Begun(c)
        /\ Stale(c)' <=> Stale(c)
    BY <2>1 DEF LastEvent, Begun, Stale
  <2>3. CASE c # on[r]
    <3>1. custody'[c] = custody[c] /\ \A q \in Request : on[q] = c => pc'[q] = pc[q]
      BY <2>1, <2>3
    <3>2. Unannounced(c)' <=> Unannounced(c)
      BY <2>1, <3>1 DEF Unannounced
    <3>3. Settled(c)' <=> Settled(c)
      BY <2>1, <2>2, <3>1 DEF Settled
    <3> HIDE DEF Announced
    <3> QED
      BY <2>1, <2>2, <3>1, <3>2, <3>3 DEF Agrees
  <2>4. CASE c = on[r]
    <3>1. Begun(c) => LastEvent(c) = TargetEvent[op[r]]
      BY <2>1, <2>4 DEF Agrees
    <3>2. custody'[c] = AdminStatus["CUSTODY"][TargetEvent[op[r]]]
      BY <1>000, <2>1, <2>4
    <3>3. Begun(c) => Settled(c)'
      BY <2>2, <3>1, <3>2 DEF Settled
    <3> HIDE DEF Announced
    <3>4. \A q \in Request : pc'[q] \in Announced => pc[q] \in Announced
      BY <2>1
    <3> QED
      BY <2>1, <2>2, <3>3, <3>4 DEF Agrees
  <2> QED
    BY <2>3, <2>4
<1>15. ASSUME NEW r \in Request, CommitExpired(r) PROVE Agrees(c)'
  BY <1>15 DEF CommitExpired, ReplayLocks
<1>16. ASSUME NEW r \in Request, Fault(r) PROVE Agrees(c)'
  BY <1>16 DEF Fault, Fail, CustodyTxExpires, EscrowTxExpires
<1>17. CASE UNCHANGED vars
  BY <1>17, AgreesKept DEF vars
<1> QED
  BY <1>1, <1>2, <1>3, <1>4, <1>5, <1>6, <1>7, <1>8, <1>9, <1>10, <1>11,
     <1>12, <1>13, <1>14, <1>15, <1>16, <1>17 DEF Next, Begin, Step

(* Steps of a replay: what it commits is the status of the last event, or  *)
(* of an earlier one, and then the replay is stale.                        *)
LEMMA AgreesReplay ==
  ASSUME ReplayInv, ReplayLocks, faults = 0, NEW k \in Admin, ReplayAct(k),
         NEW c \in Custody, Agrees(c)
  PROVE  Agrees(c)'
<1>0. /\ custody \in [Custody -> CustodyStatus \cup {"NONE"}]
      /\ on \in [Request -> Custody] /\ k \in Request
      /\ ReplayTypes /\ ReadOK /\ WritesOK
  BY AdminAssumption DEF ReplayInv, ReplayTypes, RowTypes
<1>1. /\ UNCHANGED <<custodyLog, on, pc, op>>
      /\ rows' = rows \/ CommitReplay(k)
      /\ \A j \in Admin : replay[j].at = "done" => replay'[j] = replay[j]
  BY <1>0, ReplayFrame, DoneStays DEF logs
<1>2. CASE custody'[c] = custody[c]
  BY <1>1, <1>2, AgreesKept
<1>3. CASE custody'[c] # custody[c]
  <2>1. CommitReplay(k) /\ replay[k].kind = "CUSTODY" /\ c = on[k]
    <3>1. CommitReplay(k)
      BY <1>1, <1>3 DEF rows
    <3>2. replay[k].kind = "CUSTODY"
      BY <1>3, <3>1 DEF CommitReplay
    <3> QED
      BY <1>0, <1>3, <3>1, <3>2 DEF CommitReplay
  <2>2. /\ custody'[c] = AdminStatus["CUSTODY"][custodyLog[c][replay[k].count]]
        /\ replay[k].live
        /\ replay[k].count \in 1 .. Len(custodyLog[c])
    <3>1. replay[k].at = "commit" /\ custody'[c] = replay[k].status
      BY <1>0, <2>1 DEF CommitReplay
    <3>2. /\ replay[k].status = AdminStatus["CUSTODY"][custodyLog[c][replay[k].count]]
          /\ replay[k].live
      BY <1>0, <2>1, <3>1 DEF WritesOK
    <3>3. replay[k].count \in 1 .. Len(Stream(k, replay[k].kind))
      BY <1>0, <3>1 DEF ReadOK, Running
    <3> QED
      BY <2>1, <3>1, <3>2, <3>3 DEF Stream
  <2>3. /\ replay'[k].at = "done" /\ replay'[k].kind = "CUSTODY" /\ replay'[k].live
        /\ replay'[k].count = replay[k].count
    <3>1. replay \in [Admin -> Replay]
      BY <1>0 DEF ReplayTypes, ReplayTypeOK, Replay
    <3> QED
      BY <2>1, <2>2, <3>1 DEF CommitReplay, Replay
  <2>4. Settled(c)'
    <3>1. CASE replay[k].count = Len(custodyLog[c])
      BY <1>1, <2>2, <3>1 DEF Settled, LastEvent
    <3>2. CASE replay[k].count # Len(custodyLog[c])
      <4>1. Len(custodyLog[c]) \in Nat
        BY <1>0 DEF ReplayTypes, RowTypes
      <4>2. replay'[k].count < Len(custodyLog'[c])
        BY <1>1, <2>2, <2>3, <3>2, <4>1
      <4> QED
        BY <1>1, <2>1, <2>3, <4>2 DEF Settled, Stale
    <3> QED
      BY <3>1, <3>2
  <2> QED
    BY <1>1, <2>4 DEF Agrees, Begun, LastEvent
<1> QED
  BY <1>2, <1>3

(* A failure leaves a failure behind.                                      *)
LEMMA FaultsStay == ReplayInv /\ [ReplayNext]_replayVars /\ faults' = 0 => faults = 0
<1> SUFFICES ASSUME ReplayInv, [ReplayNext]_replayVars, faults' = 0 PROVE faults = 0
  OBVIOUS
<1>1. faults \in Nat
  BY ConstantsAssumption DEF ReplayInv, ReplayTypes, RowTypes
<1>2. ASSUME [Next]_vars PROVE faults' \in {faults, faults + 1}
  BY <1>2 DEF Next, Begin, Step, Fault, vars, BeginCreate, BeginSettle, Insert, LogStarted,
     Update, LogSettlement, LogPetCancelled, EscrowUpdate, LogEscrow, EscrowCommit,
     ReadScore, WriteScore, LogScore, Commit, CommitExpired, Fail,
     CustodyTxExpires, EscrowTxExpires
<1>3. ASSUME NEW k \in Admin, ReplayAct(k) PROVE faults' \in {faults, faults + 1}
  BY <1>3 DEF ReplayAct, ReplayStep, BeginReplay, ReadEvents, ReadRow, ApplyUpdate,
     WriteAudit, CommitReplay, Report, ReplayExpired, ReportFails, ReplayFails, vars
<1> QED
  BY <1>1, <1>2, <1>3, ReplayCases

(* Each step of the service and of a replay keeps row and events in        *)
(* agreement.                                                              *)
LEMMA AgreementStep ==
  ReplayInv /\ ReplayLocks /\ CreateOK /\ Agreement /\ [ReplayNext]_replayVars => Agreement'
<1> SUFFICES ASSUME ReplayInv, ReplayLocks, CreateOK, Agreement, [ReplayNext]_replayVars,
                    faults' = 0, NEW c \in Custody
             PROVE  Agrees(c)'
  BY DEF Agreement
<1>1. faults = 0
  BY FaultsStay
<1>2. Agrees(c)
  BY <1>1 DEF Agreement
<1> QED
  BY <1>1, <1>2, AgreesService, AgreesReplay, ReplayCases

ConvergeInv == ReplayInv /\ ReplayLocks /\ CreateOK /\ NeverActive /\ Agreement

(* Nothing is logged, replayed or locked in the beginning but what the seed *)
(* left.                                                                   *)
LEMMA ConvergeInit == ReplayInit => ConvergeInv
<1> SUFFICES ASSUME ReplayInit PROVE ConvergeInv
  OBVIOUS
<1>1. ReplayInv
  BY ReplayInvInit
<1>2. ReplayLocks
  BY DEF ReplayInit, Init, ReplayLocks, Locked
<1>3. CreateOK
  BY DEF ReplayInit, Init, CreateOK
<1>4. NeverActive
  BY DEF ReplayInit, NeverActive
<1>5. Agreement
  BY DEF ReplayInit, Init, Agreement, Agrees, Begun, Settled, Announced, Locked
<1> QED
  BY <1>1, <1>2, <1>3, <1>4, <1>5 DEF ConvergeInv

(* The strengthened invariant is inductive.                                *)
LEMMA ConvergeStep == ConvergeInv /\ [ReplayNext]_replayVars => ConvergeInv'
BY ReplayInvStep, ReplayLocksStep, CreateStep, NeverActiveStep, AgreementStep DEF ConvergeInv

(* The status of an event is the one that the reducer of the custodies     *)
(* gives it.                                                               *)
LEMMA StatusOfEvent ==
  ASSUME NEW e \in CustodyEvents
  PROVE  StatusOf(e) = AdminStatus["CUSTODY"][e]
<1>1. CASE e = "CUSTODY_STARTED"
  BY <1>1 DEF StatusOf, AdminStatus
<1>2. ASSUME NEW o \in Settling, e = TargetEvent[o] PROVE StatusOf(e) = AdminStatus["CUSTODY"][e]
  <2>1. /\ e # "CUSTODY_STARTED" /\ AdminStatus["CUSTODY"][e] = Target[o]
        /\ \A q \in Settling : TargetEvent[q] = e => q = o
    BY <1>2 DEF Settling, TargetEvent, Target, AdminStatus
  <2> DEFINE Fits(s) == \E q \in Settling : Target[q] = s /\ TargetEvent[q] = e
             T == {Target[q] : q \in Settling}
  <2>2. Target[o] \in T /\ Fits(Target[o])
    BY <1>2
  <2>3. \A s \in T : Fits(s) => s = Target[o]
    BY <2>1
  <2>4. (CHOOSE s \in T : Fits(s)) = Target[o]
    <3> HIDE DEF Fits, T
    <3> QED
      BY <2>2, <2>3
  <2> QED
    BY <2>1, <2>4 DEF StatusOf
<1>3. e = "CUSTODY_STARTED" \/ \E o \in Settling : e = TargetEvent[o]
  BY DEF CustodyEvents, Settling, TargetEvent
<1> QED
  BY <1>1, <1>2, <1>3

(* Without failures a custody whose live replays have all read the whole   *)
(* stream says what the last event says as soon as nobody holds its row,   *)
(* whatever requests and other replays did between their reads and writes. *)
THEOREM ReplaysConverge == ReplaySpec => []ReplayConverges
<1>1. ConvergeInv => ReplayConverges
  <2> SUFFICES ASSUME ConvergeInv, faults = 0, NEW c \in Custody,
                      custodyLog[c] # <<>>,
                      custodyLock[c] = NoRequest,
                      custodyLog[c][1] = "CUSTODY_STARTED",
                      NEW k \in Admin, on[k] = c, replay[k].kind = "CUSTODY", replay[k].live,
                      \A j \in Admin : on[j] = c /\ replay[j].kind = "CUSTODY" /\ replay[j].live
                        => replay[j].at = "done" /\ replay[j].count = Len(custodyLog[c])
               PROVE  custody[c] = StatusOf(custodyLog[c][Len(custodyLog[c])])
    BY DEF ReplayConverges
  <2>1. custodyLog[c] \in Seq(CustodyEvents)
    BY DEF ConvergeInv, ReplayInv, ReplayTypes, RowTypes, CustodyEvents
  <2>2. Unannounced(c)
    <3>1. \A r \in Request : pc[r] \in Locked => custodyLock[on[r]] = r
      BY DEF ConvergeInv, ReplayLocks
    <3> QED
      BY <3>1, ConstantsAssumption DEF Unannounced, Announced
  <2>3. ~ Stale(c)
    BY <2>1 DEF Stale
  <2>4. custody[c] # "ACTIVE"
    BY DEF ConvergeInv, NeverActive
  <2>5. custody[c] = AdminStatus["CUSTODY"][LastEvent(c)]
    BY <2>2, <2>3, <2>4 DEF ConvergeInv, Agreement, Agrees, Begun, Settled
  <2>6. LastEvent(c) \in CustodyEvents
    BY <2>1 DEF LastEvent
  <2> QED
    BY <2>5, <2>6, StatusOfEvent DEF LastEvent
<1> QED
  BY <1>1, ConvergeInit, ConvergeStep, PTL DEF ReplaySpec

-----------------------------------------------------------------------------
(* No replay closes a custody over an unpaid deposit.                      *)

Unpaid(c) == HasDeposit(c) /\ escrow[c] \notin EscrowSettled

(* A settlement of the custody is in the log, and one is on its way from   *)
(* its event to the end of its payout.                                     *)
Concluded(c) == \E i \in DOMAIN custodyLog[c] : custodyLog[c][i] # "CUSTODY_STARTED"

Paying(c) == \E r \in Request : on[r] = c /\ pc[r] \in Announced \ Paid

(* As long as a deposit is unpaid its custody is open, nobody is past the  *)
(* payout, and an event in the log is that of somebody who has the row.    *)
Held(c) == Unpaid(c) => /\ ~ Closed(c)
                        /\ \A r \in Request : on[r] = c => pc[r] \notin Paid
                        /\ Concluded(c) => Paying(c)

HeldOK == faults = 0 => \A c \in Custody : Held(c)

(* A step that leaves the custody and its log alone and moves nobody over  *)
(* the bounds of the payout.                                               *)
LEMMA HeldKept ==
  ASSUME NEW c \in Custody, Held(c), on' = on,
         custody'[c] = custody[c], custodyLog'[c] = custodyLog[c],
         escrow'[c] = escrow[c] \/ escrow'[c] \in EscrowSettled,
         \A r \in Request : on[r] = c =>
           /\ pc'[r] \in Paid => pc[r] \in Paid \/ ~ Unpaid(c)
           /\ pc[r] \in Announced \ Paid => pc'[r] \in Announced \ Paid
  PROVE  Held(c)'
<1> HIDE DEF Announced, Paid
<1> SUFFICES ASSUME Unpaid(c)' PROVE Held(c)'
  BY DEF Held
<1>1. Unpaid(c)
  BY DEF Unpaid, HasDeposit
<1>2. Concluded(c)' => Paying(c)'
  BY <1>1 DEF Held, Concluded, Paying
<1> QED
  BY <1>1, <1>2 DEF Held, Closed

(* Steps of the services: a settlement is announced under the row lock and *)
(* keeps it until it has paid and commits.                                 *)
LEMMA HeldService ==
  ASSUME ReplayInv, ReplayLocks, CreateOK, faults = 0, faults' = 0,
         [Next]_vars, NEW c \in Custody, Held(c)
  PROVE  Held(c)'
<1>0. /\ pc \in [Request -> {"idle"} \cup Active \cup Ended]
      /\ op \in [Request -> {"none", "create"} \cup Settling]
      /\ on \in [Request -> Custody]
      /\ custody \in [Custody -> CustodyStatus \cup {"NONE"}]
      /\ escrow \in [Custody -> EscrowStatus \cup {"NONE"}]
      /\ custodyLog \in [Custody -> Seq(CustodyEvents)]
      /\ ControlOK /\ RowsOK
  BY DEF ReplayInv, ReplayTypes, RowTypes, CustodyEvents
<1> USE <1>0 DEF Announced, Paid, Goto, Locked, rows, logs
<1>1. ASSUME NEW r \in Request, BeginCreate(r) PROVE Held(c)'
  BY <1>1, HeldKept DEF BeginCreate
<1>2. ASSUME NEW r \in Request, NEW o \in Settling, BeginSettle(r, o) PROVE Held(c)'
  BY <1>2, HeldKept DEF BeginSettle
<1>3. ASSUME NEW r \in Request, Insert(r) PROVE Held(c)'
  <2>1. CASE c = on[r]
    <3>1. custodyLog'[c] = <<>> /\ custody'[c] = "PENDING"
      BY <1>3, <2>1 DEF Insert, RowsOK, CreateOK
    <3>2. \A q \in Request : on[q] = c => pc[q] \notin Locked
      BY <1>3, <2>1 DEF Insert, RowsOK
    <3>3. \A q \in Request : on'[q] = c => pc'[q] \notin Paid
      BY <1>3, <3>2 DEF Insert
    <3>4. ~ Closed(c)'
      BY <3>1 DEF Closed, Target, Settling
    <3>5. ~ Concluded(c)'
      BY <3>1 DEF Concluded
    <3> QED
      BY <3>3, <3>4, <3>5 DEF Held
  <2>2. CASE c # on[r]
    BY <1>3, <2>2, HeldKept DEF Insert
  <2> QED
    BY <2>1, <2>2
<1>4. ASSUME NEW r \in Request, LogStarted(r) PROVE Held(c)'
  <2>1. CASE c # on[r]
    BY <1>4, <2>1, HeldKept DEF LogStarted
  <2>2. CASE c = on[r]
    <3>1. /\ custodyLog'[c] = Append(custodyLog[c], "CUSTODY_STARTED")
          /\ UNCHANGED <<custody, escrow, on>>
          /\ \A q \in Request : \/ pc'[q] = pc[q]
                                \/ pc[q] = "started" /\ pc'[q] = "done"
      BY <1>4, <2>2 DEF LogStarted
    <3>2. Concluded(c)' => Concluded(c)
      <4>1. custodyLog[c] \in Seq(CustodyEvents) /\ "CUSTODY_STARTED" \in CustodyEvents
        BY DEF CustodyEvents
      <4> QED
        BY <3>1, <4>1 DEF Concluded
    <3>3. /\ Unpaid(c)' => Unpaid(c)
          /\ Closed(c)' => Closed(c)
          /\ Paying(c) => Paying(c)'
          /\ \A q \in Request : pc'[q] \in Paid => pc[q] \in Paid
      BY <3>1 DEF Unpaid, HasDeposit, Closed, Paying
    <3> HIDE DEF Announced, Paid
    <3> QED
      BY <3>1, <3>2, <3>3 DEF Held
  <2> QED
    BY <2>1, <2>2
<1>5. ASSUME NEW r \in Request, Update(r) PROVE Held(c)'
  BY <1>5, HeldKept DEF Update
<1>6. ASSUME NEW r \in Request, LogSettlement(r) PROVE Held(c)'
  <2>1. CASE c # on[r]
    <3>1. /\ UNCHANGED <<custody, escrow, on>>
          /\ custodyLog'[c] = custodyLog[c]
          /\ \A q \in Request : on[q] = c => pc'[q] = pc[q]
      BY <1>6, <2>1 DEF LogSettlement
    <3> HIDE DEF Announced, Paid
    <3> QED
      BY <3>1, HeldKept
  <2>2. CASE c = on[r] /\ Unpaid(c)
    <3>1. /\ UNCHANGED <<custody, escrow, on>>
          /\ \A q \in Request \ {r} : pc'[q] = pc[q]
          /\ pc'[r] \in {"petlog", "eupdate"}
      BY <1>6, <2>2 DEF LogSettlement, AfterLog, Unpaid
    <3>2. Paying(c)'
      BY <2>2, <3>1 DEF Paying
    <3>3. \A q \in Request : on'[q] = c => pc'[q] \notin Paid
      BY <2>2, <3>1 DEF Held
    <3>4. ~ Closed(c)'
      BY <2>2, <3>1 DEF Held, Closed
    <3> QED
      BY <3>2, <3>3, <3>4 DEF Held
  <2>3. CASE ~ Unpaid(c)
    BY <1>6, <2>3 DEF LogSettlement, Held, Unpaid, HasDeposit
  <2> QED
    BY <2>1, <2>2, <2>3
<1>7. ASSUME NEW r \in Request, LogPetCancelled(r) PROVE Held(c)'
  <2>1. Unpaid(c) /\ on[r] = c => pc'[r] = "eupdate"
    BY <1>7 DEF LogPetCancelled, AfterLog, Unpaid
  <2>2. CASE Unpaid(c)
    BY <1>7, <2>1, <2>2, HeldKept DEF LogPetCancelled
  <2>3. CASE ~ Unpaid(c)
    BY <1>7, <2>3 DEF LogPetCancelled, Held, Unpaid, HasDeposit
  <2> QED
    BY <2>2, <2>3
<1>8. ASSUME NEW r \in Request, EscrowUpdate(r) PROVE Held(c)'
  BY <1>8, HeldKept DEF EscrowUpdate
<1>9. ASSUME NEW r \in Request, LogEscrow(r) PROVE Held(c)'
  BY <1>9, HeldKept DEF LogEscrow
<1>10. ASSUME NEW r \in Request, EscrowCommit(r) PROVE Held(c)'
  <2>1. CASE c # on[r]
    <3>1. /\ UNCHANGED <<custody, custodyLog, on>>
          /\ escrow'[c] = escrow[c]
          /\ \A q \in Request : on[q] = c => pc'[q] = pc[q]
      BY <1>10, <2>1 DEF EscrowCommit
    <3> HIDE DEF Announced, Paid
    <3> QED
      BY <3>1, HeldKept
  <2>2. CASE c = on[r]
    <3>1. op[r] \in Settling /\ escrow'[c] = EscrowTarget[op[r]]
      BY <1>10, <2>2 DEF EscrowCommit, ControlOK
    <3> QED
      BY <3>1 DEF Held, Unpaid, EscrowTarget, Settling, EscrowSettled
  <2> QED
    BY <2>1, <2>2
<1>11. ASSUME NEW r \in Request, ReadScore(r) PROVE Held(c)'
  BY <1>11, HeldKept DEF ReadScore
<1>12. ASSUME NEW r \in Request, WriteScore(r) PROVE Held(c)'
  BY <1>12, HeldKept DEF WriteScore
<1>13. ASSUME NEW r \in Request, LogScore(r) PROVE Held(c)'
  BY <1>13, HeldKept DEF LogScore
<1>14. ASSUME NEW r \in Request, Commit(r) PROVE Held(c)'
  <2>1. CASE c # on[r]
    BY <1>14, <2>1, HeldKept DEF Commit
  <2>2. CASE c = on[r]
    BY <1>14, <2>2 DEF Commit, Held, Unpaid, HasDeposit
  <2> QED
    BY <2>1, <2>2
<1>15. ASSUME NEW r \in Request, CommitExpired(r) PROVE Held(c)'
  BY <1>15 DEF CommitExpired, ReplayLocks
<1>16. ASSUME NEW r \in Request, Fault(r) PROVE Held(c)'
  BY <1>16 DEF Fault, Fail, CustodyTxExpires, EscrowTxExpires
<1>17. CASE UNCHANGED vars
  BY <1>17, HeldKept DEF vars
<1> QED
  BY <1>1, <1>2, <1>3, <1>4, <1>5, <1>6, <1>7, <1>8, <1>9, <1>10, <1>11,
     <1>12, <1>13, <1>14, <1>15, <1>16, <1>17 DEF Next, Begin, Step

(* Steps of a replay: when it has the row nobody is settling the custody,  *)
(* so a settlement it has read of has been paid.                           *)
LEMMA HeldReplay ==
  ASSUME ReplayInv, ReplayLocks, faults = 0, NEW k \in Admin, ReplayAct(k),
         NEW c \in Custody, Held(c)
  PROVE  Held(c)'
<1>0. /\ custody \in [Custody -> CustodyStatus \cup {"NONE"}]
      /\ escrow \in [Custody -> EscrowStatus \cup {"NONE"}]
      /\ on \in [Request -> Custody] /\ k \in Request /\ pc[k] = "idle"
      /\ custodyLog \in [Custody -> Seq(CustodyEvents)]
      /\ escrowLog \in [Custody -> Seq(EscrowEvents)]
      /\ ReplayTypes /\ ReadOK /\ WritesOK
  BY AdminAssumption
  DEF ReplayInv, ReplayTypes, RowTypes, AuditOK, CustodyEvents, EscrowEvents
<1>1. UNCHANGED <<custodyLog, on, pc>> /\ (rows' = rows \/ CommitReplay(k))
  BY <1>0, ReplayFrame DEF logs
<1>2. CASE custody'[c] = custody[c] /\ escrow'[c] = escrow[c]
  BY <1>1, <1>2, HeldKept
<1>3. CASE escrow'[c] # escrow[c]
  <2>1. CommitReplay(k) /\ replay[k].kind = "ESCROW" /\ replay[k].at = "commit"
    BY <1>1, <1>3 DEF rows, CommitReplay
  <2>2. c = on[k] /\ escrow'[c] = replay[k].status
    BY <1>0, <1>3, <2>1 DEF CommitReplay
  <2>3. /\ replay[k].status = AdminStatus["ESCROW"][escrowLog[c][replay[k].count]]
        /\ replay[k].count \in 1 .. Len(escrowLog[c])
    BY <1>0, <2>1, <2>2 DEF WritesOK, ReadOK, Running, Stream
  <2>4. escrowLog[c][replay[k].count] \in EscrowEvents
    BY <1>0, <2>3
  <2>5. escrow'[c] \in EscrowSettled
    BY <2>2, <2>3, <2>4 DEF EscrowEvents, AdminStatus, EscrowSettled
  <2> QED
    BY <2>5 DEF Held, Unpaid
<1>4. CASE custody'[c] # custody[c] /\ escrow'[c] = escrow[c]
  <2>1. CommitReplay(k) /\ replay[k].kind = "CUSTODY" /\ replay[k].at = "commit"
    BY <1>1, <1>4 DEF rows, CommitReplay
  <2>2. c = on[k] /\ custody'[c] = replay[k].status
    BY <1>0, <1>4, <2>1 DEF CommitReplay
  <2>3. /\ replay[k].status = AdminStatus["CUSTODY"][custodyLog[c][replay[k].count]]
        /\ replay[k].count \in 1 .. Len(custodyLog[c])
    BY <1>0, <2>1, <2>2 DEF WritesOK, ReadOK, Running, Stream
  <2>4. custodyLock[c] = k
    BY <2>1, <2>2 DEF ReplayLocks
  <2>5. ~ Paying(c)
    BY <1>0, <2>4 DEF ReplayLocks, Paying, Announced, Locked
  <2>6. SUFFICES ASSUME Unpaid(c) PROVE Held(c)'
    BY <1>4 DEF Held, Unpaid, HasDeposit
  <2>7. ~ Concluded(c)
    BY <2>5, <2>6 DEF Held
  <2>8. custodyLog[c][replay[k].count] = "CUSTODY_STARTED"
    BY <1>0, <2>3, <2>7 DEF Concluded
  <2>9. ~ Closed(c)'
    BY <2>2, <2>3, <2>8 DEF Closed, AdminStatus, Target, Settling
  <2> QED
    BY <1>1, <2>6, <2>7, <2>9 DEF Held, Concluded
<1> QED
  BY <1>2, <1>3, <1>4

(* What is held stays held, given where the requests are.                  *)
LEMMA HeldStep == ConvergeInv /\ HeldOK /\ [ReplayNext]_replayVars => HeldOK'
<1> SUFFICES ASSUME ConvergeInv, HeldOK, [ReplayNext]_replayVars, faults' = 0,
                    NEW c \in Custody
             PROVE  Held(c)'
  BY DEF HeldOK
<1>1. faults = 0 /\ Held(c)
  BY FaultsStay DEF ConvergeInv, HeldOK
<1> QED
  BY <1>1, HeldService, HeldReplay, ReplayCases DEF ConvergeInv

(* Whatever live replays read before a settlement has paid, without        *)
(* failures they close no custody whose deposit is unpaid, for any number  *)
(* of replays and settlements.                                             *)
THEOREM ReplaysKeepDeposits == ReplaySpec => []ReplayKeepsSettled
<1>1. ReplayInit => HeldOK
  BY DEF ReplayInit, Init, HeldOK, Held, Closed, Concluded, Paid, Target, Settling
<1>2. ReplayInv /\ HeldOK => ReplayKeepsSettled
  BY DEF HeldOK, Held, Unpaid, ReplayKeepsSettled, ClosedIsSettled
<1>3. ConvergeInv => ReplayInv
  BY DEF ConvergeInv
<1> QED
  BY <1>1, <1>2, <1>3, ConvergeInit, ConvergeStep, HeldStep, PTL DEF ReplaySpec
=============================================================================
