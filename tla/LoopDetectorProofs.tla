------------------------- MODULE LoopDetectorProofs -------------------------
(***************************************************************************)
(* Proofs about LoopDetector for every value of its constants: the type    *)
(* invariant, and that the stored history is always the most recent       *)
(* HistoryLimit records of the log of recorded actions.                    *)
(***************************************************************************)
EXTENDS LoopDetector, SequenceTheorems, TLAPS

(* LastN keeps the last min(Len(s), n) records of s, in order.             *)
LEMMA LastNProperties ==
    ASSUME NEW s \in Seq(ActionRecord), NEW n \in Nat \ {0}
    PROVE  /\ LastN(s, n) \in Seq(ActionRecord)
           /\ Len(LastN(s, n)) = IF Len(s) <= n THEN Len(s) ELSE n
           /\ \A i \in 1..Len(LastN(s, n)) :
                  LastN(s, n)[i] = s[Len(s) - Len(LastN(s, n)) + i]
<1>1. CASE Len(s) <= n
  BY <1>1 DEF LastN
<1>2. CASE ~(Len(s) <= n)
  <2>1. \A i \in (Len(s) - n + 1)..Len(s) : s[i] \in ActionRecord
    BY <1>2, ElementOfSeq
  <2>2. /\ SubSeq(s, Len(s) - n + 1, Len(s)) \in Seq(ActionRecord)
        /\ Len(SubSeq(s, Len(s) - n + 1, Len(s))) = n
        /\ \A i \in 1..n : SubSeq(s, Len(s) - n + 1, Len(s))[i] = s[Len(s) - n + i]
    BY <1>2, <2>1, SubSeqProperties
  <2>3. LastN(s, n) = SubSeq(s, Len(s) - n + 1, Len(s))
    BY <1>2 DEF LastN
  <2>. QED
    BY <1>2, <2>2, <2>3
<1>. QED
  BY <1>1, <1>2

(* The records RecordAction stores and logs are well typed.                *)
LEMMA RecordTypes ==
    ASSUME NEW a \in Actions, NEW t \in Nat
    PROVE  /\ Record(a) \in ActionRecord
           /\ [action_type |-> a.type, progress_key |-> generateProgressKey(a),
               at |-> t] \in LogEntry
           /\ Strip([action_type |-> a.type, progress_key |-> generateProgressKey(a),
                     at |-> t]) = Record(a)
BY DEF Record, ActionRecord, LogEntry, Keys, Strip

(* Index arithmetic of the truncating append: position i of a history of *)
(* length N that keeps the last N of H + 1 records, with a log of L + 1.   *)
LEMMA ShiftBounds ==
    ASSUME NEW H \in Nat, NEW L \in Nat, NEW N \in Int, NEW i \in Int,
           1 <= i, i < N, N <= H + 1, H <= L
    PROVE  /\ H + 1 - N + i \in 1..H
           /\ L - H + (H + 1 - N + i) \in 1..L
           /\ L - H + (H + 1 - N + i) = L + 1 - N + i
OBVIOUS

(* h holds, in order, the last K entries of l with their times stripped.  *)
IsRecentSuffix(h, l, K) ==
    /\ Len(h) = IF Len(l) <= K THEN Len(l) ELSE K
    /\ \A i \in 1..Len(h) : h[i] = Strip(l[Len(l) - Len(h) + i])

(* Appending one record to the history and one entry to the log, then     *)
(* truncating the history to K, keeps the history the last K records of    *)
(* the log: the step RecordAction takes.                                   *)
LEMMA AppendKeepsRecent ==
    ASSUME NEW hist \in Seq(ActionRecord), NEW lg \in Seq(LogEntry),
           NEW x \in ActionRecord, NEW y \in LogEntry, NEW K \in Nat \ {0},
           Strip(y) = x,
           IsRecentSuffix(hist, lg, K)
    PROVE  IsRecentSuffix(LastN(Append(hist, x), K), Append(lg, y), K)
<1> DEFINE h1 == Append(hist, x)
           h2 == LastN(h1, K)
           l2 == Append(lg, y)
           H == Len(hist)
           L == Len(lg)
           N == Len(h2)
<1> HIDE DEF h1, h2, l2, H, L, N
<1>1. /\ h1 \in Seq(ActionRecord)
      /\ Len(h1) = H + 1
      /\ \A i \in 1..H : h1[i] = hist[i]
      /\ h1[H + 1] = x
  BY AppendProperties DEF h1, H
<1>2. /\ Len(l2) = L + 1
      /\ \A i \in 1..L : l2[i] = lg[i]
      /\ l2[L + 1] = y
  BY AppendProperties DEF l2, L
<1>3. /\ Len(LastN(h1, K)) = IF Len(h1) <= K THEN Len(h1) ELSE K
      /\ \A i \in 1..Len(LastN(h1, K)) :
            LastN(h1, K)[i] = h1[Len(h1) - Len(LastN(h1, K)) + i]
  BY <1>1, LastNProperties
<1>4. /\ H \in Nat /\ L \in Nat
      /\ H = IF L <= K THEN L ELSE K
  BY DEF H, L, IsRecentSuffix
<1>5. N = IF H + 1 <= K THEN H + 1 ELSE K
  BY <1>1, <1>3 DEF h2, N
<1>6. /\ N = IF L + 1 <= K THEN L + 1 ELSE K
      /\ N \in 1..(H + 1)
      /\ H <= L
  BY <1>4, <1>5
<1>7. ASSUME NEW i \in 1..N
      PROVE  h2[i] = h1[H + 1 - N + i]
  <2>1. h2[i] = h1[Len(h1) - N + i]
    BY <1>3 DEF h2, N
  <2>2. Len(h1) - N + i = H + 1 - N + i
    BY <1>1, <1>4, <1>6
  <2>. QED
    BY <2>1, <2>2
<1>8. ASSUME NEW i \in 1..N
      PROVE  h2[i] = Strip(l2[L + 1 - N + i])
  <2>1. CASE i = N
    <3>1. H + 1 - N + i = H + 1 /\ L + 1 - N + i = L + 1
      BY <2>1, <1>4, <1>6
    <3>2. h2[i] = x
      BY <3>1, <1>7, <1>1
    <3>3. l2[L + 1 - N + i] = y
      BY <3>1, <1>2
    <3>. QED
      BY <3>2, <3>3
  <2>2. CASE i < N
    <3>1. /\ H + 1 - N + i \in 1..H
          /\ L - H + (H + 1 - N + i) \in 1..L
          /\ L - H + (H + 1 - N + i) = L + 1 - N + i
      BY <2>2, <1>4, <1>6, ShiftBounds
    <3>2. h2[i] = hist[H + 1 - N + i]
      BY <3>1, <1>7, <1>1
    <3>3. hist[H + 1 - N + i] = Strip(lg[L - H + (H + 1 - N + i)])
      BY <3>1 DEF H, L, IsRecentSuffix
    <3>4. l2[L + 1 - N + i] = lg[L - H + (H + 1 - N + i)]
      BY <3>1, <1>2
    <3>. QED
      BY <3>2, <3>3, <3>4
  <2>. QED
    BY <2>1, <2>2, <1>6
<1>9. /\ Len(h2) = IF Len(l2) <= K THEN Len(l2) ELSE K
      /\ \A i \in 1..Len(h2) : h2[i] = Strip(l2[Len(l2) - Len(h2) + i])
  <2>1. Len(h2) = IF Len(l2) <= K THEN Len(l2) ELSE K
    BY <1>2, <1>6 DEF N
  <2>2. ASSUME NEW i \in 1..Len(h2)
        PROVE  h2[i] = Strip(l2[Len(l2) - Len(h2) + i])
    <3>1. i \in 1..N
      BY DEF N
    <3>2. Len(l2) - Len(h2) + i = L + 1 - N + i
      BY <3>1, <1>2, <1>4, <1>6 DEF N
    <3>. QED
      BY <3>1, <3>2, <1>8
  <2>. QED
    BY <2>1, <2>2
<1>. QED
  BY <1>9 DEF h1, h2, l2, IsRecentSuffix

-----------------------------------------------------------------------------
(* TypeOK holds in every reachable state.                                  *)
THEOREM TypeCorrect == Spec => []TypeOK
<1>. USE LoopDetectorAssumption
<1>1. Init => TypeOK
  BY EmptySeq DEF Init, TypeOK, ZeroMetrics, ProgressMetrics
<1>2. TypeOK /\ [Next]_vars => TypeOK'
  <2> SUFFICES ASSUME TypeOK, [Next]_vars PROVE TypeOK'
    OBVIOUS
  <2>1. ASSUME NEW a \in Actions, RecordAction(a) PROVE TypeOK'
    <3>1. Append(history, Record(a)) \in Seq(ActionRecord)
      BY RecordTypes, AppendProperties DEF TypeOK
    <3>2. history' \in Seq(ActionRecord)
      BY <2>1, <3>1, LastNProperties DEF RecordAction
    <3>3. metrics' \in ProgressMetrics
      <4>1. updateProgressMetrics(metrics, a) \in ProgressMetrics
        <5>1. /\ metrics \in ProgressMetrics
              /\ now \in Nat
          BY DEF TypeOK
        <5>. QED
          BY <5>1 DEF updateProgressMetrics, ProgressMetrics
      <4>2. metrics' = updateProgressMetrics(metrics, a)
        BY <2>1 DEF RecordAction
      <4>. QED
        BY <4>1, <4>2
    <3>4. log' \in Seq(LogEntry)
      BY <2>1, RecordTypes, AppendProperties DEF RecordAction, TypeOK
    <3>. QED
      BY <2>1, <3>2, <3>3, <3>4 DEF RecordAction, TypeOK
  <2>2. ASSUME NEW t \in ThresholdInputs, SetRepeatThreshold(t) PROVE TypeOK'
    BY <2>2 DEF SetRepeatThreshold, TypeOK
  <2>3. CASE ResetProgress
    BY <2>3, EmptySeq DEF ResetProgress, TypeOK, ZeroMetrics, ProgressMetrics
  <2>4. CASE Tick
    BY <2>4 DEF Tick, TypeOK
  <2>5. CASE UNCHANGED vars
    BY <2>5 DEF vars, TypeOK
  <2>. QED
    BY <2>1, <2>2, <2>3, <2>4, <2>5 DEF Next
<1>. QED
  BY <1>1, <1>2, PTL DEF Spec

-----------------------------------------------------------------------------
(* The stored history is always the last HistoryLimit records of the log:  *)
(* RecordAction's append-then-truncate keeps exactly the recent records.   *)
THEOREM HistoryIsRecentLogInvariant == Spec => []HistoryIsRecentLog
<1>. USE LoopDetectorAssumption
<1>1. Init => HistoryIsRecentLog
  BY DEF Init, HistoryIsRecentLog
<1>2. TypeOK /\ HistoryIsRecentLog /\ [Next]_vars => HistoryIsRecentLog'
  <2> SUFFICES ASSUME TypeOK, HistoryIsRecentLog, [Next]_vars
               PROVE  HistoryIsRecentLog'
    OBVIOUS
  <2>1. ASSUME NEW a \in Actions, RecordAction(a) PROVE HistoryIsRecentLog'
    <3> DEFINE e == [action_type |-> a.type, progress_key |-> generateProgressKey(a),
                     at |-> now]
    <3> HIDE DEF e
    <3>1. /\ e \in LogEntry
          /\ Strip(e) = Record(a)
          /\ Record(a) \in ActionRecord
      BY RecordTypes DEF TypeOK, e
    <3>2. /\ history' = LastN(Append(history, Record(a)), HistoryLimit)
          /\ log' = Append(log, e)
      BY <2>1 DEF RecordAction, e
    <3>3. IsRecentSuffix(LastN(Append(history, Record(a)), HistoryLimit),
                         Append(log, e), HistoryLimit)
      <4>1. /\ history \in Seq(ActionRecord) /\ log \in Seq(LogEntry)
            /\ IsRecentSuffix(history, log, HistoryLimit)
        BY DEF TypeOK, HistoryIsRecentLog, IsRecentSuffix
      <4>. QED
        BY <3>1, <4>1, AppendKeepsRecent
    <3>. QED
      BY <3>2, <3>3 DEF HistoryIsRecentLog, IsRecentSuffix
  <2>2. ASSUME NEW t \in ThresholdInputs, SetRepeatThreshold(t)
        PROVE  HistoryIsRecentLog'
    BY <2>2 DEF SetRepeatThreshold, HistoryIsRecentLog
  <2>3. CASE ResetProgress
    BY <2>3 DEF ResetProgress, HistoryIsRecentLog
  <2>4. CASE Tick
    BY <2>4 DEF Tick, HistoryIsRecentLog
  <2>5. CASE UNCHANGED vars
    BY <2>5 DEF vars, HistoryIsRecentLog
  <2>. QED
    BY <2>1, <2>2, <2>3, <2>4, <2>5 DEF Next
<1>. QED
  BY <1>1, <1>2, TypeCorrect, PTL DEF Spec

=============================================================================
