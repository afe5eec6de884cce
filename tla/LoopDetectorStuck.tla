-------------------------- MODULE LoopDetectorStuck --------------------------
(***************************************************************************)
(* Proofs that IsStuckInLoop answers "stuck" exactly when the agent is     *)
(* looping: StuckOnlyWhenLooping (soundness) and StuckDetectedWithinWindow *)
(* (completeness), for every value of the constants.  The run             *)
(* loopdetector checks both on a small instance.                           *)
(***************************************************************************)
EXTENDS LoopDetectorProofs, WellFoundedInduction

(* metrics.last_progress is the time of the latest progress-class record   *)
(* since the last ResetProgress, or 0 if there is none; every record was   *)
(* logged at a time no later than now, and now is never 0.                 *)
ProgressTracked ==
    /\ metrics.last_progress <= now
    /\ \A i \in 1..Len(log) :
          /\ log[i].at <= now
          /\ log[i].action_type \in ProgressTypes =>
                0 < log[i].at /\ log[i].at <= metrics.last_progress
    /\ metrics.last_progress # 0 =>
          \E i \in 1..Len(log) : /\ log[i].action_type \in ProgressTypes
                                 /\ log[i].at = metrics.last_progress

(* Every step keeps ProgressTracked: RecordAction logs its record at the   *)
(* time it sets LastProgress to (for a progress-class action), Tick only   *)
(* moves now forward, and ResetProgress clears the log and the metrics     *)
(* together.                                                               *)
LEMMA ProgressTrackedStep ==
    TypeOK /\ ProgressTracked /\ [Next]_vars => ProgressTracked'
<1> SUFFICES ASSUME TypeOK, ProgressTracked, [Next]_vars
             PROVE  ProgressTracked'
  OBVIOUS
<1>. USE DEF TypeOK, ProgressMetrics
<1>1. ASSUME NEW a \in Actions, RecordAction(a) PROVE ProgressTracked'
  <2> DEFINE lp == metrics.last_progress
             e == [action_type |-> a.type, progress_key |-> generateProgressKey(a),
                   at |-> now]
  <2>1. /\ log' = Append(log, e)
        /\ metrics'.last_progress = IF a.type \in ProgressTypes THEN now ELSE lp
        /\ now' = now
    BY <1>1 DEF RecordAction, updateProgressMetrics
  <2>2. /\ Len(log') = Len(log) + 1
        /\ \A i \in 1..Len(log) : log'[i] = log[i]
        /\ log'[Len(log) + 1] = e
    BY <2>1, AppendProperties
  <2>3. /\ lp \in Nat /\ now \in Nat \ {0} /\ lp <= now
        /\ metrics'.last_progress \in Nat /\ lp <= metrics'.last_progress
        /\ metrics'.last_progress <= now'
    BY <2>1 DEF ProgressTracked
  <2>4. ASSUME NEW i \in 1..Len(log')
        PROVE  /\ log'[i].at <= now'
               /\ log'[i].action_type \in ProgressTypes =>
                     0 < log'[i].at /\ log'[i].at <= metrics'.last_progress
    <3>1. CASE i = Len(log) + 1
      BY <2>1, <2>2, <2>3, <3>1
    <3>2. CASE i \in 1..Len(log)
      <4>1. log[i] \in LogEntry
        BY <3>2, ElementOfSeq
      <4>2. /\ log[i].at <= now
            /\ log[i].action_type \in ProgressTypes =>
                  0 < log[i].at /\ log[i].at <= lp
        BY <3>2 DEF ProgressTracked
      <4>. QED
        BY <2>1, <2>2, <2>3, <3>2, <4>1, <4>2 DEF LogEntry
    <3>. QED
      BY <2>2, <3>1, <3>2
  <2>5. metrics'.last_progress # 0 =>
           \E i \in 1..Len(log') : /\ log'[i].action_type \in ProgressTypes
                                   /\ log'[i].at = metrics'.last_progress
    <3>1. CASE a.type \in ProgressTypes
      BY <2>1, <2>2, <3>1
    <3>2. CASE a.type \notin ProgressTypes
      BY <2>1, <2>2, <3>2 DEF ProgressTracked
    <3>. QED
      BY <3>1, <3>2
  <2>. QED
    BY <2>3, <2>4, <2>5 DEF ProgressTracked
<1>2. ASSUME NEW t \in ThresholdInputs, SetRepeatThreshold(t) PROVE ProgressTracked'
  BY <1>2 DEF SetRepeatThreshold, ProgressTracked
<1>3. CASE ResetProgress
  BY <1>3 DEF ResetProgress, ProgressTracked, ZeroMetrics
<1>4. CASE Tick
  <2>1. /\ now' = now + 1 /\ log' = log /\ metrics' = metrics
    BY <1>4 DEF Tick
  <2>2. \A i \in 1..Len(log) : log[i] \in LogEntry
    BY ElementOfSeq
  <2>3. metrics.last_progress <= now'
    BY <2>1 DEF ProgressTracked
  <2>4. ASSUME NEW i \in 1..Len(log)
        PROVE  /\ log[i].at <= now'
               /\ log[i].action_type \in ProgressTypes =>
                     0 < log[i].at /\ log[i].at <= metrics.last_progress
    <3>1. /\ log[i].at <= now /\ log[i].at \in Nat
          /\ log[i].action_type \in ProgressTypes =>
                0 < log[i].at /\ log[i].at <= metrics.last_progress
      BY <2>2 DEF ProgressTracked, LogEntry
    <3>. QED
      BY <2>1, <3>1
  <2>5. (metrics.last_progress # 0 =>
           \E i \in 1..Len(log) : /\ log[i].action_type \in ProgressTypes
                                  /\ log[i].at = metrics.last_progress)
    BY DEF ProgressTracked
  <2>. QED
    BY <2>1, <2>3, <2>4, <2>5 DEF ProgressTracked
<1>5. CASE UNCHANGED vars
  BY <1>5 DEF vars, ProgressTracked
<1>. QED
  BY <1>1, <1>2, <1>3, <1>4, <1>5 DEF Next

(* ProgressTracked holds in every reachable state.                         *)
LEMMA ProgressTrackedHolds == Spec => []ProgressTracked
<1>1. Init => ProgressTracked
  BY DEF Init, ProgressTracked, ZeroMetrics
<1>. QED
  BY <1>1, ProgressTrackedStep, TypeCorrect, PTL DEF Spec

(* The arithmetic of RecentProgressMatches: a record at time a with        *)
(* 0 < a <= lp <= now and now - a < T makes lp nonzero and recent.        *)
LEMMA RecentBound ==
    ASSUME NEW a \in Int, NEW lp \in Int, NEW n \in Int, NEW T \in Int,
           0 < a, a <= lp, lp <= n, n - a < T
    PROVE  lp # 0 /\ n - lp < T
  OBVIOUS

(* hasRecentProgress, computed from the metrics, is exactly "a progress-   *)
(* class action was recorded less than ProgressTimeout ago".               *)
LEMMA RecentProgressMatches ==
    ASSUME TypeOK, ProgressTracked
    PROVE  hasRecentProgress <=> RecentProgressInLog
<1>. USE DEF TypeOK, ProgressMetrics
<1>1. \A i \in 1..Len(log) : log[i] \in LogEntry
  BY ElementOfSeq
<1>2. hasRecentProgress => RecentProgressInLog
  BY <1>1 DEF hasRecentProgress, RecentProgressInLog, ProgressTracked, LogEntry
<1>3. RecentProgressInLog => hasRecentProgress
  <2> SUFFICES ASSUME RecentProgressInLog PROVE hasRecentProgress
    OBVIOUS
  <2>1. PICK i \in 1..Len(log) : /\ log[i].action_type \in ProgressTypes
                                 /\ now - log[i].at < ProgressTimeout
    BY DEF RecentProgressInLog
  <2>2. /\ 0 < log[i].at /\ log[i].at <= metrics.last_progress
        /\ metrics.last_progress <= now /\ log[i].at \in Nat
    BY <1>1, <2>1 DEF ProgressTracked, LogEntry
  <2>3. /\ metrics.last_progress \in Nat /\ now \in Nat
        /\ ProgressTimeout \in Nat
    BY LoopDetectorAssumption
  <2>4. /\ metrics.last_progress # 0
        /\ now - metrics.last_progress < ProgressTimeout
    <3>1. /\ log[i].at \in Int /\ metrics.last_progress \in Int
          /\ now \in Int /\ ProgressTimeout \in Int
      BY <2>2, <2>3
    <3>2. /\ 0 < log[i].at /\ log[i].at <= metrics.last_progress
          /\ metrics.last_progress <= now
          /\ now - log[i].at < ProgressTimeout
      BY <2>1, <2>2
    <3>. QED
      BY <3>1, <3>2, RecentBound, Zenon
  <2>. QED
    BY <2>4 DEF hasRecentProgress
<1>. QED
  BY <1>2, <1>3


-----------------------------------------------------------------------------
(* A nonempty set of naturals has a least element, and a nonempty set of   *)
(* naturals below a bound a greatest one.                                  *)
LEMMA NatMinExists ==
    ASSUME NEW T \in SUBSET Nat, T # {}
    PROVE  \E x \in T : \A y \in T : x <= y
<1>1. PICK x \in T : \A y \in T : ~(<<y, x>> \in OpToRel(<, Nat))
  BY NatLessThanWellFounded, WFMin
<1>2. \A y \in T : ~(y < x)
  BY <1>1 DEF OpToRel
<1>. QED
  BY <1>2

LEMMA NatMaxExists ==
    ASSUME NEW n \in Nat, NEW T \in SUBSET (0..n), T # {}
    PROVE  \E x \in T : \A y \in T : y <= x
<1>0. {n - y : y \in T} \in SUBSET Nat /\ {n - y : y \in T} # {}
  <2>1. \A y \in T : n - y \in Nat
    OBVIOUS
  <2>. QED
    BY <2>1
<1>1. PICK d \in {n - y : y \in T} : \A z \in {n - y : y \in T} : d <= z
  BY <1>0, NatMinExists
<1>2. PICK x \in T : d = n - x
  BY <1>1
<1>3. \A y \in T : n - x <= n - y
  BY <1>1, <1>2
<1>. QED
  BY <1>3

(* LastN on a sequence of any kind of element.                             *)
LEMMA LastNOf ==
    ASSUME NEW S, NEW s \in Seq(S), NEW n \in Nat \ {0}
    PROVE  /\ LastN(s, n) \in Seq(S)
           /\ Len(LastN(s, n)) = IF Len(s) <= n THEN Len(s) ELSE n
           /\ \A i \in 1..Len(LastN(s, n)) :
                  LastN(s, n)[i] = s[Len(s) - Len(LastN(s, n)) + i]
<1>1. CASE Len(s) <= n
  BY <1>1 DEF LastN
<1>2. CASE ~(Len(s) <= n)
  <2>1. /\ SubSeq(s, Len(s) - n + 1, Len(s)) \in Seq(S)
        /\ Len(SubSeq(s, Len(s) - n + 1, Len(s))) = n
        /\ \A i \in 1..n : SubSeq(s, Len(s) - n + 1, Len(s))[i] = s[Len(s) - n + i]
    BY <1>2, SubSeqProperties
  <2>. QED
    BY <1>2, <2>1 DEF LastN
<1>. QED
  BY <1>1, <1>2

(* The window findRepeatedPattern examines: the last RecentWindow records  *)
(* of the stored history carry the progress keys of the last RecentWindow *)
(* records of the log, position by position, because RecentWindow is no   *)
(* larger than HistoryLimit.                                               *)
LEMMA RecentWindowOfLog ==
    ASSUME TypeOK, HistoryIsRecentLog
    PROVE  /\ LastN(history, RecentWindow) \in Seq(ActionRecord)
           /\ Len(LastN(history, RecentWindow)) = Len(LastN(log, RecentWindow))
           /\ Len(LastN(log, RecentWindow))
                = IF Len(log) <= RecentWindow THEN Len(log) ELSE RecentWindow
           /\ \A m \in 1..Len(LastN(log, RecentWindow)) :
                 /\ LastN(history, RecentWindow)[m].progress_key
                      = LastN(log, RecentWindow)[m].progress_key
                 /\ LastN(log, RecentWindow)[m]
                      = log[Len(log) - Len(LastN(log, RecentWindow)) + m]
<1>. USE LoopDetectorAssumption DEF TypeOK
<1>1. /\ LastN(history, RecentWindow) \in Seq(ActionRecord)
      /\ Len(LastN(history, RecentWindow))
           = IF Len(history) <= RecentWindow THEN Len(history) ELSE RecentWindow
      /\ \A i \in 1..Len(LastN(history, RecentWindow)) :
            LastN(history, RecentWindow)[i]
              = history[Len(history) - Len(LastN(history, RecentWindow)) + i]
  <2>1. history \in Seq(ActionRecord) /\ RecentWindow \in Nat \ {0}
    OBVIOUS
  <2>. QED
    BY <2>1, LastNProperties, Zenon
<1>2. /\ Len(LastN(log, RecentWindow))
           = IF Len(log) <= RecentWindow THEN Len(log) ELSE RecentWindow
      /\ \A i \in 1..Len(LastN(log, RecentWindow)) :
            LastN(log, RecentWindow)[i]
              = log[Len(log) - Len(LastN(log, RecentWindow)) + i]
  <2>1. log \in Seq(LogEntry) /\ RecentWindow \in Nat \ {0}
    OBVIOUS
  <2>. QED
    BY <2>1, LastNOf, Zenon
<1>3. /\ Len(history) = IF Len(log) <= HistoryLimit THEN Len(log) ELSE HistoryLimit
      /\ \A i \in 1..Len(history) :
            history[i] = Strip(log[Len(log) - Len(history) + i])
  BY DEF HistoryIsRecentLog
<1>4. Len(LastN(history, RecentWindow)) = Len(LastN(log, RecentWindow))
  BY <1>1, <1>2, <1>3
<1>5. ASSUME NEW m \in 1..Len(LastN(log, RecentWindow))
      PROVE  LastN(history, RecentWindow)[m].progress_key
               = LastN(log, RecentWindow)[m].progress_key
  <2>0. /\ Len(history) \in Nat /\ Len(log) \in Nat
        /\ Len(LastN(log, RecentWindow)) <= Len(history)
    BY <1>2, <1>3
  <2>1. /\ Len(history) - Len(LastN(log, RecentWindow)) + m \in 1..Len(history)
        /\ Len(log) - Len(history)
             + (Len(history) - Len(LastN(log, RecentWindow)) + m)
           = Len(log) - Len(LastN(log, RecentWindow)) + m
    BY <2>0
  <2>2. LastN(history, RecentWindow)[m]
          = Strip(log[Len(log) - Len(LastN(log, RecentWindow)) + m])
    BY <1>1, <1>3, <1>4, <2>1
  <2>3. LastN(log, RecentWindow)[m]
          = log[Len(log) - Len(LastN(log, RecentWindow)) + m]
    BY <1>2
  <2>. QED
    BY <2>2, <2>3 DEF Strip
<1>. QED
  BY <1>1, <1>2, <1>4, <1>5


-----------------------------------------------------------------------------
(* A run patternCounts counts lies inside the sequence, is at least the    *)
(* threshold long, and every record in it has the run's key.               *)
LEMMA LongRunFacts ==
    ASSUME NEW s \in Seq(ActionRecord), NEW r \in LongRuns(s)
    PROVE  /\ r[1] \in 1..Len(s) /\ r[2] \in r[1]..Len(s)
           /\ r[2] - r[1] + 1 >= threshold
           /\ \A m \in r[1]..r[2] : s[m].progress_key = RunKey(s, r)
  BY DEF LongRuns, Runs, IsRun, RunKey

(* Every key in patternCounts is counted with the length of one of its    *)
(* long runs: the last one exists, as the starts of its runs form a       *)
(* nonempty set of naturals below Len(s), which has a greatest element.   *)
LEMMA PatternCountWitness ==
    ASSUME NEW s \in Seq(ActionRecord), NEW k \in DOMAIN patternCounts(s)
    PROVE  \E r \in LongRuns(s) : /\ RunKey(s, r) = k
                                  /\ patternCounts(s)[k] = r[2] - r[1] + 1
<1>1. k \in {RunKey(s, r) : r \in LongRuns(s)}
  BY DEF patternCounts
<1>2. \E r0 \in LongRuns(s) :
         /\ RunKey(s, r0) = k
         /\ \A q \in LongRuns(s) : RunKey(s, q) = k => q[1] <= r0[1]
  <2>1. /\ {q[1] : q \in {p \in LongRuns(s) : RunKey(s, p) = k}} \in SUBSET (0..Len(s))
        /\ {q[1] : q \in {p \in LongRuns(s) : RunKey(s, p) = k}} # {}
    BY <1>1, LongRunFacts
  <2>2. PICK m \in {q[1] : q \in {p \in LongRuns(s) : RunKey(s, p) = k}} :
           \A y \in {q[1] : q \in {p \in LongRuns(s) : RunKey(s, p) = k}} : y <= m
    <3>1. Len(s) \in Nat
      OBVIOUS
    <3>. QED
      BY <2>1, <3>1, NatMaxExists, Zenon
  <2>3. PICK r0 \in LongRuns(s) : RunKey(s, r0) = k /\ r0[1] = m
    BY <2>2
  <2>. QED
    BY <2>2, <2>3
<1>3. LET last == CHOOSE r \in LongRuns(s) :
                      /\ RunKey(s, r) = k
                      /\ \A q \in LongRuns(s) : RunKey(s, q) = k => q[1] <= r[1]
      IN  /\ last \in LongRuns(s) /\ RunKey(s, last) = k
          /\ patternCounts(s)[k] = last[2] - last[1] + 1
  BY <1>1, <1>2 DEF patternCounts
<1>. QED
  BY <1>3

(* If the last n records of s share a key, a maximal run of that key ends  *)
(* at the end of s and starts no later than Len(s) - n + 1: take the least *)
(* start from which every record has the last record's key.               *)
LEMMA RunAtEnd ==
    ASSUME NEW s \in Seq(ActionRecord), NEW n \in 1..Len(s),
           \A m \in (Len(s) - n + 1)..Len(s) :
               s[m].progress_key = s[Len(s)].progress_key
    PROVE  \E i \in 1..(Len(s) - n + 1) : IsRun(s, i, Len(s))
<1>1. /\ {i \in 1..Len(s) : \A m \in i..Len(s) :
                               s[m].progress_key = s[Len(s)].progress_key} \in SUBSET Nat
      /\ Len(s) - n + 1 \in {i \in 1..Len(s) : \A m \in i..Len(s) :
                               s[m].progress_key = s[Len(s)].progress_key}
  OBVIOUS
<1>2. PICK i0 \in {i \in 1..Len(s) : \A m \in i..Len(s) :
                      s[m].progress_key = s[Len(s)].progress_key} :
         \A y \in {i \in 1..Len(s) : \A m \in i..Len(s) :
                      s[m].progress_key = s[Len(s)].progress_key} : i0 <= y
  BY <1>1, NatMinExists
<1>3. i0 <= Len(s) - n + 1
  BY <1>1, <1>2
<1>4. i0 = 1 \/ s[i0 - 1].progress_key # s[i0].progress_key
  <2> SUFFICES ASSUME i0 # 1, s[i0 - 1].progress_key = s[i0].progress_key
               PROVE  FALSE
    OBVIOUS
  <2>1. i0 - 1 \in {i \in 1..Len(s) : \A m \in i..Len(s) :
                       s[m].progress_key = s[Len(s)].progress_key}
    BY <1>2
  <2>. QED
    BY <1>2, <2>1
<1>. QED
  BY <1>2, <1>3, <1>4 DEF IsRun


-----------------------------------------------------------------------------
(* findRepeatedPattern(h): the "no pattern" answer, or the keys of        *)
(* greatest count in the window with their counts.                         *)
LEMMA FindPatternCases ==
    ASSUME NEW h, NEW x \in findRepeatedPattern(h)
    PROVE  \/ /\ Len(h) < threshold \/ DOMAIN patternCounts(LastN(h, RecentWindow)) = {}
              /\ x = <<"", 0>>
           \/ /\ DOMAIN patternCounts(LastN(h, RecentWindow)) # {}
              /\ \E k \in DOMAIN patternCounts(LastN(h, RecentWindow)) :
                    x = <<k, patternCounts(LastN(h, RecentWindow))[k]>>
  BY Zenon DEF findRepeatedPattern

(* A pattern findRepeatedPattern reports with a count of at least the      *)
(* threshold is the key of a long run of the window, counted with its      *)
(* length; the "no pattern" answer has count 0, below any threshold.       *)
LEMMA FindPatternSound ==
    ASSUME TypeOK, NEW x \in findRepeatedPattern(history), x[2] >= threshold
    PROVE  \E q \in LongRuns(LastN(history, RecentWindow)) :
              /\ RunKey(LastN(history, RecentWindow), q) = x[1]
              /\ x[2] = q[2] - q[1] + 1
<1>. USE DEF TypeOK
<1>1. LastN(history, RecentWindow) \in Seq(ActionRecord)
  BY LastNProperties, LoopDetectorAssumption
<1>2. x # <<"", 0>>
  <2>1. x[2] # 0
    BY DEF TypeOK
  <2>2. <<"", 0>>[2] = 0
    OBVIOUS
  <2>. QED
    BY <2>1, <2>2, Zenon
<1>3. PICK k \in DOMAIN patternCounts(LastN(history, RecentWindow)) :
         x = <<k, patternCounts(LastN(history, RecentWindow))[k]>>
  BY <1>2, FindPatternCases, Zenon
<1>. QED
  BY <1>1, <1>3, PatternCountWitness

(* Once the window holds a long run, every answer of findRepeatedPattern   *)
(* has a count of at least the threshold: each count is a long run's       *)
(* length.                                                                 *)
LEMMA FindPatternComplete ==
    ASSUME TypeOK, Len(history) >= threshold,
           LongRuns(LastN(history, RecentWindow)) # {},
           NEW x \in findRepeatedPattern(history)
    PROVE  x[2] >= threshold
<1>. USE DEF TypeOK
<1>1. LastN(history, RecentWindow) \in Seq(ActionRecord)
  BY LastNProperties, LoopDetectorAssumption
<1>2. DOMAIN patternCounts(LastN(history, RecentWindow)) # {}
  BY DEF patternCounts
<1>3. PICK k \in DOMAIN patternCounts(LastN(history, RecentWindow)) :
         x = <<k, patternCounts(LastN(history, RecentWindow))[k]>>
  <2>1. ~(Len(history) < threshold)
    OBVIOUS
  <2>. QED
    BY <1>2, <2>1, FindPatternCases, Zenon
<1>4. PICK q \in LongRuns(LastN(history, RecentWindow)) :
         patternCounts(LastN(history, RecentWindow))[k] = q[2] - q[1] + 1
  BY <1>1, PatternCountWitness
<1>. QED
  BY <1>1, <1>3, <1>4, LongRunFacts


-----------------------------------------------------------------------------
(* IsStuckInLoop: "not stuck" without looking, or one of the answers      *)
(* findRepeatedPattern allows.                                             *)
LEMMA IsStuckCases ==
    ASSUME NEW r \in IsStuckInLoop
    PROVE  \/ /\ Len(history) < threshold * 2 \/ hasRecentProgress
              /\ r.stuck = FALSE
           \/ /\ ~(Len(history) < threshold * 2 \/ hasRecentProgress)
              /\ \E x \in findRepeatedPattern(history) :
                    r = [stuck |-> x[2] >= threshold, pattern |-> x[1], count |-> x[2]]
<1>1. CASE Len(history) < threshold * 2 \/ hasRecentProgress
  <2>1. r \in {[stuck |-> FALSE, pattern |-> "", count |-> 0]}
    BY <1>1, Zenon DEF IsStuckInLoop
  <2>2. r = [stuck |-> FALSE, pattern |-> "", count |-> 0]
    BY <2>1, Zenon
  <2>3. r.stuck = FALSE
    BY <2>2, Zenon
  <2>. QED
    BY <1>1, <2>3, Zenon
<1>2. CASE ~(Len(history) < threshold * 2 \/ hasRecentProgress)
  <2>1. r \in {[stuck |-> x[2] >= threshold, pattern |-> x[1], count |-> x[2]] :
                 x \in findRepeatedPattern(history)}
    BY <1>2, Zenon DEF IsStuckInLoop
  <2>. QED
    BY <1>2, <2>1, Zenon
<1>. QED
  BY <1>1, <1>2

(* In every state where the history is the recent log and LastProgress     *)
(* tracks the log, a "stuck" answer is sound.                              *)
LEMMA StuckSound ==
    ASSUME TypeOK, HistoryIsRecentLog, ProgressTracked
    PROVE  StuckOnlyWhenLooping
<1> SUFFICES ASSUME NEW r \in IsStuckInLoop, r.stuck
             PROVE  /\ Len(log) >= 2 * threshold
                    /\ r.count >= threshold
                    /\ RepeatedInRecent(r.pattern, r.count)
                    /\ ~RecentProgressInLog
  BY DEF StuckOnlyWhenLooping
<1>. USE DEF TypeOK
<1>1. ~(Len(history) < threshold * 2 \/ hasRecentProgress)
  BY IsStuckCases, Zenon
<1>2. PICK x \in findRepeatedPattern(history) :
         r = [stuck |-> x[2] >= threshold, pattern |-> x[1], count |-> x[2]]
  BY <1>1, IsStuckCases, Zenon
<1>3. x[2] >= threshold
  BY <1>2
<1>4. Len(log) >= 2 * threshold
  BY <1>1 DEF HistoryIsRecentLog
<1>5. RepeatedInRecent(x[1], x[2])
  <2>1. PICK q \in LongRuns(LastN(history, RecentWindow)) :
           /\ RunKey(LastN(history, RecentWindow), q) = x[1]
           /\ x[2] = q[2] - q[1] + 1
    BY <1>3, FindPatternSound
  <2>2. /\ LastN(history, RecentWindow) \in Seq(ActionRecord)
        /\ Len(LastN(history, RecentWindow)) = Len(LastN(log, RecentWindow))
        /\ \A m \in 1..Len(LastN(log, RecentWindow)) :
              LastN(history, RecentWindow)[m].progress_key
                = LastN(log, RecentWindow)[m].progress_key
    BY RecentWindowOfLog
  <2>3. /\ q[1] \in 1..Len(LastN(history, RecentWindow))
        /\ q[2] \in q[1]..Len(LastN(history, RecentWindow))
        /\ \A m \in q[1]..q[2] :
              LastN(history, RecentWindow)[m].progress_key = x[1]
    BY <2>1, <2>2, LongRunFacts
  <2>4. /\ q[1] \in 1..Len(LastN(log, RecentWindow))
        /\ q[1] + x[2] - 1 <= Len(LastN(log, RecentWindow))
        /\ \A m \in q[1]..(q[1] + x[2] - 1) :
              LastN(log, RecentWindow)[m].progress_key = x[1]
    BY <2>1, <2>2, <2>3
  <2>. QED
    BY <2>4 DEF RepeatedInRecent
<1>6. ~RecentProgressInLog
  BY <1>1, RecentProgressMatches
<1>. QED
  BY <1>2, <1>3, <1>4, <1>5, <1>6


(* In the same states, with a threshold no larger than the window, the     *)
(* query cannot miss a loop: the last threshold records, identical in the  *)
(* log, are the end of a long run of the window findRepeatedPattern reads. *)
LEMMA StuckComplete ==
    ASSUME TypeOK, HistoryIsRecentLog, ProgressTracked
    PROVE  StuckDetectedWithinWindow
<1> SUFFICES ASSUME threshold <= RecentWindow,
                    Len(history) >= 2 * threshold,
                    EndsWithRepeat(threshold),
                    ~RecentProgressInLog,
                    NEW r \in IsStuckInLoop
             PROVE  r.stuck
  BY DEF StuckDetectedWithinWindow, StuckDetected
<1>. USE DEF TypeOK
<1>1. ~(Len(history) < threshold * 2 \/ hasRecentProgress)
  BY RecentProgressMatches
<1>2. PICK x \in findRepeatedPattern(history) :
         r = [stuck |-> x[2] >= threshold, pattern |-> x[1], count |-> x[2]]
  BY <1>1, IsStuckCases, Zenon
<1>3. LongRuns(LastN(history, RecentWindow)) # {}
  <2>1. /\ LastN(history, RecentWindow) \in Seq(ActionRecord)
        /\ Len(LastN(history, RecentWindow)) = Len(LastN(log, RecentWindow))
        /\ Len(LastN(log, RecentWindow))
             = IF Len(log) <= RecentWindow THEN Len(log) ELSE RecentWindow
        /\ \A m \in 1..Len(LastN(log, RecentWindow)) :
              /\ LastN(history, RecentWindow)[m].progress_key
                   = LastN(log, RecentWindow)[m].progress_key
              /\ LastN(log, RecentWindow)[m]
                   = log[Len(log) - Len(LastN(log, RecentWindow)) + m]
    BY RecentWindowOfLog
  <2>2. /\ Len(log) >= Len(history)
        /\ Len(LastN(log, RecentWindow)) \in threshold..Len(log)
    BY <2>1, LoopDetectorAssumption DEF HistoryIsRecentLog
  <2>3. \A m \in (Len(LastN(log, RecentWindow)) - threshold + 1)
                   ..Len(LastN(log, RecentWindow)) :
           LastN(history, RecentWindow)[m].progress_key = log[Len(log)].progress_key
    <3> TAKE m \in (Len(LastN(log, RecentWindow)) - threshold + 1)
                   ..Len(LastN(log, RecentWindow))
    <3>1. Len(log) - Len(LastN(log, RecentWindow)) + m
            \in (Len(log) - threshold + 1)..Len(log)
      BY <2>2
    <3>2. m \in 1..Len(LastN(log, RecentWindow))
      BY <2>2
    <3>3. LastN(history, RecentWindow)[m].progress_key
            = log[Len(log) - Len(LastN(log, RecentWindow)) + m].progress_key
      BY <2>1, <3>2
    <3>4. log[Len(log) - Len(LastN(log, RecentWindow)) + m].progress_key
            = log[Len(log)].progress_key
      BY <3>1 DEF EndsWithRepeat
    <3>. QED
      BY <3>3, <3>4
  <2>4. PICK i \in 1..(Len(LastN(history, RecentWindow)) - threshold + 1) :
           IsRun(LastN(history, RecentWindow), i, Len(LastN(history, RecentWindow)))
    <3>1. threshold \in 1..Len(LastN(history, RecentWindow))
      BY <2>1, <2>2
    <3>2. \A m \in (Len(LastN(history, RecentWindow)) - threshold + 1)
                     ..Len(LastN(history, RecentWindow)) :
             LastN(history, RecentWindow)[m].progress_key
               = LastN(history, RecentWindow)[Len(LastN(history, RecentWindow))].progress_key
      <4>1. Len(LastN(history, RecentWindow))
              \in (Len(LastN(history, RecentWindow)) - threshold + 1)
                    ..Len(LastN(history, RecentWindow))
        BY <3>1
      <4>. QED
        BY <2>1, <2>3, <4>1
    <3>. QED
      BY <2>1, <3>1, <3>2, RunAtEnd
  <2>5. <<i, Len(LastN(history, RecentWindow))>> \in LongRuns(LastN(history, RecentWindow))
    BY <2>1, <2>2, <2>4 DEF LongRuns, Runs
  <2>. QED
    BY <2>5
<1>4. x[2] >= threshold
  BY <1>3, FindPatternComplete
<1>. QED
  BY <1>2, <1>4

-----------------------------------------------------------------------------
(* IsStuckInLoop never reports a bead stuck unless the agent really has     *)
(* repeated one action at least threshold times in a row among its last    *)
(* RecentWindow actions, has recorded at least 2 * threshold actions since *)
(* the last ResetProgress, and has made no progress-class action within    *)
(* ProgressTimeout -- for every history limit, window, timeout and         *)
(* threshold.                                                              *)
THEOREM StuckOnlyWhenLoopingInvariant == Spec => []StuckOnlyWhenLooping
<1>1. TypeOK /\ HistoryIsRecentLog /\ ProgressTracked => StuckOnlyWhenLooping
  BY StuckSound
<1>. QED
  BY <1>1, TypeCorrect, HistoryIsRecentLogInvariant, ProgressTrackedHolds, PTL

(* Whenever the threshold is no larger than the window RecentWindow, a     *)
(* bead whose last threshold actions are identical, with 2 * threshold     *)
(* records and no recent progress, is always reported stuck.  For a       *)
(* larger threshold findRepeatedPattern never sees a full run.             *)
THEOREM StuckDetectedWithinWindowInvariant == Spec => []StuckDetectedWithinWindow
<1>1. TypeOK /\ HistoryIsRecentLog /\ ProgressTracked => StuckDetectedWithinWindow
  BY StuckComplete
<1>. QED
  BY <1>1, TypeCorrect, HistoryIsRecentLogInvariant, ProgressTrackedHolds, PTL

=============================================================================
