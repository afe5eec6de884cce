---------------------------- MODULE LoopDetector ----------------------------
(***************************************************************************)
(* The loop detector of the dispatcher (internal/dispatch/loop_detector.go)*)
(* for one bead.  The bead's context holds the JSON-encoded action history *)
(* and progress metrics; here they are the variables history and metrics. *)
(* RecordAction appends a record, truncates the history to the last       *)
(* HistoryLimit entries and updates the progress metrics; IsStuckInLoop is *)
(* a query over that state.  Wall-clock time is a natural number advanced  *)
(* by Tick; time 0 is Go's zero time.Time.                                 *)
(*                                                                         *)
(* log is a ghost variable: every record stored since the last             *)
(* ResetProgress, with the time it was recorded.  The code keeps no such   *)
(* log; the properties use it to say what the detector's verdict means in  *)
(* terms of what the agent really did.                                     *)
(***************************************************************************)
EXTENDS Integers, Sequences, FiniteSets

CONSTANTS
    Actions,          \* the actions an agent may take: [type, data] records
    Targets,          \* values of data.file_path and data.command
    DataPrints,       \* fmt %v renderings of an ActionData map
    Absent,           \* a key missing from ActionData
    HistoryLimit,     \* history kept in the context (50 in the code)
    RecentWindow,     \* records examined by findRepeatedPattern (15)
    ProgressTimeout,  \* hasRecentProgress window (5 minutes)
    DefaultThreshold, \* repeatThreshold set by NewLoopDetector (3)
    ThresholdInputs   \* arguments SetRepeatThreshold may be called with

ASSUME LoopDetectorAssumption ==
    /\ HistoryLimit \in Nat \ {0}
    /\ RecentWindow \in 1..HistoryLimit
    /\ ProgressTimeout \in Nat \ {0}
    /\ DefaultThreshold \in Nat /\ DefaultThreshold >= 2
    /\ ThresholdInputs \subseteq Int
    /\ Absent \notin Targets
    /\ DataPrints \cap Targets = {}

VARIABLES
    history,   \* bead.Context["action_history"]: the stored ActionRecords
    metrics,   \* bead.Context["progress_metrics"]: the ProgressMetrics
    threshold, \* ld.repeatThreshold
    now,       \* wall clock (time.Now())
    log        \* ghost: records stored since the last ResetProgress

vars == <<history, metrics, threshold, now, log>>

-----------------------------------------------------------------------------
(* Action classes of updateProgressMetrics (the switch on ActionType).     *)
ReadTypes    == {"read_file", "glob", "grep"}
ModifyTypes  == {"edit_file", "write_file"}
TestTypes    == {"run_tests", "test"}
CommandTypes == {"bash", "execute"}
ProgressTypes == ReadTypes \cup ModifyTypes \cup TestTypes \cup CommandTypes

(* generateProgressKey: type + ":" + target, hashed.  data.command is      *)
(* checked after data.file_path and overwrites it, so it takes priority.   *)
(* Without either, the rendering of the whole data map (fmt %v, data.print *)
(* here) is the target.  The 8-byte SHA-256 prefix is taken to be         *)
(* injective on these strings, so the key is the pair it is hashed from.  *)
generateProgressKey(a) ==
    IF a.data.command # Absent THEN <<a.type, a.data.command>>
    ELSE IF a.data.file_path # Absent THEN <<a.type, a.data.file_path>>
    ELSE <<a.type, a.data.print>>

Keys == {generateProgressKey(a) : a \in Actions}

ActionRecord == [action_type : {a.type : a \in Actions}, progress_key : Keys]

Record(a) == [action_type |-> a.type, progress_key |-> generateProgressKey(a)]

ProgressMetrics ==
    [files_read : Nat, files_modified : Nat, tests_run : Nat,
     commands_executed : Nat, last_progress : Nat]

ZeroMetrics ==
    [files_read |-> 0, files_modified |-> 0, tests_run |-> 0,
     commands_executed |-> 0, last_progress |-> 0]

(* history[len(history)-n:] when longer than n.                            *)
LastN(s, n) == IF Len(s) <= n THEN s ELSE SubSeq(s, Len(s) - n + 1, Len(s))

-----------------------------------------------------------------------------
(* The query IsStuckInLoop and its helpers.                                *)

(* Fault variant: the progress window one time unit short.                 *)
hasRecentProgressShort ==
    /\ metrics.last_progress # 0
    /\ now - metrics.last_progress < ProgressTimeout - 1

(* hasRecentProgress: LastProgress is set and less than the timeout ago.   *)
hasRecentProgress ==
    /\ metrics.last_progress # 0
    /\ now - metrics.last_progress < ProgressTimeout

(* A maximal run of equal progress keys in s: positions i..j.              *)
IsRun(s, i, j) ==
    /\ 1 <= i /\ i <= j /\ j <= Len(s)
    /\ \A m \in i..j : s[m].progress_key = s[i].progress_key
    /\ i = 1 \/ s[i-1].progress_key # s[i].progress_key
    /\ j = Len(s) \/ s[j+1].progress_key # s[i].progress_key

Runs(s) == {p \in (1..Len(s)) \X (1..Len(s)) : IsRun(s, p[1], p[2])}

(* Fault variant: runs must exceed the threshold instead of reaching it.  *)
LongRunsStrict(s) == {r \in Runs(s) : r[2] - r[1] + 1 > threshold}

(* patternCounts of findRepeatedPattern: a run of at least the threshold   *)
(* is stored under its key when it ends, so a key maps to the length of    *)
(* its LAST such run, not its longest.                                      *)
LongRuns(s) == {r \in Runs(s) : r[2] - r[1] + 1 >= threshold}
RunKey(s, r) == s[r[1]].progress_key
patternCounts(s) ==
    [k \in {RunKey(s, r) : r \in LongRuns(s)} |->
        LET last == CHOOSE r \in LongRuns(s) :
                        /\ RunKey(s, r) = k
                        /\ \A q \in LongRuns(s) : RunKey(s, q) = k => q[1] <= r[1]
        IN  last[2] - last[1] + 1]

(* findRepeatedPattern over the last RecentWindow records: the possible    *)
(* <<pattern, count>> results.  Among keys of equal count the one returned *)
(* depends on Go's map iteration order, so every one of them is possible.  *)
findRepeatedPattern(h) ==
    LET recent == LastN(h, RecentWindow)
        pc     == patternCounts(recent)
    IN  IF Len(h) < threshold \/ DOMAIN pc = {} THEN {<<"", 0>>}
        ELSE {<<k, pc[k]>> : k \in {k \in DOMAIN pc :
                                     \A k2 \in DOMAIN pc : pc[k2] <= pc[k]}}

(* IsStuckInLoop: the possible (stuck, pattern, count) answers.            *)
IsStuckInLoop ==
    IF Len(history) < threshold * 2 \/ hasRecentProgress
    THEN {[stuck |-> FALSE, pattern |-> "", count |-> 0]}
    ELSE {[stuck |-> r[2] >= threshold, pattern |-> r[1], count |-> r[2]] :
            r \in findRepeatedPattern(history)}

-----------------------------------------------------------------------------
Init ==
    /\ history = <<>>
    /\ metrics = ZeroMetrics
    /\ threshold = DefaultThreshold
    /\ now = 1
    /\ log = <<>>

(* updateProgressMetrics: bump the counter of the action's class and, if   *)
(* one was bumped, set LastProgress to the current time.                   *)
updateProgressMetrics(m, a) ==
    LET t == a.type IN
    [files_read        |-> m.files_read        + (IF t \in ReadTypes THEN 1 ELSE 0),
     files_modified    |-> m.files_modified    + (IF t \in ModifyTypes THEN 1 ELSE 0),
     tests_run         |-> m.tests_run         + (IF t \in TestTypes THEN 1 ELSE 0),
     commands_executed |-> m.commands_executed + (IF t \in CommandTypes THEN 1 ELSE 0),
     last_progress     |-> IF t \in ProgressTypes THEN now ELSE m.last_progress]

(* Fault variant: history truncated to one record less than the limit.    *)
RecordActionShortHistory(a) ==
    /\ history' = LastN(Append(history, Record(a)), HistoryLimit - 1)
    /\ metrics' = updateProgressMetrics(metrics, a)
    /\ log' = Append(log, [action_type |-> a.type,
                           progress_key |-> generateProgressKey(a), at |-> now])
    /\ UNCHANGED <<threshold, now>>

(* RecordAction: compute the key, append, keep the last HistoryLimit,      *)
(* store, then update the metrics.                                          *)
RecordAction(a) ==
    /\ history' = LastN(Append(history, Record(a)), HistoryLimit)
    /\ metrics' = updateProgressMetrics(metrics, a)
    /\ log' = Append(log, [action_type |-> a.type,
                           progress_key |-> generateProgressKey(a), at |-> now])
    /\ UNCHANGED <<threshold, now>>

(* Fault variant: the clamp to 2 dropped.                                 *)
SetRepeatThresholdUnclamped(t) ==
    /\ threshold' = t
    /\ UNCHANGED <<history, metrics, now, log>>

(* SetRepeatThreshold: values below 2 are raised to 2.                     *)
SetRepeatThreshold(t) ==
    /\ threshold' = IF t < 2 THEN 2 ELSE t
    /\ UNCHANGED <<history, metrics, now, log>>

(* ResetProgress: delete both context keys.                                *)
ResetProgress ==
    /\ history' = <<>>
    /\ metrics' = ZeroMetrics
    /\ log' = <<>>
    /\ UNCHANGED <<threshold, now>>

(* Time passes between dispatcher calls.                                   *)
Tick ==
    /\ now' = now + 1
    /\ UNCHANGED <<history, metrics, threshold, log>>

Next ==
    \/ \E a \in Actions : RecordAction(a)
    \/ \E t \in ThresholdInputs : SetRepeatThreshold(t)
    \/ ResetProgress
    \/ Tick

Spec == Init /\ [][Next]_vars

-----------------------------------------------------------------------------
LogEntry == [action_type : {a.type : a \in Actions}, progress_key : Keys,
             at : Nat]

(* Type invariant.                                                         *)
TypeOK ==
    /\ history \in Seq(ActionRecord)
    /\ metrics \in ProgressMetrics
    /\ threshold \in Nat /\ threshold >= 2
    /\ now \in Nat \ {0}
    /\ log \in Seq(LogEntry)

Strip(e) == [action_type |-> e.action_type, progress_key |-> e.progress_key]

(* The stored history is exactly the last HistoryLimit actions recorded    *)
(* since the last reset, in order: RecordAction's append-then-truncate     *)
(* never drops a recent record, keeps an old one, or reorders them.        *)
HistoryIsRecentLog ==
    /\ Len(history) = IF Len(log) <= HistoryLimit THEN Len(log) ELSE HistoryLimit
    /\ \A i \in 1..Len(history) :
           history[i] = Strip(log[Len(log) - Len(history) + i])

(* A progress-class action was recorded less than ProgressTimeout ago.     *)
RecentProgressInLog ==
    \E i \in 1..Len(log) :
        /\ log[i].action_type \in ProgressTypes
        /\ now - log[i].at < ProgressTimeout

(* positions i..j of the last RecentWindow log records all carry key k.    *)
RepeatedInRecent(k, n) ==
    LET recent == LastN(log, RecentWindow)
    IN  \E i \in 1..Len(recent) :
            /\ i + n - 1 <= Len(recent)
            /\ \A m \in i..(i + n - 1) : recent[m].progress_key = k

(* Soundness of IsStuckInLoop: a bead is reported stuck only if it has at  *)
(* least 2*threshold records, the reported key really was repeated count   *)
(* >= threshold times in a row among the last RecentWindow actions, and no *)
(* progress-class action was recorded within ProgressTimeout.              *)
StuckOnlyWhenLooping ==
    \A r \in IsStuckInLoop :
        r.stuck =>
            /\ Len(log) >= 2 * threshold
            /\ r.count >= threshold
            /\ RepeatedInRecent(r.pattern, r.count)
            /\ ~RecentProgressInLog

(* The last n recorded actions all have the same progress key.             *)
EndsWithRepeat(n) ==
    /\ Len(log) >= n
    /\ \A m \in (Len(log) - n + 1)..Len(log) :
           log[m].progress_key = log[Len(log)].progress_key

(* Completeness of IsStuckInLoop: once there are 2*threshold records, the *)
(* last threshold of them identical, and no progress-class action within  *)
(* ProgressTimeout, every answer the query can give is "stuck".  The spec *)
(* (4.1) promises this for every threshold SetRepeatThreshold accepts.    *)
StuckDetected ==
    ( /\ Len(history) >= 2 * threshold
      /\ EndsWithRepeat(threshold)
      /\ ~RecentProgressInLog )
    => \A r \in IsStuckInLoop : r.stuck

(* The same for thresholds no larger than the window findRepeatedPattern   *)
(* examines.                                                                *)
StuckDetectedWithinWindow ==
    threshold <= RecentWindow => StuckDetected

=============================================================================
