-------------------------- MODULE LoopDetectorRace --------------------------
(***************************************************************************)
(* RecordAction called from several goroutines on the same bead, as        *)
(* TestConcurrentActionRecording does.  LoopDetector holds no lock, so the *)
(* call is not atomic: it reads Context["action_history"], appends in a    *)
(* local slice and writes the key back, then reads, updates and writes     *)
(* Context["progress_metrics"].  Each map access is one step here; a       *)
(* goroutine's local copies are snap and msnap.                            *)
(***************************************************************************)
EXTENDS LoopDetector

CONSTANT Recorders   \* goroutines calling RecordAction on the bead

VARIABLES
    pc,       \* where each goroutine is in RecordAction
    pending,  \* the action each goroutine is recording
    snap,     \* history as read by getActionHistory
    msnap     \* metrics as read by updateProgressMetrics

raceVars == <<vars, pc, pending, snap, msnap>>

RaceInit ==
    /\ Init
    /\ pc = [g \in Recorders |-> "idle"]
    /\ pending = [g \in Recorders |-> CHOOSE a \in Actions : TRUE]
    /\ snap = [g \in Recorders |-> <<>>]
    /\ msnap = [g \in Recorders |-> ZeroMetrics]

(* RecordAction up to getActionHistory.                                    *)
ReadHistory(g, a) ==
    /\ pc[g] = "idle"
    /\ pc' = [pc EXCEPT ![g] = "write_history"]
    /\ pending' = [pending EXCEPT ![g] = a]
    /\ snap' = [snap EXCEPT ![g] = history]
    /\ UNCHANGED <<vars, msnap>>

(* append, truncate, bead.Context["action_history"] = ...                  *)
WriteHistory(g) ==
    /\ pc[g] = "write_history"
    /\ history' = LastN(Append(snap[g], Record(pending[g])), HistoryLimit)
    /\ log' = Append(log, [action_type |-> pending[g].type,
                           progress_key |-> generateProgressKey(pending[g]),
                           at |-> now])
    /\ pc' = [pc EXCEPT ![g] = "read_metrics"]
    /\ UNCHANGED <<metrics, threshold, now, pending, snap, msnap>>

(* updateProgressMetrics reads Context["progress_metrics"].                *)
ReadMetrics(g) ==
    /\ pc[g] = "read_metrics"
    /\ msnap' = [msnap EXCEPT ![g] = metrics]
    /\ pc' = [pc EXCEPT ![g] = "write_metrics"]
    /\ UNCHANGED <<vars, pending, snap>>

(* ... and writes it back; RecordAction returns.                           *)
WriteMetrics(g) ==
    /\ pc[g] = "write_metrics"
    /\ metrics' = updateProgressMetrics(msnap[g], pending[g])
    /\ pc' = [pc EXCEPT ![g] = "idle"]
    /\ UNCHANGED <<history, threshold, now, log, pending, snap, msnap>>

RaceNext ==
    \/ \E g \in Recorders :
          \/ \E a \in Actions : ReadHistory(g, a)
          \/ WriteHistory(g)
          \/ ReadMetrics(g)
          \/ WriteMetrics(g)
    \/ Tick /\ UNCHANGED <<pc, pending, snap, msnap>>

RaceSpec == RaceInit /\ [][RaceNext]_raceVars
=============================================================================
