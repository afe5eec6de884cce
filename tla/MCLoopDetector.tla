--------------------------- MODULE MCLoopDetector ---------------------------
(* Model-checking instance of LoopDetector: a progress-class action on a   *)
(* file, and a non-progress action with and without a target, so that      *)
(* runs of equal keys, distinct keys and progress resets all occur.        *)
EXTENDS LoopDetector

MCTargets == {"a.go"}
MCDataPrints == {"map[]"}

MCActions ==
    { [type |-> "read_file",
       data |-> [file_path |-> "a.go", command |-> Absent, print |-> "map[]"]],
      [type |-> "build_project",
       data |-> [file_path |-> Absent, command |-> "a.go", print |-> "map[]"]],
      [type |-> "build_project",
       data |-> [file_path |-> Absent, command |-> Absent, print |-> "map[]"]] }

(* Bounds of the run: the ghost log and the clock.                         *)
MaxLog  == 7
MaxTime == 3

StateBound == Len(log) <= MaxLog /\ now <= MaxTime
=============================================================================
