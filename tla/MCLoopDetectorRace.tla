------------------------- MODULE MCLoopDetectorRace -------------------------
(* Two goroutines recording on one bead.                                   *)
EXTENDS LoopDetectorRace

MCTargets == {"a.go"}
MCDataPrints == {"map[]"}
MCActions ==
    { [type |-> "read_file",
       data |-> [file_path |-> "a.go", command |-> Absent, print |-> "map[]"]] }

MaxLog == 3
RaceBound == Len(log) <= MaxLog /\ now <= 2
=============================================================================
