-------------------------- MODULE MCResponseCache --------------------------
(* ResponseCache on a small instance: two keys, one of them matched by the *)
(* one pattern, two providers, one model.                                  *)
EXTENDS ResponseCache, TLC

MCPatternKeys == [p \in Patterns |-> {"k1"}]

MaxTime == 3
MaxVer == 3
MaxGets == 3

(* Bounds the clock, the number of Sets and the number of Gets.            *)
StateBound == now <= MaxTime /\ nextVer <= MaxVer /\ gets <= MaxGets
(* Tighter bounds for two goroutines: two ticks, two Sets, two Gets.       *)
ConcurrentBound == now <= 2 /\ nextVer <= 3 /\ gets <= 2

(* The goroutines are interchangeable.                                     *)
ClientSymmetry == Permutations(Clients)
=============================================================================
