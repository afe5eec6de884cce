--------------------------- MODULE MCStreamReader ---------------------------
(* StreamReader on a small instance: the server writes at most two chunks *)
(* and holds at most three unscanned lines; keep-alive comments may come   *)
(* forever, so a stalled stream is a cycle of the state graph.             *)
EXTENDS StreamReader

MaxChunks == 2
MaxWire   == 3

StateBound == sentChunks <= MaxChunks /\ Len(wire) <= MaxWire
=============================================================================
