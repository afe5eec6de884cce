--------------------------- MODULE StreamContract ---------------------------
(***************************************************************************)
(* What the streaming client promises its caller (spec section 4.7): the   *)
(* chunks that reach the client are passed to the handler one at a time,   *)
(* in the order the server sent them, none twice and none skipped; the     *)
(* call ends exactly once, and it ends in success only when the handler    *)
(* has seen every chunk that reached the client.                           *)
(*                                                                         *)
(* offered: the chunks (numbered 1, 2, ...) that reached the client.       *)
(* handled: the chunks passed to the handler, in call order.               *)
(* outcome: "pending" while the call runs, then "ok" or "error".           *)
(***************************************************************************)
EXTENDS Naturals, Sequences

VARIABLES offered, handled, outcome

vars == <<offered, handled, outcome>>

Init ==
    /\ offered = <<>>
    /\ handled = <<>>
    /\ outcome = "pending"

(* The next chunk of the response reaches the client.                      *)
Offer ==
    /\ outcome = "pending"
    /\ offered' = Append(offered, Len(offered) + 1)
    /\ UNCHANGED <<handled, outcome>>

(* The handler is called with the oldest chunk it has not been given.      *)
Handle ==
    /\ outcome = "pending"
    /\ Len(handled) < Len(offered)
    /\ handled' = Append(handled, offered[Len(handled) + 1])
    /\ UNCHANGED <<offered, outcome>>

(* The call returns nil: only once the handler has seen every chunk.       *)
Succeed ==
    /\ outcome = "pending"
    /\ handled = offered
    /\ outcome' = "ok"
    /\ UNCHANGED <<offered, handled>>

(* The call returns an error, whatever was or was not handled.             *)
Fail ==
    /\ outcome = "pending"
    /\ outcome' = "error"
    /\ UNCHANGED <<offered, handled>>

Next == Offer \/ Handle \/ Succeed \/ Fail

Spec == Init /\ [][Next]_vars
=============================================================================
