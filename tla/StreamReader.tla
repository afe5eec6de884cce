---------------------------- MODULE StreamReader ----------------------------
(***************************************************************************)
(* The streaming client of internal/provider/streaming.go:                 *)
(* CreateChatCompletionStream sends the request and, on a 200 response,    *)
(* readStreamingResponse scans the body line by line and passes every      *)
(* parsed chunk to the caller's handler.                                   *)
(*                                                                         *)
(* Three actors interleave: the reader goroutine; the server, which        *)
(* writes SSE lines and ends or breaks the connection; and the caller,     *)
(* which may cancel the context.  net/http closes the body of a request    *)
(* whose context is done, so a Scan blocked on the body then fails         *)
(* (TransportAbort).  Lines are abstracted to their kind: "blank" (empty   *)
(* or a ":" comment), "other" (no "data: " prefix), "bad" (data that is    *)
(* not JSON), "chunk" (a StreamChunk) and "done" (data: [DONE]).  Each     *)
(* line carries the number of chunk lines the server had written up to    *)
(* and including it, so chunk lines are numbered 1, 2, ...                 *)
(***************************************************************************)
EXTENDS Naturals, Sequences

CONSTANTS
    Kinds,          \* line kinds the server may write
    Faults,         \* whether Do, the status or the connection may fail
    HandlerErrors   \* whether the caller's handler may return an error

ASSUME StreamAssumption ==
    /\ Kinds \subseteq {"blank", "other", "bad", "chunk", "done"}
    /\ Faults \in BOOLEAN
    /\ HandlerErrors \in BOOLEAN

(* The error values the call can return, named after their messages.      *)
Results == {"none", "ok", "req_cancelled", "send_failed", "context_length",
            "status", "interrupted", "canceled", "handler", "lost",
            "read_error", "no_data"}

Line == [kind : Kinds, id : Nat]

VARIABLES
    pc,          \* "request", "reading", "handler" or "returned"
    ctxDone,     \* the caller's context is cancelled
    conn,        \* the response body: "none", "open", "eof", "error",
                 \* "aborted" (closed by the transport) or "closed" (by us)
    wire,        \* lines written by the server and not yet scanned
    sentChunks,  \* ghost: chunk lines the server has written
    finished,    \* ghost: the server has written data: [DONE]
    chunks,      \* chunksReceived
    delivered,   \* ghost: the chunks passed to the handler, in order
    result       \* the returned error, "none" before the return

vars == <<pc, ctxDone, conn, wire, sentChunks, finished, chunks, delivered,
          result>>

server == <<wire, sentChunks, finished>>

(* The lines that survive when a connection breaks: the bytes already read *)
(* into the scanner's buffer, i.e. some prefix of what is unread.          *)
Prefixes(s) == {SubSeq(s, 1, n) : n \in 0..Len(s)}

Init ==
    /\ pc = "request"
    /\ ctxDone = FALSE
    /\ conn = "none"
    /\ wire = <<>>
    /\ sentChunks = 0
    /\ finished = FALSE
    /\ chunks = 0
    /\ delivered = <<>>
    /\ result = "none"

(* Every return runs the deferred resp.Body.Close().                       *)
Return(r) ==
    /\ pc' = "returned"
    /\ result' = r
    /\ conn' = IF conn = "open" THEN "closed" ELSE conn

(***************************************************************************)
(* CreateChatCompletionStream.                                             *)
(***************************************************************************)

(* client.Do fails: always once the context is done, otherwise on a        *)
(* network fault; the error names the cancellation when ctx.Err() is set.  *)
DoError ==
    /\ pc = "request"
    /\ ctxDone \/ Faults
    /\ Return(IF ctxDone THEN "req_cancelled" ELSE "send_failed")
    /\ UNCHANGED <<ctxDone, server, chunks, delivered>>

(* A non-200 status: a 400 whose body has a context-length signature is a *)
(* ContextLengthError, anything else a generic status error.               *)
BadStatus ==
    /\ pc = "request"
    /\ ~ctxDone
    /\ Faults
    /\ \E r \in {"context_length", "status"} : Return(r)
    /\ UNCHANGED <<ctxDone, server, chunks, delivered>>

(* A 200 response: readStreamingResponse starts on the body.               *)
DoOK ==
    /\ pc = "request"
    /\ ~ctxDone
    /\ pc' = "reading"
    /\ conn' = "open"
    /\ UNCHANGED <<ctxDone, server, chunks, delivered, result>>

(***************************************************************************)
(* readStreamingResponse: one loop iteration per scanned line.             *)
(***************************************************************************)

(* scanner.Scan() returned a line but the context is done.                 *)
ReadCancelled ==
    /\ pc = "reading"
    /\ wire # <<>>
    /\ ctxDone
    /\ wire' = Tail(wire)
    /\ Return(IF chunks > 0 THEN "interrupted" ELSE "canceled")
    /\ UNCHANGED <<ctxDone, sentChunks, finished, chunks, delivered>>

(* A blank or comment line, a line without "data: ", or data that does    *)
(* not unmarshal: continue.                                                *)
ReadSkip ==
    /\ pc = "reading"
    /\ wire # <<>>
    /\ ~ctxDone
    /\ Head(wire).kind \in {"blank", "other", "bad"}
    /\ wire' = Tail(wire)
    /\ UNCHANGED <<pc, ctxDone, conn, sentChunks, finished, chunks,
                   delivered, result>>

(* data: [DONE] ends the stream successfully.                              *)
ReadDone ==
    /\ pc = "reading"
    /\ wire # <<>>
    /\ ~ctxDone
    /\ Head(wire).kind = "done"
    /\ wire' = Tail(wire)
    /\ Return("ok")
    /\ UNCHANGED <<ctxDone, sentChunks, finished, chunks, delivered>>

(* A parsed chunk: chunksReceived++ and the handler is called with it.     *)
ReadChunk ==
    /\ pc = "reading"
    /\ wire # <<>>
    /\ ~ctxDone
    /\ Head(wire).kind = "chunk"
    /\ wire' = Tail(wire)
    /\ chunks' = chunks + 1
    /\ delivered' = Append(delivered, Head(wire).id)
    /\ pc' = "handler"
    /\ UNCHANGED <<ctxDone, conn, sentChunks, finished, result>>

(* The handler returns nil: the loop goes on.                              *)
HandlerReturn ==
    /\ pc = "handler"
    /\ pc' = "reading"
    /\ UNCHANGED <<ctxDone, conn, server, chunks, delivered, result>>

(* The handler returns an error: "handler error after N chunks".           *)
HandlerError ==
    /\ pc = "handler"
    /\ HandlerErrors
    /\ Return("handler")
    /\ UNCHANGED <<ctxDone, server, chunks, delivered>>

(* Fault variant: scanner.Err() is not consulted, so a broken body ends   *)
(* the loop like EOF does.                                                 *)
ScanEndErrorUnchecked ==
    /\ pc = "reading"
    /\ wire = <<>>
    /\ conn \in {"error", "aborted"}
    /\ Return(IF chunks = 0 THEN "no_data" ELSE "ok")
    /\ UNCHANGED <<ctxDone, server, chunks, delivered>>

(* Scan() returns false on a broken body: scanner.Err() is set.            *)
ScanEndError ==
    /\ pc = "reading"
    /\ wire = <<>>
    /\ conn \in {"error", "aborted"}
    /\ Return(IF chunks > 0 THEN "lost" ELSE "read_error")
    /\ UNCHANGED <<ctxDone, server, chunks, delivered>>

(* Fault variant: the loop waits for [DONE] and keeps polling a body that *)
(* has ended, so the call never returns.                                   *)
ScanEndEOFAwaitDone ==
    /\ pc = "reading"
    /\ wire = <<>>
    /\ conn = "eof"
    /\ UNCHANGED vars

(* Scan() returns false at EOF without [DONE]: an error if no chunk came,  *)
(* nil otherwise.                                                          *)
ScanEndEOF ==
    /\ pc = "reading"
    /\ wire = <<>>
    /\ conn = "eof"
    /\ Return(IF chunks = 0 THEN "no_data" ELSE "ok")
    /\ UNCHANGED <<ctxDone, server, chunks, delivered>>

(***************************************************************************)
(* The server, the caller and the transport.                               *)
(***************************************************************************)

(* The server writes one line; it writes nothing after data: [DONE].       *)
Send(k) ==
    /\ conn = "open"
    /\ ~finished
    /\ sentChunks' = IF k = "chunk" THEN sentChunks + 1 ELSE sentChunks
    /\ wire' = Append(wire, [kind |-> k, id |-> sentChunks'])
    /\ finished' = (k = "done")
    /\ UNCHANGED <<pc, ctxDone, conn, chunks, delivered, result>>

(* The server ends the response body.                                      *)
ServerClose ==
    /\ conn = "open"
    /\ conn' = "eof"
    /\ UNCHANGED <<pc, ctxDone, server, chunks, delivered, result>>

(* The connection breaks; what was not yet buffered is lost.               *)
ConnFail ==
    /\ conn = "open"
    /\ Faults
    /\ conn' = "error"
    /\ wire' \in Prefixes(wire)
    /\ UNCHANGED <<pc, ctxDone, sentChunks, finished, chunks, delivered,
                   result>>

(* The caller cancels the context while the call runs.                     *)
Cancel ==
    /\ ~ctxDone
    /\ pc # "returned"
    /\ ctxDone' = TRUE
    /\ UNCHANGED <<pc, conn, server, chunks, delivered, result>>

(* net/http closes the body of a request whose context is done.            *)
TransportAbort ==
    /\ ctxDone
    /\ conn = "open"
    /\ conn' = "aborted"
    /\ wire' \in Prefixes(wire)
    /\ UNCHANGED <<pc, ctxDone, sentChunks, finished, chunks, delivered,
                   result>>

Request == DoError \/ BadStatus \/ DoOK

Read == ReadCancelled \/ ReadSkip \/ ReadDone \/ ReadChunk \/
        ScanEndError \/ ScanEndEOF

Handler == HandlerReturn \/ HandlerError

Next ==
    \/ Request
    \/ Read
    \/ Handler
    \/ \E k \in Kinds : Send(k)
    \/ ServerClose
    \/ ConnFail
    \/ Cancel
    \/ TransportAbort

Spec == Init /\ [][Next]_vars

(* The reader goroutine runs whenever it can, the handler returns, and     *)
(* the transport reacts to a cancelled context.  The server and the caller *)
(* owe nothing: a server may stall forever.                                *)
Fairness ==
    /\ WF_vars(Request)
    /\ WF_vars(Read)
    /\ WF_vars(Handler)
    /\ WF_vars(TransportAbort)

FairSpec == Spec /\ Fairness

-----------------------------------------------------------------------------
TypeOK ==
    /\ pc \in {"request", "reading", "handler", "returned"}
    /\ ctxDone \in BOOLEAN
    /\ conn \in {"none", "open", "eof", "error", "aborted", "closed"}
    /\ wire \in Seq(Line)
    /\ sentChunks \in Nat
    /\ finished \in BOOLEAN
    /\ chunks \in Nat
    /\ delivered \in Seq(Nat)
    /\ result \in Results

(* The refinement mapping: the chunks that reached the client are the     *)
(* chunk lines the server wrote; the outcome is decided by the return.     *)
Contract == INSTANCE StreamContract
    WITH offered <- [i \in 1..sentChunks |-> i],
         handled <- delivered,
         outcome <- IF pc # "returned" THEN "pending"
                    ELSE IF result = "ok" THEN "ok" ELSE "error"

(* readStreamingResponse keeps the promise of spec section 4.7: chunks    *)
(* reach the handler in order, once each, and nil is returned only when   *)
(* every chunk that reached the client was handled.                        *)
ContractSpec == Contract!Spec

(* Once the caller cancels, or the body ends or breaks, the call returns:  *)
(* the streaming client has no timeout of its own (spec section 5), so     *)
(* this rests on the reader's ctx check and on the transport.              *)
ReturnsOnceEndedOrCancelled ==
    (ctxDone \/ conn \in {"eof", "error", "aborted"}) ~> (pc = "returned")

(* Spec section 4.7: cancellation after chunks were received surfaces as   *)
(* "stream interrupted after N chunks" (a handler error aside).            *)
CancelSurfacesAsInterrupted ==
    pc = "returned" /\ conn = "aborted" /\ chunks > 0 /\ result # "handler"
        => result = "interrupted"
=============================================================================
