------------------------- MODULE StreamReaderProofs -------------------------
(***************************************************************************)
(* Proofs about the streaming client, for every choice of the constants    *)
(* that satisfies StreamAssumption: it is well typed, and it implements    *)
(* the contract of StreamContract under the refinement mapping Contract.   *)
(***************************************************************************)
EXTENDS StreamReader, SequenceTheorems, TLAPS

(* 1 for a chunk line, 0 for any other line.                               *)
Inc(l) == IF l.kind = "chunk" THEN 1 ELSE 0

(* The numbers of the chunks 1..n, in order.                               *)
Iota(n) == [i \in 1..n |-> i]

(* The number carried by the last unscanned line, or the chunks scanned    *)
(* so far when there is none.                                              *)
LastId(w, c) == IF w = <<>> THEN c ELSE w[Len(w)].id

(* The unscanned lines w, after c chunks were scanned, out of sc written:  *)
(* the numbers go up by one at each chunk line and start from c, and       *)
(* [DONE] can only be the last line.                                       *)
WireOK(w, c, sc) ==
    /\ \A i \in 1..Len(w) : w[i].id <= sc
    /\ \A i \in 1..Len(w) : w[i].kind = "done" => i = Len(w) /\ w[i].id = sc
    /\ w # <<>> => w[1].id = c + Inc(w[1])
    /\ \A i \in 1..Len(w) - 1 : w[i + 1].id = w[i].id + Inc(w[i + 1])

(* TypeOK is not enough for the refinement: a scanned chunk line must be   *)
(* the next chunk the handler has not seen, and when the body has ended    *)
(* normally every chunk written must have been scanned.                    *)
IInv ==
    /\ TypeOK
    /\ delivered = Iota(chunks)
    /\ chunks <= sentChunks
    /\ conn = "open" => pc \in {"reading", "handler"}
    /\ pc = "request" => conn = "none" /\ wire = <<>> /\ chunks = sentChunks
    /\ pc # "returned" =>
           /\ WireOK(wire, chunks, sentChunks)
           /\ \A i \in 1..Len(wire) : wire[i].kind = "done" => finished
           /\ conn \in {"open", "eof"} => LastId(wire, chunks) = sentChunks

-----------------------------------------------------------------------------
(* Lemmas about the unscanned lines.                                       *)

(* A line of the wire has a kind and a number.                             *)
LEMMA LineFields ==
    ASSUME NEW w \in Seq(Line), NEW i \in 1..Len(w)
    PROVE  /\ w[i] \in Line
           /\ w[i].id \in Nat
<1>1. w[i] \in Line
  BY ElementOfSeq
<1>. QED
  BY <1>1 DEF Line

(* A sequence is empty exactly when its length is 0.                      *)
LEMMA EmptyLen ==
    ASSUME NEW S, NEW s \in Seq(S), Len(s) = 0
    PROVE  s = <<>>
  BY EmptySeq

(* Scanning the first line keeps the numbering; the count of scanned       *)
(* chunks goes up by one exactly when that line is a chunk.                *)
LEMMA TailKeepsWire ==
    ASSUME NEW w \in Seq(Line), NEW c \in Nat, NEW sc \in Nat,
           WireOK(w, c, sc), w # <<>>
    PROVE  /\ Tail(w) \in Seq(Line)
           /\ WireOK(Tail(w), c + Inc(Head(w)), sc)
           /\ LastId(Tail(w), c + Inc(Head(w))) = LastId(w, c)
<1> DEFINE t == Tail(w)
           d == c + Inc(w[1])
<1>1. /\ t \in Seq(Line)
      /\ Len(t) = Len(w) - 1
      /\ \A i \in 1..Len(t) : t[i] = w[i + 1]
      /\ Head(w) = w[1]
      /\ Len(w) \in Nat \ {0}
  BY HeadTailProperties, EmptySeq
<1>2. ASSUME NEW i \in 1..Len(t)
      PROVE  /\ t[i] = w[i + 1]
             /\ i + 1 \in 1..Len(w)
             /\ w[i + 1].id \in Nat
  BY <1>1, LineFields
<1>3. ASSUME NEW i \in 1..Len(t) PROVE t[i].id <= sc
  BY <1>2 DEF WireOK
<1>4. ASSUME NEW i \in 1..Len(t), t[i].kind = "done"
      PROVE  i = Len(t) /\ t[i].id = sc
  <2>1. i + 1 = Len(w) /\ w[i + 1].id = sc
    BY <1>2, <1>4 DEF WireOK
  <2>. QED
    BY <1>1, <1>2, <2>1
<1>5. ASSUME t # <<>> PROVE t[1].id = d + Inc(t[1])
  <2>1. Len(w) > 1
    BY <1>1, <1>5, EmptySeq
  <2>2. w[1].id = c + Inc(w[1])
    BY DEF WireOK
  <2>3. w[2].id = w[1].id + Inc(w[2])
    BY <2>1 DEF WireOK
  <2>4. t[1] = w[2]
    BY <1>1, <2>1
  <2>. QED
    BY <2>2, <2>3, <2>4
<1>6. ASSUME NEW i \in 1..Len(t) - 1
      PROVE  t[i + 1].id = t[i].id + Inc(t[i + 1])
  <2>1. /\ i \in 1..Len(w) - 1
        /\ i + 1 \in 1..Len(w) - 1
        /\ t[i] = w[i + 1] /\ t[i + 1] = w[i + 2]
    BY <1>1
  <2>. QED
    BY <2>1 DEF WireOK
<1>7. LastId(t, d) = LastId(w, c)
  <2>1. CASE Len(w) = 1
    <3>1. t = <<>>
      <4>1. t \in Seq(Line) /\ Len(t) = 0
        BY <1>1, <2>1
      <4>. QED
        BY <4>1, EmptyLen
    <3>2. w[1].id = c + Inc(w[1])
      BY DEF WireOK
    <3>. QED
      BY <2>1, <3>1, <3>2 DEF LastId
  <2>2. CASE Len(w) > 1
    <3>0. Len(t) \in 1..Len(t) /\ Len(t) = Len(w) - 1
      BY <1>1, <2>2
    <3>1. t # <<>> /\ Len(t) = Len(w) - 1 /\ t[Len(t)] = w[Len(w)]
      <4>1. t # <<>>
        <5>1. Len(t) # 0
          BY <3>0
        <5>. QED
          BY <5>1, EmptySeq, Zenon
      <4>2. t[Len(t)] = w[Len(t) + 1]
        BY <1>1, <3>0, Zenon
      <4>3. Len(t) + 1 = Len(w)
        BY <1>1, <3>0
      <4>. QED
        BY <3>0, <4>1, <4>2, <4>3
    <3>. QED
      BY <3>1 DEF LastId
  <2>. QED
    BY <1>1, <2>1, <2>2
<1>8. WireOK(t, d, sc)
  BY <1>3, <1>4, <1>5, <1>6 DEF WireOK
<1>. QED
  BY <1>1, <1>7, <1>8

(* A prefix of the unscanned lines keeps the numbering.                    *)
LEMMA PrefixKeepsWire ==
    ASSUME NEW w \in Seq(Line), NEW c \in Nat, NEW sc \in Nat,
           WireOK(w, c, sc), NEW p \in Prefixes(w)
    PROVE  /\ p \in Seq(Line)
           /\ WireOK(p, c, sc)
           /\ Len(p) <= Len(w)
           /\ \A i \in 1..Len(p) : p[i] = w[i]
<1>1. PICK n \in 0..Len(w) : p = SubSeq(w, 1, n)
  BY DEF Prefixes
<1>2. /\ p \in Seq(Line)
      /\ Len(p) = n
      /\ \A i \in 1..n : p[i] = w[i]
  BY <1>1, SubSeqProperties, LineFields
<1>3. ASSUME NEW i \in 1..Len(p) PROVE p[i].id <= sc
  BY <1>2 DEF WireOK
<1>4. ASSUME NEW i \in 1..Len(p), p[i].kind = "done"
      PROVE  i = Len(p) /\ p[i].id = sc
  <2>1. i = Len(w) /\ w[i].id = sc
    BY <1>2, <1>4 DEF WireOK
  <2>. QED
    BY <1>2, <2>1
<1>5. ASSUME p # <<>> PROVE p[1].id = c + Inc(p[1])
  <2>1. n >= 1 /\ w # <<>>
    BY <1>2, <1>5
  <2>. QED
    BY <1>2, <2>1 DEF WireOK
<1>6. ASSUME NEW i \in 1..Len(p) - 1
      PROVE  p[i + 1].id = p[i].id + Inc(p[i + 1])
  <2>1. i \in 1..Len(w) - 1 /\ p[i] = w[i] /\ p[i + 1] = w[i + 1]
    BY <1>2
  <2>. QED
    BY <2>1 DEF WireOK
<1>. QED
  BY <1>1, <1>2, <1>3, <1>4, <1>5, <1>6 DEF WireOK

(* Writing a line at the end of a complete wire keeps the numbering.       *)
LEMMA AppendKeepsWire ==
    ASSUME NEW w \in Seq(Line), NEW c \in Nat, NEW sc \in Nat,
           WireOK(w, c, sc), LastId(w, c) = sc,
           \A i \in 1..Len(w) : w[i].kind # "done",
           NEW k \in Kinds
    PROVE  LET sc2 == IF k = "chunk" THEN sc + 1 ELSE sc
               l   == [kind |-> k, id |-> sc2]
           IN  /\ Append(w, l) \in Seq(Line)
               /\ WireOK(Append(w, l), c, sc2)
               /\ LastId(Append(w, l), c) = sc2
<1> DEFINE sc2 == IF k = "chunk" THEN sc + 1 ELSE sc
           l   == [kind |-> k, id |-> sc2]
           a   == Append(w, l)
<1>1. l \in Line /\ sc2 \in Nat /\ sc2 = sc + Inc(l) /\ sc <= sc2
  BY DEF Line, Inc
<1>2. /\ a \in Seq(Line)
      /\ Len(a) = Len(w) + 1
      /\ \A i \in 1..Len(w) : a[i] = w[i]
      /\ a[Len(w) + 1] = l
      /\ Len(w) \in Nat
  BY <1>1, AppendProperties
<1>3. ASSUME NEW i \in 1..Len(a) PROVE a[i].id <= sc2
  <2>1. CASE i <= Len(w)
    BY <1>1, <1>2, <2>1, LineFields DEF WireOK
  <2>2. CASE i = Len(w) + 1
    BY <1>2, <2>2
  <2>. QED
    BY <1>2, <2>1, <2>2
<1>4. ASSUME NEW i \in 1..Len(a), a[i].kind = "done"
      PROVE  i = Len(a) /\ a[i].id = sc2
  <2>1. i = Len(w) + 1
    BY <1>2, <1>4
  <2>. QED
    BY <1>2, <2>1
<1>5. a[1].id = c + Inc(a[1])
  <2>1. CASE w = <<>>
    <3>1. Len(w) = 0 /\ c = sc
      BY <2>1 DEF LastId
    <3>. QED
      BY <1>1, <1>2, <3>1
  <2>2. CASE w # <<>>
    <3>1. Len(w) >= 1
      BY <1>2, <2>2
    <3>. QED
      BY <1>2, <3>1, <2>2 DEF WireOK
  <2>. QED
    BY <2>1, <2>2
<1>6. ASSUME NEW i \in 1..Len(a) - 1
      PROVE  a[i + 1].id = a[i].id + Inc(a[i + 1])
  <2>1. CASE i < Len(w)
    <3>1. i \in 1..Len(w) - 1 /\ a[i] = w[i] /\ a[i + 1] = w[i + 1]
      BY <1>2, <2>1
    <3>. QED
      BY <3>1 DEF WireOK
  <2>2. CASE i = Len(w)
    <3>1. w # <<>> /\ a[i] = w[Len(w)] /\ a[i + 1] = l
      BY <1>2, <2>2
    <3>2. w[Len(w)].id = sc
      BY <3>1 DEF LastId
    <3>. QED
      BY <1>1, <3>1, <3>2
  <2>. QED
    BY <1>2, <2>1, <2>2
<1>7. LastId(a, c) = sc2
  <2>1. a # <<>> /\ a[Len(a)] = l
    BY <1>2
  <2>. QED
    BY <2>1 DEF LastId
<1>. QED
  BY <1>2, <1>3, <1>4, <1>5, <1>6, <1>7 DEF WireOK
-----------------------------------------------------------------------------
(* The chunk numbers 1..n followed by n + 1 are the numbers 1..n + 1.      *)
LEMMA IotaAppend ==
    ASSUME NEW n \in Nat
    PROVE  /\ Iota(n) \in Seq(Nat)
           /\ Len(Iota(n)) = n
           /\ Append(Iota(n), n + 1) = Iota(n + 1)
<1>1. Iota(n) \in Seq(Nat) /\ Len(Iota(n)) = n
  BY DEF Iota
<1>2. Iota(n + 1) \in Seq(Nat) /\ Len(Iota(n + 1)) = n + 1
  BY DEF Iota
<1>3. /\ Append(Iota(n), n + 1) \in Seq(Nat)
      /\ Len(Append(Iota(n), n + 1)) = n + 1
      /\ \A i \in 1..n : Append(Iota(n), n + 1)[i] = Iota(n)[i]
      /\ Append(Iota(n), n + 1)[n + 1] = n + 1
  BY <1>1, AppendProperties
<1>4. \A i \in 1..n + 1 : Append(Iota(n), n + 1)[i] = Iota(n + 1)[i]
  BY <1>3 DEF Iota
<1>. QED
  BY <1>1, <1>2, <1>3, <1>4, SeqEqual

-----------------------------------------------------------------------------
(* The initial state satisfies the invariant.                              *)
LEMMA InitIInv == Init => IInv
<1> SUFFICES ASSUME Init PROVE IInv
  OBVIOUS
<1>1. Iota(0) = <<>>
  BY DEF Iota
<1>2. <<>> \in Seq(Line) /\ <<>> \in Seq(Nat) /\ Len(<<>>) = 0
  BY EmptySeq
<1>3. WireOK(<<>>, 0, 0) /\ LastId(<<>>, 0) = 0
  BY <1>2 DEF WireOK, LastId
<1>4. TypeOK
  BY <1>2 DEF Init, TypeOK, Results
<1>5. \A i \in 1..Len(wire) : wire[i].kind = "done" => finished
  BY <1>2 DEF Init
<1>. QED
  BY <1>1, <1>3, <1>4, <1>5 DEF Init, IInv

(* Every step keeps the invariant.                                         *)
LEMMA IInvInductive == IInv /\ [Next]_vars => IInv'
<1> SUFFICES ASSUME IInv, [Next]_vars PROVE IInv'
  OBVIOUS
<1>. USE StreamAssumption
<1>0. /\ TypeOK
      /\ delivered = Iota(chunks)
      /\ chunks <= sentChunks
      /\ conn = "open" => pc \in {"reading", "handler"}
      /\ pc = "request" => conn = "none" /\ wire = <<>> /\ chunks = sentChunks
  BY DEF IInv
<1>00. pc # "returned" =>
           /\ WireOK(wire, chunks, sentChunks)
           /\ \A i \in 1..Len(wire) : wire[i].kind = "done" => finished
           /\ conn \in {"open", "eof"} => LastId(wire, chunks) = sentChunks
  BY DEF IInv
<1>1. CASE DoError
  BY <1>0, <1>1 DEF DoError, Return, server, IInv, TypeOK, Results
<1>2. CASE BadStatus
  BY <1>0, <1>2 DEF BadStatus, Return, server, IInv, TypeOK, Results
<1>3. CASE DoOK
  <2>1. wire = <<>> /\ chunks = sentChunks
    BY <1>0, <1>3 DEF DoOK
  <2>2. Len(wire) = 0
    BY <2>1, EmptySeq
  <2>3. WireOK(wire, chunks, sentChunks) /\ LastId(wire, chunks) = sentChunks
    BY <2>1, <2>2 DEF WireOK, LastId
  <2>. QED
    BY <1>0, <1>3, <2>2, <2>3 DEF DoOK, server, IInv, TypeOK
<1>4. CASE ReadCancelled
  <2>1. wire' \in Seq(Line)
    BY <1>0, <1>4, HeadTailProperties DEF ReadCancelled, TypeOK
  <2>. QED
    BY <1>0, <1>4, <2>1 DEF ReadCancelled, Return, IInv, TypeOK, Results
<1>5. CASE ReadSkip
  <2>1. /\ wire # <<>> /\ wire \in Seq(Line) /\ chunks \in Nat
        /\ sentChunks \in Nat /\ Inc(Head(wire)) = 0
        /\ WireOK(wire, chunks, sentChunks)
    BY <1>0, <1>00, <1>5 DEF ReadSkip, TypeOK, Inc
  <2>2. /\ Tail(wire) \in Seq(Line)
        /\ WireOK(Tail(wire), chunks, sentChunks)
        /\ LastId(Tail(wire), chunks) = LastId(wire, chunks)
    BY <2>1, TailKeepsWire
  <2>3. \A i \in 1..Len(Tail(wire)) : Tail(wire)[i] = wire[i + 1]
        /\ Len(Tail(wire)) = Len(wire) - 1
    BY <2>1, HeadTailProperties
  <2>4. \A i \in 1..Len(wire') : wire'[i].kind = "done" => finished'
    BY <1>00, <1>5, <2>1, <2>3 DEF ReadSkip
  <2>. QED
    BY <1>0, <1>00, <1>5, <2>2, <2>4 DEF ReadSkip, IInv, TypeOK
<1>6. CASE ReadDone
  <2>1. wire' \in Seq(Line)
    BY <1>0, <1>6, HeadTailProperties DEF ReadDone, TypeOK
  <2>. QED
    BY <1>0, <1>6, <2>1 DEF ReadDone, Return, IInv, TypeOK, Results
<1>7. CASE ReadChunk
  <2>1. /\ wire # <<>> /\ wire \in Seq(Line) /\ chunks \in Nat
        /\ sentChunks \in Nat /\ Inc(Head(wire)) = 1
        /\ WireOK(wire, chunks, sentChunks)
        /\ Head(wire) = wire[1]
    BY <1>0, <1>00, <1>7 DEF ReadChunk, TypeOK, Inc
  <2>2. /\ Tail(wire) \in Seq(Line)
        /\ WireOK(Tail(wire), chunks + 1, sentChunks)
        /\ LastId(Tail(wire), chunks + 1) = LastId(wire, chunks)
    BY <2>1, TailKeepsWire
  <2>3. \A i \in 1..Len(Tail(wire)) : Tail(wire)[i] = wire[i + 1]
        /\ Len(Tail(wire)) = Len(wire) - 1
    BY <2>1, HeadTailProperties
  <2>4. \A i \in 1..Len(wire') : wire'[i].kind = "done" => finished'
    BY <1>00, <1>7, <2>1, <2>3 DEF ReadChunk
  <2>5. Head(wire).id = chunks + 1 /\ Head(wire).id <= sentChunks
    <3>1. Len(wire) >= 1
      BY <2>1, EmptySeq
    <3>. QED
      BY <2>1, <3>1 DEF WireOK, Inc
  <2>6. delivered' = Iota(chunks') /\ delivered' \in Seq(Nat)
    <3>1. /\ Append(Iota(chunks), chunks + 1) = Iota(chunks + 1)
          /\ Iota(chunks + 1) \in Seq(Nat)
      BY <2>1, IotaAppend
    <3>2. /\ delivered' = Append(delivered, Head(wire).id)
          /\ chunks' = chunks + 1
      BY <1>7 DEF ReadChunk
    <3>. QED
      BY <1>0, <2>5, <3>1, <3>2
  <2>7. chunks' <= sentChunks' /\ chunks' \in Nat
    BY <1>7, <2>1, <2>5 DEF ReadChunk
  <2>. QED
    BY <1>0, <1>7, <2>2, <2>4, <2>6, <2>7 DEF ReadChunk, IInv, TypeOK
<1>8. CASE HandlerReturn
  BY <1>0, <1>00, <1>8 DEF HandlerReturn, server, IInv, TypeOK
<1>9. CASE HandlerError
  BY <1>0, <1>9 DEF HandlerError, Return, server, IInv, TypeOK, Results
<1>10. CASE ScanEndError
  BY <1>0, <1>10 DEF ScanEndError, Return, server, IInv, TypeOK, Results
<1>11. CASE ScanEndEOF
  BY <1>0, <1>11 DEF ScanEndEOF, Return, server, IInv, TypeOK, Results
<1>12. ASSUME NEW k \in Kinds, Send(k) PROVE IInv'
  <2> DEFINE sc2 == IF k = "chunk" THEN sentChunks + 1 ELSE sentChunks
             l   == [kind |-> k, id |-> sc2]
  <2>1. /\ conn = "open" /\ ~finished /\ pc \in {"reading", "handler"}
        /\ wire \in Seq(Line) /\ chunks \in Nat /\ sentChunks \in Nat
        /\ WireOK(wire, chunks, sentChunks)
        /\ LastId(wire, chunks) = sentChunks
        /\ \A i \in 1..Len(wire) : wire[i].kind # "done"
    BY <1>0, <1>00, <1>12 DEF Send, TypeOK
  <2>2. sentChunks' = sc2 /\ wire' = Append(wire, l)
    BY <1>12 DEF Send
  <2>3. /\ Append(wire, l) \in Seq(Line)
        /\ WireOK(Append(wire, l), chunks, sc2)
        /\ LastId(Append(wire, l), chunks) = sc2
    BY <2>1, AppendKeepsWire
  <2>4. /\ Len(Append(wire, l)) = Len(wire) + 1
        /\ \A i \in 1..Len(wire) : Append(wire, l)[i] = wire[i]
        /\ Append(wire, l)[Len(wire) + 1] = l
    BY <2>1, AppendProperties DEF Line
  <2>5. ASSUME NEW i \in 1..Len(wire'), wire'[i].kind = "done"
        PROVE  finished'
    <3>1. finished' = (k = "done")
      BY <1>12 DEF Send
    <3>2. CASE i <= Len(wire)
      BY <2>1, <2>2, <2>4, <2>5, <3>2
    <3>3. CASE i = Len(wire) + 1
      <4>1. wire'[i] = l
        BY <2>2, <2>4, <3>3
      <4>2. k = "done"
        BY <4>1, <2>5
      <4>. QED
        BY <4>2, <3>1
    <3>. QED
      BY <2>2, <2>4, <3>2, <3>3
  <2>6. chunks <= sc2 /\ sc2 \in Nat
    BY <1>0, <2>1
  <2>. QED
    BY <1>0, <1>12, <2>1, <2>2, <2>3, <2>5, <2>6 DEF Send, IInv, TypeOK
<1>13. CASE ServerClose
  BY <1>0, <1>00, <1>13 DEF ServerClose, server, IInv, TypeOK
<1>14. CASE ConnFail \/ TransportAbort
  <2>1. /\ conn = "open" /\ pc \in {"reading", "handler"}
        /\ wire' \in Prefixes(wire)
        /\ conn' \in {"error", "aborted"}
        /\ UNCHANGED <<pc, ctxDone, sentChunks, finished, chunks, delivered,
                       result>>
    BY <1>0, <1>14 DEF ConnFail, TransportAbort
  <2>2. /\ wire \in Seq(Line) /\ chunks \in Nat /\ sentChunks \in Nat
        /\ WireOK(wire, chunks, sentChunks)
    BY <1>0, <1>00, <2>1 DEF TypeOK
  <2>3. /\ wire' \in Seq(Line)
        /\ WireOK(wire', chunks, sentChunks)
        /\ Len(wire') <= Len(wire)
        /\ \A i \in 1..Len(wire') : wire'[i] = wire[i]
    BY <2>1, <2>2, PrefixKeepsWire
  <2>4. \A i \in 1..Len(wire') : wire'[i].kind = "done" => finished'
    BY <1>00, <2>1, <2>3
  <2>. QED
    BY <1>0, <2>1, <2>3, <2>4 DEF IInv, TypeOK
<1>15. CASE Cancel
  BY <1>0, <1>00, <1>15 DEF Cancel, server, IInv, TypeOK
<1>16. CASE UNCHANGED vars
  BY <1>0, <1>00, <1>16 DEF vars, IInv, TypeOK
<1>. QED
  BY <1>1, <1>2, <1>3, <1>4, <1>5, <1>6, <1>7, <1>8, <1>9, <1>10, <1>11,
     <1>12, <1>13, <1>14, <1>15, <1>16
  DEF Next, Request, Read, Handler

(* For every value of the constants, every reachable state of the          *)
(* streaming client is well typed and satisfies IInv.                      *)
THEOREM InvariantHolds == Spec => []IInv
  BY InitIInv, IInvInductive, PTL DEF Spec

THEOREM TypeCorrect == Spec => []TypeOK
  BY InvariantHolds, PTL DEF IInv

-----------------------------------------------------------------------------
(* The initial state maps to the contract's initial state.                 *)
LEMMA InitRefines == Init => Contract!Init
  BY DEF Init, Contract!Init

(* Every step maps to a step of the contract or leaves its view unchanged. *)
LEMMA StepRefines ==
    IInv /\ [Next]_vars => [Contract!Next]_(Contract!vars)
<1> SUFFICES ASSUME IInv, [Next]_vars
             PROVE  [Contract!Next]_(Contract!vars)
  OBVIOUS
<1>. USE StreamAssumption
<1>0. /\ TypeOK
      /\ delivered = Iota(chunks)
      /\ chunks <= sentChunks
      /\ conn = "open" => pc \in {"reading", "handler"}
  BY DEF IInv
<1>00. pc # "returned" =>
           /\ WireOK(wire, chunks, sentChunks)
           /\ conn \in {"open", "eof"} => LastId(wire, chunks) = sentChunks
  BY DEF IInv
<1>2. CASE DoError \/ BadStatus \/ HandlerError \/ ScanEndError
  <2>1. pc # "returned" /\ pc' = "returned" /\ result' # "ok"
        /\ UNCHANGED <<sentChunks, delivered>>
    BY <1>2 DEF DoError, BadStatus, HandlerError, ScanEndError, Return,
                server
  <2>. QED
    BY <2>1 DEF Contract!Fail, Contract!Next
<1>3. CASE ReadCancelled
  <2>1. pc # "returned" /\ pc' = "returned" /\ result' # "ok"
        /\ UNCHANGED <<sentChunks, delivered>>
    BY <1>3 DEF ReadCancelled, Return
  <2>. QED
    BY <2>1 DEF Contract!Fail, Contract!Next
<1>4. CASE DoOK \/ ReadSkip \/ HandlerReturn \/ ServerClose \/ Cancel
  <2>1. UNCHANGED <<sentChunks, delivered, pc, result>>
        \/ (pc \in {"request", "handler"} /\ pc' = "reading"
            /\ UNCHANGED <<sentChunks, delivered, result>>)
    BY <1>4 DEF DoOK, ReadSkip, HandlerReturn, ServerClose, Cancel, server
  <2>. QED
    BY <2>1 DEF Contract!vars
<1>5. CASE ConnFail \/ TransportAbort
  BY <1>5 DEF ConnFail, TransportAbort, Contract!vars
<1>6. CASE UNCHANGED vars
  BY <1>6 DEF vars, Contract!vars
<1>7. CASE ReadDone
  <2>1. /\ pc = "reading" /\ wire # <<>> /\ wire[1].kind = "done"
        /\ wire \in Seq(Line) /\ chunks \in Nat /\ sentChunks \in Nat
        /\ WireOK(wire, chunks, sentChunks)
    BY <1>0, <1>00, <1>7 DEF ReadDone, TypeOK
  <2>2. chunks = sentChunks
    <3>1. Len(wire) >= 1
      BY <2>1, EmptySeq
    <3>. QED
      BY <2>1, <3>1 DEF WireOK, Inc
  <2>3. pc' = "returned" /\ result' = "ok"
        /\ UNCHANGED <<sentChunks, delivered>>
    BY <1>7 DEF ReadDone, Return
  <2>. QED
    BY <1>0, <2>1, <2>2, <2>3 DEF Contract!Succeed, Contract!Next, Iota
<1>8. CASE ScanEndEOF
  <2>1. /\ pc = "reading" /\ wire = <<>> /\ conn = "eof"
        /\ pc' = "returned" /\ UNCHANGED <<sentChunks, delivered>>
        /\ result' = IF chunks = 0 THEN "no_data" ELSE "ok"
    BY <1>8 DEF ScanEndEOF, Return, server
  <2>2. chunks = sentChunks
    BY <1>00, <2>1 DEF LastId
  <2>3. CASE chunks = 0
    BY <2>1, <2>3 DEF Contract!Fail, Contract!Next
  <2>4. CASE chunks # 0
    BY <1>0, <2>1, <2>2, <2>4 DEF Contract!Succeed, Contract!Next, Iota
  <2>. QED
    BY <2>3, <2>4
<1>9. CASE ReadChunk
  <2>1. /\ pc = "reading" /\ wire # <<>> /\ wire[1].kind = "chunk"
        /\ wire \in Seq(Line) /\ chunks \in Nat /\ sentChunks \in Nat
        /\ WireOK(wire, chunks, sentChunks)
        /\ Head(wire) = wire[1]
    BY <1>0, <1>00, <1>9 DEF ReadChunk, TypeOK
  <2>2. wire[1].id = chunks + 1 /\ chunks + 1 <= sentChunks
    <3>1. Len(wire) >= 1
      BY <2>1, EmptySeq
    <3>. QED
      BY <2>1, <3>1 DEF WireOK, Inc
  <2>3. /\ delivered' = Append(Iota(chunks), chunks + 1)
        /\ pc' = "handler"
        /\ UNCHANGED <<sentChunks, result>>
    BY <1>0, <1>9, <2>1, <2>2 DEF ReadChunk
  <2>4. /\ Len(Iota(chunks)) = chunks
        /\ Len(Iota(sentChunks)) = sentChunks
        /\ Iota(sentChunks)[chunks + 1] = chunks + 1
    BY <2>1, <2>2, IotaAppend DEF Iota
  <2>5. Contract!Handle
    <3>1. Len(delivered) = chunks /\ Len(delivered) < Len(Iota(sentChunks))
      BY <1>0, <2>2, <2>4
    <3>2. delivered' = Append(delivered, Iota(sentChunks)[Len(delivered) + 1])
      BY <1>0, <2>3, <2>4, <3>1
    <3>3. /\ pc # "returned" /\ pc' # "returned"
          /\ Iota(sentChunks)' = Iota(sentChunks)
      BY <2>1, <2>3
    <3>. QED
      BY <3>1, <3>2, <3>3 DEF Contract!Handle, Iota
  <2>. QED
    BY <2>5 DEF Contract!Next
<1>10. ASSUME NEW k \in Kinds, Send(k)
       PROVE  [Contract!Next]_(Contract!vars)
  <2>1. /\ conn = "open" /\ pc \in {"reading", "handler"}
        /\ sentChunks \in Nat
        /\ UNCHANGED <<pc, delivered, result>>
        /\ sentChunks' = IF k = "chunk" THEN sentChunks + 1 ELSE sentChunks
    BY <1>0, <1>10 DEF Send, TypeOK
  <2>2. CASE k = "chunk"
    <3>1. /\ Append(Iota(sentChunks), sentChunks + 1) = Iota(sentChunks + 1)
          /\ Len(Iota(sentChunks)) = sentChunks
      BY <2>1, IotaAppend
    <3>2. Contract!Offer
      BY <2>1, <2>2, <3>1 DEF Contract!Offer, Iota
    <3>. QED
      BY <3>2 DEF Contract!Next
  <2>3. CASE k # "chunk"
    BY <2>1, <2>3 DEF Contract!vars
  <2>. QED
    BY <2>2, <2>3
<1>. QED
  BY <1>2, <1>3, <1>4, <1>5, <1>6, <1>7, <1>8, <1>9, <1>10
  DEF Next, Request, Read, Handler

(* readStreamingResponse implements the stream contract: for every value   *)
(* of the constants, the handler gets the chunks in order and once each,  *)
(* and nil is returned only after every chunk that arrived was handled.    *)
THEOREM Refinement == Spec => ContractSpec
<1>1. Init => Contract!Init
  BY InitRefines
<1>2. IInv /\ [Next]_vars => [Contract!Next]_(Contract!vars)
  BY StepRefines
<1>. QED
  BY <1>1, <1>2, InvariantHolds, PTL DEF Spec, ContractSpec, Contract!Spec

=============================================================================
