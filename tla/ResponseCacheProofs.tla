------------------------ MODULE ResponseCacheProofs ------------------------
(***************************************************************************)
(* Proofs about the Redis response cache, for every value of the constants *)
(* that satisfies CacheAssumption.                                         *)
(***************************************************************************)
EXTENDS ResponseCache, TLAPS

(* TypeOK alone is not inductive: HitInc and WriteBack read the entry the  *)
(* client decoded in GetRead, and the scan steps read the scan state set   *)
(* up by ScanStart.  A client's program counter tells which of its locals  *)
(* are set.                                                                *)
LocalsSet ==
    \A c \in Clients :
        /\ pc[c] \in {"hit_inc", "writeback"} => snap[c] \in Entry
        /\ pc[c] \in {"scan", "scan_get", "scan_del"} => scan[c] \in ScanState

IInv == TypeOK /\ LocalsSet

Stats == [hits : Nat, misses : Nat, tokensSaved : Nat]

-----------------------------------------------------------------------------
(* The write-back's SET gives Redis the entry's own ExpiresAt: with        *)
(* ttl = ExpiresAt - now > 0, now + ttl = ExpiresAt.                       *)
LEMMA WriteBackExpiry ==
    ASSUME NEW n \in Int, NEW x \in Int, x - n > 0
    PROVE  /\ n + (x - n) = x
           /\ x \in Nat => n + (x - n) \in Nat
  OBVIOUS

(* Set stores a positive ttl: 0 is replaced by DefaultTTL.                 *)
LEMMA SetTTLPositive ==
    ASSUME NEW t \in TTLInputs
    PROVE  LET ttl == IF t = 0 THEN DefaultTTL ELSE t IN ttl \in Nat /\ ttl > 0
  BY CacheAssumption

(* A hit raises an entry's hit count and keeps it an Entry.               *)
LEMMA EntryHit ==
    ASSUME NEW x \in Entry
    PROVE  [x EXCEPT !.hits = @ + 1] \in Entry
  BY DEF Entry

(* A scan that passes key k keeps a ScanState.                            *)
LEMMA ScanLeftLess ==
    ASSUME NEW x \in ScanState, NEW k
    PROVE  [x EXCEPT !.left = @ \ {k}] \in ScanState
  BY DEF ScanState

-----------------------------------------------------------------------------
(* The strengthened typing invariant is preserved by every step: each     *)
(* client's locals are set whenever its current step of Get or of a scan   *)
(* reads them.                                                             *)
LEMMA IInvInductive == IInv /\ [Next]_vars => IInv'
<1>. USE CacheAssumption DEF Stats
<1> SUFFICES ASSUME IInv, [Next]_vars PROVE IInv'
  OBVIOUS
<1>. USE DEF IInv, TypeOK, LocalsSet
<1>1. ASSUME NEW c \in Clients, NEW k \in Keys, GetRead(c, k) PROVE IInv'
  <2>0. /\ key' = [key EXCEPT ![c] = k]
        /\ reg' = [reg EXCEPT ![c] = stats]
        /\ UNCHANGED <<redis, stats, now, nextVer, scan, gets, returned>>
    BY <1>1 DEF GetRead
  <2>1. CASE /\ pc' = [pc EXCEPT ![c] = "miss_inc"]
             /\ UNCHANGED snap
    BY <2>0, <2>1 DEF PCs
  <2>2. CASE /\ Live(k)
             /\ pc' = [pc EXCEPT ![c] = "hit_inc"]
             /\ snap' = [snap EXCEPT ![c] = redis[k].val]
    <3>1. redis[k].val \in Entry
      BY <2>2 DEF Live, Stored
    <3>. QED
      BY <2>0, <2>2, <3>1 DEF PCs
  <2>. QED
    BY <1>1, <2>1, <2>2 DEF GetRead
<1>2. ASSUME NEW c \in Clients, MissInc(c) PROVE IInv'
  BY <1>2 DEF MissInc, PCs
<1>3. ASSUME NEW c \in Clients, HitInc(c) PROVE IInv'
  <2>1. snap[c] \in Entry
    BY <1>3 DEF HitInc
  <2>2. stats' \in Stats
    <3>1. /\ reg[c].hits + 1 \in Nat
          /\ reg[c].tokensSaved + snap[c].tokens \in Nat
          /\ stats.misses \in Nat
      <4>1. reg[c] \in Stats /\ stats \in Stats
        BY DEF TypeOK
      <4>2. snap[c].tokens \in Nat
        BY <2>1, CacheAssumption DEF Entry
      <4>. QED
        BY <4>1, <4>2
    <3>2. stats' = [hits |-> reg[c].hits + 1, misses |-> stats.misses,
                    tokensSaved |-> reg[c].tokensSaved + snap[c].tokens]
      BY <1>3 DEF HitInc
    <3>. QED
      BY <3>1, <3>2
  <2>3. TypeOK'
    BY <1>3, <2>2 DEF HitInc, PCs
  <2>4. LocalsSet'
    BY <1>3, <2>1 DEF HitInc
  <2>. QED
    BY <2>3, <2>4
<1>4. ASSUME NEW c \in Clients, WriteBack(c) PROVE IInv'
  <2> DEFINE e == [snap[c] EXCEPT !.hits = @ + 1]
             ttl == e.expiresAt - now
  <2>0. snap[c] \in Entry
    BY <1>4 DEF WriteBack
  <2>1. e \in Entry
    BY <2>0, EntryHit
  <2>2. ttl > 0 => [val |-> e, exp |-> RedisExpiry(ttl)] \in Stored
    BY <2>1, WriteBackExpiry DEF Entry, RedisExpiry, Stored
  <2>3. redis' \in [Keys -> Stored \cup {Nil}]
    BY <1>4, <2>2 DEF WriteBack
  <2>. QED
    BY <1>4, <2>1, <2>3 DEF WriteBack, PCs
<1>5. ASSUME NEW c \in Clients, NEW k \in Keys, NEW p \in Providers,
             NEW m \in Models, NEW tok \in TokenValues, NEW t \in TTLInputs,
             Set(c, k, p, m, tok, t)
      PROVE  IInv'
  <2> DEFINE ttl == IF t = 0 THEN DefaultTTL ELSE t
  <2>1. ttl \in Nat /\ ttl > 0
    BY SetTTLPositive
  <2>2. [val |-> [provider |-> p, model |-> m, cachedAt |-> now,
                  expiresAt |-> now + ttl, hits |-> 0, tokens |-> tok,
                  ver |-> nextVer],
         exp |-> RedisExpiry(ttl)] \in Stored
    BY <2>1 DEF RedisExpiry, Stored, Entry
  <2>. QED
    BY <1>5, <2>2 DEF Set
<1>6. ASSUME NEW c \in Clients, NEW k \in Keys, Delete(c, k) PROVE IInv'
  BY <1>6 DEF Delete
<1>7. ASSUME NEW c \in Clients, NEW in \in ScanInputs,
             ScanStart(c, in[1], in[2], in[3])
      PROVE  IInv'
  <2>1. /\ in[1] \in ScanOps
        /\ in[2] \in Providers \cup Models \cup Patterns \cup {Nil}
        /\ in[3] \in Nat
    <3>1. CASE in \in {"clear"} \X {Nil} \X {0}
      BY <3>1 DEF ScanOps
    <3>2. CASE in \in {"provider"} \X Providers \X {0}
      BY <3>2 DEF ScanOps
    <3>3. CASE in \in {"model"} \X Models \X {0}
      BY <3>3 DEF ScanOps
    <3>4. CASE in \in {"age"} \X {Nil} \X MaxAges
      BY <3>4 DEF ScanOps
    <3>5. CASE in \in {"pattern"} \X Patterns \X {0}
      BY <3>5 DEF ScanOps
    <3>. QED
      BY <3>1, <3>2, <3>3, <3>4, <3>5 DEF ScanInputs
  <2>2. [op |-> in[1], arg |-> in[2], threshold |-> now - in[3],
         left |-> Keys, startVer |-> nextVer] \in ScanState
    BY <2>1 DEF ScanState
  <2>. QED
    BY <1>7, <2>2 DEF ScanStart, PCs
<1>8. ASSUME NEW c \in Clients, NEW k \in Keys, ScanVisit(c, k) PROVE IInv'
  <2>0. scan[c] \in ScanState
    BY <1>8 DEF ScanVisit
  <2>1. [scan[c] EXCEPT !.left = @ \ {k}] \in ScanState
    BY <2>0, ScanLeftLess
  <2>. QED
    BY <1>8, <2>1 DEF ScanVisit, PCs
<1>9. ASSUME NEW c \in Clients, ScanGet(c) PROVE IInv'
  BY <1>9 DEF ScanGet, PCs
<1>10. ASSUME NEW c \in Clients, ScanGetError(c) PROVE IInv'
  BY <1>10 DEF ScanGetError, PCs
<1>11. ASSUME NEW c \in Clients, ScanDel(c) PROVE IInv'
  BY <1>11 DEF ScanDel, PCs
<1>12. ASSUME NEW c \in Clients, ScanEnd(c) PROVE IInv'
  BY <1>12 DEF ScanEnd, PCs
<1>13. CASE Tick
  BY <1>13 DEF Tick
<1>14. CASE UNCHANGED vars
  BY <1>14 DEF vars
<1>. HIDE DEF IInv, TypeOK, LocalsSet
<1>15. ASSUME NEW c \in Clients,
              \/ \E k \in Keys : GetRead(c, k)
              \/ MissInc(c)
              \/ HitInc(c)
              \/ WriteBack(c)
              \/ \E k \in Keys, p \in Providers, m \in Models, tok \in TokenValues,
                    ttl \in TTLInputs : Set(c, k, p, m, tok, ttl)
              \/ \E k \in Keys : Delete(c, k)
              \/ \E in \in ScanInputs : ScanStart(c, in[1], in[2], in[3])
              \/ \E k \in Keys : ScanVisit(c, k)
              \/ ScanGet(c)
              \/ ScanGetError(c)
              \/ ScanDel(c)
              \/ ScanEnd(c)
       PROVE  IInv'
  BY <1>15, <1>1, <1>2, <1>3, <1>4, <1>5, <1>6, <1>7, <1>8, <1>9, <1>10,
     <1>11, <1>12, Zenon
<1>. QED
  BY <1>13, <1>14, <1>15 DEF Next

(* Every reachable state is well typed: the Redis keyspace holds only     *)
(* stored entries, and the stats and the clients' locals have their types. *)
THEOREM TypeCorrect == Spec => []TypeOK
<1>. USE CacheAssumption DEF Stats
<1>1. Init => IInv
  BY DEF Init, IInv, TypeOK, LocalsSet, PCs
<1>2. IInv => TypeOK
  BY DEF IInv
<1>. QED
  BY <1>1, <1>2, IInvInductive, PTL DEF Spec

-----------------------------------------------------------------------------
(* A live key's Redis expiry is always its entry's ExpiresAt: Set hands    *)
(* Redis now + ttl with a positive ttl, and Get's write-back re-SETs only  *)
(* with a positive remaining ttl, which go-redis would otherwise turn into *)
(* no expiry at all.  Proved from the typing invariant.                    *)
THEOREM ExpiryMatchesInvariant == Spec => []RedisExpiryMatchesEntry
<1>. USE CacheAssumption
<1>1. Init => RedisExpiryMatchesEntry
  BY DEF Init, RedisExpiryMatchesEntry, Live
<1>2. IInv /\ RedisExpiryMatchesEntry /\ [Next]_vars => RedisExpiryMatchesEntry'
  <2> SUFFICES ASSUME IInv, RedisExpiryMatchesEntry, [Next]_vars
               PROVE  RedisExpiryMatchesEntry'
    OBVIOUS
  <2>. USE DEF IInv, TypeOK, LocalsSet, RedisExpiryMatchesEntry, Live
  <2>1. ASSUME NEW c \in Clients, WriteBack(c) PROVE RedisExpiryMatchesEntry'
    <3> DEFINE e == [snap[c] EXCEPT !.hits = @ + 1]
               ttl == e.expiresAt - now
    <3>0. snap[c] \in Entry
      BY <2>1 DEF WriteBack
    <3>1. e \in Entry
      BY <3>0, EntryHit
    <3>2. ttl > 0 => RedisExpiry(ttl) = e.expiresAt
      BY <3>1, WriteBackExpiry DEF Entry, RedisExpiry
    <3>3. CASE ttl > 0
      BY <2>1, <3>2, <3>3 DEF WriteBack
    <3>4. CASE ~(ttl > 0)
      BY <2>1, <3>4 DEF WriteBack
    <3>. QED
      BY <3>3, <3>4
  <2>2. ASSUME NEW c \in Clients, NEW k \in Keys, NEW p \in Providers,
               NEW m \in Models, NEW tok \in TokenValues, NEW t \in TTLInputs,
               Set(c, k, p, m, tok, t)
        PROVE  RedisExpiryMatchesEntry'
    <3> DEFINE ttl == IF t = 0 THEN DefaultTTL ELSE t
    <3>1. ttl \in Nat /\ ttl > 0
      BY SetTTLPositive
    <3>2. RedisExpiry(ttl) = now + ttl
      BY <3>1 DEF RedisExpiry
    <3>. QED
      BY <2>2, <3>2 DEF Set
  <2>3. ASSUME NEW c \in Clients, NEW k \in Keys, Delete(c, k)
        PROVE  RedisExpiryMatchesEntry'
    BY <2>3 DEF Delete
  <2>4. ASSUME NEW c \in Clients, ScanDel(c) PROVE RedisExpiryMatchesEntry'
    BY <2>4 DEF ScanDel
  <2>5. CASE Tick
    BY <2>5 DEF Tick
  <2>6. ASSUME NEW c \in Clients, NEW k \in Keys, GetRead(c, k)
        PROVE  RedisExpiryMatchesEntry'
    BY <2>6 DEF GetRead
  <2>7. ASSUME NEW c \in Clients, MissInc(c) \/ HitInc(c)
        PROVE  RedisExpiryMatchesEntry'
    BY <2>7 DEF MissInc, HitInc
  <2>8. ASSUME NEW c \in Clients, NEW in \in ScanInputs,
               ScanStart(c, in[1], in[2], in[3])
        PROVE  RedisExpiryMatchesEntry'
    BY <2>8 DEF ScanStart
  <2>9. ASSUME NEW c \in Clients, NEW k \in Keys, ScanVisit(c, k)
        PROVE  RedisExpiryMatchesEntry'
    BY <2>9 DEF ScanVisit
  <2>10. ASSUME NEW c \in Clients, ScanGet(c) \/ ScanGetError(c) \/ ScanEnd(c)
         PROVE  RedisExpiryMatchesEntry'
    BY <2>10 DEF ScanGet, ScanGetError, ScanEnd
  <2>11. CASE UNCHANGED vars
    BY <2>11 DEF vars
  <2>. QED
    BY <2>1, <2>2, <2>3, <2>4, <2>5, <2>6, <2>7, <2>8, <2>9, <2>10, <2>11
       DEF Next
<1>. QED
  <2>1. Spec => []IInv
    <3>. USE CacheAssumption DEF Stats
    <3>1. Init => IInv
      BY DEF Init, IInv, TypeOK, LocalsSet, PCs
    <3>. QED
      BY <3>1, IInvInductive, PTL DEF Spec
  <2>. QED
    BY <1>1, <1>2, <2>1, PTL DEF Spec
====
