----------------------- MODULE ResponseCacheSequential -----------------------
(***************************************************************************)
(* Proofs about the response cache when one goroutine uses it.  The        *)
(* cache_sequential run checks StatsExact and InvalidationComplete on such *)
(* an instance; the violation runs show what goes wrong with two           *)
(* goroutines (a lost ++, a write-back that resurrects an invalidated      *)
(* entry) and with a failing GET inside a scan.  Here the properties are   *)
(* proved for one goroutine and any keys, providers, models, TTLs, ages    *)
(* and patterns.                                                           *)
(***************************************************************************)
EXTENDS ResponseCacheProofs, FiniteSetTheorems

(* At most one goroutine calls the cache.                                  *)
Sequential == \A c, d \in Clients : c = d

(* A goroutine's load of rc.stats is still the current value when its ++   *)
(* completes: nobody else writes the stats in between.                     *)
StatsLoaded ==
    \A c \in Clients : pc[c] \in {"miss_inc", "hit_inc"} => reg[c] = stats

(* Goroutine c has started a scan: it is in one, or has run one.  In every *)
(* state of the model the second disjunct implies the first; it is there   *)
(* because the proofs know nothing of Nil but that it is a constant.       *)
ScanStarted(c) == scan[c] # Nil \/ pc[c] \in {"scan", "scan_get", "scan_del"}

(* The keys a scan has finished with hold nothing it was meant to remove   *)
(* that is older than the scan; the key it is working on is settled by     *)
(* its next step; a metadata or age scan is the one that GETs; the entry a *)
(* later Get holds is one the scan left alone.                             *)
ScanClearedFor(c) ==
    ScanStarted(c) =>
        /\ scan[c].startVer <= nextVer
        /\ pc[c] \in {"idle", "miss_inc", "hit_inc", "writeback"} => scan[c].left = {}
        /\ pc[c] = "scan_get" => scan[c].op \in {"provider", "model", "age"}
        /\ \A k \in Keys \ scan[c].left :
              \/ pc[c] \in {"scan_get", "scan_del"} /\ k = key[c]
              \/ ~(/\ Live(k)
                   /\ redis[k].val.ver < scan[c].startVer
                   /\ Removes(scan[c], k, redis[k].val))
        /\ pc[c] \in {"hit_inc", "writeback"} =>
              (snap[c].ver < scan[c].startVer => ~Removes(scan[c], key[c], snap[c]))

ScanCleared == \A c \in Clients : ScanClearedFor(c)

-----------------------------------------------------------------------------
(* The typing invariant of ResponseCacheProofs holds in every state.       *)
LEMMA IInvHolds == Spec => []IInv
<1>1. Init => IInv
  BY CacheAssumption DEF Init, IInv, TypeOK, LocalsSet, PCs
<1>. QED
  BY <1>1, IInvInductive, PTL DEF Spec

(* With one goroutine, the number of Gets between their Hits++ and their   *)
(* return is 1 or 0, as that goroutine is or is not at the write-back.     *)
LEMMA WritebackCount ==
    ASSUME Sequential, NEW c \in Clients, NEW f \in [Clients -> PCs]
    PROVE  Cardinality({d \in Clients : f[d] = "writeback"})
             = IF f[c] = "writeback" THEN 1 ELSE 0
<1>1. CASE f[c] = "writeback"
  <2>1. {d \in Clients : f[d] = "writeback"} = {c}
    BY <1>1 DEF Sequential
  <2>. QED
    BY <1>1, <2>1, FS_Singleton
<1>2. CASE f[c] # "writeback"
  <2>1. {d \in Clients : f[d] = "writeback"} = {}
    BY <1>2 DEF Sequential
  <2>. QED
    BY <1>2, <2>1, FS_EmptySet
<1>. QED
  BY <1>1, <1>2

-----------------------------------------------------------------------------
(* Every step of the single goroutine keeps the count exact and its loaded *)
(* stats current: the ++ it completes starts from the value it loaded,     *)
(* which is the current one, and a hit is counted when the goroutine moves *)
(* to the write-back and the Get when it leaves it.                        *)
LEMMA StatsInductive ==
    ASSUME Sequential
    PROVE  IInv /\ StatsExact /\ StatsLoaded /\ [Next]_vars
             => StatsExact' /\ StatsLoaded'
<1> SUFFICES ASSUME IInv, StatsExact, StatsLoaded, [Next]_vars
             PROVE  StatsExact' /\ StatsLoaded'
  OBVIOUS
<1>0. IInv'
  BY IInvInductive
<1>. DEFINE WB(c) == IF pc[c] = "writeback" THEN 1 ELSE 0
<1>a. ASSUME NEW c \in Clients
      PROVE  /\ Cardinality({d \in Clients : pc[d] = "writeback"}) = WB(c)
             /\ Cardinality({d \in Clients : pc'[d] = "writeback"}) = WB(c)'
  <2>1. pc \in [Clients -> PCs] /\ pc' \in [Clients -> PCs]
    BY <1>0 DEF IInv, TypeOK
  <2>2. Cardinality({d \in Clients : pc[d] = "writeback"})
          = IF pc[c] = "writeback" THEN 1 ELSE 0
    BY <2>1, WritebackCount
  <2>3. Cardinality({d \in Clients : pc'[d] = "writeback"})
          = IF pc'[c] = "writeback" THEN 1 ELSE 0
    BY <2>1, WritebackCount
  <2>. QED
    BY <2>2, <2>3
<1>. USE DEF IInv, TypeOK, LocalsSet, Stats, StatsExact, StatsLoaded, Sequential
<1>1. ASSUME NEW c \in Clients, NEW k \in Keys, GetRead(c, k)
      PROVE  StatsExact' /\ StatsLoaded'
  BY <1>1, <1>a DEF GetRead
<1>2. ASSUME NEW c \in Clients, MissInc(c) PROVE StatsExact' /\ StatsLoaded'
  BY <1>2, <1>a DEF MissInc
<1>3. ASSUME NEW c \in Clients, HitInc(c) PROVE StatsExact' /\ StatsLoaded'
  BY <1>3, <1>a DEF HitInc
<1>4. ASSUME NEW c \in Clients, WriteBack(c) PROVE StatsExact' /\ StatsLoaded'
  BY <1>4, <1>a DEF WriteBack
<1>5. ASSUME NEW c \in Clients, NEW k \in Keys, NEW p \in Providers,
             NEW m \in Models, NEW tok \in TokenValues, NEW t \in TTLInputs,
             Set(c, k, p, m, tok, t)
      PROVE  StatsExact' /\ StatsLoaded'
  BY <1>5, <1>a DEF Set
<1>6. ASSUME NEW c \in Clients, NEW k \in Keys, Delete(c, k)
      PROVE  StatsExact' /\ StatsLoaded'
  BY <1>6, <1>a DEF Delete
<1>7. ASSUME NEW c \in Clients, NEW in \in ScanInputs,
             ScanStart(c, in[1], in[2], in[3])
      PROVE  StatsExact' /\ StatsLoaded'
  BY <1>7, <1>a DEF ScanStart
<1>8. ASSUME NEW c \in Clients, NEW k \in Keys, ScanVisit(c, k)
      PROVE  StatsExact' /\ StatsLoaded'
  BY <1>8, <1>a DEF ScanVisit
<1>9. ASSUME NEW c \in Clients,
             ScanGet(c) \/ ScanGetError(c) \/ ScanDel(c) \/ ScanEnd(c)
      PROVE  StatsExact' /\ StatsLoaded'
  BY <1>9, <1>a DEF ScanGet, ScanGetError, ScanDel, ScanEnd
<1>10. CASE Tick
  BY <1>10 DEF Tick
<1>11. CASE UNCHANGED vars
  BY <1>11 DEF vars
<1>. QED
  BY <1>1, <1>2, <1>3, <1>4, <1>5, <1>6, <1>7, <1>8, <1>9, <1>10, <1>11
     DEF Next
-----------------------------------------------------------------------------
(* With one goroutine, rc.stats counts every Get exactly once: Hits +      *)
(* Misses equals the Gets that returned plus the one waiting at its        *)
(* write-back.  This holds whether or not Redis errors occur (a failing    *)
(* GET is a counted miss).  With two goroutines it fails: their ++        *)
(* interleave and one update is lost, as in run cache_stats_race.         *)
THEOREM StatsExactSequential ==
    ASSUME Sequential
    PROVE  Spec => []StatsExact
<1>1. Init => StatsExact /\ StatsLoaded
  <2>1. Init => Cardinality({c \in Clients : pc[c] = "writeback"}) = 0
    <3>1. Init => {c \in Clients : pc[c] = "writeback"} = {}
      BY DEF Init
    <3>. QED
      BY <3>1, FS_EmptySet
  <2>. QED
    BY <2>1 DEF Init, StatsExact, StatsLoaded
<1>2. Spec => [](StatsExact /\ StatsLoaded)
  BY <1>1, IInvHolds, StatsInductive, PTL DEF Spec
<1>. QED
  BY <1>2, PTL

(* With one goroutine, no step lowers Hits + Misses: the only steps that   *)
(* write rc.stats are the ++ of Get, and each starts from the current      *)
(* value.  The cache_stats_race run finds a step that lowers the sum when  *)
(* two goroutines' load and store of Hits++ interleave.                    *)
THEOREM StatsMonotonicSequential ==
    ASSUME Sequential
    PROVE  Spec => StatsMonotonic
<1>1. IInv /\ StatsLoaded /\ [Next]_vars
        => stats'.hits + stats'.misses >= stats.hits + stats.misses
  <2> SUFFICES ASSUME IInv, StatsLoaded, [Next]_vars
               PROVE  stats'.hits + stats'.misses >= stats.hits + stats.misses
    OBVIOUS
  <2>. USE DEF IInv, TypeOK, LocalsSet, Stats, StatsLoaded
  <2>1. ASSUME NEW c \in Clients, MissInc(c)
        PROVE  stats'.hits + stats'.misses >= stats.hits + stats.misses
    BY <2>1 DEF MissInc
  <2>2. ASSUME NEW c \in Clients, HitInc(c)
        PROVE  stats'.hits + stats'.misses >= stats.hits + stats.misses
    BY <2>2 DEF HitInc
  <2>3. ASSUME NEW c \in Clients,
               \/ \E k \in Keys : GetRead(c, k)
               \/ WriteBack(c)
               \/ \E k \in Keys, p \in Providers, m \in Models, tok \in TokenValues,
                     ttl \in TTLInputs : Set(c, k, p, m, tok, ttl)
               \/ \E k \in Keys : Delete(c, k)
               \/ \E in \in ScanInputs : ScanStart(c, in[1], in[2], in[3])
               \/ \E k \in Keys : ScanVisit(c, k)
               \/ ScanGet(c) \/ ScanGetError(c) \/ ScanDel(c) \/ ScanEnd(c)
        PROVE  stats' = stats
    BY <2>3 DEF GetRead, WriteBack, Set, Delete, ScanStart, ScanVisit, ScanGet,
                ScanGetError, ScanDel, ScanEnd
  <2>4. CASE Tick \/ UNCHANGED vars
    BY <2>4 DEF Tick, vars
  <2>. QED
    BY <2>1, <2>2, <2>3, <2>4 DEF Next
<1>2. Spec => [](IInv /\ StatsLoaded)
  <2>1. Init => StatsLoaded
    BY DEF Init, StatsLoaded
  <2>2. Init => StatsExact
    <3>1. Init => {c \in Clients : pc[c] = "writeback"} = {}
      BY DEF Init
    <3>. QED
      BY <3>1, FS_EmptySet DEF Init, StatsExact
  <2>. QED
    BY <2>1, <2>2, IInvHolds, StatsInductive, PTL DEF Spec
<1>. QED
  BY <1>1, <1>2, PTL DEF Spec, StatsMonotonic
-----------------------------------------------------------------------------
(* Whether a scan removes an entry depends only on the scan's kind,        *)
(* argument and threshold and on the entry's provider, model and CachedAt: *)
(* not on the keys left to visit, nor on the entry's hit count, which the  *)
(* write-back raises.                                                      *)
LEMMA RemovesCriterion ==
    ASSUME NEW s, NEW t, NEW k, NEW e, NEW f,
           s.op \in ScanOps, t.op = s.op, t.arg = s.arg, t.threshold = s.threshold,
           f.provider = e.provider, f.model = e.model, f.cachedAt = e.cachedAt
    PROVE  Removes(t, k, f) = Removes(s, k, e)
  BY DEF Removes, ScanOps

(* For the scans that GET the key first, ShouldInvalidate is the scan's    *)
(* criterion.                                                              *)
LEMMA ShouldInvalidateRemoves ==
    ASSUME NEW s, NEW k, NEW e, s.op \in {"provider", "model", "age"}
    PROVE  ShouldInvalidate(s, e) = Removes(s, k, e)
  BY DEF ShouldInvalidate, Removes

-----------------------------------------------------------------------------
(* Each step of the single goroutine keeps ScanCleared.  The hypothesis    *)
(* ~RedisErrors is used once: a failed GET in a scan skips a key the scan  *)
(* is meant to remove (run cache_get_error).  Sequential is used for every *)
(* step, as nothing else writes a key behind a scan's back (run            *)
(* cache_resurrect).                                                       *)
LEMMA ScanClearedStep ==
    ASSUME Sequential, ~RedisErrors, IInv, ScanCleared, [Next]_vars
    PROVE  ScanCleared'
<1>. USE DEF IInv, TypeOK, LocalsSet, ScanStarted
<1>1. ASSUME NEW c \in Clients, NEW k0 \in Keys, GetRead(c, k0)
      PROVE  ScanClearedFor(c)'
  <2>1. CASE scan[c] = Nil
    BY <1>1, <2>1 DEF GetRead, ScanClearedFor
  <2>2. CASE scan[c] # Nil
    <3>1. scan[c].left = {}
      BY <1>1, <2>2 DEF GetRead, ScanCleared, ScanClearedFor
    <3>2. \A k \in Keys : ~(/\ Live(k)
                            /\ redis[k].val.ver < scan[c].startVer
                            /\ Removes(scan[c], k, redis[k].val))
      BY <1>1, <2>2, <3>1 DEF GetRead, ScanCleared, ScanClearedFor
    <3>3. scan[c].startVer <= nextVer
      BY <2>2 DEF ScanCleared, ScanClearedFor
    <3>4. CASE pc'[c] = "miss_inc"
      BY <1>1, <2>2, <3>1, <3>2, <3>3, <3>4 DEF GetRead, ScanClearedFor, Live
    <3>5. CASE pc'[c] = "hit_inc"
      <4>1. Live(k0) /\ snap'[c] = redis[k0].val /\ key'[c] = k0
        BY <1>1, <3>5 DEF GetRead
      <4>. QED
        BY <1>1, <2>2, <3>1, <3>2, <3>3, <3>5, <4>1 DEF GetRead, ScanClearedFor, Live
    <3>. QED
      BY <1>1, <3>4, <3>5 DEF GetRead
  <2>. QED
    BY <2>1, <2>2
<1>2. ASSUME NEW c \in Clients, MissInc(c) \/ HitInc(c)
      PROVE  ScanClearedFor(c)'
  BY <1>2 DEF MissInc, HitInc, ScanCleared, ScanClearedFor, Live
<1>3. ASSUME NEW c \in Clients, WriteBack(c) PROVE ScanClearedFor(c)'
  <2>1. CASE scan[c] = Nil
    BY <1>3, <2>1 DEF WriteBack, ScanClearedFor
  <2>2. CASE scan[c] # Nil
    <3>1. scan[c] \in ScanState /\ snap[c] \in Entry
      BY <1>3, <2>2 DEF WriteBack
    <3>2. ScanClearedFor(c)
      BY DEF ScanCleared
    <3>3. /\ [snap[c] EXCEPT !.hits = @ + 1].ver = snap[c].ver
          /\ Removes(scan[c], key[c], [snap[c] EXCEPT !.hits = @ + 1])
               = Removes(scan[c], key[c], snap[c])
      BY <3>1, RemovesCriterion DEF Entry, ScanState
    <3>4. \A k \in Keys :
             \/ redis'[k] = redis[k]
             \/ k = key[c] /\ redis'[k].val = [snap[c] EXCEPT !.hits = @ + 1]
      BY <1>3 DEF WriteBack
    <3>5. \A k \in Keys : ~(/\ Live(k)'
                            /\ redis'[k].val.ver < scan[c].startVer
                            /\ Removes(scan[c], k, redis'[k].val))
      BY <1>3, <2>2, <3>2, <3>3, <3>4 DEF WriteBack, ScanClearedFor, Live
    <3>. QED
      BY <1>3, <2>2, <3>2, <3>5 DEF WriteBack, ScanClearedFor
  <2>. QED
    BY <2>1, <2>2
<1>4. ASSUME NEW c \in Clients, NEW k0 \in Keys, NEW p \in Providers,
             NEW m \in Models, NEW tok \in TokenValues, NEW t \in TTLInputs,
             Set(c, k0, p, m, tok, t)
      PROVE  ScanClearedFor(c)'
  <2>1. CASE scan[c] = Nil
    BY <1>4, <2>1 DEF Set, ScanClearedFor
  <2>2. CASE scan[c] # Nil
    <3>1. scan[c] \in ScanState /\ ScanClearedFor(c)
      BY <2>2 DEF ScanCleared
    <3>2. /\ pc[c] = "idle"
          /\ redis'[k0].val.ver = nextVer
          /\ \A k \in Keys \ {k0} : redis'[k] = redis[k]
          /\ nextVer' = nextVer + 1
          /\ UNCHANGED <<pc, key, snap, scan>>
      BY <1>4 DEF Set
    <3>3. scan[c].left = {} /\ scan[c].startVer <= nextVer
      BY <2>2, <3>1, <3>2 DEF ScanClearedFor
    <3>4. \A k \in Keys : ~(/\ Live(k)'
                            /\ redis'[k].val.ver < scan[c].startVer
                            /\ Removes(scan[c], k, redis'[k].val))
      <4> TAKE k \in Keys
      <4>1. CASE k = k0
        BY <3>1, <3>2, <3>3, <4>1 DEF ScanState
      <4>2. CASE k # k0
        <5>1. ~(/\ Live(k)
                /\ redis[k].val.ver < scan[c].startVer
                /\ Removes(scan[c], k, redis[k].val))
          BY <2>2, <3>1, <3>2, <3>3 DEF ScanClearedFor
        <5>2. redis'[k] = redis[k]
          BY <3>2, <4>2
        <5>. QED
          BY <5>1, <5>2 DEF Live
      <4>. QED
        BY <4>1, <4>2
    <3>. QED
      BY <3>1, <3>2, <3>3, <3>4 DEF ScanClearedFor, ScanState
  <2>. QED
    BY <2>1, <2>2
<1>5. ASSUME NEW c \in Clients, NEW k0 \in Keys, Delete(c, k0)
      PROVE  ScanClearedFor(c)'
  <2>1. \A k \in Keys : redis'[k] = redis[k] \/ ~Live(k)'
    BY <1>5 DEF Delete, Live
  <2>. QED
    BY <1>5, <2>1 DEF Delete, ScanCleared, ScanClearedFor, Live
<1>6. ASSUME NEW c \in Clients, NEW in \in ScanInputs,
             ScanStart(c, in[1], in[2], in[3])
      PROVE  ScanClearedFor(c)'
  BY <1>6 DEF ScanStart, ScanClearedFor
<1>7. ASSUME NEW c \in Clients, NEW k0 \in Keys, ScanVisit(c, k0)
      PROVE  ScanClearedFor(c)'
  <2>1. /\ scan[c] \in ScanState /\ ScanClearedFor(c) /\ pc[c] = "scan"
        /\ pc'[c] \in {"scan", "scan_get", "scan_del"} /\ key'[c] = k0
        /\ redis' = redis /\ nextVer' = nextVer
        /\ scan'[c] = [scan[c] EXCEPT !.left = @ \ {k0}]
    BY <1>7 DEF ScanVisit, ScanCleared
  <2>2. /\ scan'[c].left = scan[c].left \ {k0}
        /\ scan'[c].startVer = scan[c].startVer
        /\ scan'[c].op = scan[c].op
        /\ \A k \in Keys : Removes(scan'[c], k, redis[k].val)
                             = Removes(scan[c], k, redis[k].val)
    BY <2>1, RemovesCriterion DEF ScanState
  <2>3. \A k \in Keys \ scan[c].left :
           ~(/\ Live(k)
             /\ redis[k].val.ver < scan[c].startVer
             /\ Removes(scan[c], k, redis[k].val))
    BY <2>1 DEF ScanClearedFor
  <2>4. pc'[c] = "scan" => ~(Live(k0) /\ Removes(scan[c], k0, redis[k0].val))
    BY <1>7, <2>1 DEF ScanVisit, Removes, ScanState, ScanOps
  <2>5. pc'[c] = "scan_get" => scan[c].op \in {"provider", "model", "age"}
    BY <1>7, <2>1 DEF ScanVisit, ScanState, ScanOps
  <2>6. \A k \in Keys \ scan'[c].left :
           \/ pc'[c] \in {"scan_get", "scan_del"} /\ k = key'[c]
           \/ ~(/\ Live(k)'
                /\ redis'[k].val.ver < scan'[c].startVer
                /\ Removes(scan'[c], k, redis'[k].val))
    <3> TAKE k \in Keys \ scan'[c].left
    <3>1. CASE k = k0
      BY <2>1, <2>2, <2>4, <3>1 DEF Live
    <3>2. CASE k # k0
      BY <2>1, <2>2, <2>3, <3>2 DEF Live
    <3>. QED
      BY <3>1, <3>2
  <2>. QED
    BY <2>1, <2>2, <2>5, <2>6 DEF ScanClearedFor
<1>8. ASSUME NEW c \in Clients, ScanGet(c) PROVE ScanClearedFor(c)'
  <2>1. /\ scan[c] \in ScanState /\ ScanClearedFor(c) /\ pc[c] = "scan_get"
        /\ pc'[c] \in {"scan", "scan_del"}
        /\ UNCHANGED <<redis, nextVer, key, snap, scan>>
    BY <1>8 DEF ScanGet, ScanCleared
  <2>2. scan[c].op \in {"provider", "model", "age"}
    BY <2>1 DEF ScanClearedFor
  <2>3. pc'[c] = "scan" =>
           ~(Live(key[c]) /\ Removes(scan[c], key[c], redis[key[c]].val))
    BY <1>8, <2>2, ShouldInvalidateRemoves DEF ScanGet
  <2>4. \A k \in Keys \ scan[c].left :
           \/ pc'[c] \in {"scan_get", "scan_del"} /\ k = key[c]
           \/ ~(/\ Live(k)
                /\ redis[k].val.ver < scan[c].startVer
                /\ Removes(scan[c], k, redis[k].val))
    BY <2>1, <2>3 DEF ScanClearedFor
  <2>. QED
    BY <2>1, <2>4 DEF ScanClearedFor, Live
<1>9. ASSUME NEW c \in Clients, ScanGetError(c) PROVE ScanClearedFor(c)'
  BY <1>9 DEF ScanGetError
<1>10. ASSUME NEW c \in Clients, ScanDel(c) PROVE ScanClearedFor(c)'
  <2>1. \A k \in Keys : (redis'[k] = redis[k] /\ k # key[c]) \/ ~Live(k)'
    BY <1>10 DEF ScanDel, Live
  <2>. QED
    BY <1>10, <2>1 DEF ScanDel, ScanCleared, ScanClearedFor, Live
<1>11. ASSUME NEW c \in Clients, ScanEnd(c) PROVE ScanClearedFor(c)'
  <2>1. /\ ScanClearedFor(c) /\ pc[c] = "scan" /\ scan[c].left = {}
        /\ pc'[c] = "idle"
        /\ UNCHANGED <<redis, nextVer, key, snap, scan>>
    BY <1>11 DEF ScanEnd, ScanCleared
  <2>2. \A k \in Keys :
           ~(/\ Live(k)
             /\ redis[k].val.ver < scan[c].startVer
             /\ Removes(scan[c], k, redis[k].val))
    BY <2>1 DEF ScanClearedFor
  <2>. QED
    BY <2>1, <2>2 DEF ScanClearedFor, Live
<1>12. ASSUME Tick PROVE ScanCleared'
  <2>1. \A k \in Keys : redis'[k] = redis[k] \/ ~Live(k)'
    BY <1>12 DEF Tick, Live
  <2>. QED
    BY <1>12, <2>1 DEF Tick, ScanCleared, ScanClearedFor, Live
<1>13. CASE UNCHANGED vars
  BY <1>13 DEF vars, ScanCleared, ScanClearedFor, Live
<1>14. ASSUME NEW c \in Clients, ScanClearedFor(c)' PROVE ScanCleared'
  BY <1>14 DEF ScanCleared, Sequential
<1>. QED
  BY <1>1, <1>2, <1>3, <1>4, <1>5, <1>6, <1>7, <1>8, <1>9, <1>10, <1>11,
     <1>12, <1>13, <1>14 DEF Next

(* With one goroutine and a Redis whose GETs do not fail, Clear and every  *)
(* Invalidate* call keep their promise: once the call has returned, no     *)
(* entry stored before it began and matching its criterion is left in the *)
(* cache, whatever Sets, Deletes, Gets and expiries came before and after. *)
(* Together with the runs cache_resurrect and cache_get_error this shows   *)
(* that the two hypotheses are exactly what the code relies on.            *)
THEOREM InvalidationCompleteSequential ==
    ASSUME Sequential, ~RedisErrors
    PROVE  Spec => []InvalidationComplete
<1>1. Init => ScanCleared
  BY DEF Init, ScanCleared, ScanClearedFor, ScanStarted
<1>2. ScanCleared => InvalidationComplete
  BY DEF ScanCleared, ScanClearedFor, ScanStarted, InvalidationComplete
<1>3. IInv /\ ScanCleared /\ [Next]_vars => ScanCleared'
  BY ScanClearedStep
<1>. QED
  BY <1>1, <1>2, <1>3, IInvHolds, PTL DEF Spec
=============================================================================
