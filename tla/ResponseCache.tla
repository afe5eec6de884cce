--------------------------- MODULE ResponseCache ---------------------------
(***************************************************************************)
(* The Redis-backed response cache of internal/cache/redis.go (RedisCache) *)
(* shared by concurrent goroutines (Clients).                              *)
(*                                                                         *)
(* Redis itself is atomic per command: one GET, SET or DEL is one step.    *)
(* What the Go code does between two commands is not: Get reads an entry,  *)
(* bumps the process-wide stats with plain ++ and +=, then writes the      *)
(* entry back with its hit count raised; Clear and the Invalidate*         *)
(* functions SCAN the keyspace and GET and DEL key by key.  Each of those  *)
(* is therefore a sequence of steps of one client, interleaved with the    *)
(* steps of the others.  A plain ++ on a shared int64 is a load and a      *)
(* store (a data race in Go); the model lets other steps fall between the  *)
(* two.                                                                    *)
(*                                                                         *)
(* Entries carry a ghost version number (ver), fresh for every Set, so     *)
(* that a property can tell an entry from a later one with equal fields.   *)
(***************************************************************************)
EXTENDS Integers, FiniteSets

CONSTANTS
    Clients,        \* goroutines calling the cache
    Keys,           \* cache keys (the "cache:" prefix is implicit)
    Providers,      \* metadata provider_id values
    Models,         \* metadata model_name values
    TokenValues,    \* metadata total_tokens values
    TTLInputs,      \* ttl arguments callers pass to Set
    DefaultTTL,     \* config.DefaultTTL, used when Set gets ttl = 0
    MaxAges,        \* maxAge arguments of InvalidateByAge
    Patterns,       \* pattern arguments of InvalidateByPattern
    PatternKeys,    \* PatternKeys[p]: the keys "cache:"+p+"*" matches
    Enabled,        \* config.Enabled
    RedisErrors,    \* whether a GET may fail with a non-Nil error
    Nil             \* an absent key / no value

ASSUME CacheAssumption ==
    /\ DefaultTTL \in Nat \ {0}
    /\ TTLInputs \subseteq Nat
    /\ TokenValues \subseteq Nat
    /\ MaxAges \subseteq Nat
    /\ PatternKeys \in [Patterns -> SUBSET Keys]
    /\ Enabled \in BOOLEAN
    /\ RedisErrors \in BOOLEAN

(* go-redis: a SET whose expiration is not positive stores the key with no *)
(* expiry at all.                                                          *)
NoExpiry == -1

VARIABLES
    redis,      \* redis[k]: [val |-> entry, exp |-> expiry time] or Nil
    stats,      \* rc.stats: Hits, Misses, TokensSaved
    now,        \* wall clock
    nextVer,    \* ghost: version number the next Set gives its entry
    pc,         \* pc[c]: where client c is in its current operation
    key,        \* key[c]: key of c's current Get, or key being scanned
    snap,       \* snap[c]: the entry c's Get read and decoded
    reg,        \* reg[c]: stats values c loaded before its ++ / +=
    scan,       \* scan[c]: c's current or last Clear/Invalidate* scan
    gets,       \* ghost: number of Get calls that returned
    returned    \* ghost: returned[c] = [entry, at] of c's last hit, or Nil

vars == <<redis, stats, now, nextVer, pc, key, snap, reg, scan, gets, returned>>

Entry ==
    [provider : Providers, model : Models, cachedAt : Nat, expiresAt : Nat,
     hits : Nat, tokens : TokenValues, ver : Nat]

Stored == [val : Entry, exp : Nat \cup {NoExpiry}]

ScanOps == {"clear", "provider", "model", "age", "pattern"}

ScanState ==
    [op : ScanOps, arg : Providers \cup Models \cup Patterns \cup {Nil},
     threshold : Int, left : SUBSET Keys, startVer : Nat]

PCs == {"idle", "miss_inc", "hit_inc", "writeback", "scan", "scan_get", "scan_del"}

(* rc.client.Set(ctx, k, data, ttl): the key's expiry as go-redis sets it. *)
RedisExpiry(ttl) == IF ttl > 0 THEN now + ttl ELSE NoExpiry

(* Redis never serves a key whose expiry has passed.                       *)
Live(k) == redis[k] # Nil

Init ==
    /\ redis = [k \in Keys |-> Nil]
    /\ stats = [hits |-> 0, misses |-> 0, tokensSaved |-> 0]
    /\ now = 1
    /\ nextVer = 1
    /\ pc = [c \in Clients |-> "idle"]
    /\ key = [c \in Clients |-> Nil]
    /\ snap = [c \in Clients |-> Nil]
    /\ reg = [c \in Clients |-> [hits |-> 0, misses |-> 0, tokensSaved |-> 0]]
    /\ scan = [c \in Clients |-> Nil]
    /\ gets = 0
    /\ returned = [c \in Clients |-> Nil]

-----------------------------------------------------------------------------
(* Get(ctx, key).                                                          *)

(* Fault variant: the Redis-error branch returns a miss without            *)
(* rc.stats.Misses++.                                                      *)
GetReadErrorUncounted(c, k) ==
    /\ Enabled
    /\ pc[c] = "idle"
    /\ key' = [key EXCEPT ![c] = k]
    /\ reg' = [reg EXCEPT ![c] = stats]
    /\ \/ /\ ~Live(k)
          /\ pc' = [pc EXCEPT ![c] = "miss_inc"]
          /\ UNCHANGED <<snap, gets>>
       \/ /\ RedisErrors
          /\ gets' = gets + 1
          /\ UNCHANGED <<pc, snap>>
       \/ /\ Live(k)
          /\ pc' = [pc EXCEPT ![c] = "hit_inc"]
          /\ snap' = [snap EXCEPT ![c] = redis[k].val]
          /\ UNCHANGED gets
    /\ UNCHANGED <<redis, stats, now, nextVer, scan, returned>>

(* The GET "cache:"+key.  redis.Nil and any other error are both a miss;   *)
(* the miss path goes on to rc.stats.Misses++ (loaded here).  A hit is     *)
(* decoded into snap and goes on to the Hits++ / TokensSaved += pair.      *)
GetRead(c, k) ==
    /\ Enabled
    /\ pc[c] = "idle"
    /\ key' = [key EXCEPT ![c] = k]
    /\ reg' = [reg EXCEPT ![c] = stats]
    /\ \/ /\ ~Live(k) \/ RedisErrors
          /\ pc' = [pc EXCEPT ![c] = "miss_inc"]
          /\ UNCHANGED snap
       \/ /\ Live(k)
          /\ pc' = [pc EXCEPT ![c] = "hit_inc"]
          /\ snap' = [snap EXCEPT ![c] = redis[k].val]
    /\ UNCHANGED <<redis, stats, now, nextVer, scan, gets, returned>>

(* rc.stats.Misses++ completes with the value loaded; Get returns a miss.  *)
MissInc(c) ==
    /\ pc[c] = "miss_inc"
    /\ stats' = [stats EXCEPT !.misses = reg[c].misses + 1]
    /\ pc' = [pc EXCEPT ![c] = "idle"]
    /\ gets' = gets + 1
    /\ UNCHANGED <<redis, now, nextVer, key, snap, reg, scan, returned>>

(* Fault variant: Hits++ left out of the hit path.                         *)
HitIncTokensOnly(c) ==
    /\ pc[c] = "hit_inc"
    /\ stats' = [stats EXCEPT !.tokensSaved = reg[c].tokensSaved + snap[c].tokens]
    /\ pc' = [pc EXCEPT ![c] = "writeback"]
    /\ UNCHANGED <<redis, now, nextVer, key, snap, reg, scan, gets, returned>>

(* rc.stats.Hits++ and rc.stats.TokensSaved += entry.TokensSaved complete  *)
(* with the values loaded.                                                 *)
HitInc(c) ==
    /\ pc[c] = "hit_inc"
    /\ stats' = [stats EXCEPT !.hits = reg[c].hits + 1,
                              !.tokensSaved = reg[c].tokensSaved + snap[c].tokens]
    /\ pc' = [pc EXCEPT ![c] = "writeback"]
    /\ UNCHANGED <<redis, now, nextVer, key, snap, reg, scan, gets, returned>>

(* Fault variant: the write-back without its ttl > 0 check.                *)
WriteBackUnguarded(c) ==
    LET e   == [snap[c] EXCEPT !.hits = @ + 1]
        ttl == e.expiresAt - now
    IN  /\ pc[c] = "writeback"
        /\ redis' = [redis EXCEPT ![key[c]] = [val |-> e, exp |-> RedisExpiry(ttl)]]
        /\ pc' = [pc EXCEPT ![c] = "idle"]
        /\ gets' = gets + 1
        /\ returned' = [returned EXCEPT ![c] = [entry |-> e, at |-> now]]
        /\ UNCHANGED <<stats, now, nextVer, key, snap, reg, scan>>

(* entry.Hits++, then, if time.Until(entry.ExpiresAt) > 0, SET the decoded *)
(* entry back under the key with that remaining ttl -- whatever the key    *)
(* holds by now.  Get returns the entry as a hit either way.               *)
WriteBack(c) ==
    LET e   == [snap[c] EXCEPT !.hits = @ + 1]
        ttl == e.expiresAt - now
    IN  /\ pc[c] = "writeback"
        /\ redis' = IF ttl > 0
                    THEN [redis EXCEPT ![key[c]] = [val |-> e, exp |-> RedisExpiry(ttl)]]
                    ELSE redis
        /\ pc' = [pc EXCEPT ![c] = "idle"]
        /\ gets' = gets + 1
        /\ returned' = [returned EXCEPT ![c] = [entry |-> e, at |-> now]]
        /\ UNCHANGED <<stats, now, nextVer, key, snap, reg, scan>>

-----------------------------------------------------------------------------
(* Set(ctx, key, response, ttl, metadata): one SET; ttl 0 means the        *)
(* default; CachedAt = now, ExpiresAt = now + ttl, Hits = 0.               *)
Set(c, k, p, m, tok, ttlIn) ==
    LET ttl == IF ttlIn = 0 THEN DefaultTTL ELSE ttlIn
        e   == [provider |-> p, model |-> m, cachedAt |-> now,
                expiresAt |-> now + ttl, hits |-> 0, tokens |-> tok, ver |-> nextVer]
    IN  /\ Enabled
        /\ pc[c] = "idle"
        /\ redis' = [redis EXCEPT ![k] = [val |-> e, exp |-> RedisExpiry(ttl)]]
        /\ nextVer' = nextVer + 1
        /\ UNCHANGED <<stats, now, pc, key, snap, reg, scan, gets, returned>>

(* Delete(ctx, key): one DEL.                                              *)
Delete(c, k) ==
    /\ Enabled
    /\ pc[c] = "idle"
    /\ redis' = [redis EXCEPT ![k] = Nil]
    /\ UNCHANGED <<stats, now, nextVer, pc, key, snap, reg, scan, gets, returned>>

-----------------------------------------------------------------------------
(* Clear, InvalidateByProvider, InvalidateByModel, InvalidateByAge and     *)
(* InvalidateByPattern: a SCAN over the keyspace.  InvalidateByAge fixes   *)
(* its threshold now - maxAge before the scan starts.                      *)
ScanStart(c, op, arg, maxAge) ==
    /\ Enabled
    /\ pc[c] = "idle"
    /\ pc' = [pc EXCEPT ![c] = "scan"]
    /\ scan' = [scan EXCEPT ![c] = [op |-> op, arg |-> arg, threshold |-> now - maxAge,
                                    left |-> Keys, startVer |-> nextVer]]
    /\ UNCHANGED <<redis, stats, now, nextVer, key, snap, reg, gets, returned>>

ScanInputs ==
    ({"clear"} \X {Nil} \X {0}) \cup ({"provider"} \X Providers \X {0})
    \cup ({"model"} \X Models \X {0}) \cup ({"age"} \X {Nil} \X MaxAges)
    \cup ({"pattern"} \X Patterns \X {0})

(* The SCAN cursor reaches key k.  A SCAN returns every key present for    *)
(* the whole scan, and only keys that match: "cache:*", or                 *)
(* "cache:"+pattern+"*" for InvalidateByPattern.  Clear and                *)
(* InvalidateByPattern go on to DEL the key; the metadata and age scans to *)
(* GET it first.                                                           *)
ScanVisit(c, k) ==
    LET s == scan[c] IN
    /\ pc[c] = "scan"
    /\ k \in s.left
    /\ scan' = [scan EXCEPT ![c].left = @ \ {k}]
    /\ key' = [key EXCEPT ![c] = k]
    /\ pc' = [pc EXCEPT ![c] =
                 IF ~Live(k) \/ (s.op = "pattern" /\ k \notin PatternKeys[s.arg])
                 THEN "scan"
                 ELSE IF s.op \in {"clear", "pattern"} THEN "scan_del" ELSE "scan_get"]
    /\ UNCHANGED <<redis, stats, now, nextVer, snap, reg, gets, returned>>

(* Fault variant: the model_name case compares the provider id.            *)
ShouldInvalidateCopyPaste(s, e) ==
    CASE s.op = "provider" -> e.provider = s.arg
      [] s.op = "model"    -> e.provider = s.arg
      [] s.op = "age"      -> e.cachedAt < s.threshold

(* Whether invalidateByMetadata or InvalidateByAge removes this entry.     *)
ShouldInvalidate(s, e) ==
    CASE s.op = "provider" -> e.provider = s.arg
      [] s.op = "model"    -> e.model = s.arg
      [] s.op = "age"      -> e.cachedAt < s.threshold

(* The GET of a scanned key: an error or a vanished key is skipped         *)
(* (continue); the key is deleted next if the entry matches.               *)
ScanGet(c) ==
    LET k == key[c] IN
    /\ pc[c] = "scan_get"
    /\ pc' = [pc EXCEPT ![c] =
                 IF Live(k) /\ ShouldInvalidate(scan[c], redis[k].val)
                 THEN "scan_del" ELSE "scan"]
    /\ UNCHANGED <<redis, stats, now, nextVer, key, snap, reg, scan, gets, returned>>

(* A failed GET of a scanned key: continue with the next key.              *)
ScanGetError(c) ==
    /\ RedisErrors
    /\ pc[c] = "scan_get"
    /\ pc' = [pc EXCEPT ![c] = "scan"]
    /\ UNCHANGED <<redis, stats, now, nextVer, key, snap, reg, scan, gets, returned>>

(* DEL of the scanned key: it removes whatever the key holds now.          *)
ScanDel(c) ==
    /\ pc[c] = "scan_del"
    /\ redis' = [redis EXCEPT ![key[c]] = Nil]
    /\ pc' = [pc EXCEPT ![c] = "scan"]
    /\ UNCHANGED <<stats, now, nextVer, key, snap, reg, scan, gets, returned>>

(* The iterator is exhausted: the function returns.                        *)
ScanEnd(c) ==
    /\ pc[c] = "scan"
    /\ scan[c].left = {}
    /\ pc' = [pc EXCEPT ![c] = "idle"]
    /\ UNCHANGED <<redis, stats, now, nextVer, key, snap, reg, scan, gets, returned>>

-----------------------------------------------------------------------------
(* Time passes; Redis drops every key whose expiry has come.               *)
Tick ==
    /\ now' = now + 1
    /\ redis' = [k \in Keys |->
                    IF redis[k] # Nil /\ redis[k].exp # NoExpiry /\ redis[k].exp <= now + 1
                    THEN Nil ELSE redis[k]]
    /\ UNCHANGED <<stats, nextVer, pc, key, snap, reg, scan, gets, returned>>

Next ==
    \/ \E c \in Clients :
          \/ \E k \in Keys : GetRead(c, k)
          \/ MissInc(c)
          \/ HitInc(c)
          \/ WriteBack(c)
          \/ \E k \in Keys, p \in Providers, m \in Models, tok \in TokenValues,
                ttl \in TTLInputs : Set(c, k, p, m, tok, ttl)
          \/ \E k \in Keys : Delete(c, k)
          \/ \E in \in ScanInputs : ScanStart(c, in[1], in[2], in[3])
          \/ \E k \in Keys : ScanVisit(c, k)
          \/ ScanGet(c)
          \/ ScanGetError(c)
          \/ ScanDel(c)
          \/ ScanEnd(c)
    \/ Tick

Spec == Init /\ [][Next]_vars

-----------------------------------------------------------------------------
(* Type invariant.                                                         *)
TypeOK ==
    /\ redis \in [Keys -> Stored \cup {Nil}]
    /\ stats \in [hits : Nat, misses : Nat, tokensSaved : Nat]
    /\ now \in Nat \ {0}
    /\ nextVer \in Nat \ {0}
    /\ pc \in [Clients -> PCs]
    /\ key \in [Clients -> Keys \cup {Nil}]
    /\ snap \in [Clients -> Entry \cup {Nil}]
    /\ reg \in [Clients -> [hits : Nat, misses : Nat, tokensSaved : Nat]]
    /\ scan \in [Clients -> ScanState \cup {Nil}]
    /\ gets \in Nat
    /\ returned \in [Clients -> [entry : Entry, at : Nat] \cup {Nil}]

(* Redis's own expiry of a key is the ExpiresAt of the entry it holds: Set *)
(* and Get's write-back both hand Redis the entry's remaining lifetime, so *)
(* no entry outlives its TTL in Redis, nor is dropped before it.           *)
RedisExpiryMatchesEntry ==
    \A k \in Keys : Live(k) => redis[k].exp = redis[k].val.expiresAt

(* Every Get that has returned was counted once in rc.stats: a hit in      *)
(* Hits (counted before the write-back), a miss in Misses.                 *)
StatsExact ==
    stats.hits + stats.misses = gets + Cardinality({c \in Clients : pc[c] = "writeback"})

(* Whether scan s is meant to remove entry e stored under key k: all of   *)
(* them for Clear, the keys with the pattern as prefix, the entries of the *)
(* provider or model, the entries cached before the age threshold.         *)
Removes(s, k, e) ==
    CASE s.op = "clear"    -> TRUE
      [] s.op = "pattern"  -> k \in PatternKeys[s.arg]
      [] s.op = "provider" -> e.provider = s.arg
      [] s.op = "model"    -> e.model = s.arg
      [] s.op = "age"      -> e.cachedAt < s.threshold

(* Once a Clear or Invalidate* call has returned, no entry it was meant to *)
(* remove is in the cache any more: every entry stored before the call     *)
(* began that matches its criterion is gone (spec scenario 6: after        *)
(* InvalidateByProvider a Get is a miss).                                  *)
InvalidationComplete ==
    \A c \in Clients :
        pc[c] = "idle" /\ scan[c] # Nil =>
            \A k \in Keys :
                Live(k) /\ redis[k].val.ver < scan[c].startVer
                    => ~Removes(scan[c], k, redis[k].val)

(* hits + misses never decreases (spec section 8; section 4.5 asks for     *)
(* atomic stats increments).                                               *)
StatsMonotonic ==
    [][stats'.hits + stats'.misses >= stats.hits + stats.misses]_vars

(* Get never returns an entry whose ExpiresAt is already past (spec        *)
(* section 8: no entry returned whose expires_at < now).                   *)
ReturnedNotExpired ==
    \A c \in Clients :
        returned[c] # Nil => returned[c].entry.expiresAt >= returned[c].at

=============================================================================
