# Formal models of AgentiCorp

This directory holds TLA+ models of parts of AgentiCorp (the Go code under
`src/`). It contains the TLC configurations that model-check them, and TLAPS
proofs of their main invariants. `PROJECT.json` lists the following:

- each component and its status;
- each run, with the properties it checks;
- the fault variants (mutants) used to show that a property can catch a bug;
- the map from every modelled definition to the Go lines it stands for;
- the disagreements found between the code and `spec.md`;
- the hazards of the code.

## 1. The system and its parts

AgentiCorp dispatches work items ("beads") to AI agents. The code in this
snapshot contains these parts:

| Part | Source | State | Concurrency |
|---|---|---|---|
| Loop detector | `internal/dispatch/loop_detector.go` | per bead: `Context["action_history"]` (JSON list of ActionRecords, capped at 50), `Context["progress_metrics"]`; per detector: `repeatThreshold` | called from agent goroutines; no lock |
| Response cache | `internal/cache/redis.go` (lines 1-272) | Redis keys `prefix+key` holding JSON `CachedResponse` with a Redis TTL; in-process `stats` (hits, misses, tokensSaved) | any number of goroutines; Redis commands are atomic one by one, stats are not |
| Notification manager | `internal/config/config.go` (`ProcessActivity`, `Subscribe`, `Unsubscribe`, `broadcastToUser`) | preferences, subscriber channels (capacity 100) | RWMutex |
| Streaming client | `internal/provider/streaming.go` | the HTTP response body read line by line, the count of chunks handed to the handler | the caller's goroutine; the context can be cancelled from another goroutine, and net/http aborts the body read when it is |
| Lessons provider | `internal/dispatch/lessons_provider.go` | reads lessons from the DB | none |
| Lesson extractor, embedders, prompt optimizer | `unnamed/part_005`, `part_004`, `part_000` | pure text/vector functions | none |
| Git router and adapters | `internal/actions/git_factory.go`, `redis.go` 273-684 | per-project adapter cache | RWMutex |
| Config, activity/notification types, main | remaining files | none | none |

The workflow engine, dispatcher and provider scorer described in `spec.md` are
not in this snapshot; only their tests are.

The loop detector and the cache interact only through the dispatcher, which
is not in the snapshot. Each is modelled on its own.

## 2. Modules

### LoopDetector (`LoopDetector.tla`)

This module models the detector for one bead.

State:

- `history` is the decoded `action_history`.
- `metrics` is the decoded `progress_metrics`.
- `threshold` is `ld.repeatThreshold`.
- `now` is `time.Now()`, as a natural number; 0 is Go's zero time.
- `log` is a ghost variable. It holds every record stored since the last
  reset, with its time. The properties use it to say what the detector's
  answer means about what the agent really did.

Actions:

- `RecordAction` is the whole Go function. It builds the key with
  `generateProgressKey`, appends the record, truncates the history to the last
  `HistoryLimit` records and stores it. It then runs the trailing
  `updateProgressMetrics`, whose four-way switch sets `last_progress := now`.
- `SetRepeatThreshold` clamps its argument below at 2.
- `ResetProgress` clears both context keys.
- `Tick` advances the clock.

Queries:

- `IsStuckInLoop` is an operator. It requires `2*threshold` records, no
  progress within `ProgressTimeout`, and a run found by `findRepeatedPattern`.
- `findRepeatedPattern` is modelled from the code's loop over the last
  `RecentWindow` records:
  - `patternCounts` holds, per key, the length of the *last* maximal run that
    reaches the threshold;
  - the reported key is any key of maximal count, because Go iterates the map
    in random order.
- The SHA-256 key prefix is treated as injective on its input. Data keys are
  abstracted to whether `command` or `file_path` is present. `command` wins,
  as in the code.

### LoopDetectorRace (`LoopDetectorRace.tla`)

This module runs `RecordAction` from several goroutines with no lock, as in
`TestConcurrentActionRecording`. Each goroutine reads the history (`ReadHistory`)
and writes it back (`WriteHistory`). It then reads the metrics (`ReadMetrics`)
and writes them back (`WriteMetrics`). Each is a separate step on the bead's
context map.

### ResponseCache (`ResponseCache.tla`)

This module models `RedisCache` with goroutines `Clients`. Each Redis command
is one atomic step.

State:

- `redis` maps each key to `Nil` or to `[val: Entry, exp]`, where `exp` is
  the Redis expiry time, or `NoExpiry`.
- `stats` is the Go struct.
- Each goroutine has a program counter `pc`, the key it works on, the entry it
  read (`snap`), and the stats value it loaded (`reg`).
- `scan` holds the state of a running Clear or Invalidate*. It records the keys
  not yet visited and the version counter at its start.
- Ghost variables:
  - `ver` and `nextVer` stamp each Set, so a property can tell an old entry from
    a new one;
  - `gets` counts completed Gets;
  - `returned` records what each goroutine's last Get returned, and when.

`Get` is the sequence of these actions:

1. `GetRead`: the GET. A missing key or a Redis error goes to the miss path.
2. `MissInc`, or `HitInc`: `stats.Misses++`, or `stats.Hits++` with
   `TokensSaved +=`. Each is the store half of a load/store pair. The load is
   the `reg` copy taken in `GetRead`.
3. `WriteBack`: `AccessCount++`, then `SET` with `time.Until(ExpiresAt)` only
   when that is positive, then return.

Other actions:

- `Set` uses `DefaultTTL` when `ttl == 0`.
- `Delete` is a single `DEL`.
- The SCAN-based operations all use the same steps:
  - `ScanStart`;
  - `ScanVisit`: for each key, one visit, where the pattern filter of
    `InvalidateByPattern` applies;
  - `ScanGet` or `ScanGetError`: the GET of `invalidateByMetadata` or
    `InvalidateByAge`, and the `switch` in `ShouldInvalidate`;
  - `ScanDel`;
  - `ScanEnd`.
- `Clear` and `InvalidateByPattern` delete without a GET, as the code does.

`Tick` advances time and lets Redis expire keys. Redis semantics follow
go-redis: an expiration ≤ 0 means the key never expires.

The following are left out:

- `GetStats` (read-only);
- the corrupted-JSON branch of Get (only `Set` writes these keys, always with
  valid JSON);
- the connection set-up.

### StreamContract (`StreamContract.tla`)

This is the abstract promise of `CreateChatCompletionStream` to its caller
(spec §4.7). It has three variables:

- `offered`: the chunks, numbered 1, 2, ..., that have reached the client;
- `handled`: the chunks passed to the handler, in call order;
- `outcome`: `"pending"`, then `"ok"` or `"error"`.

`Offer` adds the next chunk. `Handle` passes the oldest chunk not yet handled.
`Succeed` is allowed only when `handled = offered`. `Fail` is allowed at any
time. Every step needs `outcome = "pending"`, so the call ends once.

### StreamReader (`StreamReader.tla`)

This module models `CreateChatCompletionStream` and `readStreamingResponse`
(`streaming.go` lines 33-154).

SSE lines are abstracted to five kinds:

- `blank`: an empty line or a `:` comment;
- `other`: a line without the `data: ` prefix;
- `bad`: data that is not valid JSON;
- `chunk`: a JSON chunk;
- `done`: `[DONE]`.

Each line on the wire carries the number of chunks the server had sent when it
wrote that line, so a chunk line carries its own number.

State:

- `pc` is one of `request`, `reading`, `handler` or `returned`.
- `ctxDone` says whether the context has been cancelled.
- `conn` is `none`, `open`, `eof`, `error` or `aborted`.
- `wire` holds the lines the server sent and the scanner has not consumed yet.
- `sentChunks` and `finished` belong to the server.
- `chunks` is `chunksReceived`.
- `delivered` is a ghost variable: the ids handed to the handler.
- `result` is the error class the call returned.

The client's actions follow the code's control flow:

- `DoError`, `BadStatus` and `DoOK` are the three outcomes of `client.Do` and
  the status check. `DoError` picks `request cancelled` when the context is
  done.
- Each `Read*` action is one `scanner.Scan()` that returned a line.
  `ReadCancelled` is the `select` on `ctx.Done()`: `interrupted` after a chunk,
  and the bare context error before one. `ReadSkip` covers the three
  `continue`s. `ReadDone` covers `[DONE]`. `ReadChunk` does `chunksReceived++`
  and calls the handler.
- `HandlerReturn` and `HandlerError` are the handler's two results.
- `ScanEndError` is `Scan` returning false on a failed connection. It gives
  `lost` after a chunk and `read error` before one.
- `ScanEndEOF` is `Scan` returning false at a clean end of file. It gives
  `no data` or success.
- Every return also runs the deferred `resp.Body.Close()`.

The environment actions are these:

- `Send` and `ServerClose`: the server. They are modelled from the protocol,
  since no server code is in `src/`.
- `ConnFail`: the connection breaks. The scanner may have consumed any prefix
  of what was sent, so the wire is cut to a prefix.
- `Cancel`: the caller cancels the context.
- `TransportAbort`: net/http closes the body of a request whose context is
  done (`http.NewRequestWithContext`).

Connection faults and non-200 statuses are enabled by the constant `Faults`.
Handler errors are enabled by `HandlerErrors`.

### NotificationFanout (`NotificationFanout.tla`)

This module models the notification `Manager` of `config.go`. One goroutine
(`subscribeToActivities`) runs `ProcessActivity` for each activity of the feed.
Its steps for each user are:

1. `PANextUser`: ShouldNotify's `GetPreferences`. It may fail, or find no row.
2. `PACreateDefault`: `createDefaultPreferences`, whose upsert writes the
   defaults over whatever the row holds by now.
3. The filter rules: `isEventSubscribed`, `determinePriority`,
   `meetsPriorityThreshold`, and whether `formatNotification` gives a title.
4. `PAReadPrefs` or `PAReadPrefsError`: ProcessActivity's own second
   `GetPreferences`, for `EnableInApp`.
5. `PACreate`: `CreateNotification`. A failure skips the user.
6. `PABroadcast`: `broadcastToUser`, which holds the read lock for the whole
   loop.

HTTP handlers call these between those steps:

- `Subscribe` makes a new channel of capacity `ChanCap` and stores it over
  whatever the map held.
- `Unsubscribe` closes the channel and deletes its entry.
- `UpdatePreferences` upserts the user's row.

Each subscriber channel's stream takes notifications off the buffer
(`Receive`). That reader is outside `src/` and is modelled from the spec's
fan-out section.

State:

- `subs` is `m.subscribers`.
- `chans` holds every channel made, with its buffer, its closed flag and what
  its stream received.
- `prefs` is the preferences table, and `store` the notifications table.
- `pa` is ProcessActivity's position.
- `prefsBy` is a ghost variable: who last wrote the user's row.

The following are left out:

- `inQuietHours`: it depends on the time of day, and the defaults have no
  quiet hours;
- the single database calls `GetNotifications`, `MarkRead` and `MarkAllRead`.

## 3. Runs

TLC bounds a run with a `CONSTRAINT` in the MC module. The specifications
themselves stay unbounded, so the proofs hold for every value.

| Run | Config | Expect | Shows |
|---|---|---|---|
| loopdetector | MCLoopDetector.cfg | pass | `TypeOK`; `HistoryIsRecentLog` (the history is exactly the last `HistoryLimit` records of the log); `StuckOnlyWhenLooping` (stuck ⇒ the last `threshold` records of the window have one key, and no progress within the timeout); `StuckDetectedWithinWindow` (with a threshold that fits the window, a run of `threshold` equal keys at the end and no progress ⇒ stuck) |
| loopdetector_race | MCLoopDetectorRace.cfg | violation | `HistoryIsRecentLog`: concurrent RecordAction loses records |
| cache_sequential | MCResponseCache.cfg | pass | `RedisExpiryMatchesEntry` (a live key's Redis expiry is its entry's `ExpiresAt`), `StatsExact` (hits + misses = completed Gets, with one goroutine), `InvalidationComplete` (after Clear/Invalidate* returns, no entry older than its start that it targets remains) |
| cache_errors | MCResponseCacheErrors.cfg | pass | `StatsExact` with one goroutine whose GETs may fail, in Get and in every invalidation scan: a failed GET still counts as one miss |
| cache_expired | MCResponseCacheExpired.cfg | violation | `ReturnedNotExpired`: Get returns an entry as a hit after its `ExpiresAt` has passed |
| cache_stats_race | MCResponseCacheStats.cfg | violation | `StatsMonotonic`: hits + misses can decrease |
| cache_resurrect | MCResponseCacheResurrect.cfg | violation | `InvalidationComplete`: the write-back restores an invalidated entry |
| cache_get_error | MCResponseCacheGetError.cfg | violation | `InvalidationComplete`: with one goroutine, a failed GET inside InvalidateByProvider leaves the provider's entry cached |
| stream_reader | MCStreamReader.cfg | pass | `ContractSpec` (the client implements `StreamContract`: chunks handled in order, none twice or skipped, success only after every chunk that arrived was handled); `ReturnsOnceEndedOrCancelled` (once the stream ends, fails, or the context is cancelled, the call returns) |
| fanout | MCNotificationFanout.cfg | pass | `TypeOK`; `RegistryConsistent` (every channel in the map is open, belongs to that user and is registered once, so a broadcast never sends on a closed channel and Unsubscribe never closes twice); `DeliveredWereStored` (a stream only holds stored notifications of its own user, also when CreateNotification fails) |
| fanout_orphan | MCNotificationFanoutOrphan.cfg | violation | `OpenChannelsRegistered`: a repeated Subscribe leaves an open channel nobody can close |
| fanout_prefs | MCNotificationFanoutPrefs.cfg | violation | `UserPrefsKept`: createDefaultPreferences overwrites preferences the user just saved |

### Bounds

Loop detector:

- `HistoryLimit` 6 and `RecentWindow` 4 stand in for 50 and 15. The window is
  smaller than the cap, as in the code.
- The threshold inputs are {0, 2, 3}. 0 exercises the clamp, and 3 equals
  `DefaultThreshold`.
- The log is bounded at 7 records. That is more than the cap, so truncation
  happens. `ProgressTimeout` is 2 and the clock runs to 3, so both sides of the
  progress window occur.
- There are three actions:
  - a progress action on a file;
  - a non-progress action whose key is its command;
  - a non-progress action with neither a command nor a file path.

  These produce runs of one key, alternations, and progress that resets
  detection.

Cache:

- The sequential run uses:
  - two keys and two providers, so targeted and untargeted entries coexist;
  - TTL inputs {0, 2}, so both the default TTL 1 and an explicit TTL occur;
  - one age and one pattern;
  - a clock to 3, three Sets and three Gets.
- The error run uses the sequential instance with one provider and failing
  GETs, so both Get and every scan meet a failed GET.
- The violation runs use one key. Two goroutines under client symmetry are
  enough for the races; the expiry run needs one goroutine and two ticks.

Streaming client:

- all five line kinds, connection faults, bad statuses and handler errors;
- at most two chunks sent and three lines unconsumed.

  With two chunks, a failure or a cancellation can fall between them, and the
  reader can be behind the server. Three lines let a skipped line, a chunk and
  `[DONE]` be in flight together. Keep-alive lines can be sent without end, so
  a stream that never finishes appears as a cycle in the state graph.
- `CHECK_DEADLOCK FALSE`, because a returned call is a final state.

Notification fan-out:

- two users and one subscriber id, so a repeated Subscribe replaces a channel;
- channel capacity 1, so a full buffer drops a notification;
- two activities: one notifies only the assigned user, one notifies everybody;
- two saved preference choices: one disables in-app notifications, and one
  filters by event and priority;
- up to two channels and two notifications, so one channel can hold two
  notifications;
- failing database calls in the passing run.

### Mutants

Each property of a passing run is broken by a plausible bug in the code it
models. These are listed under `mutants` in `PROJECT.json`:

| Fault variant | Breaks |
|---|---|
| an unclamped threshold | `TypeOK` |
| a truncation that keeps one record too few | `HistoryIsRecentLog` |
| a progress window one unit too short | `StuckOnlyWhenLooping` |
| a strict `>` for the run length | `StuckDetectedWithinWindow` |
| a write-back without the `ttl > 0` guard | `RedisExpiryMatchesEntry` |
| a hit path that forgets `Hits++` | `StatsExact` |
| a copy-paste error in the model case of `ShouldInvalidate` | `InvalidationComplete` |
| a Redis-error branch of Get that returns without `Misses++` | `StatsExact` (error run) |
| a Subscribe that records the channel index before the append | `TypeOK` (of the fan-out) |
| an Unsubscribe that closes the channel but keeps its map entry | `RegistryConsistent` |
| a failed `CreateNotification` that is still broadcast | `DeliveredWereStored` |
| a scan end that ignores `scanner.Err()` | `ContractSpec` |
| a loop that waits for `[DONE]` after a clean EOF | `ReturnsOnceEndedOrCancelled` |

### Fairness

Only the streaming client has a liveness property. `FairSpec` assumes weak
fairness of four groups of actions:

- `Request`: `client.Do` returns;
- `Read`: `Scan` returns when a line or the end of the body is there;
- `Handler`: the handler returns;
- `TransportAbort`: net/http closes the body of a cancelled request.

The client runs in one goroutine with no lock. Each group is a call that
returns once its input is there. net/http's request goroutine watches
`ctx.Done()` and closes the connection. Nothing is assumed of the server,
which may stall forever, or of the caller, who may never cancel. So
`ReturnsOnceEndedOrCancelled` asks for a return only after an end of the
stream or a cancellation. Without `TransportAbort`, a stalled server and a
cancelled context would leave `Scan` blocked: the `select` at line 98 is
reached only between lines.

TLC bounds the runs with a `CONSTRAINT`, and it warns that a constraint can
hide a liveness violation. A cut-off state has no successor, and this run
treats such a state as final. The bound disables only `Send`.
`ServerClose`, `ConnFail`, `Cancel` and every client action stay enabled at
the bound. So each premise of `ReturnsOnceEndedOrCancelled` can still be
reached, and no client step after it is cut.

The other components need no fairness. Every property checked there is a
safety property. No goroutine in them waits on another. The cache locks only
inside Redis, one command at a time. The fan-out's mutex is held for one map
operation or one non-blocking broadcast.

### Refinement

The `stream_reader` run checks `ContractSpec == Contract!Spec` as a property.
`Contract` is the instance of `StreamContract` with these substitutions:

- `offered <- [i \in 1..sentChunks |-> i]`;
- `handled <- delivered`;
- `outcome <-` `"pending"` until the call returns, then `"ok"` for a nil
  return and `"error"` for any other.

Chunks the server sent count as offered. A chunk lost in a failed connection
is therefore offered and never handled, and the contract allows that only with
an error.

## 4. Findings

Section 8 of `spec.md` and its scenarios state properties that the code does
not meet. Each is shown by a violation run and listed in `findings`:

- `RecordAction` has no per-bead lock (spec §5).
- The stats increments are not atomic (spec §4.5 and §8).
- The write-back of `Get` resurrects invalidated entries (scenario 6). The
  same unconditional SET can also put an older entry over a newer Set
  (spec §3 and §4.5).
- A failed GET during InvalidateByProvider/Model leaves the matching entry
  cached, with one goroutine (spec §7: storage errors are retried; scenario 6).
- A repeated Subscribe orphans an open channel (spec §9: teardown closes
  subscribers).
- Default preferences overwrite the user's saved ones.
- Get returns an entry that has expired (spec §8: no entry is returned
  whose `expires_at < now`; §2: readers treat an expired entry as a miss).
  It computes `time.Until(entry.ExpiresAt)` and skips the write-back when
  that is not positive, but returns the entry as a hit anyway.

## 5. Proofs

`LoopDetectorProofs.tla` holds these TLAPS proofs. They are checked with
`tlapm LoopDetectorProofs.tla`.

- `TypeCorrect`: `Spec => []TypeOK`, for every value of the constants that
  satisfies `LoopDetectorAssumption`. It is an induction with one step per
  action.
- `HistoryIsRecentLogInvariant`: `Spec => []HistoryIsRecentLog`.
  - The invariant is inductive together with `TypeOK`, which is proved first
    and cited.
  - The heart is the lemma `AppendKeepsRecent`: if `h` is the last `K` stripped
    entries of `l`, then `LastN(Append(h, x), K)` is the last `K` entries of
    `Append(l, y)` when `Strip(y) = x`.
  - It rests on:
    - `LastNProperties`: the length and the elements of `LastN`, from
      `SubSeqProperties`;
    - `ShiftBounds`: the index arithmetic, kept apart so that the SMT solver
      sees it without sequence terms.

`ResponseCacheProofs.tla` holds these TLAPS proofs. They hold for every value
of the constants that satisfies `CacheAssumption`, including any number of
goroutines and keys.

- `TypeCorrect`: `Spec => []TypeOK`.
  - `TypeOK` alone is not inductive. `HitInc` reads `snap[c].tokens`, and
    `ScanVisit` reads `scan[c].left`; a state where a client sits at those
    steps with its locals unset is well typed, but it is not reachable.
  - The strengthening `IInv = TypeOK /\ LocalsSet` says that the program
    counter determines which locals are set. Its preservation is the lemma
    `IInvInductive`, with one step per action.
  - TLC also checks `IInv` on the sequential instance.
- `ExpiryMatchesInvariant`: `Spec => []RedisExpiryMatchesEntry`.
  - It is inductive relative to `IInv`. Only `Set`, `WriteBack`, `Delete`,
    `ScanDel` and `Tick` touch `redis`.
  - The two that store an entry hand go-redis a positive TTL: `SetTTLPositive`
    covers `Set`, and the `ttl > 0` guard covers the write-back. The arithmetic
    `now + (ExpiresAt - now) = ExpiresAt` is the lemma `WriteBackExpiry`.

`StreamReaderProofs.tla` holds these TLAPS proofs. They hold for every set of
line kinds and every fault setting that satisfies `StreamAssumption`.

- `InvariantHolds`: `Spec => []IInv`. `IInv` strengthens `TypeOK` with these
  facts:
  - `delivered` is `1..chunks`;
  - `chunks <= sentChunks`;
  - `conn` is `open` only while reading or in the handler;
  - the request phase has an empty wire;
  - while the call runs, the wire is well formed (`WireOK`). Ids do not exceed
    `sentChunks`, and the first chunk line carries `chunks + 1`. Each line
    carries the previous id, plus one if it is a chunk. A `done` line is last
    and carries `sentChunks`. On an `open` or `eof` connection, the last line
    carries `sentChunks`.

  The wire's ids are the heart of the argument. They show that a chunk read by
  `ReadChunk` is the next one the contract expects. They also show that
  `[DONE]`, or an EOF on a connection that did not fail, arrives only when
  every sent chunk has been read.
  - Lemmas `TailKeepsWire`, `PrefixKeepsWire` and `AppendKeepsWire` state how
    `Scan`, a broken connection and a `Send` keep `WireOK`.
  - `IotaAppend` states that appending `n+1` to `1..n` gives `1..n+1`.
- `TypeCorrect`: `Spec => []TypeOK`.
- `Refinement`: `Spec => ContractSpec`.
  - `InitRefines` shows that an initial state maps to the contract's initial
    state.
  - `StepRefines` shows that each step maps to a contract step or a stutter:
    - `Send` of a chunk is `Offer`;
    - `ReadChunk` is `Handle`;
    - a nil return is `Succeed`;
    - an error return is `Fail`;
    - every other step is a stutter.

`NotificationFanoutProofs.tla` holds these TLAPS proofs. They hold for every
value of the constants that satisfies `FanoutAssumption`: any number of users,
subscriber ids, activities, channels and saved preferences, and any channel
capacity. The assumption says that `None` is neither a user nor a number, and
that users save well-formed preferences.

- `InvariantHolds`: `Spec => []IInv`. `IInv` is the conjunction of four
  facts:
  - `TypeOK`;
  - `RegistryConsistent`;
  - `PALocalsSet`: ProcessActivity holds an activity once it has started and
    a user once one is picked. From ShouldNotify on, it holds a notification
    addressed to that user, and from the broadcast step on, that notification
    is stored.
  - `ChannelsStored`: every notification in a channel's buffer, or received
    from it, is stored and addressed to the channel's user.

  Each action has one lemma.
  - `SubscribeIInv`: the new channel's index, `Len(chans) + 1`, is not
    referenced by any entry. Every entry is an older index or `None`, which
    is not a number.
  - `UnsubscribeIInv`: the closed channel is referenced by no other entry,
    because entries are unique.
  - `PABroadcastIInv`: the channels found by `UserChans(pa.u)` belong to
    `pa.u`, by `RegistryConsistent`. The notification appended to them is
    stored and is `pa.u`'s, by `PALocalsSet`.
- `TypeCorrect` and `RegistryConsistentInvariant` follow directly from
  `InvariantHolds`.
- `DeliveredWereStoredInvariant` follows from it through
  `ChannelsStoredDelivered`, which splits `buf \o got` with
  `ConcatProperties`.

TLC checked `IInv` on the `fanout` instance, on 492,699 states, before the
proof.

`LoopDetectorStuck.tla` (checked with `tlapm LoopDetectorStuck.tla`) proves
the two invariants about the stuck query, for every history limit, window,
timeout and threshold that satisfy `LoopDetectorAssumption`.

- `StuckOnlyWhenLoopingInvariant`: `Spec => []StuckOnlyWhenLooping`.
- `StuckDetectedWithinWindowInvariant`: `Spec => []StuckDetectedWithinWindow`.

Both are state predicates about `IsStuckInLoop`, so they follow from
invariants about what the query reads:

- `HistoryIsRecentLog` (proved above): the stored history is the last
  `HistoryLimit` records of the ghost log.
- `ProgressTracked`, new, with the lemma `ProgressTrackedHolds`: every record
  is no later than `now`, and a progress-class record is no later than
  `LastProgress`. A nonzero `LastProgress` is the time of some progress-class
  record. `RecentProgressMatches` derives from it that `hasRecentProgress` is
  exactly "a progress-class record less than `ProgressTimeout` ago". TLC
  checked `ProgressTracked` on the `loopdetector` instance (267k states)
  before the proof.

The query itself is reasoned about through lemmas on its operators:

- `RecentWindowOfLog`: the window is the last `RecentWindow` log records,
  position by position.
- `PatternCountWitness`: the `CHOOSE` in `patternCounts` is well defined. The
  starts of a key's long runs form a nonempty bounded set of naturals, and
  `NatMaxExists` gives its greatest element.
- `RunAtEnd`: identical last `n` records end a maximal run of at least `n`.
  It takes the least start, from `NatMinExists`.
- `FindPatternSound` and `FindPatternComplete`: the counts
  `findRepeatedPattern` can report. `IsStuckCases` splits the query's answers.

`NatMinExists` and `NatMaxExists` come from the well-foundedness of `<` on
`Nat` (`WFMin`). No induction with an operator parameter is needed, because
the model's `patternCounts` is a set comprehension, not a recursion.

`ResponseCacheSequential.tla` (checked with `tlapm ResponseCacheSequential.tla`)
proves the cache's correctness properties for a single goroutine
(`Sequential`: all clients are equal). Keys, providers, models, TTLs, ages and
patterns are arbitrary. With several goroutines the properties are false, and
the violation runs show it, so the hypothesis states what holds, not less.

- `StatsExactSequential`: `Spec => []StatsExact`, with or without Redis
  errors. Runs `cache_sequential` and `cache_errors` check the two
  cases on a small instance. The strengthening `StatsLoaded` says that a goroutine about to
  `++` holds the current stats. With two goroutines this fails: the other
  one's write-back intervenes (run `cache_stats_race`).
- `StatsMonotonicSequential`: `Spec => StatsMonotonic`, the action property,
  from `StatsLoaded`.
- `InvalidationCompleteSequential`: also assumes `~RedisErrors`. Run
  `cache_get_error` shows that a failing GET inside a scan leaves a matching
  entry. The strengthening `ScanCleared` covers every scan in progress:
  - its start version is no later than the next version;
  - every key it has passed, other than the one being visited, holds no live
    entry older than the scan that its criterion removes;
  - a write-back pending after the scan does not hold such an entry.

  `ScanClearedStep` proves it with one case per action. `RemovesCriterion` and
  `ShouldInvalidateRemoves` connect the scan's filter (`shouldInvalidate`,
  `MatchPattern`) to the criterion that `InvalidationComplete` names. A
  scan's locals are unset (`Nil`) before it starts, so every fact about them
  is guarded by `ScanStarted(c)`. TLC checked `StatsLoaded` and
  `ScanCleared` on the `cache` instance (2.06M states) before the proof.

What stays with TLC:

- `InvalidationComplete`, `StatsExact` and `StatsMonotonic` with several
  goroutines, which are violated (the findings of §4);
- the other violation runs;
- the properties of `LoopDetectorRace`, which has no proof module;
- `ReturnsOnceEndedOrCancelled`, a liveness property.

Liveness and ENABLED are out of the prover's reach.

## 6. Not modelled, and the plan

These hazards are observed, but no run checks them:

- `SetRepeatThreshold` clamps only from below (`loop_detector.go:46`). A
  threshold above the 15-record window, or above 25 with the 50-record cap,
  makes `IsStuckInLoop` never report a loop. Spec §4.1 itself examines only the
  last 15 records, so it promises no detection for such a threshold;
  `StuckDetectedWithinWindow` states and proves detection for every threshold
  up to the window.
- `patternCounts` keeps the last run of a key, and the reported pattern comes
  from random map order. The stuck reason can name a shorter or older run than
  spec §4.1 describes. It affects only the diagnostic text, which the model
  abstracts.
- A cancellation that net/http turns into a failed read is reported as
  `stream connection lost`, not `stream interrupted` (`streaming.go:98`).
  `CancelSurfacesAsInterrupted` states the spec's wording, and TLC finds it
  violated. Only the error text differs.
- A stream that the server closes after some chunks but before `[DONE]` is
  returned as success (`streaming.go:153`). The code's comment accepts this on
  purpose.

Plan:

| Order | Component | Plan |
|---|---|---|
| 1 | Notification manager | `inQuietHours` as a pure operator over minutes, checked against the intended circular interval; `MarkRead`/`MarkAllRead`. |
| 2 | Lesson extractor | Pure operators checked against a reference over small transcripts. |

Not modelled at all:

- the Git router: `forProject` creates an adapter outside the lock and stores
  it without checking again, so two callers can create two adapters for one
  project. Whether a duplicate matters depends on `git.GitService`, whose code
  is not in this repository.
- the lessons provider: every branch is a call into the lessons database,
  whose code is not in this repository. The budget loop only formats text.
- the embedders: float32 vector arithmetic over 256 dimensions with FNV
  hashing, out of TLC's reach;
- the git adapters and metadata parsing: delegation and string parsing with no
  state;
- config and passwords, types, and main: I/O and data declarations;
- the prompt optimizer: heuristic text analysis producing a report.
