# BOBO-forum: a TLA+ model

BOBO-forum is a forum back end of four Go services on go-zero: an HTTP gateway
and three RPC services (auth, post, interaction), over MySQL, Redis and Kafka.
This directory models what in them has state, concurrency or failures in TLA+,
checks it with TLC and proves theorems about it with TLAPS. Paths are relative to
`src/`; where the service is clear, a file of its `internal/` directory is named
alone.

Contents: [1 Inventory](#1-inventory), [2 Modules and code](#2-modules-and-code),
[3 Runs](#3-runs-what-they-check-and-show), [4 Proofs](#4-proofs),
[5 Disagreements found](#5-disagreements-found), [6 Not modelled](#6-not-modelled-and-known-simplifications),
[7 Plan](#7-plan).

## 1. Inventory

```
 client ──HTTP──▶ api-gateway ──RPC──▶ auth        ──▶ MySQL users
                      │ ├──────RPC──▶ post        ──▶ MySQL posts, comments; Redis; local caches
                      │ └──────RPC──▶ interaction ──▶ MySQL likes; Redis; Kafka topic like_events
                      │                    │ batch consumer, syncers, checker
                      │                    └──▶ MySQL posts.like_count, comments.like_count
```

Production runs three replicas of post and three of interaction
(`k8s/overlays/prod/kustomization.yaml`), so whatever a service keeps in memory
(bloom filter, local cache, marker map, breaker, Snowflake generator) exists once
per replica.

| component | state | operations | what is hard | what makes it correct | module |
|---|---|---|---|---|---|
| circuit breaker (`circuit_breaker.go`, used by `hot_service.go`) | state, four counters, last failure time | Allow, RecordSuccess, RecordFailure, Reset, Call | outcomes of requests admitted in an earlier state arrive late | trips and closes on enough outcomes in a row; refuses during the timeout; recovers when Redis does | `CircuitBreaker` |
| cache loader (`cache_loader.go`) | local cache, Redis entry with TTL, Redis lock with TTL | GetOrLoad, getWithLock, acquireLock, releaseLock, waitForCache | a loader that outlives its lock; waiters that poll until a deadline; copies that outlive an update or deletion | the lock is a lease; every request ends; a hot post gets cached; stale copies die out | `CacheLoader`, implements `LeaseLock` |
| like pipeline (interaction) | likes table, Redis count and relation set, Kafka topic, MySQL like_count | Like, Unlike, GetLikeStatus, batch consumer, syncer, checker | commit, count, relation and message are four unconnected writes; consumer replays; consumers and checker read numbers at different moments and write them later | acknowledged likes are in the table; the copies agree once everything has settled | `LikePipeline` |
| pending-set syncer (`sync/like_count_syncer.go`) | Redis set of targets, lifecycle of the syncer | MarkPendingSync, Start, syncToMySQL, ForceSync, CheckAndFix, Stop | a mark set between read and removal is lost; failing targets keep their place in the pass | a marked target is synchronised | `PendingSync` |
| id generator (`pkg/snowid`, same file in both services) | last time, sequence | Init, Generate | clock set back, restart, sequence used up | ids are unique and grow | `Snowflake`, implements `IdSource` |
| view counter (`view_count_syncer.go`, `redis.go`) | HyperLogLog per post, posts.view_count | AddWhenCreate, AddRead, Sync, the count shown | count, add and delete are separate; every replica syncs the same keys | each view is added once; nobody is shown more views than there were | `ViewCount` |
| post store, bloom filter (`createpostlogic.go`, `getpostlogic.go`, `bloom_filter.go`, ...) | posts table, one filter per replica | create, get, list, delete, restart | filter is per process and never loaded; failure between the steps of a creation | who was told of a post can read it; an unfinished creation is not read | `Posts`, implements `ViewCount` |
| empty-value cache and hot posts (`empty_value_cache.go`, `hot_service.go`, `cron/hot_post_calculator.go`) | markers in Redis and per replica, cached details, sorted sets | GetPostDetailWithFallback, CacheEmpty, CachePostDetail, DeletePostCache, CleanupExpiredPosts, the hourly job | markers outlive a creation, copies a deletion | markers and copies that are wrong die out and are not brought back | `HotPosts` |
| comments (`createcommentlogic.go`, `deletecommentlogic.go`) | comments table, posts.comment_count | create, delete | row and counter are separate writes; a deletion counts what it did not delete | comment_count is the number of comments | `CommentCount` |
| auth (`registerlogic.go`, `loginlogic.go`, `jwt.go`) | users table | Register, Login | the row is there and the answer is not | a registered name belongs to who was told so | `Accounts` |
| API gateway (`jwt.go`, `authlogic.go`, `postlogic.go`, `servicecontext.go`) | Secret and PrevSecret, RPC client of each replica | Register, Login, authenticate, CreatePost | replicas restarted one by one with a new secret; calls that go on after a timeout; clients that could not be made | tokens get through as configured; posts are those that were answered; requests are served in the end | `Gateway`, EXTENDS `Accounts` |
| interaction comment stubs, wiring, generated code, deployment | none of their own | | | | no |

At this commit the interaction service does not build: `cache/like_cache.go:108`
uses an undeclared `key`, `LikeDataConsistencyChecker` is declared twice and
`cmd/server/main.go` calls `Start`/`Stop` on a syncer that has neither. The model
takes each function as its text says, with the type that its other methods
belong to, and leaves out `like_cache.go:108-109`, which could not be run: they
would put a string in place of the relation set just written.

## 2. Modules and code

Every component module has the same layout: constants with named assumptions,
variables, `TypeOK`, `Init`, one action per step of the code, `Next`, `Spec`,
`FairSpec`, properties; where a module is used beside another one (`Posts`,
`Gateway`, `HotPosts`), these names carry a prefix. Before a definition may stand a faulty variant of it
(`Fault...`; no specification uses them), which shows that a property can fail.
`PROJECT.json` maps each definition to its lines. An `MC...` module gives the
constants values, a `.cfg` is one run, and `...Proofs` EXTENDS the component with
its theorems. Variables marked *history* observe the run for the properties; no
guard reads them. A constant `Limits` is a set of records, each a bounded
instance; a behaviour picks one and keeps it, so one run checks several instances.

**`CircuitBreaker`** One breaker and the goroutines that use it. The mutex makes
`Allow`, `RecordSuccess`, `RecordFailure` and `Reset` one action each; `Enter`,
`RedisCommand` and `Report` are the three moments of a call in
`hot_service.go` (ask, talk to Redis, record), between which others run.
`time.Since(lastFailTime)` is `age`, advanced by `Tick`. The float rate is a
fraction `RateNum / RateDen`. Counters saturate at `CounterCap`, which no guard
can tell from a larger number (`CapAssumption`). History: `streak`, the last
outcomes recorded; `admitted`, requests let through in this half-open period.

**`CacheLoader`** One post id, requests on several replicas. `phase[r]` is the
point a request has reached: the lookups of `GetOrLoad`, of the double check, of
the confirmation after the load and of the poll are the same two actions
(`LookupLocal`, `LookupRedis`; `Keep` puts what Redis answered into the local
cache, a command later); `TryLock` and `Release` are the Lua scripts, each
atomic; `Load`, `Store`, `Fill` are the critical section; `WaitTimeout` and
`Cancelled` end a poll; `DirectLoad` is the load without the lock. Beside them run
the writers `Update` and `Delete` with `DeletePostCache` as a later step, the
warm-up and the view syncer's `UpdateViewCount` (`pending` is the copy they have
read and not yet set), TTLs at any moment, and failures of Redis and MySQL; a
failing command may still have taken effect. A post is its version and whether it
is hot. `replyKind` is the Go type of an integer reply of the lock script:
`acquireLock` compares it with the string `"1"`, the library returns `int64`.

**`LeaseLock`** What a lock with a lease promises, without Redis: taking needs it
free, the lease may run out under its owner, and giving back frees it for nobody
but the owner. `CacheLoader!IsLease` maps the key in Redis to `owner`, the loaders
in the section to `inside`, and those whose key has lapsed to `expired`.

**`LikePipeline`** One target. `Find`, `Write`, `Count`, `SetCount`, `Relate` and
`Send` are the steps of `Like` and `Unlike`; `WriteFails`, `RedisFails`, `Crash`
the ways out. The transaction is two steps because it takes no lock on read;
`CanWrite` is the unique key of `likes` and the demand for one affected row. A
message carries nothing that the consumer uses but its target, so the topic is a
number of messages per consumer. Each consumer is `TickerFires` / `EnterFetch`
(the `select`), `Fetch` (blocking; `FetchFails`), and the three steps of
`syncSingleTarget`; offsets are never committed, so after a `Restart` or a
`Rebalance` of partitions everything is read again. The checker reads MySQL,
the count and the relation set in three steps, then repairs in two.
`GetLikeStatus` is what readers are told. History: `acked`, the last answer to each
user; `crossed`, users who ever had two requests under way; `overtaken`, whether
like_count was written while somebody else carried a count.

**`PendingSync`** Several targets, the clients that change their likes and mark
them (`Change` stands for the whole of a like, which `LikePipeline` takes apart),
the syncers, and the callers of `ForceSync` and `CheckAndFix`. A pass takes
`Limit` targets of the set; for each, the syncer reads the count (whose only part
is to exist), the size of the relation set, writes it, and removes the mark.
`CheckAndFix` ends after the repair of the count: its `Sprintf` spoils the query.
History: `stale` and `lost`, the marks that failed or fell into somebody's window.

**`Snowflake`** The generators of several processes, each with the clock of its
host. Generate is one step under its mutex, except that a used-up millisecond
makes it spin (`StartSpin`, `EndSpin`) with the mutex held. `SetBack` and
`Restart` are the environment's. The shifts are multiplications by the field
spans, since the fields do not overlap (theorem `NodesApart`).

**`IdSource`** What those who number posts, comments and likes rely on, without
time or fields: a source gives numbers that grow, also across restarts while it is
not in doubt, and none that a source of another node gives.
`Snowflake!IsIdSource` maps the ids issued to those given, and the processes under
suspicion (clock set back, or restarted within a millisecond) to those in doubt.

**`ViewCount`** The view counter of one post: the key in Redis as the set of its
members (a HyperLogLog is exact for the few readers of an instance), its TTL, and
the syncer of each replica in the three commands `CountViews`, `AddToRow`,
`DeleteKey`. `SyncFails` is an error or a crash at any of them, done or not.
`Shown` is the count a reader is told. History: `recorded`, and `disturbed`, the
events that the properties except: a failed command, two syncers at the key at
once, a view recorded inside a syncer's window, an expired key.

**`Posts`** EXTENDS `ViewCount` with the row, the steps of `CreatePost` (`Insert`,
`CountAuthor`, `Answer`, `CreateFails`), the filter of each replica, `GetPost`,
the lists (`Listed` is the row's part of them, `ListPosts` the answer), `DeletePost` and `Restart`. A filter is abstracted to whether
the bits of the id were set by the post itself, by others (`OthersCollide`), or
both. `CountsViews` is the refinement: each behaviour of `Posts` is one of
`ViewCount`.

**`HotPosts`** One post id. A reader (`GetPostDetailWithFallback`) looks into the
local cache, asks for a marker in the replica's map and in Redis (which the map
then adopts for a full lifetime), reads the detail, asks for a marker again and
fetches the row; what it found it writes back command by command, a detail that
Redis had into the local cache (`Keep`). The job scores
and caches rows it read earlier, range by range, and cleans up by a cutoff in
another unit than the scores (`Kept` are the ranges that keep the post). A
writer creates, updates or deletes and then clears the caches of its replica.
`TimePasses` is the time of the markers; it also passes while a reader has a
marker in hand that it has read in Redis and not yet adopted, and `quiet`, the time
since the last look that found no row, stands still meanwhile (`MarkInHand`): no
timeout bounds that moment, so `MarkersAreShort` counts without it. An UPDATE that
fails though it took effect sweeps no cache (`Change`), and a replica may restart.

**`CommentCount`** One post. Creation is a row then an increment, deletion is a
select, a delete by id and user, and a decrement that stops at 0. History:
`disturbed`, as above.

**`Accounts`** Several clients and names. `Register` / `Insert` / `Answer` are the
call, the row under its unique key, and the token; `NoAnswer` is a late or lost
answer, the row inserted or not; `Login` needs the name and the password of its row.

**`Gateway`** EXTENDS `Accounts` with the replicas of the gateway and what a client
does through them: `Enter` (the gateway's own Register and Login, placeholders that
sign a token and call nobody), `Accepts` (the JWT middleware), `CreatePost`, which
the post service stores (`Store`) and answers (`Reply`) unless somebody gives up
(`GiveUp`, after which the call goes on as a stray). `Rotate` introduces a new
secret, which a replica gets when it restarts; whether it then has a client of the
post service depends on whether that is up. Secrets are numbers, `AuthSecret` is
none of them: the configurations differ.

How they meet: `Posts` composes creation, reading, deletion and restarts with
`ViewCount`; `Gateway` composes sessions and calls with `Accounts`. `CacheLoader`
models what the view syncer and `Update`/`Delete` do to the caches; `Posts` lets a
deleted post be read, as the loader's copies allow. `PendingSync` and
`LikePipeline` are two ways from the relation set to like_count, of which `main`
starts the second. The generator feeds `Insert` and `Write` with ids, whose
uniqueness those modules take from `IdSource`. The breaker guards the hot-post
scores and details; in `HotPosts` it may be open at any call.

## 3. Runs: what they check and show

| run | configuration | distinct states | shows |
|---|---|---|---|
| `breaker` | 3 goroutines, thresholds 2 and 2, 1 half-open request, timeout 2 ticks | 19,316 | `TripsOnTime`, `MovesOnEvidence`: the counters say what they mean although outcomes come late, and nobody is admitted before the timeout; `Recovers` when what half-open admits is enough |
| `breaker_defaults` | default configuration | violation | `Recovers` fails |
| `loader` | a request on each of 2 replicas, 1 replica with writers, warm-up and syncer, 2 versions, Redis fails, either reply type | 531,408 | `IsLease`; `LoaderCachesNothing` for the int64 reply; `EveryRequestEnds`, `StaleDiesOut` |
| `loader_reply` | the int64 reply | violation | `HotPostGetsCached` fails |
| `likes` | a user with 2 handlers and one with 1, batches of 2; 3 requests, or 2 with a fault and 2 consumers, or 2 with the checker, or 1 with a fault and the checker | 700,264 | `AckedIsDurable`, `RelationFollowsTable`, `DrainedIsSynced`, `OnlyAPartialBatchWaits` |
| `likes_batch` | 3 requests, no fault | violation | `EveryBatchIsSynced` fails |
| `pending` | 2 syncers on a target that changes 3 times, or twice with a fault and a call of the hands; or 1 syncer and 2 targets, of which a pass takes one | 162,230 | `UnmarkedIsSynced`, `MarksAreServed` |
| `snowflake` | 2 processes with node ids 1 and 3, 2 ids a millisecond, 1 clock set back and 1 restart each | 163,216 | `UniqueIds`, `IsIdSource` |
| `posts` | 2 replicas, author and 2 readers, 3 views, 1 fault | 554,250 | `CountedOnce`, `NoneLost`, `ViewsLeaveRedis`, `HomeKnows`, `GhostIsUnread`, `CountsViews` |
| `hot` | 2 replicas, 1 reader, 1 job, 1 writer, markers of 2 ticks, 2 ranges, 1 fault | 818,200 | `MarkersAreShort`, `MarkersDieOut`, `NoRevival`, `DeletedFades` |
| `comments` | 2 users, 3 handlers, 2 comments, 1 fault | 340,372 | `NeverTooHigh`, `NeverTooLow` |
| `gateway` | 2 clients who register one name, with a fault; or 1 client at 2 replicas, a new secret, 2 restarts and 2 faults | 77,425 | `AccountIsKnown`, `PostsMatchAnswers`, `OnlyCurrentSessions`, `ServedInTheEnd` |

Each passing run also checks the type invariants of its modules. What the
properties say is in the comment above each of them.

### Bounds, and why they are enough

- `breaker`: thresholds of 2 are the least at which "in a row" means something,
  three goroutines let one outcome of an old period arrive while two of the new
  one are under way; a timeout of 2 ticks has a before, an at and an after.
- `loader`: the lock protocol concerns a holder and one other; with two requests
  the second takes over a lapsed lock while the first is still in the section.
  Two replicas separate the local caches, two versions make a copy stale. Writers
  run at one replica, so that the copies of the other are those nobody sweeps.
  Only Redis fails: MySQL is behind the lock, where its failure is the way out
  that a failing Redis takes, too.
- `likes`: three requests fill a batch of two and leave a partial one, and let a
  user click twice while another does once. One fault may fall at any step. Two
  consumers or the checker suffice for an older count to overtake a newer one;
  both at once add no third order.
- `pending`: three changes are one before, one in and one after a window of a
  syncer; a pass of one target is the least that another target can fill.
- `snowflake`: 2 ids a millisecond make the sequence wrap at once; 3 milliseconds
  are needed for a wrap, a set-back and a catching up.
- `posts`: three recorded views are one in the window of a syncer, one before and
  one after. Fault-free history, overlapping syncers and a failed command are
  separate flags, so one fault reaches each exception.
- `hot`: a lifetime of 2 ticks tells a marker that was just written from one about
  to end, and two replicas let one adopt what the other wrote a tick ago, which
  is the longest a marker can live. One range keeps the post and one drops it.
- `comments`: three handlers allow a creation overlapping two deletions of the
  same comment.
- `gateway`: one name for two clients is the conflict; one rotation and a restart
  of each replica pass through every mixture of old and new secrets. Two faults
  let a call time out and the post service go down in one behaviour.

The bounds are guards (`MaxVersion`, `MaxTime`, `MaxSetBacks`, `MaxRestarts`,
`MaxRecorded`, `MaxFaults`, `Limits`) or sizes of constant sets (`Renewing`,
`Writing` and `Failing` restrict who runs); the proofs hold for all their values.

### Fairness, and why the code justifies it

- `CircuitBreaker`: goroutines run, and time passes. Requests keep arriving
  (`Enter`): `Recovers` is about a service in use. Nothing is assumed of Redis;
  the property asks that it stays up.
- `CacheLoader`: goroutines run, requests keep coming, the poll's timer fires and
  TTLs pass; a writer that changed the row goes on to delete its copy. Nothing is
  assumed of new writes, cancellations or failures. `StaleDiesOut` asks in addition
  that the syncers stop renewing copies, since each sync restarts the TTL.
- `LikePipeline`: started requests go on, the asynchronous writer delivers, the
  consumers and the checker loop run. No request has to come: that is why a
  partial batch may wait.
- `PendingSync`: the ticker ticks, commands return, a client marks what it
  changed. `Quit` is strongly fair: Go's `select` picks at random among the ready
  cases, so a stopped syncer whose ticker is ready, too, gets out in the end.
- `HotPosts`: goroutines finish, the job runs every hour, TTLs pass. Nobody has to
  read or write.
- `Posts`: the ticker of each replica starts Sync again and again.
- `Gateway`: what the services have accepted they carry out, and the post service
  comes back. `Enter` and `CreatePost` are strongly fair for each replica: the
  client asks again and the load balancer picks replicas at random. `ServedInTheEnd`
  is about such a client only.

`Snowflake` and `CommentCount` have safety properties only, and no fairness.

### Deadlock

`breaker`, `loader`, `posts`, `hot` and `gateway` check it. The other systems stop
when their bounds on requests, changes, comments or clock ticks are used up, so
their configurations say `CHECK_DEADLOCK FALSE`.

## 4. Proofs

Eight modules hold theorems; each follows one pattern: an inductive invariant,
`Init` implies it, one lemma or step per action, and the temporal step with PTL.
Invariants were checked by TLC on the instances of the runs before they were
proved. The only assumptions are those named in the component modules, which TLC
evaluates in the runs: types of the constants, `StampAssumption` (two goroutines
never read the same nanosecond), `NodeAssumption` and `SpanAssumption` (node ids fit
their field), `CapAssumption`, and that the model values for "nobody" and "nothing"
are none of the real ones.

**Every type invariant, safety invariant, action property and refinement that a run
checks is a theorem, for all values of the constants.**

| module | proved for all constants | inductive invariant, and why it is needed |
|---|---|---|
| `HotServiceProofs`, breaker | `TypeOK`, `TripsOnTime`, `MovesOnEvidence`; `HalfOpenBudget`, `StuckOnlyIfShort`, `StuckUntilReset` | adds `CountsOnlyTheStreak`: the successes a half-open breaker has counted are its latest outcomes; without it closing says nothing of the streak. `PlacesAccounted`: whom it let in has reported a success or is under way, by cardinality |
| `HotServiceProofs`, hot posts | `HotTypeOK`, `MarkersAreShort`, `NoRevival`; `ClearStays` | `MarkersAge`: what is left of a marker and the time since the last write add up to at most one lifetime in Redis and two in a map, and whoever is about to adopt a marker does so within the first; `MarkersAreShort` only says that they are positive together |
| `CacheLoaderProofs` | `TypeOK`, `IsLease`, `LoaderCachesNothing`; `OneLoader`, `LockHasOwner`, `OnlyWritesMakeStale`, `OnlyThePollIsLong` | `Owns`: a loader whose lock is alive holds the lock; `OneLoader` alone does not say that the lock is taken, and every step of `LeaseLock` needs that. For the int64 reply `ShutOut`: nobody ever is in the section and Redis has no copy |
| `LikePipelineProofs` | `TypeOK`, `AckedIsDurable`, `RelationFollowsTable`, `DrainedIsSynced` | `Knows`: a handler alone with its user knows what the table says before and after its write; `RelationTrue`: relation and table agree but between commit and relation; `SInv` for `DrainedIsSynced`: until something is overtaken, a message about the last change is due (`Awaited`), somebody carries the right number (`Carried`), or like_count has it (`Arrived`) |
| `PendingSyncProofs` | `TypeOK`, `UnmarkedIsSynced`; `ForgottenUntilChanged` | `Good` and `Fresh`: a row without a mark is right unless somebody still has to mark it or a stale worker has just written it, and what a worker carries is right unless a mark is due |
| `SnowflakeProofs` | `TypeOK`, `UniqueIds`, `IsIdSource`; `IdsIncrease`, `NodesApart` | `Ceiling`: all ids of a process above suspicion lie below the number its next id reaches; `Shape`: an id is its three fields; arithmetic lemmas on them |
| `PostsProofs`, view counter | `TypeOK`, `CountedOnce`, `NoneLost` | what holds inside a syncer's window: what it has counted is room left in the row (`NothingTwice`), or all there is (`NothingLost`), and Redis never holds more views than were recorded (`RedisHoldsNoMore`) |
| `PostsProofs`, posts | `PostTypeOK`, `CountsViews` and through it `CountedOnce` and `NoneLost`; `HomeKnows`, `GhostIsUnread` | `Refined`: every step of `Posts` is one of `ViewCount` or none; `Knows`: which filters can know the id |
| `CommentCountProofs` | `TypeOK`, `NeverTooHigh`, `NeverTooLow` | `Low`, `High`: the counter plus the increments owed against the rows plus the decrements owed, by cardinalities of the handlers that owe them |
| `GatewayProofs` | `GatewayTypeOK`, `AccountIsKnown`, `PostsMatchAnswers`, `OnlyCurrentSessions` | `CreatedIsOwned`: a handler that has inserted and not answered inserted its own row; `TokensKnown`: no token bears a secret that does not exist yet, so that the secret a rotation introduces is on no token; `Balanced`: the account of one client's posts, answers, errors and strays |

The refinements are proved step by step: each action of `CacheLoader` is one of
`LeaseLock` or leaves it as it is, and likewise `Posts` for `ViewCount` and
`Snowflake` for `IdSource`. What is proved of the abstract module then holds of the
detailed one (`PostsCountedOnce`, `PostsNoneLost`).

Proved and not run. `HalfOpenBudget`, `OneLoader`, `LockHasOwner` and `IdsIncrease`
are weaker than something a run checks. The others are the safety side of a
liveness property, that is, what may not happen on the way:

- `StuckOnlyIfShort` and `StuckUntilReset` for `Recovers`: with every place given
  away, nobody under way and too few successes, a half-open breaker stays so until
  `Reset`, and only a configuration with `MaxHalfOpenReqs + 1 < SuccessThreshold`
  gets there.
- `OnlyWritesMakeStale` for `StaleDiesOut`: copies come from copies or from the
  row, so that no late fill or renewal makes an outdated one where there was none.
- `OnlyThePollIsLong` for `EveryRequestEnds`: a rank on the points of a request
  that falls with each of its steps but the poll's, whatever the others do.
- `ClearStays` for `MarkersDieOut`: markers that are gone from a live post do not
  come back.
- `ForgottenUntilChanged` for the exception in `MarksAreServed`: a marked target
  whose count has expired keeps its mark and its row until somebody likes it anew.

Only model-checked: the liveness properties (`Recovers`, `EveryRequestEnds`,
`StaleDiesOut`, `OnlyAPartialBatchWaits`, `MarksAreServed`, `ViewsLeaveRedis`,
`MarkersDieOut`, `DeletedFades`, `ServedInTheEnd`). They rest on fairness, whose
definition needs ENABLED, which the prover does not reason about. There are no
recursive definitions.

## 5. Disagreements found

Each of these has a run that ends in the violation.

1. **The breaker never closes with its defaults** (`breaker_defaults`).
   `MaxHalfOpenReqs` 1 admits two requests, `SuccessThreshold` is 3, and a
   half-open breaker never gives a place back. The proofs say it of every
   configuration: `StuckOnlyIfShort`, `StuckUntilReset`.
2. **The cache loader never caches** (`loader_reply`). `acquireLock` compares an
   `int64` with `"1"`. The lock is set, nobody believes to hold it, and every
   miss waits for the timeout.
3. **A partial batch does not wait 5 seconds but for the next message**
   (`likes_batch`): `FetchMessage` blocks inside the `default` of the `select`.

These are exceptions that a property states (remove the exception and TLC finds
it). The property does not catch the hazard, which the code does have; it shows
how far the damage goes, and that nothing else does any. `PROJECT.json` notes at
each hazard what of it is excepted.

- Like and Unlike of one user may commit in one order and change the relation set
  in the other, for good (`crossed` in `RelationFollowsTable`).
- A consumer or the checker that carries an older count writes it over a newer
  one, and no check ever reads `like_count` (`overtaken` in `DrainedIsSynced`).
- A mark set between a syncer's read and its removal is lost (`lost` in
  `UnmarkedIsSynced`), and targets whose count has expired keep their mark and
  their place in the pass (`Stuck` in `MarksAreServed`, `ForgottenUntilChanged`).
- A post is found by its id only at the replica that created it, until that
  restarts, and no list shows it: the handler and the repository both encode its
  tags, the lists decode them once and fail as a whole (`HomeKnows`). The tests
  have rows whose tags are encoded once (`post/internal/repository/hot_service_test.go:298`).
  A creation that fails at `AddWhenCreate` leaves a row that nobody can open
  (`GhostIsUnread`).
- A creation that timed out may have been stored: whoever asks again has two
  posts (`errs` in `PostsMatchAnswers`); a registration whose answer got lost is
  refused the second time (`open` in `AccountIsKnown`).
- PrevSecret never helps: it is tried only after Secret has verified the token
  (`OnlyCurrentSessions`). A client that could not be made at the start is
  logged with "will retry on demand" and never retried (`ServedInTheEnd`).

Seen while reading, without a property of their own:

- `interaction/KAFKA_README.md:202` says that after a crash consumption resumes at
  the last offset; the code never commits one, and the model replays everything.
- The view count shown to readers is the size of the Redis key alone, so it drops
  after each Sync (`Shown` only bounds it from above); `UpdateViewCount` stores
  the views just moved as the local copy's whole count.
- `HotPostCacheTTL` (300 s) equals the sync interval, so a busy copy may be
  renewed for ever: hence the premise of `StaleDiesOut`.
- `BatchGetLikeStatus` swallows its errors, so the table `GetLikeStatus` would
  fall back to is never asked: without Redis everybody is told "not liked".
- `CheckAndFix` passes two arguments to a `Sprintf` without a verb; its query to
  MySQL cannot succeed.
- The consistency checker picks its targets with a query MySQL rejects (`ORDER BY`
  and `LIMIT` in a `UNION` without parentheses, `consistency_checker.go:244-248`),
  so no periodic check gets a target. The model takes the check of a target as
  `checkSingleTarget` and `fixInconsistency` have it.
- All replicas of a service use one node id; `UniqueIds` is about different ones.
- The SQL comments number like types 0/1, the code 1/2. `Update`, `List` and
  others pass or scan times as numbers where the columns are TIMESTAMPs; the
  models take the statements as accepted.

## 6. Not modelled, and known simplifications

- Not modelled: `PersistToRedis`/`LoadFromRedis` of the filter, `SyncSingle`,
  `RemovePostFromHot`, `GetWithEmptyCheck`, `ClearAllEmptyCache`,
  `Consumer.Start`, `Parse` of the generator and unused helpers (never called);
  the gateway's placeholders for likes, comments, follows, deletion and search,
  and the comment stubs of the interaction service (they answer and change
  nothing); paging and sorting of lists; generated code.
- Modelled although nothing starts it at this commit: the hourly job and the
  reader of `HotPosts`, and the syncer of `PendingSync`, whose set no handler
  feeds. They are taken as the packages offer them.
- `CacheLoader`: one write at a time per replica; one `pending` copy per replica,
  because the warm-up (2 s after the start) and the first sync (after 5 min) do
  not meet; a warm-up is an initial state, not a restart. TTLs may pass at any
  moment, so the relation of `LockTTL` to the poll's deadline is not used.
- `LikePipeline`: a message that cannot be decoded is not in the topic, whose only
  producer encodes its own; one target, one check at a time, and the checker's choice of
  targets and bounded queue are left out (nothing adds tasks); the per-user set of
  targets is written like the relation set and read by nobody.
- `ViewCount`: the HyperLogLog is exact; `Posts`: a collision is with all other
  posts of a replica at once.
- `HotPosts`: a score is only below or above a cutoff, and stays there.
- `CommentCount`: the post itself is not deleted meanwhile; the code checks that
  neither.
- `Gateway`: a client throws away a token that was refused; the tokens of several
  names of a client are not told apart.

## 7. Plan

Done: `CircuitBreaker`, `CacheLoader` with `LeaseLock`, `LikePipeline`,
`Snowflake` with `IdSource`, `ViewCount`, `CommentCount`, `Posts`, `PendingSync`,
`HotPosts`, `Accounts`, `Gateway`, and proofs of all their safety properties.

Next:
1. `LikePipeline` with several targets in a batch, of which one fails.
2. A breaker as its callers see it, as an abstract specification that
   `CircuitBreaker` implements.
3. Ranks like that of `OnlyThePollIsLong` for a batch of `LikePipeline`, a pass of
   `PendingSync` and the readers of `HotPosts`.
