------------------------------- MODULE HotPosts -------------------------------
(***************************************************************************)
(* The post service's details with markers for missing posts, and its hot  *)
(* lists, for one post id (post/internal/repository/empty_value_cache.go,  *)
(* hot_service.go, post/internal/cron/hot_post_calculator.go).             *)
(*                                                                         *)
(* A reader looks in the replica's local cache, asks for a marker (the     *)
(* replica's, then Redis), reads the detail in Redis, asks for a marker    *)
(* again and fetches the row; what it fetched, a post or nothing, it       *)
(* writes back command by command.  The hourly job writes details the same *)
(* way from rows it read earlier, and scores and cleans the lists.         *)
(* At this commit no handler reads this way and main does not start the    *)
(* job: the module is about what the two would do.                         *)
(***************************************************************************)
EXTENDS Integers, Sequences, FiniteSets

CONSTANTS
    Replica,
    Reader,      \* goroutines in GetPostDetailWithFallback
    Job,         \* the cron jobs, at most one per replica
    Writer,      \* goroutines that create, update or delete the post
    Home,        \* Home[w]: the replica of a job or a writer
    MarkerTTL,   \* lifetime of a marker, in ticks
    Ranges,      \* the time ranges, in the order of the job's loops
    Kept,        \* ranges whose cutoff is below 1000 times the post's score
    Hot,         \* whether its views pass the threshold of the local cache
    MaxFaults    \* bound of the model: commands that fail and restarts

Worker == Reader \cup Job \cup Writer

ASSUME HotAssumption ==
    /\ Home \in [Job \cup Writer -> Replica]
    /\ Reader \cap Job = {} /\ Reader \cap Writer = {} /\ Job \cap Writer = {}
    /\ MarkerTTL \in Nat \ {0}
    /\ Ranges \in Seq(STRING) /\ Len(Ranges) > 0
    /\ Hot \in BOOLEAN
    /\ MaxFaults \in Nat

VARIABLES
    row,        \* "none", "live" (status 2), "deleted" (status 3)
    local,      \* local[i]: the bigcache of replica i holds the post
    detail,     \* post:detail:<id> holds the post
    mark,       \* mark[i]: what is left of the marker in replica i's map
    redisMark,  \* what is left of post:empty:<id> in Redis
    listed,     \* ranges whose sorted set has the post
    at,         \* where each worker stands
    home,       \* home[r]: the replica of reader r's request
    turn,       \* turn[j]: the range job j has come to
    quiet,      \* history: ticks since CacheEmpty last wrote, saturated; not
                \* those in which a reader has a marker in hand
    faults      \* faults so far

marks  == <<mark, redisMark, quiet>>
copies == <<local, detail>>
lists  == <<listed, turn>>
hotVars == <<row, copies, marks, lists, at, home, faults>>

Steps == {"idle", "check", "adopt", "detail", "keep", "recheck", "readopt", "fetch",
          "empty", "emptyRedis", "cache", "unmark", "store",
          "score", "clean", "sweep", "sweepMark", "sweepDetail"}

\* A worker in these steps has a post it read from the row or Redis earlier.
Carrying == {"cache", "unmark", "store", "score", "keep"}

\* A reader has read the marker in Redis and not put it in the replica's map.
MarkInHand == \E r \in Reader : at[r] \in {"adopt", "readopt"}

HotTypeOK ==
    /\ row \in {"none", "live", "deleted"}
    /\ local \in [Replica -> BOOLEAN] /\ detail \in BOOLEAN
    /\ mark \in [Replica -> 0..MarkerTTL] /\ redisMark \in 0..MarkerTTL
    /\ listed \subseteq {Ranges[n] : n \in 1..Len(Ranges)}
    /\ at \in [Worker -> Steps] /\ home \in [Reader -> Replica]
    /\ turn \in [Job -> 1..Len(Ranges)]
    /\ quiet \in 0..(2 * MarkerTTL - 1)
    /\ faults \in 0..MaxFaults

HotInit ==
    /\ row = "none"
    /\ local = [i \in Replica |-> FALSE] /\ detail = FALSE
    /\ mark = [i \in Replica |-> 0] /\ redisMark = 0
    /\ listed = {}
    /\ at = [w \in Worker |-> "idle"] /\ home \in [Reader -> Replica]
    /\ turn = [j \in Job |-> 1]
    /\ quiet = 2 * MarkerTTL - 1
    /\ faults = 0

On(w) == IF w \in Reader THEN home[w] ELSE Home[w]
Goes(w, s) == at' = [at EXCEPT ![w] = s] /\ UNCHANGED home
Stay == UNCHANGED <<at, home>>
Fault == faults < MaxFaults /\ faults' = faults + 1
NoFault == UNCHANGED faults
Here(f, w, v) == [f EXCEPT ![On(w)] = v]

-----------------------------------------------------------------------------
(* Faults seeded one at a time by the mutation runs.                       *)

FaultRenews(w) ==
    /\ at[w] \in {"adopt", "readopt"}
    /\ mark' = Here(mark, w, MarkerTTL)
    /\ redisMark' = MarkerTTL
    /\ Goes(w, IF at[w] = "adopt" THEN "recheck" ELSE "idle")
    /\ NoFault /\ UNCHANGED <<row, copies, quiet, lists>>

FaultAnyStatus == TRUE

FaultKeepsListed(j) == listed \cup {Ranges[turn[j]]}

FaultMarksAnyway(w) == "empty"

FaultTurnsPast(n) == n + 1

-----------------------------------------------------------------------------
(* GetPostDetailWithFallback.                                              *)

\* A request reaches replica i; localCache.Get, where a hit is the answer.
LookLocal(r, i) ==
    /\ at[r] = "idle" /\ ~local[i]
    /\ at' = [at EXCEPT ![r] = "check"]
    /\ home' = [home EXCEPT ![r] = i]
    /\ NoFault /\ UNCHANGED <<row, copies, marks, lists>>

\* IsEmptyCached, called by GetCachedPostDetail and again after it: the
\* replica's marker, then the one in Redis, where an error counts as none.
\* "Not found" from the first call is followed by the second.
IsEmptyCached(r) ==
    LET first == at[r] = "check"
        miss  == IF first THEN "detail" ELSE "fetch"
    IN /\ at[r] \in {"check", "recheck"}
       /\ \/ /\ mark[On(r)] > 0 /\ NoFault
             /\ Goes(r, IF first THEN "recheck" ELSE "idle")
          \/ /\ mark[On(r)] = 0 /\ NoFault
             /\ Goes(r, IF redisMark = 0 THEN miss
                        ELSE IF first THEN "adopt" ELSE "readopt")
          \/ mark[On(r)] = 0 /\ Fault /\ Goes(r, miss)
       /\ UNCHANGED <<row, copies, marks, lists>>

\* A marker found in Redis starts a full lifetime in the replica's map.
Adopt(r) ==
    /\ at[r] \in {"adopt", "readopt"}
    /\ mark' = Here(mark, r, MarkerTTL)
    /\ Goes(r, IF at[r] = "adopt" THEN "recheck" ELSE "idle")
    /\ NoFault /\ UNCHANGED <<row, copies, redisMark, quiet, lists>>

\* The rest of GetCachedPostDetail: an open breaker is passed over, a Redis
\* error ends the request, a detail is the answer.
ReadDetail(r) ==
    /\ at[r] = "detail"
    /\ \/ detail /\ Goes(r, IF Hot THEN "keep" ELSE "idle") /\ NoFault
       \/ ~detail /\ Goes(r, "recheck") /\ NoFault
       \/ Goes(r, "recheck") /\ NoFault  \* breaker open
       \/ Goes(r, "idle") /\ Fault
    /\ UNCHANGED <<row, copies, marks, lists>>

\* localCache.Set of the hot detail that Redis answered; a writer may have
\* swept both caches in between.
Keep(r) ==
    /\ at[r] = "keep"
    /\ local' = Here(local, r, TRUE)
    /\ Goes(r, "idle")
    /\ NoFault /\ UNCHANGED <<row, detail, marks, lists>>

\* fetchFn; its error ends the request.
AfterNil(r) == IF row = "live" THEN "cache" ELSE "empty"

Fetch(r) ==
    /\ at[r] = "fetch"
    /\ \/ Goes(r, AfterNil(r)) /\ NoFault
       \/ Goes(r, "idle") /\ Fault
    /\ UNCHANGED <<row, copies, marks, lists>>

\* CacheEmpty: the replica's marker, then Redis.
CacheEmptyLocal(r) ==
    /\ at[r] = "empty"
    /\ mark' = Here(mark, r, MarkerTTL)
    /\ quiet' = 0
    /\ Goes(r, "emptyRedis")
    /\ NoFault /\ UNCHANGED <<row, copies, redisMark, lists>>

CacheEmptyRedis(r) ==
    /\ at[r] = "emptyRedis"
    /\ \/ redisMark' = MarkerTTL /\ quiet' = 0 /\ NoFault
       \/ UNCHANGED <<redisMark, quiet>> /\ Fault
    /\ Goes(r, "idle")
    /\ UNCHANGED <<row, copies, mark, lists>>

-----------------------------------------------------------------------------
(* CachePostDetail, by a reader or by the job.                             *)

\* localCache.Set if the post is hot; the replica's marker goes.
CacheLocal(w) ==
    /\ at[w] = "cache"
    /\ local' = IF Hot THEN Here(local, w, TRUE) ELSE local
    /\ mark' = Here(mark, w, 0)
    /\ Goes(w, "unmark")
    /\ NoFault /\ UNCHANGED <<row, detail, redisMark, quiet, lists>>

\* An error of RemoveEmptyCache is ignored.
Unmark(w) ==
    /\ at[w] = "unmark"
    /\ \/ redisMark' = 0 /\ NoFault
       \/ UNCHANGED redisMark /\ Fault
    /\ Goes(w, "store")
    /\ UNCHANGED <<row, copies, mark, quiet, lists>>

StoreDetail(w) ==
    /\ at[w] = "store"
    /\ \/ detail' = TRUE /\ NoFault
       \/ UNCHANGED detail /\ Fault
    /\ Goes(w, IF w \in Job THEN "clean" ELSE "idle")
    /\ UNCHANGED <<row, local, marks, lists>>

-----------------------------------------------------------------------------
(* The job: CronScheduler.Run.                                             *)

\* GetRecentPosts: posts of status 2.  An error ends the run.
Recent == row = "live"

GetRecentPosts(j) ==
    /\ at[j] = "idle"
    /\ \/ Goes(j, IF Recent THEN "score" ELSE "clean") /\ NoFault
       \/ Fault /\ Stay
    /\ UNCHANGED <<row, copies, marks, lists>>

LastTurn(j) == turn[j] = Len(Ranges)
TurnAfter(n) == IF n = Len(Ranges) THEN 1 ELSE n + 1

\* UpdatePostScore: one Zadd per range, given up at the first error or at once
\* by an open breaker; the job goes on either way.
UpdatePostScore(j) ==
    /\ at[j] = "score"
    /\ \/ /\ listed' = listed \cup {Ranges[turn[j]]}
          /\ turn' = [turn EXCEPT ![j] = TurnAfter(@)]
          /\ IF LastTurn(j) THEN Goes(j, "cache") ELSE Stay
          /\ NoFault
       \/ /\ turn[j] = 1 \/ faults < MaxFaults
          /\ faults' = IF turn[j] = 1 THEN faults ELSE faults + 1
          /\ turn' = [turn EXCEPT ![j] = 1]
          /\ Goes(j, "cache") /\ UNCHANGED listed
    /\ UNCHANGED <<row, copies, marks>>

\* CleanupExpiredPosts removes the scores from 0 to the cutoff, a Unix time,
\* while the scores are 1000 times a weight: below it for any real post.
AfterCleanup(j) == IF Ranges[turn[j]] \in Kept THEN listed ELSE listed \ {Ranges[turn[j]]}

Cleanup(j) ==
    /\ at[j] = "clean"
    /\ \/ listed' = AfterCleanup(j) /\ NoFault
       \/ UNCHANGED listed /\ Fault
    /\ turn' = [turn EXCEPT ![j] = TurnAfter(@)]
    /\ IF LastTurn(j) THEN Goes(j, "idle") ELSE Stay
    /\ UNCHANGED <<row, copies, marks>>

-----------------------------------------------------------------------------
(* Writers.                                                                *)

\* Create does not touch the markers.
Create(w) ==
    /\ at[w] = "idle" /\ row = "none"
    /\ row' = "live"
    /\ NoFault /\ UNCHANGED <<copies, marks, lists, at, home>>

\* Update and Delete change the row and call DeletePostCache, unless the
\* statement returns an error, even one that took effect.
Change(w) ==
    /\ at[w] = "idle" /\ row = "live"
    /\ row' \in {"live", "deleted"}
    /\ \/ Goes(w, "sweep") /\ NoFault
       \/ Stay /\ Fault
    /\ UNCHANGED <<copies, marks, lists>>

SweepLocal(w) ==
    /\ at[w] = "sweep"
    /\ local' = Here(local, w, FALSE)
    /\ mark' = Here(mark, w, 0)
    /\ Goes(w, "sweepMark")
    /\ NoFault /\ UNCHANGED <<row, detail, redisMark, quiet, lists>>

SweepMark(w) ==
    /\ at[w] = "sweepMark"
    /\ \/ redisMark' = 0 /\ NoFault
       \/ UNCHANGED redisMark /\ Fault
    /\ Goes(w, "sweepDetail")
    /\ UNCHANGED <<row, copies, mark, quiet, lists>>

SweepDetail(w) ==
    /\ at[w] = "sweepDetail"
    /\ \/ detail' = FALSE /\ NoFault
       \/ UNCHANGED detail /\ Fault
    /\ Goes(w, "idle")
    /\ UNCHANGED <<row, local, marks, lists>>

-----------------------------------------------------------------------------
(* Time.                                                                   *)

Older(n) == IF n > 0 THEN n - 1 ELSE n

\* Nothing bounds how long a reader keeps a marker in hand, so what it adopts
\* may be old: quiet stands still meanwhile.
TimePasses ==
    /\ mark' = [i \in Replica |-> Older(mark[i])]
    /\ redisMark' = Older(redisMark)
    /\ quiet' = IF MarkInHand \/ quiet = 2 * MarkerTTL - 1 THEN quiet ELSE quiet + 1
    /\ NoFault /\ UNCHANGED <<row, copies, lists, at, home>>

LocalExpires(i) ==
    /\ local[i]
    /\ local' = [local EXCEPT ![i] = FALSE]
    /\ NoFault /\ UNCHANGED <<row, detail, marks, lists, at, home>>

DetailExpires ==
    /\ detail
    /\ detail' = FALSE
    /\ NoFault /\ UNCHANGED <<row, local, marks, lists, at, home>>

\* The process of replica i dies and starts again: its caches are empty and
\* whatever its goroutines had begun stays where it was.
Restart(i) ==
    /\ Fault
    /\ local' = [local EXCEPT ![i] = FALSE]
    /\ mark' = [mark EXCEPT ![i] = 0]
    /\ at' = [w \in Worker |-> IF On(w) = i THEN "idle" ELSE at[w]]
    /\ turn' = [j \in Job |-> IF On(j) = i THEN 1 ELSE turn[j]]
    /\ UNCHANGED <<row, detail, redisMark, quiet, listed, home>>

-----------------------------------------------------------------------------
CachePostDetail(w) == CacheLocal(w) \/ Unmark(w) \/ StoreDetail(w)

ReaderStep(r) ==
    \/ IsEmptyCached(r) \/ Adopt(r) \/ ReadDetail(r) \/ Keep(r) \/ Fetch(r)
    \/ CacheEmptyLocal(r) \/ CacheEmptyRedis(r) \/ CachePostDetail(r)

Run(j) ==
    \/ GetRecentPosts(j) \/ UpdatePostScore(j) \/ CachePostDetail(j) \/ Cleanup(j)

DeletePostCache(w) == SweepLocal(w) \/ SweepMark(w) \/ SweepDetail(w)

HotNext ==
    \/ \E r \in Reader : (\E i \in Replica : LookLocal(r, i)) \/ ReaderStep(r)
    \/ \E j \in Job : Run(j)
    \/ \E w \in Writer : Create(w) \/ Change(w) \/ DeletePostCache(w)
    \/ TimePasses \/ DetailExpires
    \/ \E i \in Replica : LocalExpires(i) \/ Restart(i)

HotSpec == HotInit /\ [][HotNext]_hotVars

\* Goroutines finish, the job runs every hour, time passes.  Nobody has to
\* read or to write.
HotFairSpec ==
    /\ HotSpec
    /\ \A r \in Reader : WF_hotVars(ReaderStep(r))
    /\ \A j \in Job : WF_hotVars(Run(j))
    /\ \A w \in Writer : WF_hotVars(DeletePostCache(w))
    /\ WF_hotVars(TimePasses) /\ WF_hotVars(DetailExpires)
    /\ \A i \in Replica : WF_hotVars(LocalExpires(i))

-----------------------------------------------------------------------------
(* Properties.                                                             *)

\* A replica answers "not found" from a marker for less than two lifetimes
\* after the last request that found no row, however often the replicas pick
\* the marker up from Redis: picking up starts a lifetime in one map, and
\* never renews the marker in Redis (IsEmptyCached).  The time a reader takes
\* between reading a marker and adopting it comes on top; the code does not
\* bound it.
MarkersAreShort == \A i \in Replica : mark[i] > 0 => quiet < 2 * MarkerTTL - 1

\* Create leaves the markers alone, and a request that found no row may write
\* one after the creation; still the post is found everywhere in the end.
Unmarked == redisMark = 0 /\ \A i \in Replica : mark[i] = 0
MarkersDieOut == <>[](row = "live") => <>[]Unmarked

\* Once a deleted post is in no cache and nobody carries a copy read before the
\* deletion, no reader and no run of the job brings it back.
Gone ==
    /\ row = "deleted" /\ ~detail
    /\ \A i \in Replica : ~local[i]
    /\ \A w \in Worker : at[w] \notin Carrying
NoRevival == [][Gone => Gone']_hotVars

\* Copies and list entries of a deleted post go by themselves, although readers
\* and the job may write them after DeletePostCache and nothing removes a
\* deleted post from the lists (RemovePostFromHot is never called): the details
\* by their TTL, the entries by the cleanup, whose cutoff is in another unit.
DeletedFades ==
    <>[](row = "deleted") =>
        <>[](~detail /\ listed \subseteq Kept /\ \A i \in Replica : ~local[i])
=============================================================================
