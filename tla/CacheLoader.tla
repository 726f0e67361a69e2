----------------------------- MODULE CacheLoader -----------------------------
(***************************************************************************)
(* The post service's read path for one post id (post/internal/repository/ *)
(* cache_loader.go): goroutines on several replicas look in the replica's  *)
(* local cache, then in Redis, and on a miss take a Redis lock so that one *)
(* of them reads MySQL and fills both caches while the others poll.        *)
(* Updates and deletes (post_repository_impl.go) run beside them: they     *)
(* change the row and then delete the copy of their own replica only; the  *)
(* Redis copy lives until its TTL.                                         *)
(***************************************************************************)
EXTENDS Integers, FiniteSets

CONSTANTS
    Replica,     \* processes of the post service
    Request,     \* goroutines calling GetOrLoad
    Home,        \* Home[r]: the replica that runs r
    Stamp,       \* Stamp[r]: lockValue of r, its clock reading in nanoseconds
    NoLock,      \* the lock key does not exist
    NoPost,      \* no row, no cached copy, a nil result
    ReplyKinds,  \* Go types of the lock script's integer reply: see Acquired
    Renewing,    \* replicas whose warm-up and view syncer are modelled
    Writing,     \* replicas whose handlers update and delete the post
    Failing,     \* services that may stop answering
    MaxVersion   \* bound of the model: updates of the row

Post == [ver : 1..MaxVersion, hot : BOOLEAN]
Maybe == Post \cup {NoPost}

ASSUME LoaderAssumption ==
    /\ Home \in [Request -> Replica]
    /\ NoLock \notin {Stamp[r] : r \in Request}
    /\ NoPost \notin Post
    /\ ReplyKinds \subseteq {"int64", "string"}
    /\ Renewing \subseteq Replica /\ Writing \subseteq Replica
    /\ Failing \subseteq {"redis", "mysql"}
    /\ MaxVersion \in Nat \ {0}

\* Two goroutines never read the same nanosecond.
ASSUME StampAssumption == \A r, s \in Request : Stamp[r] = Stamp[s] => r = s

VARIABLES
    replyKind, \* the one of ReplyKinds this behaviour has; never changes
    row,      \* the post in MySQL; NoPost once its status is 3 (deleted)
    local,    \* local[i]: copy in the bigcache of replica i
    cache,    \* copy under post:cache:<id> in Redis
    lock,     \* value under post:lock:<id> in Redis
    phase,    \* where each request stands
    missed,   \* missed[r]: the lookup under way has missed the local cache
    held,     \* held[r]: what r has loaded from MySQL or is about to keep
    unswept,  \* replicas that changed the row and have not deleted their copy
    pending,  \* pending[i]: copy that the warm-up or the view syncer of
              \* replica i has read and is about to put into its local cache
    up,       \* services that answer
    lapsed,   \* history: requests whose lock expired under them
    orphaned  \* history: the lock was left behind by a failed command

stores == <<replyKind, row, local, cache>>
writers == <<unswept, pending>>
vars == <<stores, lock, phase, missed, held, writers, up, lapsed, orphaned>>

Lookups == {"get", "recheck", "confirm", "wait"}
Section == {"recheck", "load", "confirm", "store", "fill", "keepLocked", "release"}
Phases == Lookups \cup Section \cup {"idle", "lock", "direct", "keep"}

TypeOK ==
    /\ replyKind \in ReplyKinds
    /\ row \in Maybe
    /\ local \in [Replica -> Maybe]
    /\ cache \in Maybe
    /\ lock \in {Stamp[r] : r \in Request} \cup {NoLock}
    /\ phase \in [Request -> Phases]
    /\ missed \in [Request -> BOOLEAN]
    /\ held \in [Request -> Maybe]
    /\ unswept \in SUBSET Replica
    /\ pending \in [Replica -> Maybe]
    /\ up \in SUBSET {"redis", "mysql"}
    /\ lapsed \in SUBSET Request
    /\ orphaned \in BOOLEAN

\* Some replicas have just started and their warm-up has read the row, with the
\* Redis view count in place of the row's.
Init ==
    /\ replyKind \in ReplyKinds
    /\ row \in {[ver |-> 1, hot |-> h] : h \in BOOLEAN}
    /\ local = [i \in Replica |-> NoPost]
    /\ cache = NoPost
    /\ lock = NoLock
    /\ phase = [r \in Request |-> "idle"]
    /\ missed = [r \in Request |-> FALSE]
    /\ held = [r \in Request |-> NoPost]
    /\ unswept = {}
    /\ pending \in [Replica -> {NoPost, [row EXCEPT !.hot = TRUE]}]
    /\ \A i \in Replica \ Renewing : pending[i] = NoPost
    /\ up = {"redis", "mysql"}
    /\ lapsed = {}
    /\ orphaned = FALSE

InSection(r) == phase[r] \in Section
GoTo(r, p) == phase' = [phase EXCEPT ![r] = p]

-----------------------------------------------------------------------------
(* Faults seeded one at a time by the mutation runs.                       *)

FaultWritesThrough(r) ==
    /\ phase[r] \in Lookups /\ ~missed[r]
    /\ LET copy == local[Home[r]]
       IN IF copy # NoPost
          THEN /\ GoTo(r, IF InSection(r) THEN "release" ELSE "idle")
               /\ cache' = copy
               /\ UNCHANGED missed
          ELSE /\ missed' = [missed EXCEPT ![r] = TRUE]
               /\ UNCHANGED <<phase, cache>>
    /\ UNCHANGED <<replyKind, row, local, lock, held, writers, up, lapsed, orphaned>>

FaultStoresDirect(r) ==
    /\ phase[r] = "direct"
    /\ GoTo(r, "idle")
    /\ local' = [local EXCEPT ![Home[r]] = row]
    /\ UNCHANGED <<replyKind, row, cache, lock, missed, held, writers, up, lapsed, orphaned>>

FaultDeletesAnyLock(r) == NoLock

FaultWaitsForLock(r) ==
    /\ phase[r] = "wait" /\ lock = NoLock
    /\ GoTo(r, "direct")
    /\ missed' = [missed EXCEPT ![r] = FALSE]
    /\ UNCHANGED <<stores, lock, held, writers, up, lapsed, orphaned>>

FaultKeepsReply(r) == 0

-----------------------------------------------------------------------------
(* Looking a post up: localCache.Get, then getRedisCache, which treats an  *)
(* error as a miss.                                                        *)

\* GetOrLoad.
Begin(r) ==
    /\ phase[r] = "idle"
    /\ GoTo(r, "get")
    /\ UNCHANGED <<stores, lock, missed, held, writers, up, lapsed, orphaned>>

\* A result found inside the critical section leaves through the deferred
\* releaseLock; anywhere else the request simply returns.
AfterHit(r) == IF InSection(r) THEN "release" ELSE "idle"

AfterMiss(r) ==
    CASE phase[r] = "get" -> "lock"
      [] phase[r] = "recheck" -> "load"
      [] phase[r] = "confirm" -> IF held[r].hot THEN "store" ELSE "release"
      [] phase[r] = "wait" -> "wait"

LookupLocal(r) ==
    /\ phase[r] \in Lookups /\ ~missed[r]
    /\ IF local[Home[r]] # NoPost
       THEN GoTo(r, AfterHit(r)) /\ UNCHANGED missed
       ELSE missed' = [missed EXCEPT ![r] = TRUE] /\ UNCHANGED phase
    /\ UNCHANGED <<stores, lock, held, writers, up, lapsed, orphaned>>

\* A hit in Redis is kept in the local cache too if the copy is hot.
Keeping(r) == IF InSection(r) THEN "keepLocked" ELSE "keep"

LookupRedis(r) ==
    LET found == "redis" \in up /\ cache # NoPost
        keeps == found /\ cache.hot
    IN /\ phase[r] \in Lookups /\ missed[r]
       /\ missed' = [missed EXCEPT ![r] = FALSE]
       /\ GoTo(r, IF keeps THEN Keeping(r) ELSE IF found THEN AfterHit(r) ELSE AfterMiss(r))
       /\ held' = [held EXCEPT ![r] = IF keeps THEN cache ELSE @]
       /\ UNCHANGED <<stores, lock, writers, up, lapsed, orphaned>>

\* The localCache.Set of what Redis answered: meanwhile a writer may have
\* deleted the local copy, or the TTL have taken the one in Redis.
Keep(r) ==
    /\ phase[r] \in {"keep", "keepLocked"}
    /\ local' = [local EXCEPT ![Home[r]] = held[r]]
    /\ held' = [held EXCEPT ![r] = NoPost]
    /\ GoTo(r, AfterHit(r))
    /\ UNCHANGED <<replyKind, row, cache, lock, missed, writers, up, lapsed, orphaned>>

-----------------------------------------------------------------------------
(* The lock: acquireLock and releaseLock are Lua scripts, each atomic.     *)

\* acquireLock compares the reply with the string "1".  The client library
\* returns a Lua integer as int64, and in Go an interface holding int64(1)
\* never equals one holding a string.
Acquired(reply) == reply = [kind |-> "string", val |-> "1"]

TryLock(r) ==
    LET free == lock = NoLock
        reply == [kind |-> replyKind, val |-> IF free THEN "1" ELSE "0"]
    IN /\ phase[r] = "lock" /\ "redis" \in up
       /\ lock' = IF free THEN Stamp[r] ELSE lock
       /\ orphaned' = (orphaned /\ ~free)
       /\ GoTo(r, IF Acquired(reply) THEN "recheck" ELSE "wait")
       /\ UNCHANGED <<stores, missed, held, writers, up, lapsed>>

\* The script fails, or ran and its reply was lost: load directly.
TryLockFails(r) ==
    /\ phase[r] = "lock" /\ "redis" \notin up
    /\ \/ UNCHANGED <<lock, orphaned>>
       \/ lock = NoLock /\ lock' = Stamp[r] /\ orphaned' = TRUE
    /\ GoTo(r, "direct")
    /\ UNCHANGED <<stores, missed, held, writers, up, lapsed>>

\* The value the lock key has after the release script.
AfterRelease(r) == IF lock = Stamp[r] THEN NoLock ELSE lock

Leave(r) ==
    /\ GoTo(r, "idle")
    /\ held' = [held EXCEPT ![r] = NoPost]
    /\ lapsed' = lapsed \ {r}
    /\ UNCHANGED <<stores, missed, writers, up>>

Release(r) ==
    /\ phase[r] = "release" /\ "redis" \in up
    /\ lock' = AfterRelease(r)
    /\ Leave(r)
    /\ UNCHANGED orphaned

\* An error of the release script is only logged.
ReleaseFails(r) ==
    /\ phase[r] = "release" /\ "redis" \notin up
    /\ \/ lock' = AfterRelease(r) /\ UNCHANGED orphaned
       \/ UNCHANGED lock /\ orphaned' = (orphaned \/ lock = Stamp[r])
    /\ Leave(r)

-----------------------------------------------------------------------------
(* The critical section of getWithLock, and waitForCache.                  *)

\* loadFn inside the section; an error or a missing row goes straight out.
Load(r) ==
    /\ phase[r] = "load"
    /\ IF "mysql" \in up /\ row # NoPost
       THEN held' = [held EXCEPT ![r] = row] /\ GoTo(r, "confirm")
       ELSE GoTo(r, "release") /\ UNCHANGED held
    /\ UNCHANGED <<stores, lock, missed, writers, up, lapsed, orphaned>>

Store(r) ==
    /\ phase[r] = "store"
    /\ local' = [local EXCEPT ![Home[r]] = held[r]]
    /\ GoTo(r, "fill")
    /\ UNCHANGED <<replyKind, row, cache, lock, missed, held, writers, up, lapsed, orphaned>>

\* setRedisCache; an error is only logged.
Fill(r) ==
    /\ phase[r] = "fill"
    /\ cache' = IF "redis" \in up THEN held[r] ELSE cache
    /\ GoTo(r, "release")
    /\ UNCHANGED <<replyKind, row, local, lock, missed, held, writers, up, lapsed, orphaned>>

\* LockWaitTimeout ends the polling; the request then loads directly.
WaitTimeout(r) ==
    /\ phase[r] = "wait"
    /\ GoTo(r, "direct")
    /\ missed' = [missed EXCEPT ![r] = FALSE]
    /\ UNCHANGED <<stores, lock, held, writers, up, lapsed, orphaned>>

\* The caller gives up: ctx.Done().
Cancelled(r) ==
    /\ phase[r] = "wait"
    /\ GoTo(r, "idle")
    /\ missed' = [missed EXCEPT ![r] = FALSE]
    /\ UNCHANGED <<stores, lock, held, writers, up, lapsed, orphaned>>

\* loadFn without the lock: the result is returned and not cached.
DirectLoad(r) ==
    /\ phase[r] = "direct"
    /\ GoTo(r, "idle")
    /\ UNCHANGED <<stores, lock, missed, held, writers, up, lapsed, orphaned>>

-----------------------------------------------------------------------------
(* Writers: the row, then DeletePostCache, which deletes the local copy of *)
(* the replica that wrote (and post:detail:<id>, a key the loader never    *)
(* reads).  One write at a time per replica: a bound of the model.         *)

\* UpdatePost, which finds the row first; the statement does not touch its
\* status, so that one overtaken by a deletion is a Delete of a deleted row.
Update(i) ==
    /\ i \in Writing /\ i \notin unswept
    /\ row # NoPost /\ row.ver < MaxVersion
    /\ row' = [row EXCEPT !.ver = @ + 1]
    /\ unswept' = unswept \cup {i}
    /\ UNCHANGED <<replyKind, local, cache, lock, phase, missed, held, pending, up, lapsed, orphaned>>

Delete(i) ==
    /\ i \in Writing /\ i \notin unswept
    /\ row' = NoPost
    /\ unswept' = unswept \cup {i}
    /\ UNCHANGED <<replyKind, local, cache, lock, phase, missed, held, pending, up, lapsed, orphaned>>

DeletePostCache(i) ==
    /\ i \in unswept
    /\ local' = [local EXCEPT ![i] = NoPost]
    /\ unswept' = unswept \ {i}
    /\ UNCHANGED <<replyKind, row, cache, lock, phase, missed, held, pending, up, lapsed, orphaned>>

\* UpdateViewCount, which the view syncer calls with the views it has moved:
\* a Get of the local copy and a Set of what it got, if the views alone reach
\* the threshold.  A deletion may fall between the two, and the TTL restarts.
UpdateViewCount(i) ==
    /\ i \in Renewing /\ pending[i] = NoPost /\ local[i] # NoPost
    /\ pending' = [pending EXCEPT ![i] = local[i]]
    /\ UNCHANGED <<stores, lock, phase, missed, held, unswept, up, lapsed, orphaned>>

\* The Set of UpdateViewCount, or of the warm-up.
SetLocal(i) ==
    /\ pending[i] # NoPost
    /\ local' = [local EXCEPT ![i] = pending[i]]
    /\ pending' = [pending EXCEPT ![i] = NoPost]
    /\ UNCHANGED <<replyKind, row, cache, lock, phase, missed, held, unswept, up, lapsed, orphaned>>

-----------------------------------------------------------------------------
(* The environment: TTLs, views, failures.                                 *)

\* LockTTL passes; the holder may still be at work.
LockExpires ==
    /\ lock # NoLock
    /\ lock' = NoLock
    /\ lapsed' = lapsed \cup {r \in Request : InSection(r) /\ Stamp[r] = lock}
    /\ orphaned' = FALSE
    /\ UNCHANGED <<stores, phase, missed, held, writers, up>>

CacheExpires ==
    /\ cache # NoPost
    /\ cache' = NoPost
    /\ UNCHANGED <<replyKind, row, local, lock, phase, missed, held, writers, up, lapsed, orphaned>>

LocalExpires(i) ==
    /\ local[i] # NoPost
    /\ local' = [local EXCEPT ![i] = NoPost]
    /\ UNCHANGED <<replyKind, row, cache, lock, phase, missed, held, writers, up, lapsed, orphaned>>

\* The view count of the row passes the hot threshold.
BecomesHot ==
    /\ row # NoPost /\ ~row.hot
    /\ row' = [row EXCEPT !.hot = TRUE]
    /\ UNCHANGED <<replyKind, local, cache, lock, phase, missed, held, writers, up, lapsed, orphaned>>

ServiceFlips(s) ==
    /\ up' = IF s \in up THEN up \ {s} ELSE up \cup {s}
    /\ UNCHANGED <<stores, lock, phase, missed, held, writers, lapsed, orphaned>>

-----------------------------------------------------------------------------
RequestStep(r) ==
    \/ Begin(r) \/ LookupLocal(r) \/ LookupRedis(r) \/ Keep(r)
    \/ TryLock(r) \/ TryLockFails(r) \/ Release(r) \/ ReleaseFails(r)
    \/ Load(r) \/ Store(r) \/ Fill(r) \/ DirectLoad(r)

Expiry == LockExpires \/ CacheExpires \/ \E i \in Replica : LocalExpires(i)

Next ==
    \/ \E r \in Request : RequestStep(r) \/ WaitTimeout(r) \/ Cancelled(r)
    \/ \E i \in Replica : Update(i) \/ Delete(i) \/ DeletePostCache(i)
    \/ \E i \in Replica : UpdateViewCount(i) \/ SetLocal(i)
    \/ Expiry \/ BecomesHot
    \/ \E s \in Failing : ServiceFlips(s)

Spec == Init /\ [][Next]_vars

\* Goroutines run, requests keep coming, timers fire and TTLs pass.  Nothing
\* is assumed of writers beyond finishing, of cancellation or of failures.
FairSpec ==
    /\ Spec
    /\ \A r \in Request : WF_vars(RequestStep(r)) /\ WF_vars(WaitTimeout(r))
    /\ \A i \in Replica : WF_vars(LocalExpires(i)) /\ WF_vars(DeletePostCache(i))
                         /\ WF_vars(SetLocal(i))
    /\ WF_vars(LockExpires) /\ WF_vars(CacheExpires)

-----------------------------------------------------------------------------
(* Properties.                                                             *)

\* While its lock has not expired, a loader in the critical section is alone
\* there, whatever the others time out of, fail at or release late.
OneLoader ==
    \A r, s \in Request :
        InSection(r) /\ InSection(s) /\ r \notin lapsed /\ s \notin lapsed => r = s

\* With a reply the code recognises, a lock in Redis has an owner at work in
\* the section, except when a lock command failed half way.
LockHasOwner ==
    lock # NoLock /\ ~orphaned /\ replyKind = "string" =>
        \E r \in Request : InSection(r) /\ Stamp[r] = lock

\* The scripts, the TTL and the deferred release amount to a lock with a lease,
\* failures and all: it is taken only while free, and a loader that outlived its
\* lease never gives back the next one's.
Lease == INSTANCE LeaseLock WITH
    Holder  <- {Stamp[r] : r \in Request},
    Free    <- NoLock,
    owner   <- lock,
    inside  <- {Stamp[r] : r \in {q \in Request : InSection(q)}},
    expired <- {Stamp[r] : r \in lapsed}
IsLease == Lease!Spec

\* Every request returns, again and again: nobody waits for ever for a loader
\* that died, nor for one that cannot release.
EveryRequestEnds ==
    \A r \in Request : []<>(phase[r] = "idle")

\* Copies of an old version, or of a deleted post, die out once writes stop
\* and the view syncers stop renewing local copies: requests do not renew
\* copies from one another.
Fresh(copy) == copy # NoPost => row # NoPost /\ copy.ver = row.ver
Renewal == \E i \in Replica : pending[i] # NoPost
StaleDiesOut ==
    <>[]~Renewal => <>[](Fresh(cache) /\ \A i \in Replica : Fresh(local[i]))

\* A hot post that is being read gets cached, once MySQL and Redis stay up.
\* It fails with the reply the library really returns.
Cached == cache # NoPost \/ \E i \in Replica : local[i] # NoPost
HotPostGetsCached ==
    <>[](up = {"redis", "mysql"} /\ row # NoPost /\ row.hot) => []<>Cached

\* With the int64 reply no request ever caches anything, by any interleaving or
\* failure: Redis keeps no copy, and local ones come from warm-up and syncer.
LoaderCachesNothing ==
    [][replyKind = "int64" =>
        /\ cache' = NoPost
        /\ \A i \in Replica : local'[i] \in {local[i], pending[i], NoPost}]_vars
=============================================================================
