------------------------------ MODULE ViewCount ------------------------------
(***************************************************************************)
(* The view counter of one post.  Readers are added to a HyperLogLog under *)
(* post:view:<id> in Redis (post/internal/repository/redis.go); every five *)
(* minutes the view syncer of each replica (view_count_syncer.go) adds its *)
(* cardinality to posts.view_count and deletes the key, by three separate  *)
(* commands.  The HyperLogLog is a set here: it is exact for the few       *)
(* readers of an instance.  What the syncer does to the local cache is     *)
(* UpdateViewCount of CacheLoader.                                         *)
(***************************************************************************)
EXTENDS Integers, FiniteSets

CONSTANTS
    Replica,     \* processes of the post service, each with a view syncer
    User,
    Author,      \* the post's user_id
    MaxRecorded, \* bounds of the model: views recorded,
    MaxFaults    \* failed commands and crashes

ASSUME ViewAssumption ==
    /\ Author \in User
    /\ IsFiniteSet(User)
    /\ MaxRecorded \in Nat \ {0}
    /\ MaxFaults \in Nat

VARIABLES
    viewers,   \* members of the HyperLogLog; the key exists if it has any
    created,   \* AddWhenCreate has run
    expiring,  \* the key still has the TTL of AddWhenCreate
    viewCount, \* posts.view_count
    step,      \* where the syncer of each replica stands
    counted,   \* counted[i]: the syncer's local viewCount
    recorded,  \* history: views recorded, in Redis or in the row
    disturbed, \* history: what has come between: see CountedOnce, NoneLost
    faults

vars == <<viewers, created, expiring, viewCount, step, counted, recorded, disturbed, faults>>

Disturbances == {"fault", "overlap", "raced", "expired"}

TypeOK ==
    /\ viewers \in SUBSET User
    /\ created \in BOOLEAN
    /\ expiring \in BOOLEAN
    /\ expiring => viewers # {}
    /\ viewCount \in Nat
    /\ step \in [Replica -> {"idle", "count", "update", "delete"}]
    /\ counted \in [Replica -> 0..Cardinality(User)]
    /\ recorded \in 0..MaxRecorded
    /\ disturbed \in SUBSET Disturbances
    /\ faults \in 0..MaxFaults

Init ==
    /\ viewers = {}
    /\ created = FALSE
    /\ expiring = FALSE
    /\ viewCount = 0
    /\ step = [i \in Replica |-> "idle"]
    /\ counted = [i \in Replica |-> 0]
    /\ recorded = 0
    /\ disturbed = {}
    /\ faults = 0

-----------------------------------------------------------------------------
(* Faults seeded one at a time by the mutation runs.                       *)

FaultOverwrites(i) == counted[i]
FaultForgetsToDelete(i) == viewers
FaultSkipsOne == Cardinality(viewers) <= 1

-----------------------------------------------------------------------------
(* Readers.                                                                *)

\* Between Pfcount and Del of some syncer, who does not see what is added.
InWindow(i) == step[i] \in {"update", "delete"}

Record(u) ==
    /\ recorded < MaxRecorded
    /\ viewers' = viewers \cup {u}
    /\ recorded' = recorded + 1
    /\ disturbed' = IF \E i \in Replica : InWindow(i)
                    THEN disturbed \cup {"raced"} ELSE disturbed
    /\ UNCHANGED <<viewCount, step, counted, faults>>

\* The author is counted once, when the post is created.
AddWhenCreate ==
    /\ ~created /\ created' = TRUE
    /\ Record(Author)
    /\ expiring' = TRUE

\* GetPostDetail: readers other than the author are added; an error is ignored.
Counts(u) == u # Author

AddRead(u) ==
    /\ Counts(u) /\ u \notin viewers
    /\ Record(u)
    /\ UNCHANGED <<created, expiring>>

\* The IncrementViewCount request adds to the row directly.
IncrementViewCount ==
    /\ recorded < MaxRecorded
    /\ viewCount' = viewCount + 1
    /\ recorded' = recorded + 1
    /\ UNCHANGED <<viewers, created, expiring, step, counted, disturbed, faults>>

\* getViewCountFromRedis: a reader is shown the views that are still in Redis, or
\* the row's if Redis does not answer; never the sum.
Shown(answers) == IF answers THEN Cardinality(viewers) ELSE viewCount

\* Seven days after the creation, if no syncer has deleted the key till then.
KeyExpires ==
    /\ expiring /\ viewers # {}
    /\ viewers' = {}
    /\ expiring' = FALSE
    /\ disturbed' = disturbed \cup {"expired"}
    /\ UNCHANGED <<created, viewCount, step, counted, recorded, faults>>

-----------------------------------------------------------------------------
(* Sync, one key of its loop.                                              *)

StepTo(i, s) == step' = [step EXCEPT ![i] = s]

\* Redis Keys finds the key.
ListKeys(i) ==
    /\ step[i] = "idle" /\ viewers # {}
    /\ StepTo(i, "count")
    /\ UNCHANGED <<viewers, created, expiring, viewCount, counted, recorded, disturbed, faults>>

\* Pfcount; a key that has gone meanwhile counts zero and is skipped.
NothingToCount == viewers = {}

CountViews(i) ==
    /\ step[i] = "count"
    /\ IF NothingToCount
       THEN StepTo(i, "idle") /\ UNCHANGED <<counted, disturbed>>
       ELSE /\ StepTo(i, "update")
            /\ counted' = [counted EXCEPT ![i] = Cardinality(viewers)]
            /\ disturbed' = IF \E j \in Replica : InWindow(j)
                            THEN disturbed \cup {"overlap"} ELSE disturbed
    /\ UNCHANGED <<viewers, created, expiring, viewCount, recorded, faults>>

\* UPDATE posts SET view_count = view_count + ?
Added(i) == viewCount + counted[i]

AddToRow(i) ==
    /\ step[i] = "update"
    /\ viewCount' = Added(i)
    /\ StepTo(i, "delete")
    /\ UNCHANGED <<viewers, created, expiring, counted, recorded, disturbed, faults>>

\* The HyperLogLog after Del, which takes the TTL with it.
Remaining(i) == {}
StillExpiring(members) == expiring /\ members # {}

DeleteKey(i) ==
    /\ step[i] = "delete"
    /\ viewers' = Remaining(i)
    /\ expiring' = StillExpiring(Remaining(i))
    /\ StepTo(i, "idle")
    /\ UNCHANGED <<created, viewCount, counted, recorded, disturbed, faults>>

\* A command fails, done or not: logged, and the loop goes on to the next key.
\* A crash of the replica is the same: the next Sync starts anew.
SyncFails(i) ==
    /\ step[i] # "idle" /\ faults < MaxFaults
    /\ faults' = faults + 1
    /\ disturbed' = disturbed \cup {"fault"}
    /\ StepTo(i, "idle")
    /\ \/ UNCHANGED <<viewers, expiring, viewCount>>
       \/ /\ step[i] = "update"
          /\ viewCount' = Added(i)
          /\ UNCHANGED <<viewers, expiring>>
       \/ /\ step[i] = "delete"
          /\ viewers' = Remaining(i)
          /\ expiring' = StillExpiring(Remaining(i))
          /\ UNCHANGED viewCount
    /\ UNCHANGED <<created, counted, recorded>>

-----------------------------------------------------------------------------
Sync(i) == ListKeys(i) \/ CountViews(i) \/ AddToRow(i) \/ DeleteKey(i)

Next ==
    \/ \E u \in User : AddRead(u)
    \/ AddWhenCreate \/ IncrementViewCount \/ KeyExpires
    \/ \E i \in Replica : Sync(i) \/ SyncFails(i)

Spec == Init /\ [][Next]_vars

\* The ticker of each replica starts Sync again and again.
FairSpec == Spec /\ \A i \in Replica : WF_vars(Sync(i))

-----------------------------------------------------------------------------
(* Properties.                                                             *)

Undisturbed(kinds) == disturbed \cap kinds = {}
Deleting == \E i \in Replica : step[i] = "delete"

\* A view is added to the row at most once, unless a command of a syncer
\* failed or the syncers of two replicas were at the key at the same time; and
\* nobody is shown more views than there were, even while a syncer has added
\* what it has not yet deleted.
CountedOnce ==
    Undisturbed({"fault", "overlap"}) =>
        /\ ~Deleting => viewCount + Cardinality(viewers) <= recorded
        /\ \A answers \in BOOLEAN : Shown(answers) <= recorded

\* A view gets lost only if it was recorded between the Pfcount and the Del of
\* a syncer, or if the key expired: never by a failed command, a crash, or a
\* second syncer.
NoneLost ==
    Undisturbed({"raced", "expired"}) /\ ~Deleting =>
        recorded <= viewCount + Cardinality(viewers)

\* Views do not stay in Redis for ever.
ViewsLeaveRedis == (viewers # {}) ~> (viewers = {})
=============================================================================
