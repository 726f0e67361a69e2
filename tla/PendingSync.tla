---------------------------- MODULE PendingSync ----------------------------
(***************************************************************************)
(* The interaction service's second way to bring like counts to MySQL:     *)
(* whoever changes the likes of a target marks the target in a Redis set,  *)
(* and LikeCountSyncer goes through the marked targets at every tick.      *)
(*                                                                         *)
(* A synchronisation is four commands: the count (whose only part is to    *)
(* exist), the size of the relation set, the UPDATE, the removal of the    *)
(* mark.  A mark set after the second and before the fourth is removed     *)
(* although what it announced has not been read.  ForceSync writes the     *)
(* count as it is; CheckAndFix repairs the count and gets no further: the  *)
(* arguments of its Sprintf spoil the query that follows.                  *)
(*                                                                         *)
(* At this commit no handler calls MarkPendingSync and no main starts a    *)
(* LikeCountSyncer.  The clients below call the package as it is offered:  *)
(* change the likes (LikePipeline has those steps one by one), then mark.  *)
(***************************************************************************)
EXTENDS Integers, FiniteSets

CONSTANTS
    Target,
    Client,     \* users; each likes or does not like a target
    Syncer,     \* one LikeCountSyncer per process of the service
    Hand,       \* callers of ForceSync and CheckAndFix
    Limit,      \* targets a pass takes from the set: 1000
    NoTarget,
    NoKey,      \* the count key does not exist in Redis
    Limits      \* bounds of the model: targets that change, syncers that are
                \* started, changes, faults, calls of the hands

ASSUME PendingAssumption ==
    /\ IsFiniteSet(Client)
    /\ Syncer \cap Hand = {}
    /\ Limit \in Nat \ {0}
    /\ NoTarget \notin Target
    /\ NoKey \notin Int
    /\ Limits \subseteq [targets : SUBSET Target, syncers : SUBSET Syncer,
                   changes : Nat, faults : Nat, repairs : Nat]

Worker == Syncer \cup Hand

VARIABLES
    relation,   \* relation[t]: the relation set of t in Redis
    count,      \* count[t]: its like count in Redis, or NoKey
    likeCount,  \* likeCount[t]: posts.like_count or comments.like_count
    pending,    \* the set of marked targets in Redis
    marking,    \* marking[c]: the target c has changed and not yet marked
    life,       \* life[s]: "runs", "stopping" (Stop was called), "stopped"
    list,       \* list[s]: the targets that are left of its pass
    at,         \* at[w]: the command a worker sends next
    target,     \* target[w]: the target it is about
    value,      \* value[w]: the count it carries
    stale,      \* history: stale[w]: what w carries is not what a mark
                \* announced, or never was the number of likers
    lost,       \* history: targets whose last mark failed, or whose row a
                \* worker wrote with something stale before it was done
    limits,     \* the one of Limits this behaviour has; never changes
    changes, faults, repairs

redisVars  == <<relation, count>>
clientVars == <<marking, changes>>
workerVars == <<life, list, at, target, value>>
boundVars  == <<limits, faults, repairs>>
vars == <<redisVars, likeCount, pending, clientVars, workerVars, stale, lost,
          boundVars>>

Size(t) == Cardinality(relation[t])

TargetTypes ==
    /\ relation \in [Target -> SUBSET Client]
    /\ count \in [Target -> Nat \cup {NoKey}]
    /\ likeCount \in [Target -> Nat]
    /\ pending \in SUBSET Target /\ lost \in SUBSET Target
    /\ marking \in [Client -> Target \cup {NoTarget}]

\* Stop returns only after the pass that is under way.
WorkerTypes ==
    /\ life \in [Syncer -> {"runs", "stopping", "stopped"}]
    /\ list \in [Syncer -> SUBSET Target]
    /\ at \in [Worker -> {"idle", "relation", "set", "write", "remove"}]
    /\ target \in [Worker -> Target \cup {NoTarget}]
    /\ value \in [Worker -> Nat] /\ stale \in [Worker -> BOOLEAN]
    /\ \A w \in Worker : at[w] = "idle" <=> target[w] = NoTarget
    /\ \A s \in Syncer :
        /\ at[s] # "set"
        /\ at[s] # "idle" => target[s] \in list[s]
        /\ life[s] = "stopped" => list[s] = {}
    /\ \A f \in Hand : at[f] # "remove"

BoundTypes ==
    /\ limits \in Limits
    /\ changes \in 0..limits.changes /\ faults \in 0..limits.faults
    /\ repairs \in 0..limits.repairs

TypeOK == TargetTypes /\ WorkerTypes /\ BoundTypes

Init ==
    /\ relation = [t \in Target |-> {}]
    /\ count = [t \in Target |-> NoKey]
    /\ likeCount = [t \in Target |-> 0]
    /\ pending = {}
    /\ marking = [c \in Client |-> NoTarget]
    /\ limits \in Limits
    /\ life = [s \in Syncer |->
                 IF s \in limits.syncers THEN "runs" ELSE "stopped"]
    /\ list = [s \in Syncer |-> {}]
    /\ at = [w \in Worker |-> "idle"]
    /\ target = [w \in Worker |-> NoTarget]
    /\ value = [w \in Worker |-> 0]
    /\ stale = [w \in Worker |-> FALSE]
    /\ lost = {}
    /\ changes = 0 /\ faults = 0 /\ repairs = 0

Fault == faults < limits.faults /\ faults' = faults + 1

Goes(w, step) == at' = [at EXCEPT ![w] = step]
\* The worker has read what it will write, and is not done with it.
Carries(w, t) == target[w] = t /\ at[w] \in {"write", "remove"}

----------------------------------------------------------------------------
(* Clients. *)

CountOr0(t) == IF count[t] = NoKey THEN 0 ELSE count[t]

Changed(t, n) == count' = [count EXCEPT ![t] = n]

\* IncrLikeCount and AddLikeRelation, or their opposites.
Change(c, t) ==
    /\ marking[c] = NoTarget /\ changes < limits.changes /\ t \in limits.targets
    /\ \/ c \notin relation[t] /\ Changed(t, CountOr0(t) + 1)
       \/ /\ c \in relation[t]
          /\ Changed(t, IF CountOr0(t) = 0 THEN 0 ELSE CountOr0(t) - 1)
    /\ relation' = [relation EXCEPT ![t] =
                      IF c \in @ THEN @ \ {c} ELSE @ \cup {c}]
    /\ marking' = [marking EXCEPT ![c] = t]
    /\ changes' = changes + 1
    /\ UNCHANGED <<likeCount, pending, workerVars, stale, lost, boundVars>>

\* MarkPendingSync.  Whoever carries a count of the target carries an old one.
Mark(c) ==
    LET t == marking[c] IN
    /\ t # NoTarget
    /\ pending' = pending \cup {t}
    /\ stale' = [w \in Worker |-> stale[w] \/ Carries(w, t)]
    /\ lost' = IF \E w \in Worker : Carries(w, t) THEN lost ELSE lost \ {t}
    /\ marking' = [marking EXCEPT ![c] = NoTarget]
    /\ UNCHANGED <<redisVars, likeCount, changes, workerVars, boundVars>>

MarkFails(c) ==
    /\ marking[c] # NoTarget
    /\ Fault
    /\ lost' = lost \cup {marking[c]}
    /\ marking' = [marking EXCEPT ![c] = NoTarget]
    /\ UNCHANGED <<redisVars, likeCount, pending, changes, workerVars, stale,
                   limits, repairs>>

----------------------------------------------------------------------------
(* LikeCountSyncer. *)

\* SMEMBERS, cut to Limit; the order of the members is Redis's.
Batch == {b \in SUBSET pending :
            Cardinality(b) = IF Cardinality(pending) < Limit
                             THEN Cardinality(pending) ELSE Limit}

\* Between two passes the select takes the ticker, whether or not Stop was
\* called meanwhile.
Tick(s) ==
    /\ life[s] # "stopped" /\ at[s] = "idle" /\ list[s] = {}
    /\ pending # {}
    /\ \E b \in Batch : list' = [list EXCEPT ![s] = b]
    /\ UNCHANGED <<redisVars, likeCount, pending, clientVars, life, at, target,
                   value, stale, lost, boundVars>>

Takes(w, t) == target' = [target EXCEPT ![w] = t]
\* The worker is done with its target; what it carried goes out of scope.
Ends(w) ==
    /\ Goes(w, "idle") /\ Takes(w, NoTarget)
    /\ value' = [value EXCEPT ![w] = 0]
    /\ stale' = [stale EXCEPT ![w] = FALSE]
\* The syncer turns to the next target of its pass.
Skips(s, t) == list' = [list EXCEPT ![s] = @ \ {t}]

\* GetLikeCount: the reply for a missing key does not parse, and the target
\* keeps its mark.
ReadCount(s, t) ==
    /\ at[s] = "idle" /\ t \in list[s]
    /\ \/ /\ count[t] = NoKey
          /\ Skips(s, t) /\ UNCHANGED <<at, target>>
       \/ /\ count[t] # NoKey
          /\ Goes(s, "relation") /\ Takes(s, t) /\ UNCHANGED list
    /\ UNCHANGED <<redisVars, likeCount, pending, clientVars, life, value,
                   stale, lost, boundVars>>

\* Mutant: the relation count does not replace the count.
FaultWritesCount(s) ==
    /\ at[s] = "relation"
    /\ value' = [value EXCEPT ![s] = CountOr0(target[s])]
    /\ stale' = [stale EXCEPT ![s] = FALSE]
    /\ Goes(s, "write")
    /\ UNCHANGED <<redisVars, likeCount, pending, clientVars, life, list,
                   target, lost, boundVars>>
\* GetLikeRelationCount; it replaces the count.
ReadRelation(s) ==
    /\ at[s] = "relation"
    /\ value' = [value EXCEPT ![s] = Size(target[s])]
    /\ stale' = [stale EXCEPT ![s] = FALSE]
    /\ Goes(s, "write")
    /\ UNCHANGED <<redisVars, likeCount, pending, clientVars, life, list,
                   target, lost, boundVars>>

Updates(w) == likeCount' = [likeCount EXCEPT ![target[w]] = value[w]]

Write(s) ==
    /\ at[s] = "write"
    /\ Updates(s)
    /\ Goes(s, "remove")
    /\ UNCHANGED <<redisVars, pending, clientVars, life, list, target, value,
                   stale, lost, boundVars>>

\* What a stale worker leaves behind when it is done.
Loses(w) == lost' = IF stale[w] THEN lost \cup {target[w]} ELSE lost

\* Mutant: the mark is not removed.
FaultKeepsMark(s) ==
    /\ at[s] = "remove"
    /\ Loses(s)
    /\ Skips(s, target[s]) /\ Ends(s)
    /\ UNCHANGED <<redisVars, likeCount, pending, clientVars, life, boundVars>>
\* RemovePendingSync; its failure is logged, and the mark stays.
Remove(s) ==
    /\ at[s] = "remove"
    /\ \/ pending' = pending \ {target[s]} /\ UNCHANGED faults
       \/ Fault /\ UNCHANGED pending
    /\ Loses(s)
    /\ Skips(s, target[s]) /\ Ends(s)
    /\ UNCHANGED <<redisVars, likeCount, clientVars, life, limits, repairs>>

\* A command of syncSingleTarget returns an error, the UPDATE perhaps after it
\* took effect: the target keeps its mark, if it still has one.
SyncFails(s) ==
    /\ at[s] \in {"relation", "write"}
    /\ Fault
    /\ \/ UNCHANGED <<likeCount, lost>>
       \/ at[s] = "write" /\ Updates(s) /\ Loses(s)
    /\ Skips(s, target[s]) /\ Ends(s)
    /\ UNCHANGED <<redisVars, pending, clientVars, life, limits, repairs>>

Stop(s) ==
    /\ life[s] = "runs" /\ life' = [life EXCEPT ![s] = "stopping"]
    /\ UNCHANGED <<redisVars, likeCount, pending, clientVars, list, at, target,
                   value, stale, lost, boundVars>>

\* Mutant: the loop over the targets also looks at stopChan.
FaultQuitsMidPass(s) ==
    /\ life[s] = "stopping" /\ at[s] = "idle"
    /\ life' = [life EXCEPT ![s] = "stopped"]
    /\ UNCHANGED <<redisVars, likeCount, pending, clientVars, list, at, target,
                   value, stale, lost, boundVars>>
\* Between two passes the select finds stopChan closed; Stop returns.
Quit(s) ==
    /\ life[s] = "stopping" /\ at[s] = "idle" /\ list[s] = {}
    /\ life' = [life EXCEPT ![s] = "stopped"]
    /\ UNCHANGED <<redisVars, likeCount, pending, clientVars, list, at, target,
                   value, stale, lost, boundVars>>

SyncerStep(s) ==
    \/ Tick(s) \/ ReadRelation(s) \/ Write(s) \/ Remove(s)
    \/ \E t \in Target : ReadCount(s, t)

----------------------------------------------------------------------------
(* ForceSync and CheckAndFix. *)

\* GetLikeCount of either, on a key that exists; else nothing happens.
Begin(f, t, step) ==
    /\ at[f] = "idle" /\ repairs < limits.repairs /\ count[t] # NoKey
    /\ repairs' = repairs + 1
    /\ Goes(f, step) /\ Takes(f, t)

ForceSync(f, t) ==
    /\ Begin(f, t, "write")
    /\ value' = [value EXCEPT ![f] = count[t]]
    /\ stale' = [stale EXCEPT ![f] = count[t] # Size(t)]
    /\ UNCHANGED <<redisVars, likeCount, pending, clientVars, life, list, lost,
                   limits, faults>>

\* ForceSync does nothing more after its UPDATE, so an error of one that took
\* effect leaves what its success leaves.
ForceWrite(f) ==
    /\ at[f] = "write"
    /\ \/ Updates(f) /\ Loses(f) /\ UNCHANGED faults
       \/ Fault /\ UNCHANGED <<likeCount, lost>>
    /\ Ends(f)
    /\ UNCHANGED <<redisVars, pending, clientVars, life, list, limits, repairs>>

CheckAndFix(f, t) ==
    /\ Begin(f, t, "relation")
    /\ value' = [value EXCEPT ![f] = count[t]]
    /\ UNCHANGED <<redisVars, likeCount, pending, clientVars, life, list, stale,
                   lost, limits, faults>>

\* GetLikeRelationCount.  When the two agree, the malformed query ends it.
Compare(f) ==
    /\ at[f] = "relation"
    /\ \/ value[f] = Size(target[f]) /\ Ends(f)
       \/ /\ value[f] # Size(target[f])
          /\ value' = [value EXCEPT ![f] = Size(target[f])]
          /\ Goes(f, "set") /\ UNCHANGED <<target, stale>>
    /\ UNCHANGED <<redisVars, likeCount, pending, clientVars, life, list, lost,
                   boundVars>>

\* SetLikeCount, then the malformed query.
SetCount(f) ==
    /\ at[f] = "set"
    /\ \/ Changed(target[f], value[f]) /\ UNCHANGED faults
       \/ Fault /\ UNCHANGED count
    /\ Ends(f)
    /\ UNCHANGED <<relation, likeCount, pending, clientVars, life, list, lost,
                   limits, repairs>>

HandStep(f) ==
    \/ ForceWrite(f) \/ Compare(f) \/ SetCount(f)
    \/ \E t \in Target : ForceSync(f, t) \/ CheckAndFix(f, t)

\* The count key has a TTL of a day.
CountExpires(t) ==
    /\ count[t] # NoKey
    /\ Fault
    /\ Changed(t, NoKey)
    /\ UNCHANGED <<relation, likeCount, pending, clientVars, workerVars, stale,
                   lost, limits, repairs>>

----------------------------------------------------------------------------

Next ==
    \/ \E c \in Client :
        Mark(c) \/ MarkFails(c) \/ \E t \in Target : Change(c, t)
    \/ \E s \in Syncer : SyncerStep(s) \/ SyncFails(s) \/ Stop(s) \/ Quit(s)
    \/ \E f \in Hand : HandStep(f)
    \/ \E t \in Target : CountExpires(t)

Spec == Init /\ [][Next]_vars

\* A syncer's ticker ticks, its commands return, and its select, which chooses
\* at random among what is ready, takes each ready case in the end.  A client
\* marks what it changed.
FairSpec ==
    /\ Spec
    /\ \A s \in Syncer : WF_vars(SyncerStep(s)) /\ SF_vars(Quit(s))
    /\ \A c \in Client : WF_vars(Mark(c))

----------------------------------------------------------------------------
(* Properties. *)

Busy(t) ==
    \/ \E c \in Client : marking[c] = t
    \/ \E w \in Worker : Carries(w, t)

\* A target without a mark, which nobody is changing or writing, has the
\* number of its likers in MySQL, unless the last mark failed or fell between
\* a worker's read and the end of its work: syncSingleTarget and the removal
\* that follows it, and ForceSync, which trusts the count.  A mark set in
\* nobody's window makes up for everything that went wrong before it.
UnmarkedIsSynced ==
    \A t \in Target :
        t \notin pending /\ ~Busy(t) /\ t \notin lost => likeCount[t] = Size(t)

Stuck == {t \in pending : count[t] = NoKey}

\* As long as a syncer runs, every mark is served in the end, except those of
\* targets whose count has expired: syncSingleTarget fails on them at every
\* tick.  As many of them as a pass takes may keep it from all the others.
MarksAreServed ==
    <>[](\/ pending = Stuck
         \/ Cardinality(Stuck) >= Limit
         \/ \A s \in Syncer : life[s] = "stopped")

=============================================================================
