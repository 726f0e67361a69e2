---------------------------- MODULE LikePipeline ----------------------------
(***************************************************************************)
(* The interaction service's likes, for one target (a post or a comment):  *)
(* the Like and Unlike handlers, the copies in Redis, the Kafka topic, the *)
(* batch consumer that writes posts.like_count, and the consistency        *)
(* checker that repairs it.                                                *)
(*                                                                         *)
(* A handler makes four unconnected writes: the likes row (a transaction), *)
(* the count in Redis, the relation set in Redis, a message.  Errors after *)
(* the commit are only logged.  A message carries nothing the consumer     *)
(* uses but the target, so the topic is a number of messages per consumer  *)
(* (its partitions), and a batch of one target is one synchronisation.     *)
(***************************************************************************)
EXTENDS Integers, FiniteSets

CONSTANTS
    User,
    Handler,      \* request goroutines
    UserOf,       \* UserOf[h]: the user whose requests h serves
    Consumer,     \* batch consumers, one per process of the service
    BatchSize,    \* messages that complete a batch
    NoKey,        \* the count key does not exist in Redis
    Limits        \* bounds of the model: requests started; faults (failed
                  \* commands, crashes, expiries); whether the checker runs;
                  \* the consumers that run

ASSUME PipelineAssumption ==
    /\ UserOf \in [Handler -> User]
    /\ IsFiniteSet(User)
    /\ BatchSize \in Nat \ {0}
    /\ NoKey \notin Int
    /\ Limits \subseteq [requests : Nat, faults : Nat, checker : BOOLEAN,
                   consumers : SUBSET Consumer]

VARIABLES
    likes,      \* likes.status by user: "none" (no row), "on" (1), "off" (0)
    count,      \* like count in Redis, or NoKey
    relation,   \* relation set in Redis: users who like the target
    likeCount,  \* like_count in MySQL
    at,         \* where each handler stands
    action,     \* what it was asked
    seen,       \* the status its transaction read
    got,        \* the count Incr returned to it
    acked,      \* history: what the user was last told, "?" while unknown
    buffered,   \* messages in the producers' asynchronous writers
    sent,       \* sent[c]: messages in the partitions of consumer c
    pos,        \* pos[c]: messages c has fetched
    batch,      \* batch[c]: messages in its batch
    step,       \* where consumer c stands
    synced,     \* synced[c]: the relation count c has read
    done,       \* history: messages of its partitions c has processed, in any
                \* run of it
    check,      \* the checker: its step and the three numbers it has read
    limits,     \* the one of Limits this behaviour has; never changes
    requests,   \* requests started
    faults,     \* faults so far
    crossed,    \* history: users who ever had two requests under way at once
    overtaken   \* history: like_count was written while somebody else carried
                \* a count he had read and not yet written

runVars      == <<limits, requests, crossed>>
handlerVars  == <<at, action, seen, got, acked, runVars, crossed>>
sqlVars      == <<likeCount, overtaken>>
redisVars    == <<count, relation>>
consumerVars == <<pos, batch, step, synced, done>>
topicVars    == <<buffered, sent>>
vars == <<likes, redisVars, sqlVars, handlerVars, topicVars, consumerVars,
          check, faults>>

Status == {"none", "on", "off"}
Target(a) == IF a = "like" THEN "on" ELSE "off"
Likers == {u \in User : likes[u] = "on"}
Idle == [at |-> "idle", db |-> 0, count |-> 0, relation |-> 0]

RequestTypes ==
    /\ likes \in [User -> Status]
    /\ count \in Int \cup {NoKey} /\ relation \in SUBSET User
    /\ at \in [Handler -> {"idle", "write", "count", "set", "relation", "send"}]
    /\ action \in [Handler -> {"like", "unlike"}]
    /\ seen \in [Handler -> Status]
    /\ got \in [Handler -> Int]
    /\ acked \in [User -> {"?", "on", "off"}]
    /\ limits \in Limits
    /\ requests \in 0..limits.requests
    /\ crossed \in SUBSET User

\* A consumer that goes back to the topic has room in its batch.
ConsumerTypes ==
    /\ buffered \in Nat /\ sent \in [Consumer -> Nat]
    /\ pos \in [Consumer -> Nat] /\ done \in [Consumer -> Nat]
    /\ batch \in [Consumer -> 0..BatchSize]
    /\ step \in [Consumer -> {"top", "fetching", "count", "relation", "write"}]
    /\ \A c \in Consumer : step[c] \in {"top", "fetching"} => batch[c] < BatchSize
    /\ synced \in [Consumer -> 0..Cardinality(User)]
    /\ likeCount \in 0..Cardinality(User) /\ overtaken \in BOOLEAN

CheckTypes ==
    check \in [at : {"idle", "count", "relation", "fix", "write"},
               db : 0..Cardinality(User), count : Int,
               relation : 0..Cardinality(User)]

TypeOK ==
    /\ RequestTypes /\ ConsumerTypes /\ CheckTypes
    /\ faults \in 0..limits.faults

Init ==
    /\ likes = [u \in User |-> "none"]
    /\ count = NoKey
    /\ relation = {}
    /\ likeCount = 0
    /\ at = [h \in Handler |-> "idle"]
    /\ action = [h \in Handler |-> "like"]
    /\ seen = [h \in Handler |-> "none"]
    /\ got = [h \in Handler |-> 0]
    /\ acked = [u \in User |-> "?"]
    /\ buffered = 0
    /\ sent = [c \in Consumer |-> 0]
    /\ pos = [c \in Consumer |-> 0]
    /\ batch = [c \in Consumer |-> 0]
    /\ step = [c \in Consumer |-> "top"]
    /\ synced = [c \in Consumer |-> 0]
    /\ done = [c \in Consumer |-> 0]
    /\ check = Idle
    /\ limits \in Limits
    /\ requests = 0
    /\ faults = 0
    /\ crossed = {}
    /\ overtaken = FALSE

\* One of the faults happens.
Fault == faults < limits.faults /\ faults' = faults + 1
NoFault == UNCHANGED faults

Goes(h, p) == at' = [at EXCEPT ![h] = p]
Alone(h) ==
    \A g \in Handler : g # h /\ UserOf[g] = UserOf[h] => at[g] = "idle"
CountOr0 == IF count = NoKey THEN 0 ELSE count

\* Create meets the unique key (target_id, user_id), or Update finds the row
\* as it leaves it within the same second and affects no row.
TxConflict(h) ==
    \/ seen[h] = "none" /\ likes[UserOf[h]] # "none"
    \/ seen[h] # "none" /\ likes[UserOf[h]] = Target(action[h])

-----------------------------------------------------------------------------
(* Faults seeded one at a time by the mutation runs.                       *)

\* Re-like commits without changing the row.
FaultForgetsRelike(h) ==
    IF action[h] = "like" /\ seen[h] = "off" THEN likes
    ELSE [likes EXCEPT ![UserOf[h]] = Target(action[h])]

\* A failed transaction is answered like a committed one.
FaultIgnoresTxError(h) ==
    /\ at[h] = "write"
    /\ \/ TxConflict(h) /\ NoFault
       \/ Fault
    /\ Goes(h, "count")
    /\ UNCHANGED <<likes, redisVars, sqlVars, action, seen, got, acked, runVars,
                   topicVars, consumerVars, check>>

\* The consumer writes the count instead of the size of the relation set.
FaultWritesCount(c) == CountOr0

\* A full batch waits for one message more.
FaultBatchFull(n) == n > BatchSize

-----------------------------------------------------------------------------
(* Like and Unlike.                                                        *)

\* FindByTargetAndUser, in a transaction: a plain read, no lock.  Nothing to
\* do answers Success at once.
NothingToDo(a, status) ==
    \/ a = "like" /\ status = "on"
    \/ a = "unlike" /\ status \in {"none", "off"}

Find(h) ==
    /\ at[h] = "idle" /\ requests < limits.requests
    /\ requests' = requests + 1
    /\ \E a \in {"like", "unlike"} :
        LET u == UserOf[h]
            skip == NothingToDo(a, likes[u])
        IN /\ action' = [action EXCEPT ![h] = a]
           /\ seen' = [seen EXCEPT ![h] = likes[u]]
           /\ acked' = [acked EXCEPT ![u] = IF skip THEN Target(a) ELSE "?"]
           /\ Goes(h, IF skip THEN "idle" ELSE "write")
           /\ crossed' = IF Alone(h) THEN crossed ELSE crossed \cup {u}
    /\ NoFault
    /\ UNCHANGED <<likes, redisVars, sqlVars, got, limits, topicVars, consumerVars,
                   check>>

\* Create or Update, and the commit.
Written(h) == [likes EXCEPT ![UserOf[h]] = Target(action[h])]
CanWrite(h) == ~(seen[h] = "none" /\ TxConflict(h))

Write(h) ==
    /\ at[h] = "write"
    /\ CanWrite(h)
    /\ likes' = Written(h)
    /\ Goes(h, "count")
    /\ NoFault
    /\ UNCHANGED <<redisVars, sqlVars, action, seen, got, acked, runVars,
                   topicVars, consumerVars, check>>

\* The transaction fails: the handler returns the error.  The reply to a
\* commit may be lost too.
WriteFails(h) ==
    /\ at[h] = "write"
    /\ \/ TxConflict(h) /\ NoFault /\ UNCHANGED likes
       \/ Fault /\ UNCHANGED likes
       \/ Fault /\ CanWrite(h) /\ likes' = Written(h)
    /\ Goes(h, "idle")
    /\ UNCHANGED <<redisVars, sqlVars, action, seen, got, acked, runVars,
                   topicVars, consumerVars, check>>

\* Incr, always followed by Setex of what it returned; Decr, followed by
\* Setex of 0 when it went below.
Counted(h) == IF action[h] = "like" THEN CountOr0 + 1 ELSE CountOr0 - 1

Count(h) ==
    /\ at[h] = "count"
    /\ count' = Counted(h)
    /\ got' = [got EXCEPT ![h] = Counted(h)]
    /\ Goes(h, IF action[h] = "like" \/ Counted(h) < 0 THEN "set" ELSE "relation")
    /\ NoFault
    /\ UNCHANGED <<likes, relation, sqlVars, action, seen, acked, runVars,
                   topicVars, consumerVars, check>>

SetCount(h) ==
    /\ at[h] = "set"
    /\ count' = IF action[h] = "like" THEN got[h] ELSE 0
    /\ Goes(h, "relation")
    /\ NoFault
    /\ UNCHANGED <<likes, relation, sqlVars, action, seen, got, acked, runVars,
                   topicVars, consumerVars, check>>

\* AddLikeRelation, RemoveLikeRelation.
Related(h) ==
    IF action[h] = "like" THEN relation \cup {UserOf[h]} ELSE relation \ {UserOf[h]}

Relate(h) ==
    /\ at[h] = "relation"
    /\ relation' = Related(h)
    /\ Goes(h, "send")
    /\ NoFault
    /\ UNCHANGED <<likes, count, sqlVars, action, seen, got, acked, runVars,
                   topicVars, consumerVars, check>>

\* A Redis command fails, or runs and its reply is lost: only logged.
RedisFails(h) ==
    /\ Fault
    /\ \/ /\ at[h] = "count" /\ Goes(h, "relation")
          /\ count' \in {count, Counted(h)} /\ UNCHANGED relation
       \/ /\ at[h] = "set" /\ Goes(h, "relation")
          /\ UNCHANGED redisVars
       \/ /\ at[h] = "relation" /\ Goes(h, "send")
          /\ relation' \in {relation, Related(h)} /\ UNCHANGED count
    /\ UNCHANGED <<likes, sqlVars, action, seen, got, acked, runVars, topicVars,
                   consumerVars, check>>

\* SendMessage on an asynchronous writer, and the answer to the user.
Send(h) ==
    /\ at[h] = "send"
    /\ buffered' = buffered + 1
    /\ acked' = [acked EXCEPT ![UserOf[h]] = Target(action[h])]
    /\ Goes(h, "idle")
    /\ NoFault
    /\ UNCHANGED <<likes, redisVars, sqlVars, action, seen, got, runVars, sent,
                   consumerVars, check>>

\* The process dies under the handler.
Crash(h) ==
    /\ at[h] # "idle" /\ Fault
    /\ Goes(h, "idle")
    /\ UNCHANGED <<likes, redisVars, sqlVars, action, seen, got, acked, runVars,
                   topicVars, consumerVars, check>>

-----------------------------------------------------------------------------
(* Reading.                                                                *)

\* A command that fails leaves the answer at "not liked" and is no error.
BatchGetLikeStatus(u, answers) == answers /\ u \in relation

\* Hence GetLikeStatus never falls back to the table.
GetLikeStatus(u, answers) == BatchGetLikeStatus(u, answers)

-----------------------------------------------------------------------------
(* The topic.  The writer spreads messages over the partitions.            *)

Deliver(c) ==
    /\ buffered > 0 /\ c \in limits.consumers
    /\ buffered' = buffered - 1
    /\ sent' = [sent EXCEPT ![c] = @ + 1]
    /\ NoFault
    /\ UNCHANGED <<likes, redisVars, sqlVars, handlerVars, consumerVars, check>>

\* A broker failure, or a crash with messages still in the writer.
Lose ==
    /\ buffered > 0 /\ Fault
    /\ buffered' = buffered - 1
    /\ UNCHANGED <<likes, redisVars, sqlVars, handlerVars, sent, consumerVars, check>>

-----------------------------------------------------------------------------
(* StartBatchConsumer and ProcessBatch.                                    *)

BatchFull(n) == n >= BatchSize
StepTo(c, s) == step' = [step EXCEPT ![c] = s]
Carriers == {c \in Consumer : step[c] = "write"}
CheckerCarries == check.at \in {"fix", "write"}
ConsumerFrame == UNCHANGED <<likes, redisVars, handlerVars, topicVars, check>>

\* The select finds the ticker ready with messages in the batch ...
TickerFires(c) ==
    /\ step[c] = "top" /\ batch[c] > 0
    /\ StepTo(c, "count")
    /\ NoFault
    /\ ConsumerFrame /\ UNCHANGED <<sqlVars, pos, batch, synced, done>>

\* ... or takes its default branch, into a FetchMessage that blocks until
\* there is a message: nobody looks at the ticker meanwhile.
EnterFetch(c) ==
    /\ step[c] = "top" /\ c \in limits.consumers
    /\ StepTo(c, "fetching")
    /\ NoFault
    /\ ConsumerFrame /\ UNCHANGED <<sqlVars, pos, batch, synced, done>>

Fetch(c) ==
    /\ step[c] = "fetching" /\ pos[c] < sent[c]
    /\ pos' = [pos EXCEPT ![c] = @ + 1]
    /\ batch' = [batch EXCEPT ![c] = @ + 1]
    /\ StepTo(c, IF BatchFull(batch[c] + 1) THEN "count" ELSE "top")
    /\ NoFault
    /\ ConsumerFrame /\ UNCHANGED <<sqlVars, synced, done>>

\* FetchMessage returns an error: the loop comes back to the select with the
\* batch it has.  A message that cannot be decoded would end here, too, but the
\* producer writes none.
FetchFails(c) ==
    /\ step[c] = "fetching" /\ Fault
    /\ StepTo(c, "top")
    /\ ConsumerFrame /\ UNCHANGED <<sqlVars, pos, batch, synced, done>>

\* The batch is over, whether the synchronisation succeeded or not; no offset
\* is committed.
EndBatch(c) ==
    /\ batch' = [batch EXCEPT ![c] = 0]
    /\ done' = [done EXCEPT ![c] = IF pos[c] > @ THEN pos[c] ELSE @]
    /\ StepTo(c, "top")
    /\ UNCHANGED <<pos, synced>>

\* syncSingleTarget reads the count first.  Get answers "" for a missing key
\* and "" is not a number: the target is skipped.
SyncCount(c) ==
    /\ step[c] = "count"
    /\ IF count = NoKey
       THEN EndBatch(c)
       ELSE StepTo(c, "relation") /\ UNCHANGED <<pos, batch, synced, done>>
    /\ NoFault
    /\ ConsumerFrame /\ UNCHANGED sqlVars

\* The relation count replaces the count when they differ.
SyncedCount(c) == Cardinality(relation)

SyncRelation(c) ==
    /\ step[c] = "relation"
    /\ synced' = [synced EXCEPT ![c] = SyncedCount(c)]
    /\ StepTo(c, "write")
    /\ NoFault
    /\ ConsumerFrame /\ UNCHANGED <<sqlVars, pos, batch, done>>

SyncWrite(c) ==
    /\ step[c] = "write"
    /\ likeCount' = synced[c]
    /\ overtaken' = (overtaken \/ CheckerCarries \/ Carriers \ {c} # {})
    /\ EndBatch(c)
    /\ NoFault
    /\ ConsumerFrame

\* A command of the synchronisation fails: logged, and the batch is over.
SyncFails(c) ==
    /\ step[c] \in {"count", "relation", "write"} /\ Fault
    /\ EndBatch(c)
    /\ ConsumerFrame /\ UNCHANGED sqlVars

\* The process restarts: with no offset committed the group starts again at
\* the first message.
Restart(c) ==
    /\ Fault
    /\ pos' = [pos EXCEPT ![c] = 0]
    /\ batch' = [batch EXCEPT ![c] = 0]
    /\ StepTo(c, "top")
    /\ ConsumerFrame /\ UNCHANGED <<sqlVars, synced, done>>

\* The group rebalances: partitions of c go to d, and for want of a committed
\* offset everybody reads from the first message again.  A batch in memory
\* stays where it is.
Rebalance(c, d) ==
    /\ {c, d} \subseteq limits.consumers /\ Fault
    /\ \E n \in 0..sent[c] : sent' = [[sent EXCEPT ![c] = @ - n] EXCEPT ![d] = @ + n]
    /\ pos' = [k \in Consumer |-> 0]
    /\ done' = [k \in Consumer |-> 0]
    /\ UNCHANGED <<likes, redisVars, sqlVars, handlerVars, buffered, batch, step,
                   synced, check>>

-----------------------------------------------------------------------------
(* LikeConsistencyChecker: checkSingleTarget, fixInconsistency.            *)

CheckFrame == UNCHANGED <<likes, relation, handlerVars, topicVars, consumerVars>>

\* The targets come from getRandomTargets, whose query MySQL rejects (ORDER BY
\* and LIMIT in a UNION without parentheses): this is the check of a target
\* that has been handed out.
CheckMySQL ==
    /\ limits.checker /\ check.at = "idle"
    /\ check' = [Idle EXCEPT !.at = "count", !.db = Cardinality(Likers)]
    /\ NoFault
    /\ CheckFrame /\ UNCHANGED <<count, sqlVars>>

\* A missing count key ends the check with an error.
CheckCount ==
    /\ check.at = "count"
    /\ check' = IF count = NoKey THEN Idle
                ELSE [check EXCEPT !.at = "relation", !.count = count]
    /\ NoFault
    /\ CheckFrame /\ UNCHANGED <<count, sqlVars>>

CheckRelation ==
    LET n == Cardinality(relation)
    IN /\ check.at = "relation"
       /\ check' = IF check.db = check.count /\ check.count = n THEN Idle
                   ELSE [check EXCEPT !.at = "fix", !.relation = n]
       /\ NoFault
       /\ CheckFrame /\ UNCHANGED <<count, sqlVars>>

FixCount ==
    /\ check.at = "fix"
    /\ count' = IF check.count # check.relation THEN check.relation ELSE count
    /\ check' = [check EXCEPT !.at = "write"]
    /\ NoFault
    /\ CheckFrame /\ UNCHANGED sqlVars

FixLikeCount ==
    /\ check.at = "write"
    /\ likeCount' = check.relation
    /\ overtaken' = (overtaken \/ Carriers # {})
    /\ check' = Idle
    /\ NoFault
    /\ CheckFrame /\ UNCHANGED count

\* An error ends a check; an error of the repair of the count is only logged.
CheckFails ==
    /\ check.at # "idle" /\ Fault
    /\ check' = IF check.at = "fix" THEN [check EXCEPT !.at = "write"] ELSE Idle
    /\ CheckFrame /\ UNCHANGED <<count, sqlVars>>

\* The count key lives 24 hours after the last Setex.
CountExpires ==
    /\ count # NoKey /\ Fault
    /\ count' = NoKey
    /\ UNCHANGED <<likes, relation, sqlVars, handlerVars, topicVars, consumerVars, check>>

-----------------------------------------------------------------------------
HandlerStep(h) ==
    Write(h) \/ WriteFails(h) \/ Count(h) \/ SetCount(h) \/ Relate(h) \/ Send(h)

ConsumerStep(c) ==
    TickerFires(c) \/ EnterFetch(c) \/ Fetch(c)
        \/ SyncCount(c) \/ SyncRelation(c) \/ SyncWrite(c)

ConsumerFault(c) == FetchFails(c) \/ SyncFails(c) \/ Restart(c)

CheckerStep == CheckMySQL \/ CheckCount \/ CheckRelation \/ FixCount \/ FixLikeCount

Next ==
    \/ \E h \in Handler : Find(h) \/ HandlerStep(h) \/ RedisFails(h) \/ Crash(h)
    \/ \E c \in Consumer : Deliver(c) \/ ConsumerStep(c) \/ ConsumerFault(c)
    \/ \E c, d \in Consumer : Rebalance(c, d)
    \/ Lose \/ CheckerStep \/ CheckFails \/ CountExpires

Spec == Init /\ [][Next]_vars

\* Requests that started go on, the writer delivers, the consumer and the
\* checker run.  Nobody has to send another request.
FairSpec ==
    /\ Spec
    /\ \A h \in Handler : WF_vars(HandlerStep(h))
    /\ WF_vars(\E c \in Consumer : Deliver(c))
    /\ \A c \in Consumer : WF_vars(ConsumerStep(c))
    /\ WF_vars(CheckerStep)

-----------------------------------------------------------------------------
(* Properties.                                                             *)

Resting(u) == \A h \in Handler : UserOf[h] = u => at[h] = "idle"

\* What a user was told is what the likes table says, whatever Redis and Kafka
\* did, unless two requests of his were ever under way at once: then the answer
\* of one may describe what the other has undone.
AckedIsDurable ==
    \A u \in User \ crossed :
        Resting(u) /\ acked[u] # "?" => (acked[u] = "on") = (likes[u] = "on")

\* Without faults GetLikeStatus says what the table says, or "not liked" while
\* Redis does not answer: the relation set agrees with it for every user with
\* nothing under way whose requests never overlapped, whatever the others do:
\* a like and an unlike that overlap may commit in one order and change the
\* set in the other, for good.
RelationFollowsTable ==
    faults = 0 =>
        \A u \in User \ crossed, answers \in BOOLEAN :
            Resting(u) => (GetLikeStatus(u, answers) <=> answers /\ likes[u] = "on")

\* Nothing is under way and every message has been processed.
Drained ==
    /\ \A h \in Handler : at[h] = "idle"
    /\ buffered = 0
    /\ \A c \in Consumer : done[c] = sent[c] /\ step[c] \in {"top", "fetching"}
    /\ check.at = "idle"

\* Without faults a drained pipeline leaves like_count equal to the size of the
\* relation set, for any number of consumers and with the checker beside them,
\* unless one of them wrote while another carried a count read earlier: who
\* carries the older count and writes last spoils like_count, and no check
\* looks at like_count again.
DrainedIsSynced ==
    Drained /\ faults = 0 /\ ~overtaken => likeCount = Cardinality(relation)

\* In the end each consumer has processed all its messages but an incomplete
\* batch, despite restarts.
OnlyAPartialBatchWaits ==
    \A c \in Consumer : <>[](sent[c] - done[c] < BatchSize)

\* Every message is processed in the end, even an incomplete batch.
EveryBatchIsSynced == \A c \in Consumer : <>[](done[c] = sent[c])
=============================================================================
