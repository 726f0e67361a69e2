-------------------------- MODULE LikePipelineProofs --------------------------
(***************************************************************************)
(* Proofs about LikePipeline, for any users, handlers and consumers and    *)
(* any bounds: what a user was told is in the table; without faults the    *)
(* relation set follows the table, and like_count the relation set.        *)
(***************************************************************************)
EXTENDS LikePipeline, FiniteSetTheorems, TLAPS

Places == {"idle", "write", "count", "set", "relation", "send"}

\* The types these proofs need.
HandlerTypes ==
    /\ likes \in [User -> Status]
    /\ relation \in SUBSET User
    /\ at \in [Handler -> Places]
    /\ action \in [Handler -> {"like", "unlike"}]
    /\ seen \in [Handler -> Status]
    /\ acked \in [User -> {"?", "on", "off"}]
    /\ faults \in Nat
    /\ crossed \in SUBSET User

\* The transaction has committed, and the user has not been answered.
Committed(h) == at[h] \in {"count", "set", "relation", "send"}

\* Halfway through, a handler that is alone with its user knows what the table
\* says: before the write, what it read; after it, what it wrote.
Knows(h) ==
    /\ at[h] # "idle" => acked[UserOf[h]] = "?"
    /\ at[h] = "write" => seen[h] = likes[UserOf[h]]
    /\ Committed(h) => likes[UserOf[h]] = Target(action[h])

AnswerTrue(u) ==
    Resting(u) /\ acked[u] # "?" => (acked[u] = "on") = (likes[u] = "on")

\* No handler of u is between the commit and the relation set.
Settled(u) ==
    \A h \in Handler : UserOf[h] = u => at[h] \in {"idle", "write", "send"}

RelationTrue(u) == Settled(u) => (u \in relation <=> likes[u] = "on")

IInv ==
    /\ HandlerTypes
    /\ \A h \in Handler : UserOf[h] \notin crossed =>
            Knows(h) /\ (at[h] # "idle" => Alone(h))
    /\ \A u \in User \ crossed : AnswerTrue(u) /\ (faults = 0 => RelationTrue(u))

LEMMA InitInv == Init => IInv
<1>1. SUFFICES ASSUME Init PROVE IInv
    OBVIOUS
<1>2. HandlerTypes
    BY <1>1 DEF Init, HandlerTypes, Status, Places
<1>3. \A h \in Handler : Knows(h) /\ at[h] = "idle"
    BY <1>1 DEF Init, Knows, Committed
<1>4. \A u \in User : AnswerTrue(u) /\ RelationTrue(u)
    BY <1>1 DEF Init, AnswerTrue, RelationTrue
<1> QED BY <1>2, <1>3, <1>4 DEF IInv

LEMMA FaultCounts ==
    ASSUME faults \in Nat, NoFault \/ Fault
    PROVE  faults' \in Nat /\ (faults' = 0 => faults = 0)
    BY DEF NoFault, Fault

\* What happens to the topic between the handlers and the consumers.
TopicStep ==
    \/ Lose
    \/ \E c \in Consumer : Deliver(c)
    \/ \E c, d \in Consumer : Rebalance(c, d)

\* Consumers, topic and checker leave the handlers' part of the state alone.
LEMMA OutsideInv ==
    ASSUME IInv, UNCHANGED <<likes, relation, at, action, seen, acked, crossed>>,
           NoFault \/ Fault
    PROVE  IInv'
<1>1. faults' \in Nat /\ (faults' = 0 => faults = 0)
    BY FaultCounts DEF IInv, HandlerTypes
<1>2. HandlerTypes'
    BY <1>1 DEF IInv, HandlerTypes
<1>3. \A h \in Handler : (Knows(h)' <=> Knows(h)) /\ (Alone(h)' <=> Alone(h))
    BY DEF Knows, Committed, Alone
<1>4. \A u \in User : /\ AnswerTrue(u)' <=> AnswerTrue(u)
                      /\ RelationTrue(u)' <=> RelationTrue(u)
    BY DEF AnswerTrue, Resting, RelationTrue, Settled
<1> QED BY <1>1, <1>2, <1>3, <1>4 DEF IInv
-----------------------------------------------------------------------------
(* The handlers.                                                           *)

\* It is enough to look at the handler that moves and its user, and only as
\* long as that user never had two requests at once: then the handler is alone.
LEMMA HandlerMoves ==
    ASSUME IInv, NEW h \in Handler,
           HandlerTypes', NoFault \/ Fault, crossed \subseteq crossed',
           \A g \in Handler : g # h =>
                at'[g] = at[g] /\ action'[g] = action[g] /\ seen'[g] = seen[g],
           \A u \in User : u # UserOf[h] =>
                /\ likes'[u] = likes[u] /\ acked'[u] = acked[u]
                /\ u \in relation' <=> u \in relation,
           UserOf[h] \notin crossed' =>
                /\ Alone(h) /\ Knows(h)' /\ AnswerTrue(UserOf[h])'
                /\ faults' = 0 => RelationTrue(UserOf[h])'
    PROVE  IInv'
<1>1. faults' = 0 => faults = 0
    BY FaultCounts DEF IInv, HandlerTypes
<1>2. UserOf \in [Handler -> User]
    BY PipelineAssumption
<1>3. ASSUME NEW g \in Handler, UserOf[g] # UserOf[h], UserOf[g] \notin crossed'
      PROVE  Knows(g)' /\ (at'[g] # "idle" => Alone(g)')
  <2>1. Knows(g) /\ (at[g] # "idle" => Alone(g)) /\ UserOf[g] \in User /\ g # h
      BY <1>2, <1>3 DEF IInv
  <2>2. Knows(g)'
      BY <1>3, <2>1 DEF Knows, Committed
  <2>3. Alone(g) => Alone(g)'
      BY <1>3 DEF Alone
  <2> QED BY <2>1, <2>2, <2>3
<1>4. ASSUME NEW g \in Handler, UserOf[g] = UserOf[h], UserOf[g] \notin crossed'
      PROVE  Knows(g)' /\ (at'[g] # "idle" => Alone(g)')
  <2>1. CASE g = h
      BY <1>4, <2>1 DEF Alone
  <2>2. CASE g # h
    <3>1. at'[g] = "idle"
        BY <1>4, <2>2 DEF Alone
    <3> QED BY <3>1 DEF Knows, Committed
  <2> QED BY <2>1, <2>2
<1>5. ASSUME NEW u \in User, u # UserOf[h]
      PROVE  /\ Resting(u)' <=> Resting(u)
             /\ Settled(u)' <=> Settled(u)
    BY <1>2, <1>5 DEF Resting, Settled
<1>6. ASSUME NEW u \in User \ crossed', u # UserOf[h]
      PROVE  AnswerTrue(u)' /\ (faults' = 0 => RelationTrue(u)')
    BY <1>1, <1>5, <1>6 DEF IInv, AnswerTrue, RelationTrue
<1> QED BY <1>3, <1>4, <1>6 DEF IInv

\* What every handler lemma starts from.
LEMMA HandlerFacts ==
    ASSUME IInv, NEW h \in Handler
    PROVE  /\ HandlerTypes /\ UserOf[h] \in User
           /\ UserOf[h] \notin crossed =>
                /\ Knows(h) /\ AnswerTrue(UserOf[h])
                /\ at[h] # "idle" => Alone(h)
                /\ faults = 0 => RelationTrue(UserOf[h])
           /\ Target(action[h]) \in {"on", "off"}
           /\ Target(action[h]) = "on" <=> action[h] = "like"
    BY PipelineAssumption DEF IInv, HandlerTypes, Target

LEMMA FindInv == ASSUME IInv, NEW h \in Handler, Find(h) PROVE IInv'
<1> DEFINE u == UserOf[h]
<1>1. PICK a \in {"like", "unlike"} :
        LET skip == NothingToDo(a, likes[u])
        IN /\ action' = [action EXCEPT ![h] = a]
           /\ seen' = [seen EXCEPT ![h] = likes[u]]
           /\ acked' = [acked EXCEPT ![u] = IF skip THEN Target(a) ELSE "?"]
           /\ at' = [at EXCEPT ![h] = IF skip THEN "idle" ELSE "write"]
           /\ crossed' = IF Alone(h) THEN crossed ELSE crossed \cup {u}
    BY DEF Find, Goes
<1> DEFINE skip == NothingToDo(a, likes[u])
<1>2. at[h] = "idle" /\ NoFault /\ UNCHANGED <<likes, relation>>
    BY DEF Find, redisVars
<1>3. HandlerTypes /\ u \in User
    BY HandlerFacts
<1>4. Target(a) \in {"on", "off"} /\ (Target(a) = "on" <=> a = "like")
    BY DEF Target
<1>5. likes[u] \in Status
    BY <1>3 DEF HandlerTypes
<1>6. HandlerTypes'
    BY <1>1, <1>2, <1>3, <1>4, <1>5 DEF HandlerTypes, Places, NoFault
<1>14. crossed \subseteq crossed' /\ (u \notin crossed' => u \notin crossed /\ Alone(h))
    BY <1>1
<1>7. /\ at'[h] = IF skip THEN "idle" ELSE "write"
      /\ seen'[h] = likes[u]
      /\ acked'[u] = IF skip THEN Target(a) ELSE "?"
    BY <1>1, <1>3 DEF HandlerTypes
<1>8. skip => (Target(a) = "on" <=> likes[u] = "on")
    BY <1>4 DEF NothingToDo
<1> HIDE DEF skip
<1>9. Knows(h)'
    BY <1>2, <1>7 DEF Knows, Committed
<1>10. AnswerTrue(u)'
  <2>1. CASE skip
      BY <1>2, <1>4, <1>7, <1>8, <2>1 DEF AnswerTrue
  <2>2. CASE ~skip
      BY <1>7, <2>2 DEF AnswerTrue
  <2> QED BY <2>1, <2>2
<1>11. u \notin crossed' /\ faults' = 0 => RelationTrue(u)'
  <2>1. SUFFICES ASSUME u \notin crossed', faults' = 0 PROVE RelationTrue(u)'
      OBVIOUS
  <2>2. RelationTrue(u) /\ Settled(u)
      BY <1>2, <1>14, <2>1, HandlerFacts DEF NoFault, Settled, Alone
  <2> QED BY <1>2, <2>2 DEF RelationTrue
<1>12. \A g \in Handler : g # h =>
          at'[g] = at[g] /\ action'[g] = action[g] /\ seen'[g] = seen[g]
    BY <1>1, <1>3 DEF HandlerTypes
<1>13. \A v \in User : v # u =>
          /\ likes'[v] = likes[v] /\ acked'[v] = acked[v]
          /\ v \in relation' <=> v \in relation
    BY <1>1, <1>2, <1>3 DEF HandlerTypes
<1> QED BY <1>2, <1>6, <1>9, <1>10, <1>11, <1>12, <1>13, <1>14, HandlerMoves

LEMMA WriteInv == ASSUME IInv, NEW h \in Handler, Write(h) PROVE IInv'
<1> DEFINE u == UserOf[h]
<1>1. /\ at[h] = "write" /\ NoFault
      /\ likes' = [likes EXCEPT ![u] = Target(action[h])]
      /\ at' = [at EXCEPT ![h] = "count"]
      /\ UNCHANGED <<relation, action, seen, acked, crossed>>
    BY DEF Write, Written, Goes, redisVars, runVars
<1>2. HandlerTypes /\ u \in User /\ Target(action[h]) \in {"on", "off"}
    BY HandlerFacts
<1>3. HandlerTypes'
    BY <1>1, <1>2 DEF HandlerTypes, Places, Status, NoFault
<1>4. at'[h] = "count" /\ likes'[u] = Target(action[h])
    BY <1>1, <1>2 DEF HandlerTypes
<1>5. u \notin crossed => Knows(h)'
    BY <1>1, <1>4, HandlerFacts DEF Knows, Committed
<1>6. AnswerTrue(u)' /\ RelationTrue(u)'
    BY <1>4 DEF AnswerTrue, Resting, RelationTrue, Settled
<1>7. \A g \in Handler : g # h => at'[g] = at[g]
    BY <1>1, <1>2 DEF HandlerTypes
<1>8. \A v \in User : v # u => likes'[v] = likes[v]
    BY <1>1, <1>2 DEF HandlerTypes
<1> QED BY <1>1, <1>3, <1>5, <1>6, <1>7, <1>8, HandlerFacts, HandlerMoves

\* WriteFails, Crash: back to idle, and the user is told nothing.
LEMMA GivesUpInv ==
    ASSUME IInv, NEW h \in Handler, WriteFails(h) \/ Crash(h)
    PROVE  IInv'
<1> DEFINE u == UserOf[h]
<1>1. /\ at[h] # "idle" /\ (NoFault \/ Fault)
      /\ at[h] = "write" \/ Fault
      /\ at' = [at EXCEPT ![h] = "idle"]
      /\ \/ UNCHANGED likes
         \/ Fault /\ likes' = [likes EXCEPT ![u] = Target(action[h])]
      /\ UNCHANGED <<relation, action, seen, acked, crossed>>
  <2>1. CASE WriteFails(h)
      BY <2>1 DEF WriteFails, Goes, redisVars, runVars, Written
  <2>2. CASE Crash(h)
      BY <2>2 DEF Crash, Goes, redisVars, runVars
  <2> QED BY <2>1, <2>2
<1>2. HandlerTypes /\ u \in User /\ Target(action[h]) \in Status
    BY HandlerFacts DEF Status
<1>3. faults' \in Nat /\ (Fault => faults' # 0) /\ (faults' = 0 => faults = 0)
    BY <1>1, <1>2, FaultCounts DEF HandlerTypes, Fault
<1>4. HandlerTypes'
    BY <1>1, <1>2, <1>3 DEF HandlerTypes, Places
<1>5. at'[h] = "idle"
    BY <1>1, <1>2 DEF HandlerTypes
<1>6. u \notin crossed => Knows(h)' /\ AnswerTrue(u)'
    BY <1>1, <1>5, HandlerFacts DEF Knows, Committed, AnswerTrue
<1>7. u \notin crossed /\ faults' = 0 => RelationTrue(u)'
  <2>1. SUFFICES ASSUME u \notin crossed, faults' = 0 PROVE RelationTrue(u)'
      OBVIOUS
  <2>2. RelationTrue(u) /\ Settled(u)
      BY <1>1, <1>3, <2>1, HandlerFacts DEF Settled, Alone
  <2>3. UNCHANGED likes
      BY <1>1, <1>3, <2>1
  <2> QED BY <1>1, <2>2, <2>3 DEF RelationTrue
<1>8. \A g \in Handler : g # h => at'[g] = at[g]
    BY <1>1, <1>2 DEF HandlerTypes
<1>9. \A v \in User : v # u => likes'[v] = likes[v]
    BY <1>1, <1>2 DEF HandlerTypes
<1> QED BY <1>1, <1>4, <1>6, <1>7, <1>8, <1>9, HandlerFacts, HandlerMoves

\* Count, SetCount, and a command of theirs that fails: still short of the
\* relation set.
LEMMA CountingInv ==
    ASSUME IInv, NEW h \in Handler,
           at[h] \in {"count", "set"}, NoFault \/ Fault,
           \/ at' = [at EXCEPT ![h] = "set"]
           \/ at' = [at EXCEPT ![h] = "relation"],
           UNCHANGED <<likes, relation, action, seen, acked, crossed>>
    PROVE  IInv'
<1> DEFINE u == UserOf[h]
<1>1. HandlerTypes /\ u \in User
    BY HandlerFacts
<1>2. HandlerTypes'
    BY <1>1, FaultCounts DEF HandlerTypes, Places
<1>3. at'[h] \in {"set", "relation"}
    BY <1>1 DEF HandlerTypes
<1>4. u \notin crossed => Knows(h)'
    BY <1>3, HandlerFacts DEF Knows, Committed
<1>5. AnswerTrue(u)' /\ RelationTrue(u)'
    BY <1>3 DEF AnswerTrue, Resting, RelationTrue, Settled
<1>6. \A g \in Handler : g # h => at'[g] = at[g]
    BY <1>1 DEF HandlerTypes
<1> QED BY <1>2, <1>4, <1>5, <1>6, HandlerFacts, HandlerMoves

\* Relate, or a relation command that fails: on to the message.
LEMMA RelatingInv ==
    ASSUME IInv, NEW h \in Handler,
           at[h] = "relation",
           at' = [at EXCEPT ![h] = "send"],
           \/ NoFault /\ relation' = Related(h)
           \/ Fault /\ relation' \in {relation, Related(h)},
           UNCHANGED <<likes, action, seen, acked, crossed>>
    PROVE  IInv'
<1> DEFINE u == UserOf[h]
<1>1. HandlerTypes /\ u \in User
    BY HandlerFacts
<1>2. /\ Related(h) \subseteq User
      /\ u \in Related(h) <=> action[h] = "like"
      /\ \A v \in User : v # u => (v \in Related(h) <=> v \in relation)
    BY <1>1 DEF Related, HandlerTypes
<1>3. NoFault \/ Fault
    OBVIOUS
<1>4. HandlerTypes'
    BY <1>1, <1>2, <1>3, FaultCounts DEF HandlerTypes, Places
<1>5. at'[h] = "send"
    BY <1>1 DEF HandlerTypes
<1>6. u \notin crossed => Knows(h)'
    BY <1>5, HandlerFacts DEF Knows, Committed
<1>7. AnswerTrue(u)'
    BY <1>5 DEF AnswerTrue, Resting
<1>8. u \notin crossed /\ faults' = 0 => RelationTrue(u)'
  <2>1. SUFFICES ASSUME u \notin crossed, faults' = 0 PROVE RelationTrue(u)'
      OBVIOUS
  <2>2. relation' = Related(h)
      BY <1>1, <2>1 DEF Fault, HandlerTypes
  <2>3. likes[u] = "on" <=> action[h] = "like"
      BY <2>1, HandlerFacts DEF Knows, Committed
  <2> QED BY <1>2, <2>2, <2>3 DEF RelationTrue
<1>9. \A g \in Handler : g # h => at'[g] = at[g]
    BY <1>1 DEF HandlerTypes
<1> QED BY <1>2, <1>3, <1>4, <1>6, <1>7, <1>8, <1>9, HandlerFacts, HandlerMoves

LEMMA SendInv == ASSUME IInv, NEW h \in Handler, Send(h) PROVE IInv'
<1> DEFINE u == UserOf[h]
<1>1. /\ at[h] = "send" /\ NoFault
      /\ acked' = [acked EXCEPT ![u] = Target(action[h])]
      /\ at' = [at EXCEPT ![h] = "idle"]
      /\ UNCHANGED <<likes, relation, action, seen, crossed>>
    BY DEF Send, Goes, redisVars, runVars
<1>2. HandlerTypes /\ u \in User /\ Target(action[h]) \in {"on", "off"}
    BY HandlerFacts
<1>3. HandlerTypes'
    BY <1>1, <1>2 DEF HandlerTypes, Places, NoFault
<1>4. at'[h] = "idle" /\ acked'[u] = Target(action[h])
    BY <1>1, <1>2 DEF HandlerTypes
<1>5. u \notin crossed => likes[u] = Target(action[h])
    BY <1>1, HandlerFacts DEF Knows, Committed
<1>6. u \notin crossed => Knows(h)' /\ AnswerTrue(u)'
    BY <1>1, <1>4, <1>5 DEF Knows, Committed, AnswerTrue
<1>7. u \notin crossed /\ faults' = 0 => RelationTrue(u)'
  <2>1. SUFFICES ASSUME u \notin crossed, faults' = 0 PROVE RelationTrue(u)'
      OBVIOUS
  <2>2. RelationTrue(u) /\ Settled(u)
      BY <1>1, <2>1, HandlerFacts DEF NoFault, Settled, Alone
  <2> QED BY <1>1, <2>2 DEF RelationTrue
<1>8. \A g \in Handler : g # h => at'[g] = at[g]
    BY <1>1, <1>2 DEF HandlerTypes
<1>9. \A v \in User : v # u => acked'[v] = acked[v]
    BY <1>1, <1>2 DEF HandlerTypes
<1> QED BY <1>1, <1>3, <1>6, <1>7, <1>8, <1>9, HandlerFacts, HandlerMoves

-----------------------------------------------------------------------------
(* The theorems.                                                           *)

LEMMA HandlerInv ==
    ASSUME IInv, NEW h \in Handler,
           Find(h) \/ HandlerStep(h) \/ RedisFails(h) \/ Crash(h)
    PROVE  IInv'
<1>1. CASE Count(h) \/ SetCount(h)
  <2>1. /\ at[h] \in {"count", "set"} /\ NoFault
        /\ \/ at' = [at EXCEPT ![h] = "set"]
           \/ at' = [at EXCEPT ![h] = "relation"]
        /\ UNCHANGED <<likes, relation, action, seen, acked, crossed>>
      BY <1>1 DEF Count, SetCount, Goes, runVars
  <2> QED BY <2>1, CountingInv
<1>2. CASE Relate(h)
  <2>1. /\ at[h] = "relation" /\ NoFault /\ relation' = Related(h)
        /\ at' = [at EXCEPT ![h] = "send"]
        /\ UNCHANGED <<likes, action, seen, acked, crossed>>
      BY <1>2 DEF Relate, Goes, runVars
  <2> QED BY <2>1, RelatingInv
<1>3. CASE RedisFails(h)
  <2>1. Fault /\ UNCHANGED <<likes, action, seen, acked, crossed>>
      BY <1>3 DEF RedisFails, runVars
  <2>2. CASE at[h] = "relation"
    <3>1. at' = [at EXCEPT ![h] = "send"] /\ relation' \in {relation, Related(h)}
        BY <1>3, <2>2 DEF RedisFails, Goes
    <3> QED BY <2>1, <2>2, <3>1, RelatingInv
  <2>3. CASE at[h] # "relation"
    <3>1. /\ at[h] \in {"count", "set"} /\ UNCHANGED relation
          /\ at' = [at EXCEPT ![h] = "relation"]
        BY <1>3, <2>3 DEF RedisFails, Goes, redisVars, runVars
    <3> QED BY <2>1, <3>1, CountingInv
  <2> QED BY <2>2, <2>3
<1> QED BY <1>1, <1>2, <1>3, FindInv, WriteInv, GivesUpInv, SendInv DEF HandlerStep

LEMMA StepInv == IInv /\ [Next]_vars => IInv'
<1>1. SUFFICES ASSUME IInv, [Next]_vars PROVE IInv'
    OBVIOUS
<1>2. CASE \E h \in Handler : Find(h) \/ HandlerStep(h) \/ RedisFails(h) \/ Crash(h)
    BY <1>1, <1>2, HandlerInv
<1>3. CASE \E c \in Consumer : ConsumerStep(c) \/ ConsumerFault(c)
  <2>1. PICK c \in Consumer : ConsumerStep(c) \/ ConsumerFault(c)
      BY <1>3
  <2>2. ConsumerFrame /\ (NoFault \/ Fault)
      BY <2>1 DEF ConsumerStep, TickerFires, EnterFetch, Fetch, SyncCount,
         SyncRelation, SyncWrite, ConsumerFault, FetchFails, SyncFails, Restart
  <2> QED BY <1>1, <2>2, OutsideInv DEF ConsumerFrame, redisVars, handlerVars, runVars
<1>4. CASE TopicStep
  <2>1. UNCHANGED <<likes, redisVars, handlerVars>> /\ (NoFault \/ Fault)
      BY <1>4 DEF TopicStep, Lose, Deliver, Rebalance
  <2> QED BY <1>1, <2>1, OutsideInv DEF redisVars, handlerVars, runVars
<1>5. CASE CheckerStep \/ CheckFails \/ CountExpires
  <2>1. UNCHANGED <<likes, relation, handlerVars>> /\ (NoFault \/ Fault)
      BY <1>5 DEF CheckerStep, CheckMySQL, CheckCount, CheckRelation, FixCount,
         FixLikeCount, CheckFails, CountExpires, CheckFrame
  <2> QED BY <1>1, <2>1, OutsideInv DEF handlerVars, runVars
<1>6. CASE UNCHANGED vars
    BY <1>1, <1>6, OutsideInv DEF vars, redisVars, handlerVars, runVars, NoFault
<1> QED BY <1>1, <1>2, <1>3, <1>4, <1>5, <1>6 DEF Next, TopicStep

THEOREM Invariance == Spec => []IInv
    BY InitInv, StepInv, PTL DEF Spec

\* Whatever fails, a user who sends one request at a time finds in the table
\* what the service last told him.
THEOREM AckedIsDurableHolds == Spec => []AckedIsDurable
<1>1. IInv => AckedIsDurable
    BY DEF IInv, AnswerTrue, AckedIsDurable
<1> QED BY <1>1, Invariance, PTL

\* Without faults the relation set follows the table, however the requests of
\* different users, the consumers and the checker interleave.
THEOREM RelationFollowsTableHolds == Spec => []RelationFollowsTable
<1>1. IInv => RelationFollowsTable
    BY DEF IInv, RelationTrue, Settled, Resting, RelationFollowsTable, GetLikeStatus,
       BatchGetLikeStatus
<1> QED BY <1>1, Invariance, PTL
-----------------------------------------------------------------------------
(* Types.                                                                  *)

LEMMA Size ==
    ASSUME NEW S \in SUBSET User
    PROVE  Cardinality(S) \in 0..Cardinality(User)
<1>1. IsFiniteSet(User)
    BY PipelineAssumption
<1>2. Cardinality(User) \in Nat
    BY <1>1, FS_CardinalityType
<1>3. Cardinality(S) \in Nat /\ Cardinality(S) <= Cardinality(User)
    BY <1>1, FS_Subset, FS_CardinalityType
<1> QED BY <1>2, <1>3

LEMMA BoundsAreNat ==
    ASSUME limits \in Limits
    PROVE  limits.requests \in Nat /\ limits.faults \in Nat
    BY PipelineAssumption

\* A step that leaves the bounds alone keeps the number of faults in range.
LEMMA FaultsInRange ==
    ASSUME TypeOK, NoFault \/ Fault, UNCHANGED limits
    PROVE  faults' \in 0..limits'.faults
    BY BoundsAreNat DEF TypeOK, RequestTypes, NoFault, Fault

LEMMA InitTypes == Init => TypeOK
<1>1. SUFFICES ASSUME Init PROVE TypeOK
    OBVIOUS
<1>2. limits.requests \in Nat /\ limits.faults \in Nat
    BY <1>1, BoundsAreNat DEF Init
<1>3. 0 \in 0..Cardinality(User)
    BY Size, PipelineAssumption, FS_EmptySet
<1>4. RequestTypes
    BY <1>1, <1>2 DEF Init, RequestTypes, Status
<1>5. ConsumerTypes
  <2>1. /\ 0 \in 0..BatchSize /\ 0 < BatchSize
        /\ batch = [c \in Consumer |-> 0] /\ step = [c \in Consumer |-> "top"]
      BY <1>1, PipelineAssumption DEF Init
  <2>2. \A c \in Consumer : batch[c] < BatchSize
      BY <2>1
  <2>3. /\ buffered = 0 /\ sent = [c \in Consumer |-> 0]
        /\ pos = [c \in Consumer |-> 0] /\ done = [c \in Consumer |-> 0]
        /\ synced = [c \in Consumer |-> 0] /\ likeCount = 0 /\ overtaken = FALSE
      BY <1>1 DEF Init
  <2> QED BY <1>3, <2>1, <2>2, <2>3 DEF ConsumerTypes
<1>6. CheckTypes
    BY <1>1, <1>3 DEF Init, CheckTypes, Idle
<1> QED BY <1>1, <1>2, <1>4, <1>5, <1>6 DEF Init, TypeOK

LEMMA HandlerTyped ==
    ASSUME TypeOK, NEW h \in Handler,
           Find(h) \/ HandlerStep(h) \/ RedisFails(h) \/ Crash(h)
    PROVE  TypeOK'
<1> DEFINE u == UserOf[h]
<1>1. /\ u \in User /\ Target(action[h]) \in {"on", "off"}
      /\ CountOr0 \in Int /\ Counted(h) \in Int /\ Related(h) \in SUBSET User
    BY PipelineAssumption
    DEF TypeOK, RequestTypes, Target, CountOr0, Counted, Related
<1>2. NoFault \/ Fault
    BY DEF Find, HandlerStep, Write, WriteFails, Count, SetCount, Relate, Send,
       RedisFails, Crash
<1>3. UNCHANGED <<consumerVars, sqlVars, sent, check, limits>>
    BY DEF Find, HandlerStep, Write, WriteFails, Count, SetCount, Relate, Send,
       RedisFails, Crash, topicVars, runVars
<1>4. buffered' \in {buffered, buffered + 1}
    BY DEF Find, HandlerStep, Write, WriteFails, Count, SetCount, Relate, Send,
       RedisFails, Crash, topicVars
<1>5. ConsumerTypes'
    BY <1>3, <1>4 DEF TypeOK, ConsumerTypes, consumerVars, sqlVars
<1>6. RequestTypes'
  <2> USE <1>1 DEF TypeOK, RequestTypes, Goes, runVars, redisVars
  <2>1. CASE Find(h)
    <3>1. requests < limits.requests /\ limits.requests \in Nat
        BY <2>1, BoundsAreNat DEF Find
    <3>2. PICK a \in {"like", "unlike"} :
            LET skip == NothingToDo(a, likes[u])
            IN /\ action' = [action EXCEPT ![h] = a]
               /\ seen' = [seen EXCEPT ![h] = likes[u]]
               /\ acked' = [acked EXCEPT ![u] = IF skip THEN Target(a) ELSE "?"]
               /\ at' = [at EXCEPT ![h] = IF skip THEN "idle" ELSE "write"]
               /\ crossed' = IF Alone(h) THEN crossed ELSE crossed \cup {u}
        BY <2>1 DEF Find
    <3>3. Target(a) \in {"on", "off"}
        BY DEF Target
    <3>4. /\ requests' = requests + 1
          /\ UNCHANGED <<likes, count, relation, got, limits>>
        BY <2>1 DEF Find
    <3> QED BY <3>1, <3>2, <3>3, <3>4
  <2>2. CASE Write(h)
      BY <2>2 DEF Write, Written, Status
  <2>3. CASE WriteFails(h)
      BY <2>3 DEF WriteFails, Written, Status
  <2>4. CASE Count(h)
      BY <2>4 DEF Count
  <2>5. CASE SetCount(h)
      BY <2>5 DEF SetCount
  <2>6. CASE Relate(h)
      BY <2>6 DEF Relate
  <2>7. CASE Send(h)
      BY <2>7 DEF Send
  <2>8. CASE RedisFails(h)
      BY <2>8 DEF RedisFails
  <2>9. CASE Crash(h)
      BY <2>9 DEF Crash
  <2> QED BY <2>1, <2>2, <2>3, <2>4, <2>5, <2>6, <2>7, <2>8, <2>9 DEF HandlerStep
<1> QED BY <1>2, <1>3, <1>5, <1>6, FaultsInRange DEF TypeOK, CheckTypes

LEMMA ConsumerTyped ==
    ASSUME TypeOK, NEW c \in Consumer, ConsumerStep(c) \/ ConsumerFault(c)
    PROVE  TypeOK'
<1>1. ConsumerFrame /\ (NoFault \/ Fault)
    BY DEF ConsumerStep, TickerFires, EnterFetch, Fetch, SyncCount, SyncRelation,
       SyncWrite, ConsumerFault, FetchFails, SyncFails, Restart
<1>2. SyncedCount(c) \in 0..Cardinality(User)
    BY Size DEF TypeOK, RequestTypes, SyncedCount
<1>3. EndBatch(c) /\ UNCHANGED sqlVars => ConsumerTypes'
    BY <1>1, PipelineAssumption
    DEF TypeOK, ConsumerTypes, EndBatch, StepTo, sqlVars, ConsumerFrame, topicVars
<1>4. ConsumerTypes'
  <2> USE <1>1, PipelineAssumption
      DEF TypeOK, ConsumerTypes, StepTo, ConsumerFrame, topicVars, sqlVars
  <2>1. CASE TickerFires(c)
      BY <2>1 DEF TickerFires
  <2>2. CASE EnterFetch(c)
      BY <2>2 DEF EnterFetch
  <2>3. CASE Fetch(c)
      BY <2>3 DEF Fetch, BatchFull
  <2>4. CASE SyncCount(c)
      BY <1>3, <2>4 DEF SyncCount
  <2>5. CASE SyncRelation(c)
      BY <1>2, <2>5 DEF SyncRelation
  <2>6. CASE SyncWrite(c)
      BY <2>6 DEF SyncWrite, EndBatch
  <2>7. CASE SyncFails(c)
      BY <1>3, <2>7 DEF SyncFails
  <2>8. CASE Restart(c)
      BY <2>8 DEF Restart
  <2>9. CASE FetchFails(c)
      BY <2>9 DEF FetchFails
  <2> QED BY <2>1, <2>2, <2>3, <2>4, <2>5, <2>6, <2>7, <2>8, <2>9
      DEF ConsumerStep, ConsumerFault
<1>5. RequestTypes' /\ CheckTypes' /\ UNCHANGED limits
    BY <1>1
    DEF TypeOK, RequestTypes, CheckTypes, ConsumerFrame, redisVars, handlerVars, runVars
<1> QED BY <1>1, <1>4, <1>5, FaultsInRange DEF TypeOK

LEMMA CheckTyped ==
    ASSUME TypeOK, CheckerStep \/ CheckFails \/ CountExpires
    PROVE  TypeOK'
<1>1. /\ NoFault \/ Fault
      /\ UNCHANGED <<likes, relation, handlerVars, topicVars, consumerVars>>
    BY DEF CheckerStep, CheckMySQL, CheckCount, CheckRelation, FixCount,
       FixLikeCount, CheckFails, CountExpires, CheckFrame
<1>2. /\ Cardinality(relation) \in 0..Cardinality(User)
      /\ Cardinality(Likers) \in 0..Cardinality(User)
      /\ 0 \in 0..Cardinality(User)
    BY Size, FS_EmptySet DEF TypeOK, RequestTypes, Likers
<1>3. /\ CheckTypes' /\ count' \in Int \cup {NoKey}
      /\ likeCount' \in 0..Cardinality(User) /\ overtaken' \in BOOLEAN
  <2>0. 0..Cardinality(User) \subseteq Int
      OBVIOUS
  <2> USE <1>2, <2>0 DEF TypeOK, CheckTypes, RequestTypes, ConsumerTypes, Idle, sqlVars
  <2>1. CASE CheckMySQL
      BY <2>1 DEF CheckMySQL
  <2>2. CASE CheckCount
      BY <2>2 DEF CheckCount
  <2>3. CASE CheckRelation
      BY <2>3 DEF CheckRelation
  <2>4. CASE FixCount
      BY <2>4 DEF FixCount
  <2>5. CASE FixLikeCount
      BY <2>5 DEF FixLikeCount
  <2>6. CASE CheckFails
      BY <2>6 DEF CheckFails
  <2>7. CASE CountExpires
      BY <2>7 DEF CountExpires
  <2> QED BY <2>1, <2>2, <2>3, <2>4, <2>5, <2>6, <2>7 DEF CheckerStep
<1>4. RequestTypes' /\ ConsumerTypes' /\ UNCHANGED limits
    BY <1>1, <1>3
    DEF TypeOK, RequestTypes, ConsumerTypes, handlerVars, runVars, topicVars, consumerVars
<1> QED BY <1>1, <1>3, <1>4, FaultsInRange DEF TypeOK

\* Partitions only change hands.
LEMMA RebalanceTyped ==
    ASSUME TypeOK, NEW c \in Consumer, NEW d \in Consumer, Rebalance(c, d)
    PROVE  TypeOK'
<1>1. PICK n \in 0..sent[c] : sent' = [[sent EXCEPT ![c] = @ - n] EXCEPT ![d] = @ + n]
    BY DEF Rebalance
<1>2. sent' \in [Consumer -> Nat]
  <2>1. sent \in [Consumer -> Nat] /\ n \in Nat /\ sent[c] - n \in Nat
      BY <1>1 DEF TypeOK, ConsumerTypes
  <2>2. [sent EXCEPT ![c] = @ - n] \in [Consumer -> Nat]
      BY <2>1
  <2> QED BY <1>1, <2>1, <2>2
<1>3. ConsumerTypes'
    BY <1>2 DEF Rebalance, TypeOK, ConsumerTypes, sqlVars
<1>4. RequestTypes' /\ CheckTypes' /\ UNCHANGED limits
    BY DEF Rebalance, TypeOK, RequestTypes, CheckTypes, redisVars, handlerVars, runVars
<1> QED BY <1>3, <1>4, FaultsInRange DEF TypeOK, Rebalance

LEMMA TopicTyped ==
    ASSUME TypeOK, Lose \/ \E c \in Consumer : Deliver(c)
    PROVE  TypeOK'
<1>1. /\ NoFault \/ Fault
      /\ buffered > 0 /\ buffered' = buffered - 1
      /\ sent' = sent \/ \E c \in Consumer : sent' = [sent EXCEPT ![c] = @ + 1]
      /\ UNCHANGED <<likes, redisVars, sqlVars, handlerVars, consumerVars, check>>
    BY DEF Lose, Deliver
<1>2. ConsumerTypes'
    BY <1>1 DEF TypeOK, ConsumerTypes, sqlVars, consumerVars
<1>3. RequestTypes' /\ CheckTypes' /\ UNCHANGED limits
    BY <1>1 DEF TypeOK, RequestTypes, CheckTypes, redisVars, handlerVars, runVars
<1> QED BY <1>1, <1>2, <1>3, FaultsInRange DEF TypeOK

LEMMA StepTyped == TypeOK /\ [Next]_vars => TypeOK'
<1>1. SUFFICES ASSUME TypeOK, [Next]_vars PROVE TypeOK'
    OBVIOUS
<1>2. CASE UNCHANGED vars
    BY <1>1, <1>2 DEF TypeOK, RequestTypes, ConsumerTypes, CheckTypes, vars,
       redisVars, sqlVars, handlerVars, runVars, topicVars, consumerVars
<1> QED BY <1>1, <1>2, HandlerTyped, ConsumerTyped, CheckTyped, TopicTyped,
          RebalanceTyped DEF Next

THEOREM TypeCorrect == Spec => []TypeOK
    BY InitTypes, StepTyped, PTL DEF Spec
-----------------------------------------------------------------------------
(* Synchronisation.                                                        *)

\* Somebody will read the relation set after this moment: the message about
\* its last change is on its way, or in a batch whose count is not read yet.
Awaited ==
    \/ \E h \in Handler : at[h] = "send"
    \/ buffered > 0
    \/ \E c \in Consumer : pos[c] < sent[c] \/ (batch[c] > 0 /\ step[c] # "write")

\* Somebody has read the set as it is now and will write its size.
Carried ==
    \/ \E c \in Carriers : synced[c] = Cardinality(relation)
    \/ CheckerCarries /\ check.relation = Cardinality(relation)

Arrived ==
    Carriers = {} /\ ~CheckerCarries /\ likeCount = Cardinality(relation)

\* Every message a consumer has fetched is in its batch or processed.
Counts(c) ==
    /\ pos[c] = done[c] + batch[c] /\ pos[c] <= sent[c]
    /\ step[c] \in {"count", "relation", "write"} => batch[c] > 0

\* A handler sets the count before it sends, so no message meets a missing key.
CountBeforeSend ==
    count = NoKey => /\ \A h \in Handler : at[h] \in {"idle", "write", "count"}
                     /\ buffered = 0
                     /\ \A c \in Consumer : sent[c] = 0

SInv ==
    /\ TypeOK
    /\ faults = 0 => /\ CountBeforeSend
                     /\ \A c \in Consumer : Counts(c)
                     /\ overtaken \/ Awaited \/ Carried \/ Arrived

LEMMA InitSInv == Init => SInv
<1>1. SUFFICES ASSUME Init PROVE SInv
    OBVIOUS
<1>2. TypeOK
    BY <1>1, InitTypes
<1>3. CountBeforeSend /\ \A c \in Consumer : Counts(c)
    BY <1>1 DEF Init, CountBeforeSend, Counts
<1>4. Cardinality(relation) = 0
    BY <1>1, FS_EmptySet DEF Init
<1>5. Arrived
    BY <1>1, <1>4 DEF Init, Arrived, Carriers, CheckerCarries, Idle
<1> QED BY <1>2, <1>3, <1>5 DEF SInv

\* What the step lemmas start from when no fault happens.
LEMMA NoFaultSoFar ==
    ASSUME SInv, NoFault \/ Fault, faults' = 0
    PROVE  /\ TypeOK /\ faults = 0 /\ NoFault /\ ~Fault
           /\ CountBeforeSend /\ \A c \in Consumer : Counts(c)
           /\ overtaken \/ Awaited \/ Carried \/ Arrived
<1>1. faults \in Nat
    BY BoundsAreNat DEF SInv, TypeOK, RequestTypes
<1>2. ~Fault /\ NoFault /\ faults = 0
    BY <1>1 DEF Fault, NoFault
<1> QED BY <1>2 DEF SInv

\* Handlers change neither what consumers and checker carry nor like_count, and
\* who changes the relation set has a message to send.
LEMMA HandlerSynced ==
    ASSUME SInv, NEW h \in Handler,
           Find(h) \/ HandlerStep(h) \/ RedisFails(h) \/ Crash(h)
    PROVE  SInv'
<1>1. TypeOK'
    BY HandlerTyped DEF SInv
<1>2. NoFault \/ Fault
    BY DEF Find, HandlerStep, Write, WriteFails, Count, SetCount, Relate, Send,
       RedisFails, Crash
<1>3. SUFFICES ASSUME faults' = 0
               PROVE  /\ CountBeforeSend' /\ \A c \in Consumer : Counts(c)'
                      /\ (overtaken \/ Awaited \/ Carried \/ Arrived)'
    BY <1>1 DEF SInv
<1>4. /\ TypeOK /\ NoFault /\ ~Fault
      /\ CountBeforeSend /\ \A c \in Consumer : Counts(c)
      /\ overtaken \/ Awaited \/ Carried \/ Arrived
    BY <1>2, <1>3, NoFaultSoFar
<1>5. UNCHANGED <<consumerVars, sqlVars, sent, check>>
    BY DEF Find, HandlerStep, Write, WriteFails, Count, SetCount, Relate, Send,
       RedisFails, Crash, topicVars
<1>6. \A c \in Consumer : Counts(c)'
    BY <1>4, <1>5 DEF Counts, consumerVars
<1>7. at \in [Handler -> Places] /\ buffered \in Nat /\ Counted(h) \in Int
      /\ count \in Int \cup {NoKey} /\ got[h] \in Int /\ NoKey \notin Int
    BY <1>4, PipelineAssumption
    DEF TypeOK, RequestTypes, ConsumerTypes, Places, Counted, CountOr0
<1>8. CASE Relate(h)
  <2>1. at[h] = "relation" /\ at' = [at EXCEPT ![h] = "send"]
        /\ UNCHANGED <<count, buffered>>
      BY <1>8 DEF Relate, Goes, topicVars
  <2>2. CountBeforeSend'
      BY <1>4, <1>5, <1>7, <2>1 DEF CountBeforeSend
  <2>3. Awaited'
      BY <1>7, <2>1 DEF Awaited
  <2> QED BY <1>6, <2>2, <2>3
<1>9. CASE Send(h)
  <2>1. at[h] = "send" /\ buffered' = buffered + 1 /\ UNCHANGED count
      BY <1>9 DEF Send, redisVars
  <2>2. CountBeforeSend'
      BY <1>4, <2>1 DEF CountBeforeSend
  <2>3. Awaited'
      BY <1>7, <2>1 DEF Awaited
  <2> QED BY <1>6, <2>2, <2>3
<1>10. CASE Find(h) \/ Write(h) \/ WriteFails(h) \/ Count(h) \/ SetCount(h)
  <2>1. /\ UNCHANGED <<relation, buffered>>
        /\ at[h] # "send"
        /\ \E p \in Places : at' = [at EXCEPT ![h] = p]
      BY <1>7, <1>10 DEF Find, Write, WriteFails, Count, SetCount, Goes, topicVars,
         redisVars, Places
  <2>2. /\ \A g \in Handler : at[g] = "send" => at'[g] = "send"
        /\ \A g \in Handler : g # h => at'[g] = at[g]
      BY <1>7, <2>1
  <2>3. count' # NoKey \/ (count' = count /\ at'[h] \in {"idle", "write", "count"})
      BY <1>4, <1>7, <1>10 DEF Find, Write, WriteFails, Count, SetCount, Goes,
         CountBeforeSend, redisVars
  <2>4. CountBeforeSend'
      BY <1>4, <1>5, <2>1, <2>2, <2>3 DEF CountBeforeSend
  <2>5. (Awaited => Awaited') /\ (Carried => Carried') /\ (Arrived => Arrived')
      BY <1>5, <2>1, <2>2 DEF Awaited, Carried, Arrived, Carriers, CheckerCarries,
         consumerVars, sqlVars
  <2> QED BY <1>4, <1>5, <1>6, <2>4, <2>5 DEF sqlVars
<1> QED BY <1>4, <1>8, <1>9, <1>10 DEF HandlerStep, RedisFails, Crash

LEMMA TopicSynced ==
    ASSUME SInv, TopicStep
    PROVE  SInv'
<1>1. TypeOK'
    BY TopicTyped, RebalanceTyped DEF SInv, TopicStep
<1>2. NoFault \/ Fault
    BY DEF TopicStep, Lose, Deliver, Rebalance
<1>3. SUFFICES ASSUME faults' = 0
               PROVE  /\ CountBeforeSend' /\ \A c \in Consumer : Counts(c)'
                      /\ (overtaken \/ Awaited \/ Carried \/ Arrived)'
    BY <1>1 DEF SInv
<1>4. /\ TypeOK /\ ~Fault
      /\ CountBeforeSend /\ \A c \in Consumer : Counts(c)
    BY <1>2, <1>3, NoFaultSoFar
<1>5. PICK c \in Consumer : Deliver(c)
    BY <1>4 DEF TopicStep, Lose, Rebalance
<1>6. /\ buffered > 0 /\ buffered \in Nat
      /\ sent' = [sent EXCEPT ![c] = @ + 1] /\ sent \in [Consumer -> Nat]
      /\ pos \in [Consumer -> Nat]
      /\ UNCHANGED <<redisVars, consumerVars>>
    BY <1>4, <1>5 DEF Deliver, TypeOK, ConsumerTypes
<1>7. CountBeforeSend'
    BY <1>4, <1>6 DEF CountBeforeSend, redisVars
<1>8. \A d \in Consumer : Counts(d)'
  <2> SUFFICES ASSUME NEW d \in Consumer PROVE Counts(d)'
      OBVIOUS
  <2>1. sent[d] <= sent'[d] /\ sent'[d] \in Nat /\ pos[d] \in Nat /\ sent[d] \in Nat
      BY <1>6
  <2> QED BY <1>4, <1>6, <2>1 DEF Counts, consumerVars
<1>9. Awaited'
  <2>1. pos[c] <= sent[c] /\ pos[c] \in Nat /\ sent[c] \in Nat /\ sent'[c] = sent[c] + 1
      BY <1>4, <1>6 DEF Counts
  <2>2. pos'[c] < sent'[c]
      BY <1>6, <2>1 DEF consumerVars
  <2> QED BY <2>2 DEF Awaited
<1> QED BY <1>7, <1>8, <1>9

LEMMA ConsumerSynced ==
    ASSUME SInv, NEW c \in Consumer, ConsumerStep(c) \/ ConsumerFault(c)
    PROVE  SInv'
<1>1. TypeOK'
    BY ConsumerTyped DEF SInv
<1>2. ConsumerFrame /\ (NoFault \/ Fault)
    BY DEF ConsumerStep, TickerFires, EnterFetch, Fetch, SyncCount, SyncRelation,
       SyncWrite, ConsumerFault, FetchFails, SyncFails, Restart
<1>3. SUFFICES ASSUME faults' = 0
               PROVE  /\ CountBeforeSend' /\ \A d \in Consumer : Counts(d)'
                      /\ (overtaken \/ Awaited \/ Carried \/ Arrived)'
    BY <1>1 DEF SInv
<1>4. /\ TypeOK /\ ~Fault
      /\ CountBeforeSend /\ \A d \in Consumer : Counts(d)
      /\ overtaken \/ Awaited \/ Carried \/ Arrived
    BY <1>2, <1>3, NoFaultSoFar
<1>5. UNCHANGED <<count, relation, at, buffered, sent, check>>
    BY <1>2 DEF ConsumerFrame, redisVars, handlerVars, topicVars
<1>6. CountBeforeSend'
    BY <1>4, <1>5 DEF CountBeforeSend
<1>7. /\ pos \in [Consumer -> Nat] /\ done \in [Consumer -> Nat]
      /\ sent \in [Consumer -> Nat] /\ batch \in [Consumer -> Nat]
      /\ step \in [Consumer -> {"top", "fetching", "count", "relation", "write"}]
      /\ synced \in [Consumer -> 0..Cardinality(User)]
    BY <1>4, PipelineAssumption DEF TypeOK, ConsumerTypes
<1>8. SUFFICES /\ Counts(c)'
               /\ \A d \in Consumer \ {c} : /\ pos'[d] = pos[d] /\ done'[d] = done[d]
                                            /\ batch'[d] = batch[d] /\ step'[d] = step[d]
               /\ (overtaken \/ Awaited \/ Carried \/ Arrived)'
    BY <1>4, <1>5, <1>6 DEF Counts
<1> USE <1>5, <1>7 DEF StepTo
<1>9. CASE TickerFires(c) \/ EnterFetch(c)
  <2>1. /\ UNCHANGED <<sqlVars, pos, batch, synced, done>>
        /\ step[c] = "top"
        /\ \/ batch[c] > 0 /\ step' = [step EXCEPT ![c] = "count"]
           \/ step' = [step EXCEPT ![c] = "fetching"]
      BY <1>9 DEF TickerFires, EnterFetch
  <2>2. Counts(c)'
      BY <1>4, <2>1 DEF Counts
  <2>3. Carriers' = Carriers
      BY <2>1 DEF Carriers
  <2>4. (Awaited => Awaited') /\ (Carried => Carried') /\ (Arrived => Arrived')
      BY <2>1, <2>3 DEF Awaited, Carried, Arrived, CheckerCarries, sqlVars
  <2> QED BY <1>4, <2>1, <2>2, <2>4 DEF sqlVars
<1>10. CASE Fetch(c)
  <2>1. /\ pos[c] < sent[c] /\ step[c] = "fetching"
        /\ pos' = [pos EXCEPT ![c] = @ + 1]
        /\ batch' = [batch EXCEPT ![c] = @ + 1]
        /\ \E s \in {"count", "top"} : step' = [step EXCEPT ![c] = s]
        /\ UNCHANGED <<synced, done>>
      BY <1>10 DEF Fetch
  <2>2. Counts(c)'
      BY <1>4, <2>1 DEF Counts
  <2>3. batch'[c] > 0 /\ step'[c] # "write"
      BY <2>1
  <2> QED BY <2>1, <2>2, <2>3 DEF Awaited
<1>11. CASE SyncCount(c)
  <2>1. step[c] = "count" /\ batch[c] > 0 /\ sent[c] > 0
      BY <1>4, <1>11 DEF SyncCount, Counts
  <2>2. /\ step' = [step EXCEPT ![c] = "relation"]
        /\ UNCHANGED <<sqlVars, pos, batch, synced, done>>
      BY <1>4, <1>11, <2>1 DEF SyncCount, CountBeforeSend
  <2>3. Counts(c)'
      BY <1>4, <2>1, <2>2 DEF Counts
  <2>4. batch'[c] > 0 /\ step'[c] # "write"
      BY <2>1, <2>2
  <2> QED BY <2>2, <2>3, <2>4 DEF Awaited
<1>12. CASE SyncRelation(c)
  <2>1. /\ step[c] = "relation" /\ step' = [step EXCEPT ![c] = "write"]
        /\ synced' = [synced EXCEPT ![c] = Cardinality(relation)]
        /\ UNCHANGED <<sqlVars, pos, batch, done>>
      BY <1>12 DEF SyncRelation, SyncedCount
  <2>2. Counts(c)'
      BY <1>4, <2>1 DEF Counts
  <2>3. c \in Carriers' /\ synced'[c] = Cardinality(relation')
      BY <2>1 DEF Carriers
  <2> QED BY <2>1, <2>2, <2>3 DEF Carried
<1>13. CASE SyncWrite(c)
  <2>1. /\ step[c] = "write" /\ step' = [step EXCEPT ![c] = "top"]
        /\ likeCount' = synced[c]
        /\ overtaken' = (overtaken \/ CheckerCarries \/ Carriers \ {c} # {})
        /\ batch' = [batch EXCEPT ![c] = 0]
        /\ done' = [done EXCEPT ![c] = IF pos[c] > @ THEN pos[c] ELSE @]
        /\ UNCHANGED <<pos, synced>>
      BY <1>13 DEF SyncWrite, EndBatch
  <2>2. Counts(c)'
      BY <1>4, <2>1 DEF Counts
  <2>3. ASSUME ~overtaken' PROVE (Awaited \/ Carried \/ Arrived)'
    <3>1. ~overtaken /\ ~CheckerCarries /\ Carriers = {c}
        BY <2>1, <2>3 DEF Carriers
    <3>2. Carriers' = {} /\ ~CheckerCarries'
        BY <2>1, <3>1 DEF Carriers, CheckerCarries
    <3>3. CASE Awaited
      <4>1. ASSUME NEW d \in Consumer,
                   pos[d] < sent[d] \/ (batch[d] > 0 /\ step[d] # "write")
            PROVE  pos'[d] < sent'[d] \/ (batch'[d] > 0 /\ step'[d] # "write")
          BY <2>1, <4>1
      <4> QED BY <3>3, <4>1 DEF Awaited
    <3>4. CASE Carried
        BY <2>1, <3>1, <3>2, <3>4 DEF Carried, Arrived
    <3> QED BY <1>4, <3>1, <3>3, <3>4 DEF Arrived
  <2> QED BY <2>1, <2>2, <2>3
<1> QED BY <1>4, <1>9, <1>10, <1>11, <1>12, <1>13
    DEF ConsumerStep, ConsumerFault, FetchFails, SyncFails, Restart

LEMMA CheckSynced ==
    ASSUME SInv, CheckerStep \/ CheckFails \/ CountExpires
    PROVE  SInv'
<1>1. TypeOK'
    BY CheckTyped DEF SInv
<1>2. /\ NoFault \/ Fault
      /\ UNCHANGED <<likes, relation, handlerVars, topicVars, consumerVars>>
    BY DEF CheckerStep, CheckMySQL, CheckCount, CheckRelation, FixCount,
       FixLikeCount, CheckFails, CountExpires, CheckFrame
<1>3. SUFFICES ASSUME faults' = 0
               PROVE  /\ CountBeforeSend' /\ \A d \in Consumer : Counts(d)'
                      /\ (overtaken \/ Awaited \/ Carried \/ Arrived)'
    BY <1>1 DEF SInv
<1>4. /\ TypeOK /\ ~Fault
      /\ CountBeforeSend /\ \A d \in Consumer : Counts(d)
      /\ overtaken \/ Awaited \/ Carried \/ Arrived
    BY <1>2, <1>3, NoFaultSoFar
<1>5. UNCHANGED <<relation, at, buffered, sent, pos, batch, step, synced, done>>
    BY <1>2 DEF handlerVars, topicVars, consumerVars
<1>6. \A d \in Consumer : Counts(d)'
    BY <1>4, <1>5 DEF Counts
<1>7. Awaited' <=> Awaited
    BY <1>5 DEF Awaited
<1>8. Carriers' = Carriers
    BY <1>5 DEF Carriers
<1>9. check \in [at : {"idle", "count", "relation", "fix", "write"},
                 db : 0..Cardinality(User), count : Int, relation : 0..Cardinality(User)]
    BY <1>4 DEF TypeOK, CheckTypes
<1>10. count' = NoKey => count = NoKey
    BY <1>4, <1>9, PipelineAssumption DEF CheckerStep, CheckMySQL, CheckCount, CheckRelation,
       FixCount, FixLikeCount, CheckFails, CountExpires
<1>11. CountBeforeSend'
    BY <1>4, <1>5, <1>10 DEF CountBeforeSend
<1>12. CASE CheckMySQL \/ CheckCount
  <2>1. ~CheckerCarries /\ ~CheckerCarries' /\ UNCHANGED sqlVars
    <3>1. CASE CheckMySQL
      <4>1. check.at = "idle" /\ check'.at = "count" /\ UNCHANGED sqlVars
          BY <3>1 DEF CheckMySQL, Idle
      <4> QED BY <4>1 DEF CheckerCarries
    <3>2. CASE CheckCount
      <4>1. check.at = "count" /\ check'.at \in {"idle", "relation"} /\ UNCHANGED sqlVars
          BY <1>9, <3>2 DEF CheckCount, Idle
      <4> QED BY <4>1 DEF CheckerCarries
    <3> QED BY <1>12, <3>1, <3>2
  <2>2. (Carried => Carried') /\ (Arrived => Arrived')
      BY <1>5, <1>8, <2>1 DEF Carried, Arrived, sqlVars
  <2> QED BY <1>4, <1>6, <1>7, <1>11, <2>1, <2>2 DEF sqlVars
<1>13. CASE CheckRelation
  <2>1. ~CheckerCarries /\ UNCHANGED sqlVars
      BY <1>13 DEF CheckRelation, CheckerCarries
  <2>2. CASE check' = Idle
    <3>1. ~CheckerCarries'
        BY <2>2 DEF CheckerCarries, Idle
    <3>2. (Carried => Carried') /\ (Arrived => Arrived')
        BY <1>5, <1>8, <2>1, <3>1 DEF Carried, Arrived, sqlVars
    <3> QED BY <1>4, <1>6, <1>7, <1>11, <2>1, <3>2 DEF sqlVars
  <2>3. CASE check' = [check EXCEPT !.at = "fix", !.relation = Cardinality(relation)]
    <3>1. CheckerCarries' /\ check'.relation = Cardinality(relation')
        BY <1>5, <1>9, <2>3 DEF CheckerCarries
    <3> QED BY <1>6, <1>11, <3>1 DEF Carried
  <2> QED BY <1>13, <2>2, <2>3 DEF CheckRelation
<1>14. CASE FixCount
  <2>1. /\ CheckerCarries /\ CheckerCarries' /\ UNCHANGED sqlVars
        /\ check'.relation = check.relation
      BY <1>9, <1>14 DEF FixCount, CheckerCarries
  <2>2. Carried => Carried'
      BY <1>5, <1>8, <2>1 DEF Carried
  <2> QED BY <1>4, <1>6, <1>7, <1>11, <2>1, <2>2 DEF Arrived, sqlVars
<1>15. CASE FixLikeCount
  <2>1. /\ CheckerCarries /\ ~CheckerCarries'
        /\ likeCount' = check.relation /\ overtaken' = (overtaken \/ Carriers # {})
      BY <1>15 DEF FixLikeCount, CheckerCarries, Idle
  <2>2. ASSUME ~overtaken', Carried PROVE Arrived'
      BY <1>5, <1>8, <2>1, <2>2 DEF Carried, Arrived
  <2> QED BY <1>4, <1>6, <1>7, <1>11, <2>1, <2>2 DEF Arrived
<1> QED BY <1>4, <1>12, <1>13, <1>14, <1>15 DEF CheckerStep, CheckFails, CountExpires

LEMMA StepSynced == SInv /\ [Next]_vars => SInv'
<1>1. SUFFICES ASSUME SInv, [Next]_vars PROVE SInv'
    OBVIOUS
<1>2. CASE UNCHANGED vars
  <2>1. TypeOK'
      BY <1>1, StepTyped DEF SInv
  <2>2. /\ CountBeforeSend' <=> CountBeforeSend
        /\ \A c \in Consumer : Counts(c)' <=> Counts(c)
        /\ Awaited' <=> Awaited
        /\ overtaken' <=> overtaken
        /\ faults' = faults
      BY <1>2 DEF vars, CountBeforeSend, Counts, Awaited, redisVars, handlerVars,
         topicVars, consumerVars, sqlVars
  <2>3. (Carried' <=> Carried) /\ (Arrived' <=> Arrived)
      BY <1>2 DEF vars, Carried, Arrived, Carriers, CheckerCarries, redisVars,
         consumerVars, sqlVars
  <2> QED BY <1>1, <2>1, <2>2, <2>3 DEF SInv
<1> QED BY <1>1, <1>2, HandlerSynced, ConsumerSynced, CheckSynced, TopicSynced
    DEF Next, TopicStep

\* However many consumers synchronise one target, with the checker beside them:
\* without faults only a write that overtakes a count somebody carries can leave
\* like_count different from the relation set once the pipeline has drained.
THEOREM DrainedIsSyncedHolds == Spec => []DrainedIsSynced
<1>1. SInv => DrainedIsSynced
  <2>1. SUFFICES ASSUME SInv, Drained, faults = 0, ~overtaken
                 PROVE  likeCount = Cardinality(relation)
      BY DEF DrainedIsSynced
  <2>2. \A c \in Consumer : /\ Counts(c) /\ pos[c] \in Nat /\ batch[c] \in Nat
                            /\ done[c] \in Nat /\ sent[c] \in Nat
      BY <2>1, PipelineAssumption DEF SInv, TypeOK, ConsumerTypes
  <2>3. \A c \in Consumer : batch[c] = 0 /\ pos[c] = sent[c]
      BY <2>1, <2>2 DEF Drained, Counts
  <2>4. ~Awaited
      BY <2>1, <2>2, <2>3 DEF Drained, Awaited
  <2>5. ~Carried
      BY <2>1 DEF Drained, Carried, Carriers, CheckerCarries
  <2> QED BY <2>1, <2>4, <2>5 DEF SInv, Arrived
<1> QED BY <1>1, InitSInv, StepSynced, PTL DEF Spec
===============================================================================
