--------------------------- MODULE SnowflakeProofs ---------------------------
(***************************************************************************)
(* Proofs about Snowflake, for any set of processes, any node ids and any  *)
(* widths of the node and sequence fields.                                 *)
(***************************************************************************)
EXTENDS Snowflake, TLAPS

-----------------------------------------------------------------------------
(* The layout of an id.                                                    *)

\* A digit below S does not reach the next multiple of S.
LEMMA NextMultiple ==
    ASSUME NEW S \in Nat, NEW a \in Nat, NEW b \in Nat, a < b
    PROVE  a * S + S <= b * S
<1> DEFINE d == b - a - 1
<1>1. d \in Nat /\ b = a + 1 + d
    OBVIOUS
<1>2. d * S \in Nat
    BY <1>1
<1>3. (a + 1 + d) * S = a * S + S + d * S
    BY <1>1
<1>4. a * S \in Nat
    OBVIOUS
<1> HIDE DEF d
<1> QED BY <1>1, <1>2, <1>3, <1>4

\* A number has one quotient and one remainder.
LEMMA OneQuotient ==
    ASSUME NEW S \in Nat \ {0}, NEW a \in Nat, NEW b \in Nat,
           NEW x \in 0..(S - 1), NEW y \in 0..(S - 1),
           a * S + x = b * S + y
    PROVE  a = b /\ x = y
<1>1. a * S \in Nat /\ b * S \in Nat
    OBVIOUS
<1>2. ~(a < b)
  <2>1. SUFFICES ASSUME a < b PROVE FALSE
      OBVIOUS
  <2>2. a * S + S <= b * S
      BY <2>1, NextMultiple
  <2> QED BY <1>1, <2>2
<1>3. ~(b < a)
  <2>1. SUFFICES ASSUME b < a PROVE FALSE
      OBVIOUS
  <2>2. b * S + S <= a * S
      BY <2>1, NextMultiple
  <2> QED BY <1>1, <2>2
<1>4. a = b
    BY <1>2, <1>3
<1> QED BY <1>1, <1>4

\* Generate's shifts make a natural number of the three fields.
LEMMA IdType ==
    ASSUME NEW t \in Nat, NEW n \in Nat, NEW s \in Nat
    PROVE  Id(t, n, s) \in Nat
<1>1. t * NodeSpan \in Nat
    BY NodeAssumption
<1>2. (t * NodeSpan + n) * SequenceSpan \in Nat
    BY <1>1, SpanAssumption
<1> QED BY <1>2 DEF Id

\* A later millisecond outweighs every sequence number.
LEMMA LaterIsGreater ==
    ASSUME NEW t \in Nat, NEW u \in Nat, NEW n \in Nat, t < u,
           NEW s \in 0..MaxSequence, NEW r \in Nat
    PROVE  Id(t, n, s) < Id(u, n, r)
<1> DEFINE a == t * NodeSpan + n
           b == u * NodeSpan + n
<1>1. t * NodeSpan + NodeSpan <= u * NodeSpan
    BY NextMultiple, NodeAssumption
<1>2. t * NodeSpan \in Nat /\ u * NodeSpan \in Nat
    BY NodeAssumption
<1>3. a \in Nat /\ b \in Nat /\ a < b
    BY <1>1, <1>2, NodeAssumption
<1> HIDE DEF a, b
<1>4. a * SequenceSpan + SequenceSpan <= b * SequenceSpan
    BY <1>3, NextMultiple, SpanAssumption
<1>5. a * SequenceSpan \in Nat /\ b * SequenceSpan \in Nat
    BY <1>3, SpanAssumption
<1>6. a * SequenceSpan + s < b * SequenceSpan + r
    BY <1>4, <1>5, SpanAssumption DEF MaxSequence
<1> QED BY <1>6 DEF Id, a, b

\* Ids of different nodes differ.
LEMMA NodesApart ==
    ASSUME NEW t \in Nat, NEW u \in Nat,
           NEW n \in 0..(NodeSpan - 1), NEW m \in 0..(NodeSpan - 1),
           NEW s \in 0..MaxSequence, NEW r \in 0..MaxSequence,
           n # m
    PROVE  Id(t, n, s) # Id(u, m, r)
<1> DEFINE a == t * NodeSpan + n
           b == u * NodeSpan + m
<1>1. SUFFICES ASSUME Id(t, n, s) = Id(u, m, r) PROVE FALSE
    OBVIOUS
<1>2. a \in Nat /\ b \in Nat
    BY NodeAssumption
<1>3. a * SequenceSpan + s = b * SequenceSpan + r
    BY <1>1 DEF Id
<1>4. a = b
  <2> HIDE DEF a, b
  <2> QED BY <1>2, <1>3, OneQuotient, SpanAssumption DEF MaxSequence
<1>5. n = m
    BY <1>4, OneQuotient, NodeAssumption
<1> QED BY <1>5

\* (sequence + 1) & maxSequence: one more, or 0.
LEMMA NextSequenceFacts ==
    ASSUME NEW n \in 0..MaxSequence
    PROVE  /\ NextSequence(n) \in 0..MaxSequence
           /\ NextSequence(n) # 0 => NextSequence(n) = n + 1
<1>1. CASE n + 1 < SequenceSpan
    BY <1>1, SpanAssumption DEF NextSequence, MaxSequence
<1>2. CASE n + 1 = SequenceSpan
    BY <1>2, SpanAssumption DEF NextSequence, MaxSequence
<1> QED BY <1>1, <1>2, SpanAssumption DEF MaxSequence

-----------------------------------------------------------------------------
(* The inductive invariant.  UniqueIds alone is not inductive: it does not *)
(* say that the next id is new.  Ceiling(p) is the number that the next id *)
(* of p reaches; in a process above suspicion all ids so far are below it. *)

Ceiling(p) ==
    IF spinning[p] THEN Id(lastTime[p] + 1, NodeID[p], 0)
    ELSE IF lastTime[p] = 0 THEN Id(clock[p], NodeID[p], 0)
    ELSE Id(lastTime[p], NodeID[p], sequence[p]) + 1

\* In the loop of Generate, sequence is 0 and some id has been issued; last
\* is what lastTime and sequence say it is.
RunInv(p) ==
    /\ spinning[p] => sequence[p] = 0 /\ lastTime[p] > 0
    /\ lastTime[p] = 0 => last[p] = 0
    /\ spinning[p] => last[p] < Id(lastTime[p] + 1, NodeID[p], 0)
    /\ lastTime[p] > 0 /\ ~spinning[p] =>
            last[p] = Id(lastTime[p], NodeID[p], sequence[p])

Shape(p) ==
    \A x \in issued[p] :
        \E t \in 0..MaxTime, s \in 0..MaxSequence : x = Id(t, NodeID[p], s)

Below(p) ==
    p \notin suspect =>
        /\ lastTime[p] <= clock[p]
        /\ \A x \in issued[p] : x < Ceiling(p)

IInv ==
    /\ TypeOK
    /\ \A p \in Process : RunInv(p) /\ Shape(p) /\ Below(p)
    /\ again \subseteq suspect

-----------------------------------------------------------------------------
(* Init and the four calls of Generate.                                    *)

LEMMA InitInv == Init => IInv
<1>1. SUFFICES ASSUME Init PROVE IInv
    OBVIOUS
<1>2. TypeOK
    BY <1>1, SpanAssumption DEF Init, TypeOK, MaxSequence
<1> QED BY <1>1, <1>2 DEF Init, IInv, RunInv, Shape, Below

LEMMA CeilingType ==
    ASSUME TypeOK, NEW p \in Process
    PROVE  /\ Id(lastTime[p] + 1, NodeID[p], 0) \in Nat
           /\ Id(clock[p], NodeID[p], 0) \in Nat
           /\ Id(lastTime[p], NodeID[p], sequence[p]) \in Nat
           /\ Ceiling(p) \in Nat
<1>1. /\ NodeID[p] \in Nat /\ clock[p] \in Nat /\ sequence[p] \in Nat
      /\ lastTime[p] \in Nat /\ lastTime[p] + 1 \in Nat /\ 0 \in Nat
    BY NodeAssumption, SpanAssumption DEF TypeOK, MaxSequence
<1>2. Id(lastTime[p] + 1, NodeID[p], 0) \in Nat
    BY <1>1, IdType
<1>3. Id(clock[p], NodeID[p], 0) \in Nat
    BY <1>1, IdType
<1>4. Id(lastTime[p], NodeID[p], sequence[p]) \in Nat
    BY <1>1, IdType
<1> QED BY <1>2, <1>3, <1>4 DEF Ceiling

\* A later millisecond is above the ceiling, whichever case it is in.
LEMMA CeilingBelowLater ==
    ASSUME TypeOK, NEW p \in Process, NEW now \in 1..MaxTime,
           lastTime[p] < now, ~spinning[p] /\ lastTime[p] = 0 => clock[p] <= now
    PROVE  Ceiling(p) <= Id(now, NodeID[p], 0)
<1> DEFINE n == NodeID[p]
           l == lastTime[p]
<1>1. /\ n \in Nat /\ l \in Nat /\ clock[p] \in Nat /\ now \in Nat
      /\ l + 1 \in Nat /\ 0 \in Nat
    BY NodeAssumption, SpanAssumption DEF TypeOK
<1>2. sequence[p] \in 0..MaxSequence /\ 0 \in 0..MaxSequence
    BY SpanAssumption DEF TypeOK, MaxSequence
<1>3. Id(now, n, 0) \in Nat /\ Id(l, n, sequence[p]) \in Nat
    BY <1>1, IdType, CeilingType
<1>4. CASE spinning[p]
  <2>1. l + 1 = now \/ l + 1 < now
      BY <1>1
  <2>2. l + 1 < now => Id(l + 1, n, 0) < Id(now, n, 0)
      BY <1>1, <1>2, LaterIsGreater
  <2>3. Id(l + 1, n, 0) \in Nat
      BY CeilingType
  <2> HIDE DEF l, n
  <2>4. Id(l + 1, n, 0) <= Id(now, n, 0)
      BY <1>3, <2>1, <2>2, <2>3
  <2> QED BY <1>4, <2>4 DEF Ceiling, l, n
<1>5. CASE ~spinning[p] /\ l = 0
  <2>1. clock[p] = now \/ clock[p] < now
      BY <1>1, <1>5
  <2>2. clock[p] < now => Id(clock[p], n, 0) < Id(now, n, 0)
      BY <1>1, <1>2, LaterIsGreater
  <2>3. Id(clock[p], n, 0) \in Nat
      BY CeilingType
  <2>4. Id(clock[p], n, 0) <= Id(now, n, 0)
    <3> HIDE DEF l, n
    <3> QED BY <1>3, <2>1, <2>2, <2>3
  <2> QED BY <1>5, <2>4 DEF Ceiling
<1>6. CASE ~spinning[p] /\ l # 0
  <2>1. Id(l, n, sequence[p]) < Id(now, n, 0)
      BY <1>1, <1>2, LaterIsGreater
  <2>2. Id(l, n, sequence[p]) + 1 <= Id(now, n, 0)
    <3> HIDE DEF l, n
    <3> QED BY <1>3, <2>1
  <2> QED BY <1>6, <2>2 DEF Ceiling
<1> QED BY <1>4, <1>5, <1>6

\* The step of IdSource that an issue is.
Numbers == {Id(t, n, s) : t \in 1..MaxTime, n \in 0..(NodeSpan - 1),
                          s \in 0..MaxSequence}
Gives(p) == \E n \in Numbers : Ids!Give(p, n)

\* What another node has issued is no id of this one.
LEMMA OthersNumbers ==
    ASSUME \A r \in Process : Shape(r), NEW p \in Process, NEW q \in Process,
           NodeID[q] # NodeID[p], NEW t \in 0..MaxTime, NEW s \in 0..MaxSequence
    PROVE  Id(t, NodeID[p], s) \notin issued[q]
<1>1. SUFFICES ASSUME Id(t, NodeID[p], s) \in issued[q] PROVE FALSE
    OBVIOUS
<1>2. PICK u \in 0..MaxTime, r \in 0..MaxSequence :
          Id(t, NodeID[p], s) = Id(u, NodeID[q], r)
    BY <1>1 DEF Shape
<1>3. /\ t \in Nat /\ u \in Nat
      /\ NodeID[p] \in 0..(NodeSpan - 1) /\ NodeID[q] \in 0..(NodeSpan - 1)
    BY NodeAssumption, SpanAssumption
<1> QED BY <1>2, <1>3, NodesApart

\* Any id at or above the ceiling, and above the last one, may be issued.
LEMMA IssueInv ==
    ASSUME IInv, NEW p \in Process,
           NEW now \in 1..MaxTime, NEW seq \in 0..MaxSequence,
           Issue(p, now, seq),
           spinning' = [spinning EXCEPT ![p] = FALSE],
           UNCHANGED <<clock, suspect, setBacks, restarts>>,
           last[p] < Id(now, NodeID[p], seq),
           p \notin suspect =>
                now <= clock[p] /\ Ceiling(p) <= Id(now, NodeID[p], seq)
    PROVE  IInv' /\ Gives(p)
<1> DEFINE id == Id(now, NodeID[p], seq)
<1>1. id \in Nat
    BY IdType, NodeAssumption, SpanAssumption DEF MaxSequence
<1>2. NodeID[p] \in Nat /\ now \in Nat /\ seq \in Nat
    BY NodeAssumption, SpanAssumption DEF MaxSequence
<1>3. /\ lastTime' = [lastTime EXCEPT ![p] = now]
      /\ sequence' = [sequence EXCEPT ![p] = seq]
      /\ last' = [last EXCEPT ![p] = id]
      /\ issued' = [issued EXCEPT ![p] = @ \cup {id}]
      /\ again' = IF id \in issued[p] THEN again \cup {p} ELSE again
    BY DEF Issue
<1> HIDE DEF id
<1>4. TypeOK'
    BY <1>1, <1>3 DEF IInv, TypeOK
<1>5. /\ last'[p] = id /\ lastTime'[p] = now /\ sequence'[p] = seq
      /\ spinning'[p] = FALSE /\ issued'[p] = issued[p] \cup {id}
    BY <1>3 DEF IInv, TypeOK
<1>6. ASSUME NEW q \in Process, q # p
      PROVE  RunInv(q)' /\ Shape(q)' /\ Below(q)' /\ last'[q] = last[q]
  <2>1. /\ last'[q] = last[q] /\ lastTime'[q] = lastTime[q]
        /\ sequence'[q] = sequence[q] /\ spinning'[q] = spinning[q]
        /\ issued'[q] = issued[q] /\ clock'[q] = clock[q]
      BY <1>3, <1>6 DEF IInv, TypeOK
  <2>2. RunInv(q) /\ Shape(q) /\ Below(q)
      BY DEF IInv
  <2>3. Ceiling(q)' = Ceiling(q)
      BY <2>1 DEF Ceiling
  <2>4. RunInv(q)'
      BY <2>1, <2>2 DEF RunInv
  <2>5. Shape(q)'
      BY <2>1, <2>2 DEF Shape
  <2>6. Below(q)'
    <3>1. suspect' = suspect
        OBVIOUS
    <3> QED BY <2>1, <2>2, <2>3, <3>1 DEF Below
  <2> QED BY <2>1, <2>4, <2>5, <2>6
<1>7. RunInv(p)'
    BY <1>5 DEF RunInv, id
<1>8. Shape(p)'
  <2>1. Shape(p) /\ now \in 0..MaxTime
      BY DEF IInv
  <2>2. id = Id(now, NodeID[p], seq)
      BY DEF id
  <2> QED BY <1>5, <2>1, <2>2 DEF Shape
<1>9. Below(p)'
  <2>1. SUFFICES ASSUME p \notin suspect
                 PROVE  now <= clock[p] /\ \A x \in issued[p] \cup {id} : x < id + 1
    <3>1. Ceiling(p)' = id + 1
        BY <1>5 DEF Ceiling, id
    <3> QED BY <1>5, <3>1 DEF Below
  <2>2. now <= clock[p] /\ Ceiling(p) <= id
      BY <2>1 DEF id
  <2>3. \A x \in issued[p] : x \in Nat /\ x < Ceiling(p)
      BY <2>1 DEF IInv, Below, TypeOK
  <2>4. Ceiling(p) \in Nat
      BY CeilingType DEF IInv
  <2> QED BY <1>1, <2>2, <2>3, <2>4
<1>10. again' \subseteq suspect'
  <2>1. CASE id \in issued[p]
    <3>1. p \in suspect
      <4>1. SUFFICES ASSUME p \notin suspect PROVE FALSE
          OBVIOUS
      <4>2. now <= clock[p] /\ Ceiling(p) <= id /\ id < Ceiling(p)
          BY <2>1, <4>1 DEF IInv, Below, id
      <4>3. Ceiling(p) \in Nat
          BY CeilingType DEF IInv
      <4> QED BY <1>1, <4>2, <4>3
    <3> QED BY <1>3, <2>1, <3>1 DEF IInv
  <2>2. CASE id \notin issued[p]
      BY <1>3, <2>2 DEF IInv
  <2> QED BY <2>1, <2>2
<1>11. IInv'
    BY <1>4, <1>6, <1>7, <1>8, <1>9, <1>10 DEF IInv
<1>12. id \in Numbers /\ id > last[p]
  <2>1. NodeID[p] \in 0..(NodeSpan - 1)
      BY NodeAssumption
  <2>2. id \in Numbers
      BY <2>1 DEF id, Numbers
  <2>3. last[p] \in Nat /\ last[p] < id
      BY DEF id, IInv, TypeOK
  <2> QED BY <1>1, <2>2, <2>3
<1>13. ASSUME p \notin suspect, NEW x \in issued[p] PROVE id > x
  <2>1. x \in Nat /\ x < Ceiling(p) /\ Ceiling(p) <= id
      BY <1>13 DEF IInv, Below, TypeOK, id
  <2>2. Ceiling(p) \in Nat
      BY CeilingType DEF IInv
  <2> QED BY <1>1, <2>1, <2>2
<1>14. ASSUME NEW q \in Process, NodeID[q] # NodeID[p] PROVE id \notin issued[q]
  <2>1. now \in 0..MaxTime /\ \A r \in Process : Shape(r)
      BY SpanAssumption DEF IInv
  <2> QED BY <1>14, <2>1, OthersNumbers DEF id
<1>15. Ids!Give(p, id)
    BY <1>3, <1>12, <1>13, <1>14 DEF Ids!Give
<1> QED BY <1>11, <1>12, <1>15 DEF Gives

LEMMA GenerateInv ==
    ASSUME IInv, NEW p \in Process, Generate(p)
    PROVE  IInv' /\ (Gives(p) \/ UNCHANGED <<last, issued, suspect>>)
<1>1. /\ TypeOK /\ RunInv(p) /\ Below(p)
      /\ clock[p] \in 1..MaxTime /\ lastTime[p] \in Nat /\ last[p] \in Nat
      /\ sequence[p] \in 0..MaxSequence /\ spinning[p] \in BOOLEAN
      /\ clock[p] \in Nat /\ NodeID[p] \in Nat
    BY NodeAssumption, SpanAssumption DEF IInv, TypeOK
<1>2. 0 \in 0..MaxSequence /\ 0 \in Nat
    BY SpanAssumption DEF MaxSequence
<1>3. /\ Id(lastTime[p] + 1, NodeID[p], 0) \in Nat
      /\ Id(clock[p], NodeID[p], 0) \in Nat
      /\ Id(lastTime[p], NodeID[p], sequence[p]) \in Nat
      /\ Ceiling(p) \in Nat
    BY <1>1, CeilingType
<1>4. Id(0, NodeID[p], 0) \in Nat
    BY <1>1, <1>2, IdType
<1>5. ~spinning[p] => spinning = [spinning EXCEPT ![p] = FALSE]
    BY <1>1 DEF TypeOK
<1>6. CASE GenerateNewTime(p)
  <2>1. ~spinning[p] /\ lastTime[p] < clock[p] /\ Issue(p, clock[p], 0)
      BY <1>1, <1>6 DEF GenerateNewTime, Free, ClockOK
  <2>2. Ceiling(p) <= Id(clock[p], NodeID[p], 0)
      BY <1>1, <2>1, CeilingBelowLater
  <2>3. last[p] < Id(clock[p], NodeID[p], 0)
    <3>1. CASE lastTime[p] = 0
        BY <1>1, <1>2, <1>3, <1>4, <3>1, LaterIsGreater DEF RunInv
    <3>2. CASE lastTime[p] # 0
        BY <1>1, <1>2, <2>1, <3>2, LaterIsGreater DEF RunInv
    <3> QED BY <3>1, <3>2
  <2>4. UNCHANGED <<clock, spinning, suspect, setBacks, restarts>>
      BY <1>6 DEF GenerateNewTime
  <2> QED BY <1>1, <1>2, <1>5, <2>1, <2>2, <2>3, <2>4, IssueInv
<1>7. CASE GenerateSameTime(p)
  <2> DEFINE seq == NextSequence(sequence[p])
  <2>1. /\ ~spinning[p] /\ clock[p] = lastTime[p] /\ Issue(p, clock[p], seq)
        /\ seq \in 0..MaxSequence /\ seq = sequence[p] + 1
      BY <1>1, <1>7, NextSequenceFacts DEF GenerateSameTime, Free
  <2> HIDE DEF seq
  <2>2. Id(clock[p], NodeID[p], seq) = Id(lastTime[p], NodeID[p], sequence[p]) + 1
    <3>1. (lastTime[p] * NodeSpan + NodeID[p]) * SequenceSpan \in Nat
        BY <1>1, NodeAssumption, SpanAssumption
    <3> QED BY <1>1, <2>1, <3>1, SpanAssumption DEF Id, MaxSequence
  <2>3. Ceiling(p) = Id(clock[p], NodeID[p], seq)
      BY <1>1, <2>1, <2>2 DEF Ceiling
  <2>4. last[p] < Id(clock[p], NodeID[p], seq)
      BY <1>1, <1>3, <2>1, <2>2 DEF RunInv
  <2>5. UNCHANGED <<clock, spinning, suspect, setBacks, restarts>>
      BY <1>7 DEF GenerateSameTime
  <2> QED BY <1>1, <1>3, <1>5, <2>1, <2>3, <2>4, <2>5, IssueInv
<1>8. CASE StartSpin(p)
  <2>1. /\ ~spinning[p] /\ clock[p] = lastTime[p]
        /\ sequence' = [sequence EXCEPT ![p] = 0]
        /\ spinning' = [spinning EXCEPT ![p] = TRUE]
        /\ UNCHANGED <<clock, lastTime, last, issued, again, suspect, setBacks, restarts>>
      BY <1>8 DEF StartSpin, Free, history
  <2>2. TypeOK'
      BY <1>1, <1>2, <2>1 DEF TypeOK
  <2>3. Id(lastTime[p], NodeID[p], sequence[p]) < Id(lastTime[p] + 1, NodeID[p], 0)
      BY <1>1, <1>2, LaterIsGreater
  <2>4. sequence'[p] = 0 /\ spinning'[p] = TRUE
      BY <1>1, <2>1 DEF TypeOK
  <2>5. RunInv(p)'
      BY <1>1, <1>3, <2>1, <2>3, <2>4 DEF RunInv
  <2>6. Below(p)'
    <3>1. Ceiling(p) <= Ceiling(p)'
        BY <1>1, <1>3, <2>1, <2>3, <2>4 DEF Ceiling
    <3>2. Ceiling(p)' \in Nat
        BY <1>3, <2>1, <2>4 DEF Ceiling
    <3>3. \A x \in issued[p] : x \in Nat
        BY <1>1 DEF TypeOK
    <3> QED BY <1>1, <1>3, <2>1, <3>1, <3>2, <3>3 DEF Below
  <2>7. ASSUME NEW q \in Process, q # p PROVE RunInv(q)' /\ Below(q)'
    <3>1. /\ sequence'[q] = sequence[q] /\ spinning'[q] = spinning[q]
          /\ lastTime'[q] = lastTime[q] /\ clock'[q] = clock[q]
          /\ last'[q] = last[q] /\ issued'[q] = issued[q]
        BY <1>1, <2>1, <2>7 DEF TypeOK
    <3>2. RunInv(q) /\ Below(q)
        BY DEF IInv
    <3>3. Ceiling(q)' = Ceiling(q)
        BY <3>1 DEF Ceiling
    <3> QED BY <2>1, <3>1, <3>2, <3>3 DEF RunInv, Below
  <2>8. \A q \in Process : Shape(q)'
      BY <2>1 DEF IInv, Shape
  <2> QED BY <2>1, <2>2, <2>5, <2>6, <2>7, <2>8 DEF IInv
<1>9. CASE EndSpin(p)
  <2>1. /\ spinning[p] /\ lastTime[p] < clock[p] /\ sequence[p] = 0
        /\ Issue(p, clock[p], 0)
      BY <1>1, <1>9 DEF EndSpin, SpinOver, RunInv
  <2>2. Ceiling(p) <= Id(clock[p], NodeID[p], 0)
      BY <1>1, <2>1, CeilingBelowLater
  <2>3. last[p] < Id(clock[p], NodeID[p], 0)
      BY <1>1, <1>3, <2>1, <2>2 DEF RunInv, Ceiling
  <2>4. /\ spinning' = [spinning EXCEPT ![p] = FALSE]
        /\ UNCHANGED <<clock, suspect, setBacks, restarts>>
      BY <1>9 DEF EndSpin
  <2>5. p \notin suspect =>
            clock[p] <= clock[p] /\ Ceiling(p) <= Id(clock[p], NodeID[p], 0)
      BY <1>1, <2>2
  <2>6. clock[p] \in 1..MaxTime /\ 0 \in 0..MaxSequence
      BY <1>1, <1>2
  <2> QED BY <2>1, <2>3, <2>4, <2>5, <2>6, IssueInv
<1> QED BY <1>6, <1>7, <1>8, <1>9 DEF Generate

-----------------------------------------------------------------------------
(* The clock and the restarts.                                             *)

\* What these steps leave alone for a process q other than the one that moves.
LEMMA OthersInv ==
    ASSUME IInv, NEW q \in Process,
           lastTime'[q] = lastTime[q], sequence'[q] = sequence[q],
           spinning'[q] = spinning[q], last'[q] = last[q],
           clock'[q] = clock[q], issued'[q] = issued[q],
           suspect \subseteq suspect'
    PROVE  RunInv(q)' /\ Below(q)'
<1>1. RunInv(q) /\ Below(q)
    BY DEF IInv
<1>2. Ceiling(q)' = Ceiling(q)
    BY DEF Ceiling
<1> QED BY <1>1, <1>2 DEF RunInv, Below

LEMMA TickInv == ASSUME IInv, NEW p \in Process, Tick(p) PROVE IInv'
<1>1. /\ TypeOK /\ RunInv(p) /\ Below(p)
      /\ clock[p] \in Nat /\ clock[p] + 1 \in Nat /\ lastTime[p] \in Nat
      /\ NodeID[p] \in Nat /\ 0 \in Nat /\ 0 \in 0..MaxSequence
    BY NodeAssumption, SpanAssumption DEF IInv, TypeOK, MaxSequence
<1>2. /\ clock[p] < MaxTime
      /\ clock' = [clock EXCEPT ![p] = @ + 1]
      /\ UNCHANGED <<lastTime, sequence, spinning, last, issued, again,
                     suspect, setBacks, restarts>>
    BY DEF Tick, generator, history
<1>3. TypeOK'
    BY <1>1, <1>2, SpanAssumption DEF TypeOK
<1>4. clock'[p] = clock[p] + 1
    BY <1>1, <1>2 DEF TypeOK
<1>5. Ceiling(p) <= Ceiling(p)'
  <2>1. Id(clock[p], NodeID[p], 0) < Id(clock[p] + 1, NodeID[p], 0)
      BY <1>1, LaterIsGreater
  <2>2. /\ Id(clock[p], NodeID[p], 0) \in Nat
        /\ Id(clock[p] + 1, NodeID[p], 0) \in Nat
      BY <1>1, IdType
  <2>3. Ceiling(p) \in Nat
      BY <1>1, CeilingType
  <2> QED BY <1>2, <1>4, <2>1, <2>2, <2>3 DEF Ceiling
<1>6. Ceiling(p) \in Nat /\ Ceiling(p)' \in Nat
  <2>1. Id(clock[p] + 1, NodeID[p], 0) \in Nat
      BY <1>1, IdType
  <2>2. /\ Id(lastTime[p] + 1, NodeID[p], 0) \in Nat
        /\ Id(lastTime[p], NodeID[p], sequence[p]) \in Nat
        /\ Ceiling(p) \in Nat
      BY <1>1, CeilingType
  <2> QED BY <1>2, <1>4, <2>1, <2>2 DEF Ceiling
<1>7. Below(p)'
  <2>1. \A x \in issued[p] : x \in Nat
      BY <1>1 DEF TypeOK
  <2> QED BY <1>1, <1>2, <1>4, <1>5, <1>6, <2>1 DEF Below
<1>8. RunInv(p)'
    BY <1>1, <1>2 DEF RunInv
<1>9. ASSUME NEW q \in Process, q # p PROVE RunInv(q)' /\ Below(q)'
  <2>1. /\ clock'[q] = clock[q] /\ lastTime'[q] = lastTime[q]
        /\ sequence'[q] = sequence[q] /\ spinning'[q] = spinning[q]
        /\ last'[q] = last[q] /\ issued'[q] = issued[q]
        /\ suspect \subseteq suspect'
      BY <1>1, <1>2, <1>9 DEF TypeOK
  <2> QED BY <2>1, OthersInv
<1>10. \A q \in Process : Shape(q)'
    BY <1>2 DEF IInv, Shape
<1> QED BY <1>2, <1>3, <1>7, <1>8, <1>9, <1>10 DEF IInv

LEMMA SetBackInv == ASSUME IInv, NEW p \in Process, SetBack(p) PROVE IInv'
<1>1. TypeOK
    BY DEF IInv
<1>2. /\ clock[p] > 1 /\ setBacks[p] < MaxSetBacks
      /\ clock' = [clock EXCEPT ![p] = @ - 1]
      /\ suspect' = suspect \cup {p}
      /\ setBacks' = [setBacks EXCEPT ![p] = @ + 1]
      /\ UNCHANGED <<lastTime, sequence, spinning, last, issued, again, restarts>>
    BY DEF SetBack, generator, history
<1>3. TypeOK'
    BY <1>1, <1>2, SpanAssumption DEF TypeOK
<1>4. RunInv(p)' /\ Below(p)'
    BY <1>2 DEF IInv, RunInv, Below
<1>5. ASSUME NEW q \in Process, q # p PROVE RunInv(q)' /\ Below(q)'
  <2>1. /\ clock'[q] = clock[q] /\ lastTime'[q] = lastTime[q]
        /\ sequence'[q] = sequence[q] /\ spinning'[q] = spinning[q]
        /\ last'[q] = last[q] /\ issued'[q] = issued[q]
        /\ suspect \subseteq suspect'
      BY <1>1, <1>2, <1>5 DEF TypeOK
  <2> QED BY <2>1, OthersInv
<1>6. \A q \in Process : Shape(q)'
    BY <1>2 DEF IInv, Shape
<1> QED BY <1>2, <1>3, <1>4, <1>5, <1>6 DEF IInv

LEMMA RestartInv == ASSUME IInv, NEW p \in Process, Restart(p) PROVE IInv'
<1>1. /\ TypeOK /\ Below(p) /\ clock[p] \in 1..MaxTime /\ clock[p] \in Nat
      /\ lastTime[p] \in Nat
    BY SpanAssumption DEF IInv, TypeOK
<1>2. /\ restarts[p] < MaxRestarts
      /\ restarts' = [restarts EXCEPT ![p] = @ + 1]
      /\ suspect' = IF clock[p] <= lastTime[p] THEN suspect \cup {p} ELSE suspect
      /\ lastTime' = [lastTime EXCEPT ![p] = 0]
      /\ sequence' = [sequence EXCEPT ![p] = 0]
      /\ spinning' = [spinning EXCEPT ![p] = FALSE]
      /\ last' = [last EXCEPT ![p] = 0]
      /\ UNCHANGED <<clock, issued, again, setBacks>>
    BY DEF Restart
<1>3. TypeOK'
    BY <1>1, <1>2, SpanAssumption DEF TypeOK, MaxSequence
<1>4. lastTime'[p] = 0 /\ sequence'[p] = 0 /\ spinning'[p] = FALSE /\ last'[p] = 0
    BY <1>1, <1>2 DEF TypeOK
<1>5. RunInv(p)'
    BY <1>4 DEF RunInv
<1>6. Below(p)'
  <2>1. SUFFICES ASSUME p \notin suspect'
                 PROVE  lastTime'[p] <= clock'[p] /\ \A x \in issued[p] : x < Ceiling(p)'
      BY <1>2 DEF Below
  <2>2. p \notin suspect /\ lastTime[p] < clock[p]
      BY <1>1, <1>2, <2>1
  <2>3. Ceiling(p) <= Id(clock[p], NodeID[p], 0)
      BY <1>1, <2>2, CeilingBelowLater
  <2>4. Ceiling(p)' = Id(clock[p], NodeID[p], 0)
      BY <1>2, <1>4 DEF Ceiling
  <2>5. Ceiling(p) \in Nat /\ Id(clock[p], NodeID[p], 0) \in Nat
      BY <1>1, CeilingType
  <2>6. \A x \in issued[p] : x \in Nat /\ x < Ceiling(p)
      BY <1>1, <2>2 DEF Below, TypeOK
  <2> QED BY <1>1, <1>2, <1>4, <2>3, <2>4, <2>5, <2>6
<1>7. ASSUME NEW q \in Process, q # p PROVE RunInv(q)' /\ Below(q)'
  <2>1. /\ clock'[q] = clock[q] /\ lastTime'[q] = lastTime[q]
        /\ sequence'[q] = sequence[q] /\ spinning'[q] = spinning[q]
        /\ last'[q] = last[q] /\ issued'[q] = issued[q]
        /\ suspect \subseteq suspect'
      BY <1>1, <1>2, <1>7 DEF TypeOK
  <2> QED BY <2>1, OthersInv
<1>8. \A q \in Process : Shape(q)'
    BY <1>2 DEF IInv, Shape
<1> QED BY <1>2, <1>3, <1>5, <1>6, <1>7, <1>8 DEF IInv

-----------------------------------------------------------------------------
(* The theorems.                                                           *)

LEMMA StepInv == IInv /\ [Next]_vars => IInv'
<1>1. SUFFICES ASSUME IInv, [Next]_vars PROVE IInv'
    OBVIOUS
<1>2. CASE Next
  <2>1. PICK p \in Process : Generate(p) \/ Tick(p) \/ SetBack(p) \/ Restart(p)
      BY <1>2 DEF Next
  <2> QED BY <1>1, <2>1, GenerateInv, TickInv, SetBackInv, RestartInv
<1>3. CASE UNCHANGED vars
  <2>1. UNCHANGED <<clock, lastTime, sequence, spinning, last, issued, again,
                    suspect, setBacks, restarts>>
      BY <1>3 DEF vars, generator, history
  <2>2. TypeOK' /\ again' \subseteq suspect'
      BY <1>1, <2>1 DEF IInv, TypeOK
  <2>3. ASSUME NEW q \in Process PROVE RunInv(q)' /\ Below(q)' /\ Shape(q)'
    <3>1. RunInv(q) /\ Below(q) /\ Shape(q) /\ Ceiling(q)' = Ceiling(q)
        BY <1>1, <2>1 DEF IInv, Ceiling
    <3> QED BY <2>1, <3>1 DEF RunInv, Below, Shape
  <2> QED BY <2>2, <2>3 DEF IInv
<1> QED BY <1>1, <1>2, <1>3

THEOREM Invariance == Spec => []IInv
    BY InitInv, StepInv, PTL DEF Spec

\* Generate keeps lastTime and sequence in their fields.
THEOREM TypeCorrect == Spec => []TypeOK
<1>1. IInv => TypeOK
    BY DEF IInv
<1> QED BY <1>1, Invariance, PTL

\* Generators with different node ids never issue the same id, and one issues
\* an id twice only after a clock set back or a restart within a millisecond.
THEOREM UniqueIdsHolds == Spec => []UniqueIds
<1>1. ASSUME IInv PROVE UniqueIds
  <2>1. SUFFICES ASSUME NEW p \in Process, NEW q \in Process,
                        NodeID[p] # NodeID[q], NEW x \in issued[p], x \in issued[q]
                 PROVE  FALSE
      BY <1>1 DEF IInv, UniqueIds
  <2>2. PICK t \in 0..MaxTime, s \in 0..MaxSequence : x = Id(t, NodeID[p], s)
      BY <1>1, <2>1 DEF IInv, Shape
  <2> QED BY <1>1, <2>1, <2>2, OthersNumbers DEF IInv
<1> QED BY <1>1, Invariance, PTL

\* The ids of one run of a generator only grow, whatever its clock does.
THEOREM IdsIncreaseHolds == Spec => IdsIncrease
<1>1. ASSUME IInv, [Next]_vars
      PROVE  [\A p \in Process : last'[p] # last[p] =>
                 last'[p] > last[p] \/ restarts'[p] > restarts[p]]_vars
  <2>1. CASE UNCHANGED vars
      BY <2>1
  <2>2. CASE \E p \in Process : Generate(p)
    <3>1. PICK p \in Process : Gives(p) \/ UNCHANGED <<last, issued, suspect>>
        BY <1>1, <2>2, GenerateInv
    <3> QED BY <1>1, <3>1 DEF Gives, Ids!Give, IInv, TypeOK
  <2>3. CASE \E p \in Process : Tick(p) \/ SetBack(p)
      BY <2>3 DEF Tick, SetBack, history
  <2>4. CASE \E p \in Process : Restart(p)
    <3>1. PICK p \in Process : Restart(p)
        BY <2>4
    <3>2. restarts'[p] > restarts[p]
        BY <1>1, <3>1, SpanAssumption DEF IInv, TypeOK, Restart
    <3>3. \A q \in Process : q # p => last'[q] = last[q]
        BY <1>1, <3>1 DEF IInv, TypeOK, Restart
    <3> QED BY <3>2, <3>3
  <2> QED BY <1>1, <2>1, <2>2, <2>3, <2>4 DEF Next
<1> QED BY <1>1, Invariance, PTL DEF Spec, IdsIncrease

\* Every step of the generators is one of IdSource, or none: ids grow also across
\* restarts, but for a clock set back and a restart within a millisecond.
THEOREM IsIdSourceHolds == Spec => IsIdSource
<1>1. Init => Ids!Init
    BY DEF Init, Ids!Init
<1>2. IInv /\ [Next]_vars => [Ids!Next]_(Ids!vars)
  <2>1. SUFFICES ASSUME IInv, [Next]_vars PROVE [Ids!Next]_(Ids!vars)
      OBVIOUS
  <2>2. CASE UNCHANGED vars
      BY <2>2 DEF vars, history, Ids!vars
  <2>3. ASSUME NEW p \in Process, Generate(p) PROVE [Ids!Next]_(Ids!vars)
    <3>1. Gives(p) \/ UNCHANGED <<last, issued, suspect>>
        BY <2>1, <2>3, GenerateInv
    <3> QED BY <3>1 DEF Gives, Numbers, Ids!Next, Ids!vars
  <2>4. ASSUME NEW p \in Process, Tick(p) PROVE [Ids!Next]_(Ids!vars)
      BY <2>4 DEF Tick, history, Ids!vars
  <2>5. ASSUME NEW p \in Process, SetBack(p) PROVE [Ids!Next]_(Ids!vars)
    <3>1. Ids!Doubt(p)
        BY <2>5 DEF SetBack, history, Ids!Doubt
    <3> QED BY <3>1 DEF Ids!Next
  <2>6. ASSUME NEW p \in Process, Restart(p) PROVE [Ids!Next]_(Ids!vars)
    <3>1. Ids!Begin(p)
        BY <2>6 DEF Restart, Ids!Begin
    <3> QED BY <3>1 DEF Ids!Next
  <2> QED BY <2>1, <2>2, <2>3, <2>4, <2>5, <2>6 DEF Next
<1> QED BY <1>1, <1>2, Invariance, PTL DEF Spec, IsIdSource, Ids!Spec
=============================================================================
