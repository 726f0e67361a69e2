------------------------- MODULE CommentCountProofs -------------------------
(***************************************************************************)
(* Proofs about CommentCount, for any users, handlers and comments: how    *)
(* the counter and the table may come apart, and how they may not.         *)
(***************************************************************************)
EXTENDS CommentCount, FunctionTheorems, FiniteSetTheorems, TLAPS

\* Handlers that owe the counter an increment or a decrement.
Increments == {h \in Handler : at[h] = "increment"}
Decrements == {h \in Handler : at[h] = "decrement"}

\* Ids of rows and of requests under way have been handed out.
Known ==
    /\ Rows \subseteq used
    /\ \A h \in Handler : at[h] \in {"increment", "delete"} => subject[h] \in used

\* Every deletion under way will delete a row of its own.
Low ==
    Undisturbed({"fault", "stranger", "twice"}) =>
        /\ \A h \in Handler : at[h] = "delete" => rows[subject[h]] = caller[h]
        /\ \A g, h \in Handler :
              at[g] = "delete" /\ at[h] = "delete" /\ subject[g] = subject[h] => g = h
        /\ Cardinality(Rows) + Cardinality(Decrements)
              <= commentCount + Cardinality(Increments)

\* Every comment not counted yet has a row that nobody is deleting: the floor
\* of the decrement is then never in the way.
High ==
    Undisturbed({"fault", "early"}) =>
        /\ \A h \in Increments : subject[h] \in Rows
        /\ \A g, h \in Increments : subject[g] = subject[h] => g = h
        /\ \A g, h \in Handler :
              at[g] = "increment" /\ at[h] = "delete" => subject[g] # subject[h]
        /\ commentCount + Cardinality(Increments)
              <= Cardinality(Rows) + Cardinality(Decrements)

IInv == TypeOK /\ Known /\ Low /\ High

LEMMA Finite ==
    /\ IsFiniteSet(Rows) /\ Cardinality(Rows) \in Nat
    /\ IsFiniteSet(Increments) /\ Cardinality(Increments) \in Nat
    /\ IsFiniteSet(Decrements) /\ Cardinality(Decrements) \in Nat
<1>1. Rows \in SUBSET Comment /\ Increments \in SUBSET Handler /\ Decrements \in SUBSET Handler
    BY DEF Rows, Increments, Decrements
<1>2. IsFiniteSet(Rows) /\ IsFiniteSet(Increments) /\ IsFiniteSet(Decrements)
    BY <1>1, CommentAssumption, FS_Subset
<1> QED BY <1>2, FS_CardinalityType

\* As many rows at least as creations under way, for their comments differ.
LEMMA RowsForIncrements ==
    ASSUME TypeOK, \A h \in Increments : subject[h] \in Rows,
           \A g, h \in Increments : subject[g] = subject[h] => g = h
    PROVE  Cardinality(Increments) <= Cardinality(Rows)
<1> DEFINE f == [h \in Increments |-> subject[h]]
<1>1. f \in Injection(Increments, Rows)
    BY DEF Injection, IsInjective
<1> QED BY <1>1, Finite, FS_Injection

LEMMA InitInv == Init => IInv
<1>1. SUFFICES ASSUME Init PROVE IInv
    OBVIOUS
<1>2. TypeOK
    BY <1>1, CommentAssumption DEF Init, TypeOK
<1>3. Rows = {} /\ Increments = {} /\ Decrements = {}
    BY <1>1 DEF Init, Rows, Increments, Decrements
<1>4. Cardinality(Rows) = 0 /\ Cardinality(Increments) = 0 /\ Cardinality(Decrements) = 0
    BY <1>3, FS_EmptySet
<1>5. commentCount = 0 /\ \A h \in Handler : at[h] = "idle"
    BY <1>1 DEF Init
<1> QED BY <1>2, <1>3, <1>4, <1>5 DEF IInv, Known, Low, High

-----------------------------------------------------------------------------
(* Creation.                                                               *)

LEMMA CreateInv ==
    ASSUME IInv, NEW h \in Handler, NEW u \in User, NEW c \in Comment,
           CreateComment(h, u, c)
    PROVE  IInv'
<1>1. TypeOK'
    BY DEF IInv, TypeOK, CreateComment, Serve
<1>2. /\ at[h] = "idle" /\ at'[h] = "increment" /\ subject'[h] = c /\ rows'[c] = u
      /\ \A g \in Handler : g # h => at'[g] = at[g] /\ subject'[g] = subject[g]
                                     /\ caller'[g] = caller[g]
      /\ \A d \in Comment : d # c => rows'[d] = rows[d]
      /\ used' = used \cup {c} /\ c \notin used
      /\ UNCHANGED <<commentCount, disturbed>>
    BY DEF IInv, TypeOK, CreateComment, Serve
<1>3. u # NoRow /\ c \notin Rows
    BY <1>2, CommentAssumption DEF IInv, Known
<1>4. Rows' = Rows \cup {c}
    BY <1>2, <1>3 DEF Rows
<1>5. Increments' = Increments \cup {h} /\ h \notin Increments
    BY <1>2 DEF Increments
<1>6. Decrements' = Decrements
    BY <1>2 DEF Decrements
<1>7. /\ Cardinality(Rows') = Cardinality(Rows) + 1
      /\ Cardinality(Increments') = Cardinality(Increments) + 1
      /\ Cardinality(Decrements') = Cardinality(Decrements)
    BY <1>3, <1>4, <1>5, <1>6, Finite, FS_AddElement
<1>8. Known'
    BY <1>2, <1>4 DEF IInv, Known
<1>9. Low'
  <2>1. SUFFICES ASSUME Undisturbed({"fault", "stranger", "twice"}) PROVE Low'
      BY <1>2 DEF Low, Undisturbed
  <2>2. \A g \in Handler : at[g] = "delete" => subject[g] # c
      BY <1>2 DEF IInv, Known
  <2>3. \A g \in Handler : at[g] = "delete" => subject[g] \in Comment
      BY DEF IInv, TypeOK
  <2>4. Cardinality(Rows') + Cardinality(Decrements')
          <= commentCount' + Cardinality(Increments')
      BY <1>2, <1>7, <2>1, Finite DEF IInv, Low, TypeOK
  <2> QED BY <1>2, <2>1, <2>2, <2>3, <2>4 DEF IInv, Low
<1>10. High'
  <2>1. SUFFICES ASSUME Undisturbed({"fault", "early"}) PROVE High'
      BY <1>2 DEF High, Undisturbed
  <2>2. \A g \in Handler : at[g] \in {"increment", "delete"} => subject[g] # c
      BY <1>2 DEF IInv, Known
  <2>3. commentCount' + Cardinality(Increments')
          <= Cardinality(Rows') + Cardinality(Decrements')
      BY <1>2, <1>7, <2>1, Finite DEF IInv, High, TypeOK
  <2>4. Increments \subseteq Handler /\ \A g \in Increments : at[g] = "increment"
      BY DEF Increments
  <2> QED BY <1>2, <1>4, <1>5, <2>1, <2>2, <2>3, <2>4 DEF IInv, High
<1> QED BY <1>1, <1>8, <1>9, <1>10 DEF IInv

LEMMA IncrementInv ==
    ASSUME IInv, NEW h \in Handler, IncrementCommentCount(h) PROVE IInv'
<1>1. TypeOK'
    BY DEF IInv, TypeOK, IncrementCommentCount, Incremented, Finish, table, request
<1>2. /\ at[h] = "increment" /\ at'[h] = "idle" /\ commentCount' = commentCount + 1
      /\ \A g \in Handler : g # h => at'[g] = at[g]
      /\ UNCHANGED <<rows, used, caller, subject, disturbed>>
    BY DEF IInv, TypeOK, IncrementCommentCount, Incremented, Finish, table, request
<1>3. /\ Rows' = Rows /\ Decrements' = Decrements
      /\ Increments' = Increments \ {h} /\ h \in Increments
    BY <1>2 DEF Rows, Increments, Decrements
<1>4. Cardinality(Increments') = Cardinality(Increments) - 1
    BY <1>3, Finite, FS_RemoveElement
<1>5. Known'
    BY <1>2, <1>3 DEF IInv, Known
<1>6. Low'
    BY <1>2, <1>3, <1>4, Finite DEF IInv, Low, Undisturbed, TypeOK
<1>7. High'
    BY <1>2, <1>3, <1>4, Finite DEF IInv, High, Undisturbed, TypeOK
<1> QED BY <1>1, <1>5, <1>6, <1>7 DEF IInv

-----------------------------------------------------------------------------
(* Deletion.                                                               *)

LEMMA FindInv ==
    ASSUME IInv, NEW h \in Handler, NEW u \in User, NEW c \in Comment,
           FindComment(h, u, c)
    PROVE  IInv'
<1>1. /\ at[h] = "idle" /\ at'[h] = "delete" /\ subject'[h] = c /\ caller'[h] = u
      /\ \A g \in Handler : g # h => at'[g] = at[g] /\ subject'[g] = subject[g]
                                     /\ caller'[g] = caller[g]
      /\ UNCHANGED <<rows, used, commentCount>>
      /\ c \in used /\ rows[c] # NoRow
    BY DEF IInv, TypeOK, FindComment, Found, Serve, table
<1>2. disturbed \subseteq disturbed' /\ disturbed' \subseteq Disturbances
    BY DEF IInv, TypeOK, FindComment, Disturbances
<1>3. TypeOK'
    BY <1>1, <1>2 DEF IInv, TypeOK, FindComment, Serve, table
<1>4. Rows' = Rows /\ Increments' = Increments /\ Decrements' = Decrements
    BY <1>1 DEF Rows, Increments, Decrements
<1>5. Known'
    BY <1>1, <1>4 DEF IInv, Known
<1>6. Low'
  <2>1. SUFFICES ASSUME Undisturbed({"fault", "stranger", "twice"})' PROVE Low'
      BY DEF Low
  <2>2. Undisturbed({"fault", "stranger", "twice"})
      BY <1>2, <2>1 DEF Undisturbed
  <2>3. rows[c] = u
      BY <1>1, <2>1 DEF FindComment, Undisturbed
  <2>4. \A g \in Handler : at[g] = "delete" => subject[g] # c
      BY <2>1 DEF FindComment, Undisturbed, At
  <2> QED BY <1>1, <1>4, <2>2, <2>3, <2>4 DEF IInv, Low
<1>7. High'
  <2>1. SUFFICES ASSUME Undisturbed({"fault", "early"})' PROVE High'
      BY DEF High
  <2>2. Undisturbed({"fault", "early"})
      BY <1>2, <2>1 DEF Undisturbed
  <2>3. \A g \in Handler : at[g] = "increment" => subject[g] # c
      BY <2>1 DEF FindComment, Undisturbed, At
  <2>4. \A g \in Increments : g \in Handler /\ g # h
      BY <1>1 DEF Increments
  <2> QED BY <1>1, <1>4, <2>2, <2>3, <2>4 DEF IInv, High
<1> QED BY <1>3, <1>5, <1>6, <1>7 DEF IInv

LEMMA DeleteInv ==
    ASSUME IInv, NEW h \in Handler, DeleteComment(h) PROVE IInv'
<1> DEFINE c == subject[h]
<1>1. /\ at[h] = "delete" /\ at'[h] = "decrement" /\ c \in Comment
      /\ \A g \in Handler : g # h => at'[g] = at[g]
      /\ rows' = [rows EXCEPT ![c] = IF @ = caller[h] THEN NoRow ELSE @]
      /\ UNCHANGED <<used, commentCount, subject, caller, disturbed>>
    BY DEF IInv, TypeOK, DeleteComment, Deleted, request
<1>2. TypeOK'
    BY DEF IInv, TypeOK, DeleteComment, Deleted, request
<1>3. Increments' = Increments
    BY <1>1 DEF Increments
<1>4. Decrements' = Decrements \cup {h} /\ h \notin Decrements
    BY <1>1 DEF Decrements
<1>5. Cardinality(Decrements') = Cardinality(Decrements) + 1
    BY <1>4, Finite, FS_AddElement
<1>6. \A d \in Comment : d # c => rows'[d] = rows[d]
    BY <1>1 DEF IInv, TypeOK
<1>7. rows[c] = caller[h] => rows'[c] = NoRow
    BY <1>1 DEF IInv, TypeOK
<1>8. rows[c] # caller[h] => rows'[c] = rows[c]
    BY <1>1 DEF IInv, TypeOK
<1>9. rows[c] = caller[h] => c \in Rows /\ Rows' = Rows \ {c}
  <2>1. caller[h] # NoRow
      BY CommentAssumption DEF IInv, TypeOK
  <2> QED BY <1>1, <1>6, <1>7, <2>1 DEF Rows
<1>10. rows[c] # caller[h] => Rows' = Rows
    BY <1>1, <1>6, <1>8 DEF Rows
<1>11. /\ rows[c] = caller[h] => Cardinality(Rows') = Cardinality(Rows) - 1
       /\ rows[c] # caller[h] => Cardinality(Rows') = Cardinality(Rows)
    BY <1>9, <1>10, Finite, FS_RemoveElement
<1>12. Known'
    BY <1>1, <1>9, <1>10 DEF IInv, Known
<1>13. Low'
  <2>1. SUFFICES ASSUME Undisturbed({"fault", "stranger", "twice"}) PROVE Low'
      BY <1>1 DEF Low, Undisturbed
  <2>2. rows[c] = caller[h] /\ \A g \in Handler : at[g] = "delete" /\ g # h => subject[g] # c
      BY <1>1, <2>1 DEF IInv, Low
  <2>3. \A g \in Handler : subject[g] \in Comment
      BY DEF IInv, TypeOK
  <2>4. Cardinality(Rows') + Cardinality(Decrements')
          <= commentCount' + Cardinality(Increments')
      BY <1>1, <1>3, <1>5, <1>11, <2>1, <2>2, Finite DEF IInv, Low, TypeOK
  <2> QED BY <1>1, <1>6, <2>1, <2>2, <2>3, <2>4 DEF IInv, Low
<1>14. High'
  <2>1. SUFFICES ASSUME Undisturbed({"fault", "early"}) PROVE High'
      BY <1>1 DEF High, Undisturbed
  <2>2. \A g \in Increments : subject[g] # c /\ g \in Handler
      BY <1>1, <2>1 DEF IInv, High, Increments
  <2>3. \A g \in Increments : subject[g] \in Rows'
      BY <1>9, <1>10, <2>1, <2>2 DEF IInv, High
  <2>4. commentCount' + Cardinality(Increments')
          <= Cardinality(Rows') + Cardinality(Decrements')
      BY <1>1, <1>3, <1>5, <1>11, <2>1, Finite DEF IInv, High, TypeOK
  <2>5. \A g \in Handler : at'[g] = "delete" => at[g] = "delete"
      BY <1>1
  <2>6. \A g \in Handler : at'[g] = "increment" => at[g] = "increment"
      BY <1>1
  <2> QED BY <1>1, <1>3, <2>1, <2>3, <2>4, <2>5, <2>6 DEF IInv, High
<1> QED BY <1>2, <1>12, <1>13, <1>14 DEF IInv

\* The floor only helps Low, and High keeps the counter above it.
LEMMA DecrementInv ==
    ASSUME IInv, NEW h \in Handler, DecrementCommentCount(h) PROVE IInv'
<1>1. /\ at[h] = "decrement" /\ at'[h] = "idle" /\ commentCount' = Decremented
      /\ \A g \in Handler : g # h => at'[g] = at[g]
      /\ UNCHANGED <<rows, used, caller, subject, disturbed>>
    BY DEF IInv, TypeOK, DecrementCommentCount, Finish, table, request
<1>2. commentCount \in Nat /\ Decremented \in Nat
    BY DEF IInv, TypeOK, Decremented
<1>3. TypeOK'
    BY <1>1, <1>2 DEF IInv, TypeOK, DecrementCommentCount, Finish, table, request
<1>4. /\ Rows' = Rows /\ Increments' = Increments
      /\ Decrements' = Decrements \ {h} /\ h \in Decrements
    BY <1>1 DEF Rows, Increments, Decrements
<1>5. Cardinality(Decrements') = Cardinality(Decrements) - 1
    BY <1>4, Finite, FS_RemoveElement
<1>6. Known'
    BY <1>1, <1>4 DEF IInv, Known
<1>7. Low'
  <2>1. commentCount' >= commentCount - 1
      BY <1>1, <1>2 DEF Decremented
  <2> QED BY <1>1, <1>2, <1>4, <1>5, <2>1, Finite DEF IInv, Low, Undisturbed
<1>8. High'
  <2>1. SUFFICES ASSUME Undisturbed({"fault", "early"}) PROVE High'
      BY <1>1 DEF High, Undisturbed
  <2>2. Cardinality(Increments) <= Cardinality(Rows)
      BY <2>1, RowsForIncrements DEF IInv, High
  <2>3. Cardinality(Decrements') \in Nat
      BY <1>5, <1>4, Finite, FS_RemoveElement, FS_CardinalityType
  <2>4. CASE commentCount = 0
      BY <1>1, <1>4, <2>1, <2>2, <2>3, <2>4, Finite DEF IInv, High, Decremented
  <2>5. CASE commentCount # 0
    <3>1. commentCount' = commentCount - 1
        BY <1>1, <1>2, <2>5 DEF Decremented
    <3> QED BY <1>1, <1>2, <1>4, <1>5, <2>1, <3>1, Finite DEF IInv, High
  <2> QED BY <2>4, <2>5
<1> QED BY <1>3, <1>6, <1>7, <1>8 DEF IInv

LEMMA FailInv ==
    ASSUME IInv, NEW h \in Handler, Fail(h) PROVE IInv'
<1>1. /\ at'[h] = "idle" /\ \A g \in Handler : g # h => at'[g] = at[g]
      /\ UNCHANGED <<used, caller, subject>>
      /\ disturbed' = disturbed \cup {"fault"}
    BY DEF IInv, TypeOK, Fail, Finish, request
<1>2. /\ rows' = rows \/ rows' = Deleted(h)
      /\ commentCount' \in {commentCount, Incremented, Decremented}
    BY DEF Fail
<1>3. rows' \in [Comment -> User \cup {NoRow}] /\ Rows' \subseteq Rows
  <2>1. Deleted(h) \in [Comment -> User \cup {NoRow}]
        /\ \A d \in Comment : Deleted(h)[d] # NoRow => rows[d] # NoRow
      BY DEF IInv, TypeOK, Deleted
  <2> QED BY <1>2, <2>1 DEF IInv, TypeOK, Rows
<1>4. commentCount' \in Nat
    BY <1>2 DEF IInv, TypeOK, Incremented, Decremented
<1>5. faults' \in 0..MaxFaults
    BY CommentAssumption DEF IInv, TypeOK, Fail
<1>6. TypeOK'
    BY <1>1, <1>3, <1>4, <1>5 DEF IInv, TypeOK, Fail, Finish, Disturbances
<1>7. Known'
    BY <1>1, <1>3 DEF IInv, Known
<1>8. Low' /\ High'
    BY <1>1 DEF Low, High, Undisturbed
<1> QED BY <1>6, <1>7, <1>8 DEF IInv

LEMMA StepInv == IInv /\ [Next]_vars => IInv'
<1>1. SUFFICES ASSUME IInv, [Next]_vars PROVE IInv'
    OBVIOUS
<1>2. CASE UNCHANGED vars
    BY <1>1, <1>2 DEF IInv, vars, table, request, TypeOK, Known, Low, High, Undisturbed,
       Rows, Increments, Decrements
<1> QED BY <1>1, <1>2, CreateInv, IncrementInv, FindInv, DeleteInv, DecrementInv, FailInv
        DEF Next

-----------------------------------------------------------------------------
(* The theorems.                                                           *)

THEOREM Invariance == Spec => []IInv
    BY InitInv, StepInv, PTL DEF Spec

\* Every variable keeps its type; the counter never becomes negative.
THEOREM TypeCorrect == Spec => []TypeOK
<1>1. IInv => TypeOK
    BY DEF IInv
<1> QED BY <1>1, Invariance, PTL

LEMMA Rest ==
    ASSUME AtRest PROVE Cardinality(Increments) = 0 /\ Cardinality(Decrements) = 0
<1>1. Increments = {} /\ Decrements = {}
    BY DEF AtRest, Increments, Decrements
<1> QED BY <1>1, FS_EmptySet

\* Without failures and early deletions the counter does not exceed the table.
THEOREM NeverTooHighHolds == Spec => []NeverTooHigh
<1>1. IInv => NeverTooHigh
    BY Rest, Finite DEF IInv, High, NeverTooHigh, TypeOK
<1> QED BY <1>1, Invariance, PTL

\* Without failures, strangers and double deletions it does not fall short.
THEOREM NeverTooLowHolds == Spec => []NeverTooLow
<1>1. IInv => NeverTooLow
    BY Rest, Finite DEF IInv, Low, NeverTooLow, TypeOK
<1> QED BY <1>1, Invariance, PTL
=============================================================================
