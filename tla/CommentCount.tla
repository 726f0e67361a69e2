---------------------------- MODULE CommentCount ----------------------------
(***************************************************************************)
(* The comments of one post and its comment_count (post service,           *)
(* createcommentlogic.go, deletecommentlogic.go): a handler changes the    *)
(* comments table and then the counter of the posts table, by two          *)
(* statements outside any transaction, and handlers run concurrently.      *)
(***************************************************************************)
EXTENDS Integers, FiniteSets

CONSTANTS
    User,
    Handler,  \* goroutines serving requests
    Comment,  \* ids the table hands out: a bound of the model
    NoRow,    \* the comment is not in the table
    MaxFaults \* bound of the model: failed statements and crashes

ASSUME CommentAssumption ==
    /\ NoRow \notin User
    /\ IsFiniteSet(Comment)
    /\ IsFiniteSet(Handler)
    /\ MaxFaults \in Nat

VARIABLES
    rows,         \* rows[c]: the user_id of comment c, or NoRow
    used,         \* ids handed out
    commentCount, \* posts.comment_count
    at,           \* where each handler stands
    caller,       \* caller[h]: the user whose request h serves
    subject,      \* subject[h]: its comment
    disturbed,    \* history: what has happened: see NeverTooHigh, NeverTooLow
    faults

table == <<rows, used>>
request == <<caller, subject>>
vars == <<table, commentCount, at, request, disturbed, faults>>

Disturbances == {"fault", "stranger", "twice", "early"}

TypeOK ==
    /\ rows \in [Comment -> User \cup {NoRow}]
    /\ used \in SUBSET Comment
    /\ commentCount \in Nat
    /\ at \in [Handler -> {"idle", "increment", "delete", "decrement"}]
    /\ caller \in [Handler -> User]
    /\ subject \in [Handler -> Comment]
    /\ disturbed \in SUBSET Disturbances
    /\ faults \in 0..MaxFaults

Init ==
    /\ rows = [c \in Comment |-> NoRow]
    /\ used = {}
    /\ commentCount = 0
    /\ at = [h \in Handler |-> "idle"]
    /\ \E u \in User, c \in Comment :
        /\ caller = [h \in Handler |-> u]
        /\ subject = [h \in Handler |-> c]
    /\ disturbed = {}
    /\ faults = 0

Rows == {c \in Comment : rows[c] # NoRow}

-----------------------------------------------------------------------------
(* Faults seeded one at a time by the mutation runs.                       *)

FaultNoFloor == commentCount - 1
FaultFloorOne == IF commentCount > 1 THEN commentCount - 1 ELSE 1
FaultSkipsFind(c) == TRUE

-----------------------------------------------------------------------------
(* The two tables.                                                         *)

Incremented == commentCount + 1

\* GREATEST(comment_count - 1, 0)
Decremented == IF commentCount > 0 THEN commentCount - 1 ELSE 0

\* DELETE ... WHERE id = ? AND user_id = ?; the rows affected are not looked at.
Deleted(h) ==
    [rows EXCEPT ![subject[h]] = IF @ = caller[h] THEN NoRow ELSE @]

-----------------------------------------------------------------------------
(* CreateComment.                                                          *)

Serve(h, u, c, step) ==
    /\ at[h] = "idle"
    /\ at' = [at EXCEPT ![h] = step]
    /\ caller' = [caller EXCEPT ![h] = u]
    /\ subject' = [subject EXCEPT ![h] = c]

Finish(h) == at' = [at EXCEPT ![h] = "idle"] /\ UNCHANGED request

CreateComment(h, u, c) ==
    /\ c \notin used
    /\ Serve(h, u, c, "increment")
    /\ rows' = [rows EXCEPT ![c] = u]
    /\ used' = used \cup {c}
    /\ UNCHANGED <<commentCount, disturbed, faults>>

IncrementCommentCount(h) ==
    /\ at[h] = "increment"
    /\ commentCount' = Incremented
    /\ Finish(h)
    /\ UNCHANGED <<table, disturbed, faults>>

-----------------------------------------------------------------------------
(* DeleteComment.                                                          *)

\* FindByID; a comment that is not there is an error.
Found(c) == rows[c] # NoRow

At(c, steps) == \E h \in Handler : at[h] \in steps /\ subject[h] = c

FindComment(h, u, c) ==
    /\ c \in used /\ Found(c)
    /\ Serve(h, u, c, "delete")
    /\ disturbed' = disturbed \cup
            (IF rows[c] \notin {u, NoRow} THEN {"stranger"} ELSE {}) \cup
            (IF At(c, {"delete"}) THEN {"twice"} ELSE {}) \cup
            (IF At(c, {"increment"}) THEN {"early"} ELSE {})
    /\ UNCHANGED <<table, commentCount, faults>>

DeleteComment(h) ==
    /\ at[h] = "delete"
    /\ rows' = Deleted(h)
    /\ at' = [at EXCEPT ![h] = "decrement"]
    /\ UNCHANGED <<used, commentCount, request, disturbed, faults>>

DecrementCommentCount(h) ==
    /\ at[h] = "decrement"
    /\ commentCount' = Decremented
    /\ Finish(h)
    /\ UNCHANGED <<table, disturbed, faults>>

-----------------------------------------------------------------------------
\* A statement fails, done or not, and the handler returns the error; or the
\* process crashes.
Fail(h) ==
    /\ at[h] # "idle" /\ faults < MaxFaults
    /\ faults' = faults + 1
    /\ disturbed' = disturbed \cup {"fault"}
    /\ Finish(h)
    /\ \/ UNCHANGED <<rows, commentCount>>
       \/ at[h] = "increment" /\ commentCount' = Incremented /\ UNCHANGED rows
       \/ at[h] = "delete" /\ rows' = Deleted(h) /\ UNCHANGED commentCount
       \/ at[h] = "decrement" /\ commentCount' = Decremented /\ UNCHANGED rows
    /\ UNCHANGED used

Next ==
    \E h \in Handler :
        \/ \E u \in User, c \in Comment : CreateComment(h, u, c) \/ FindComment(h, u, c)
        \/ IncrementCommentCount(h) \/ DeleteComment(h) \/ DecrementCommentCount(h)
        \/ Fail(h)

Spec == Init /\ [][Next]_vars

-----------------------------------------------------------------------------
(* Properties.                                                             *)

AtRest == \A h \in Handler : at[h] = "idle"
Undisturbed(kinds) == disturbed \cap kinds = {}

\* The counter ends above the number of comments only after a failure, or if a
\* comment was deleted before its creation had been counted: the decrement
\* then stops at 0 and the increment comes after it.
NeverTooHigh ==
    AtRest /\ Undisturbed({"fault", "early"}) => commentCount <= Cardinality(Rows)

\* It ends below only after a failure, after somebody else tried to delete a
\* comment, or after two overlapping deletions of one comment: each decrements
\* although only one deletes the row.
NeverTooLow ==
    AtRest /\ Undisturbed({"fault", "stranger", "twice"}) =>
        Cardinality(Rows) <= commentCount
=============================================================================
