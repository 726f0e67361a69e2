------------------------------ MODULE IdSource ------------------------------
(***************************************************************************)
(* What the services rely on when they number posts, comments and likes,   *)
(* without time, fields or sequence: a source gives out numbers that grow, *)
(* and that no source of another node gives out.  Who begins anew may      *)
(* forget what it gave; a source in doubt may have to give it again.       *)
(* Snowflake implements it.                                                *)
(***************************************************************************)
EXTENDS Integers

CONSTANTS
    Source,
    Node,      \* Node[s]: whose numbers s gives out
    Number

VARIABLES
    last,      \* last[s]: what s gave last since it began, 0 if nothing
    given,     \* given[s]: all that it ever gave
    doubtful   \* sources that may not know what they gave

vars == <<last, given, doubtful>>

Init ==
    /\ last = [s \in Source |-> 0]
    /\ given = [s \in Source |-> {}]
    /\ doubtful = {}

Give(s, n) ==
    /\ n > last[s]
    /\ s \notin doubtful => \A m \in given[s] : n > m
    /\ \A t \in Source : Node[t] # Node[s] => n \notin given[t]
    /\ last' = [last EXCEPT ![s] = n]
    /\ given' = [given EXCEPT ![s] = @ \cup {n}]
    /\ UNCHANGED doubtful

Doubt(s) == doubtful' = doubtful \cup {s} /\ UNCHANGED <<last, given>>

Begin(s) ==
    /\ last' = [last EXCEPT ![s] = 0]
    /\ doubtful' = doubtful \/ doubtful' = doubtful \cup {s}
    /\ UNCHANGED given

Next == \E s \in Source : Doubt(s) \/ Begin(s) \/ \E n \in Number : Give(s, n)

Spec == Init /\ [][Next]_vars
=============================================================================
