------------------------------ MODULE LeaseLock ------------------------------
(***************************************************************************)
(* What a lock with a lease promises, whatever it is made of: taking it is *)
(* one atomic step that needs it free; its lease may run out under its     *)
(* owner, who does not notice; giving it back frees it for nobody but the  *)
(* owner.  CacheLoader implements it with two Lua scripts and a TTL, the   *)
(* holder's stamp standing for the holder.                                 *)
(***************************************************************************)
CONSTANTS
    Holder,   \* who may hold the lock
    Free      \* nobody does

VARIABLES
    owner,    \* whose lease is running, or Free
    inside,   \* those who work in the section the lock protects
    expired   \* those of them who have lost their lease

vars == <<owner, inside, expired>>

Init == owner = Free /\ inside = {} /\ expired = {}

Enter(h) ==
    /\ owner = Free /\ h \notin inside
    /\ owner' = h
    /\ inside' = inside \cup {h}
    /\ UNCHANGED expired

\* The lock is taken by somebody who is never told so.
Strand(h) ==
    /\ owner = Free /\ h \notin inside
    /\ owner' = h
    /\ UNCHANGED <<inside, expired>>

\* Leaving gives the lock back, unless that fails: the lease must then end it.
Leave(h) ==
    /\ h \in inside
    /\ inside' = inside \ {h}
    /\ expired' = expired \ {h}
    /\ \/ owner' = IF owner = h THEN Free ELSE owner
       \/ UNCHANGED owner

Expire ==
    /\ owner # Free
    /\ owner' = Free
    /\ expired' = expired \cup ({owner} \cap inside)
    /\ UNCHANGED inside

Next == Expire \/ \E h \in Holder : Enter(h) \/ Strand(h) \/ Leave(h)

Spec == Init /\ [][Next]_vars
=============================================================================
