------------------------------ MODULE Gateway ------------------------------
(***************************************************************************)
(* The API gateway in front of the services, and the auth service beside   *)
(* it (Accounts): sessions, whose secret may be changed by restarting the  *)
(* replicas one after the other, and posts, which are the only requests a  *)
(* replica passes on.                                                      *)
(*                                                                         *)
(* A replica signs tokens itself (the Register and Login of the gateway    *)
(* are placeholders that call nobody) and accepts what its Secret signed.  *)
(* It looks at PrevSecret only after Secret has verified the signature and *)
(* found the token expired.  Its client of the post service is made once,  *)
(* at the start, and may be nil: then every request for a post panics and  *)
(* is answered with an error.                                              *)
(*                                                                         *)
(* The placeholders for likes, comments, follows, deletions and searches   *)
(* answer with success, call nobody and change nothing.                    *)
(***************************************************************************)
EXTENDS Accounts

CONSTANTS
    Replica,    \* replicas of the gateway
    NoSecret    \* no PrevSecret is configured

\* Secrets are numbered in the order they are introduced.  The configuration
\* of the auth service has another one.
ASSUME GatewayAssumption ==
    /\ AuthSecret \notin Int /\ NoSecret \notin Int
    /\ Nobody \notin Client \cup Replica
    /\ Limits \subseteq [clients : SUBSET Client, names : SUBSET Name,
                   replicas : SUBSET Replica, rotations : Nat, restarts : Nat,
                   faults : Nat]

VARIABLES
    secret, prev,   \* secret[g], prev[g]: Secret and PrevSecret of replica g
    conn,           \* conn[g]: PostRpc of g is not nil
    newest,         \* the Secret a replica gets that starts now
    restarts,       \* restarts of replicas so far
    up,             \* the post service answers
    via,            \* via[c]: the replica c's request went through
    rows,           \* rows[c]: posts of c in MySQL
    strays,         \* strays[c]: calls that go on after their caller gave up
    oks,            \* history: oks[c]: posts c was told he has made
    errs            \* history: errs[c]: errors c got after the call was sent

replicaVars == <<secret, prev, conn, newest, restarts>>
postVars    == <<rows, strays, oks, errs>>
gatewayVars == <<replicaVars, up, via, postVars>>
vars == <<accountVars, at, token, limits, faults, gatewayVars>>

GatewayTypeOK ==
    /\ TypeOK
    /\ newest \in 0..limits.rotations /\ restarts \in 0..limits.restarts
    /\ secret \in [Replica -> 0..newest]
    /\ prev = [g \in Replica |-> IF secret[g] = 0 THEN NoSecret ELSE secret[g] - 1]
    /\ conn \in [Replica -> BOOLEAN] /\ up \in BOOLEAN
    /\ via \in [Client -> Replica \cup {Nobody}]
    /\ \A c \in Client :
        /\ via[c] # Nobody <=> at[c] \in {"sent", "stored"}
        /\ token[c] = NoToken \/ token[c].by \in {AuthSecret} \cup 0..newest
    /\ {rows, strays, oks, errs} \subseteq [Client -> Nat]

GatewayInit ==
    /\ Init
    /\ secret = [g \in Replica |-> 0]
    /\ prev = [g \in Replica |-> NoSecret]
    /\ conn = [g \in Replica |-> TRUE]
    /\ newest = 0 /\ restarts = 0
    /\ up = TRUE
    /\ via = [c \in Client |-> Nobody]
    /\ rows = [c \in Client |-> 0] /\ strays = [c \in Client |-> 0]
    /\ oks = [c \in Client |-> 0] /\ errs = [c \in Client |-> 0]

Plus(f, c) == [f EXCEPT ![c] = @ + 1]

----------------------------------------------------------------------------
(* Sessions. *)

Signed(g) == Token(secret[g])

\* Mutant: a replica signs with PrevSecret as long as there is one.
FaultSignsWithPrev(c, g) ==
    /\ at[c] = "idle" /\ c \in limits.clients /\ g \in limits.replicas
    /\ Holds(c, Token(IF prev[g] = NoSecret THEN secret[g] ELSE prev[g]))
    /\ UNCHANGED <<accountVars, at, limits, faults, gatewayVars>>
\* Register and Login of the gateway.
Enter(c, g) ==
    /\ at[c] = "idle" /\ c \in limits.clients /\ g \in limits.replicas
    /\ Holds(c, Signed(g))
    /\ UNCHANGED <<accountVars, at, limits, faults, gatewayVars>>

\* A wrong signature hides an expired token: the error names the signature.
Parse(tok, s) ==
    IF tok.by # s THEN "signature is invalid"
    ELSE IF tok.expired THEN "token is expired" ELSE "ok"

\* Mutant: PrevSecret is tried on every token that Secret does not verify.
FaultTriesPrev(g, tok) ==
    \/ Parse(tok, secret[g]) = "ok"
    \/ prev[g] # NoSecret /\ Parse(tok, prev[g]) = "ok"
Accepts(g, tok) ==
    \/ Parse(tok, secret[g]) = "ok"
    \/ /\ Parse(tok, secret[g]) = "token is expired"
       /\ prev[g] # NoSecret
       /\ Parse(tok, prev[g]) = "ok"

\* A replica refuses the token; its client throws it away.
Refuse(c, g) ==
    /\ at[c] = "idle" /\ g \in limits.replicas
    /\ token[c] # NoToken /\ ~Accepts(g, token[c])
    /\ Holds(c, NoToken)
    /\ UNCHANGED <<accountVars, at, limits, faults, gatewayVars>>

Expire(c) ==
    /\ token[c] # NoToken
    /\ Fault
    /\ token' = [token EXCEPT ![c].expired = TRUE]
    /\ UNCHANGED <<accountVars, at, limits, gatewayVars>>

----------------------------------------------------------------------------
(* Posts. *)

Ends(c) == Goes(c, "idle") /\ via' = [via EXCEPT ![c] = Nobody]

\* A client without a post sends one, through a replica that lets him and has
\* a client; to a post service that is down there is no call.
CreatePost(c, g) ==
    /\ at[c] = "idle" /\ oks[c] = 0 /\ g \in limits.replicas
    /\ token[c] # NoToken /\ Accepts(g, token[c])
    /\ conn[g] /\ up
    /\ Goes(c, "sent") /\ via' = [via EXCEPT ![c] = g]
    /\ UNCHANGED <<accountVars, token, limits, faults, replicaVars, up, postVars>>

Store(c) ==
    /\ at[c] = "sent"
    /\ Goes(c, "stored") /\ rows' = Plus(rows, c)
    /\ UNCHANGED <<accountVars, token, limits, faults, replicaVars, up, via,
                   strays, oks, errs>>

Reply(c) ==
    /\ at[c] = "stored"
    /\ Ends(c) /\ oks' = Plus(oks, c)
    /\ UNCHANGED <<accountVars, token, limits, faults, replicaVars, up, rows,
                   strays, errs>>

\* Mutant: the client of the post service sends the call again.
FaultSendsAgain(c) ==
    /\ at[c] \in {"sent", "stored"}
    /\ Fault
    /\ Goes(c, "sent")
    /\ UNCHANGED <<accountVars, token, limits, replicaVars, up, via, postVars>>
\* Somebody on the way gives up waiting (the timeouts of the post service, of
\* the RPC client, of the gateway).  What has been sent may go on.
GiveUp(c) ==
    /\ at[c] \in {"sent", "stored"}
    /\ Fault
    /\ Ends(c) /\ errs' = Plus(errs, c)
    /\ \/ at[c] = "sent" /\ strays' = Plus(strays, c)
       \/ UNCHANGED strays
    /\ UNCHANGED <<accountVars, token, limits, replicaVars, up, rows, oks>>

StrayStores(c) ==
    /\ strays[c] > 0
    /\ strays' = [strays EXCEPT ![c] = @ - 1] /\ rows' = Plus(rows, c)
    /\ UNCHANGED <<accountVars, at, token, limits, faults, replicaVars, up, via,
                   oks, errs>>

----------------------------------------------------------------------------
(* Processes that stop and start. *)

\* The requests of the clients C end in errors.
Breaks(C) ==
    /\ at' = [c \in Client |-> IF c \in C THEN "idle" ELSE at[c]]
    /\ via' = [c \in Client |-> IF c \in C THEN Nobody ELSE via[c]]
    /\ errs' = [c \in Client |-> IF c \in C THEN errs[c] + 1 ELSE errs[c]]

PostGoesDown ==
    /\ up /\ Fault
    /\ up' = FALSE
    /\ Breaks({c \in Client : via[c] # Nobody})
    /\ strays' = [c \in Client |-> 0]
    /\ UNCHANGED <<accountVars, token, limits, replicaVars, rows, oks>>

PostComesUp ==
    /\ ~up /\ up' = TRUE
    /\ UNCHANGED <<accountVars, at, token, limits, faults, replicaVars, via,
                   postVars>>

Rotate ==
    /\ newest < limits.rotations /\ newest' = newest + 1
    /\ UNCHANGED <<accountVars, at, token, limits, faults, secret, prev, conn,
                   restarts, up, via, postVars>>

\* Mutant: the new configuration keeps the PrevSecret of the old one.
FaultKeepsPrev(g) ==
    /\ restarts < limits.restarts /\ g \in limits.replicas
    /\ restarts' = restarts + 1
    /\ secret' = [secret EXCEPT ![g] = newest]
    /\ conn' = [conn EXCEPT ![g] = up]
    /\ Breaks({c \in Client : via[c] = g})
    /\ UNCHANGED <<accountVars, token, limits, faults, prev, newest, up, rows,
                   strays, oks>>
\* NewServiceContext: whether the client can be made while the post service is
\* down depends on how it dials.  Calls of the old process go on without it.
RestartReplica(g) ==
    /\ restarts < limits.restarts /\ g \in limits.replicas
    /\ restarts' = restarts + 1
    /\ secret' = [secret EXCEPT ![g] = newest]
    /\ prev' = [prev EXCEPT ![g] = IF newest = 0 THEN NoSecret ELSE newest - 1]
    /\ \E made \in BOOLEAN : (up => made) /\ conn' = [conn EXCEPT ![g] = made]
    /\ Breaks({c \in Client : via[c] = g})
    /\ strays' = [c \in Client |-> IF via[c] = g /\ at[c] = "sent"
                                   THEN strays[c] + 1 ELSE strays[c]]
    /\ UNCHANGED <<accountVars, token, limits, faults, newest, up, rows, oks>>

----------------------------------------------------------------------------

GatewayNext ==
    \/ \E c \in Client :
        \/ AccountStep(c) /\ UNCHANGED gatewayVars
        \/ Expire(c) \/ Store(c) \/ Reply(c) \/ GiveUp(c) \/ StrayStores(c)
        \/ \E g \in Replica : Enter(c, g) \/ Refuse(c, g) \/ CreatePost(c, g)
    \/ \E g \in Replica : RestartReplica(g)
    \/ PostGoesDown \/ PostComesUp \/ Rotate

Spec == GatewayInit /\ [][GatewayNext]_vars

\* A client asks again until he has his post, at replicas a load balancer
\* picks at random, and logs in again at any of them; calls end, and the post
\* service comes back.
FairSpec ==
    /\ Spec
    /\ WF_vars(PostComesUp)
    /\ \A c \in Client :
        /\ WF_vars(Store(c)) /\ WF_vars(Reply(c))
        /\ WF_vars((Insert(c) \/ Answer(c)) /\ UNCHANGED gatewayVars)
        /\ \A g \in Replica : SF_vars(Enter(c, g)) /\ SF_vars(CreatePost(c, g))

----------------------------------------------------------------------------
(* Properties. *)

\* A client has at least the posts he was told of, and every other one, stored
\* or still to come, stands for an error he got after his call was sent: only
\* whoever asks again after such an error ends up with two.
PostsMatchAnswers ==
    \A c \in Client :
        LET stored == IF at[c] = "stored" THEN 1 ELSE 0 IN
        /\ oks[c] + stored <= rows[c]
        /\ rows[c] + strays[c] <= oks[c] + errs[c] + stored

\* A request gets to the post service only on a token that the present Secret
\* of the replica signed and that has not expired: PrevSecret never helps, so a
\* new Secret ends every session, and a token of the auth service starts none.
OnlyCurrentSessions ==
    [][\A c \in Client : at[c] # "sent" /\ at'[c] = "sent" =>
            token[c] = Signed(via'[c])]_vars

\* Whoever keeps asking gets his post in the end, whatever expires, restarts,
\* times out or gets a new secret, unless every replica was started while the
\* post service was down and has no client.
ServedInTheEnd ==
    \A c \in Client : c \in limits.clients =>
        <>(oks[c] > 0) \/ <>[](\A g \in limits.replicas : ~conn[g])
=============================================================================
