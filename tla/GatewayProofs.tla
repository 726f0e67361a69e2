---------------------------- MODULE GatewayProofs ----------------------------
(***************************************************************************)
(* Theorems about the gateway and the auth service, for any clients,       *)
(* names, replicas, secrets, restarts and failures: types, whom a name     *)
(* belongs to, how the posts of a client relate to the answers he got, and *)
(* which tokens start a request.                                           *)
(***************************************************************************)
EXTENDS Gateway, TLAPS

\* Every token was signed by the auth service or with a secret that exists.
Tokens == [by : {AuthSecret} \cup 0..newest, expired : BOOLEAN]
TokensKnown == token \in [Client -> {NoToken} \cup Tokens]

\* The handler that inserted a row and has not answered yet inserted its own.
CreatedIsOwned == \A c \in Client : at[c] = "created" => owner[about[c]] = c

\* The posts of one client against his answers.
Stored(c) == IF at[c] = "stored" THEN 1 ELSE 0
Balanced(c) ==
    /\ oks[c] + Stored(c) <= rows[c]
    /\ rows[c] + strays[c] <= oks[c] + errs[c] + Stored(c)

SessionInv == GatewayTypeOK /\ TokensKnown
IInv == SessionInv /\ CreatedIsOwned /\ AccountIsKnown /\ PostsMatchAnswers

-----------------------------------------------------------------------------
(* Operators.                                                              *)

\* A fault stays within the faults of the behaviour.
LEMMA FaultFacts ==
    ASSUME TypeOK, limits' = limits, Fault \/ UNCHANGED faults
    PROVE  faults' \in 0..limits'.faults
<1>1. limits \in Limits /\ limits.faults \in Nat
    BY GatewayAssumption DEF TypeOK
<1> QED BY <1>1 DEF TypeOK, Fault

\* A counter of posts stays one.
LEMMA PlusFacts ==
    ASSUME NEW f \in [Client -> Nat], NEW c \in Client
    PROVE  /\ Plus(f, c) \in [Client -> Nat]
           /\ Plus(f, c)[c] = f[c] + 1
           /\ \A d \in Client : d # c => Plus(f, c)[d] = f[d]
BY DEF Plus

LEMMA Balances == PostsMatchAnswers <=> \A c \in Client : Balanced(c)
BY DEF PostsMatchAnswers, Balanced, Stored

\* The secret before the present one is another, or none.
LEMMA PrevIsOther ==
    ASSUME GatewayTypeOK, NEW g \in Replica
    PROVE  secret[g] \in Nat /\ prev[g] # secret[g]
BY GatewayAssumption DEF GatewayTypeOK

\* A replica accepts its own, unexpired signature only: the branch of
\* PrevSecret asks one token for two signatures.
LEMMA AcceptsOnlySigned ==
    ASSUME SessionInv, NEW c \in Client, NEW g \in Replica,
           token[c] # NoToken, Accepts(g, token[c])
    PROVE  token[c] = Signed(g)
<1>1. token[c] \in Tokens
    BY DEF SessionInv, TokensKnown
<1>2. Parse(token[c], secret[g]) = "ok"
    BY PrevIsOther DEF SessionInv, Accepts, Parse
<1>3. token[c].by = secret[g] /\ token[c].expired = FALSE
    BY <1>1, <1>2 DEF Parse, Tokens
<1> QED BY <1>1, <1>3 DEF Signed, Token, Tokens

\* Whose requests break keeps nothing of them but an error.
LEMMA BreaksFacts ==
    ASSUME GatewayTypeOK, NEW C \in SUBSET Client, Breaks(C),
           \A c \in C : via[c] # Nobody
    PROVE  /\ at' \in [Client -> Places]
           /\ via' \in [Client -> Replica \cup {Nobody}]
           /\ errs' \in [Client -> Nat]
           /\ \A c \in Client :
                /\ via'[c] # Nobody <=> at'[c] \in {"sent", "stored"}
                /\ at'[c] \in {"insert", "created"} <=> at[c] \in {"insert", "created"}
                /\ at'[c] = "created" <=> at[c] = "created"
                /\ at'[c] \in {"sent", "stored"} => at'[c] = at[c]
                /\ IF c \in C THEN at'[c] = "idle" /\ errs'[c] = errs[c] + 1
                              ELSE at'[c] = at[c] /\ errs'[c] = errs[c]
<1>1. /\ at \in [Client -> Places] /\ errs \in [Client -> Nat]
      /\ \A c \in Client : via[c] # Nobody <=> at[c] \in {"sent", "stored"}
      /\ via \in [Client -> Replica \cup {Nobody}]
    BY DEF GatewayTypeOK, TypeOK
<1> QED BY <1>1 DEF Breaks, Places

-----------------------------------------------------------------------------
(* The inductive invariant, step by step.                                  *)

LEMMA InitInv == GatewayInit => IInv
<1>1. SUFFICES ASSUME GatewayInit PROVE IInv
    OBVIOUS
<1> USE <1>1, GatewayAssumption DEF GatewayInit, Init
<1>2. GatewayTypeOK
  <2>1. limits \in Limits /\ limits.rotations \in Nat /\ limits.restarts \in Nat /\ limits.faults \in Nat
      OBVIOUS
  <2> QED BY <2>1 DEF GatewayTypeOK, TypeOK, Places
<1>3. CreatedIsOwned /\ AccountIsKnown /\ TokensKnown
    BY DEF CreatedIsOwned, AccountIsKnown, TokensKnown
<1>4. PostsMatchAnswers
    BY DEF PostsMatchAnswers
<1> QED BY <1>2, <1>3, <1>4 DEF IInv, SessionInv

\* The steps of Register and Login in the auth service.
LEMMA AccountInv ==
    ASSUME IInv, NEW c \in Client, AccountStep(c), UNCHANGED gatewayVars
    PROVE  IInv'
<1> USE DEF IInv, SessionInv
<1>0. UNCHANGED <<limits, secret, prev, conn, newest, restarts, up, via, rows, strays, oks, errs>>
    BY DEF AccountStep, Register, Insert, Answer, NoAnswer, Login, gatewayVars,
           replicaVars, postVars
<1>1. /\ at \in [Client -> Places]
      /\ about \in [Client -> Name \cup {Nobody}]
      /\ owner \in [Name -> Client \cup {Nobody}]
      /\ \A d \in Client : at[d] \in {"insert", "created"} => about[d] \in Name
      /\ acked \in [Client -> SUBSET Name] /\ open \in [Client -> SUBSET Name]
      /\ Nobody \notin Client
    BY GatewayAssumption DEF GatewayTypeOK, TypeOK
<1>2. /\ at' \in [Client -> Places]
      /\ at[c] \in {"idle", "insert", "created"} /\ at'[c] \in {"idle", "insert", "created"}
      /\ \A d \in Client : d # c => at'[d] = at[d]
    BY <1>1 DEF AccountStep, Register, Insert, Answer, NoAnswer, Login, Goes,
               Places, accountVars
<1>3. TokensKnown'
  <2>1. CASE UNCHANGED token
      BY <1>0, <2>1 DEF TokensKnown, Tokens
  <2>2. CASE Holds(c, Token(AuthSecret))
      BY <1>0, <2>2 DEF TokensKnown, Tokens, Holds, Token
  <2> QED BY <2>1, <2>2 DEF AccountStep, Register, Insert, Answer, NoAnswer, Login
<1>4. TypeOK'
  <2>1. faults' \in 0..limits'.faults
      BY <1>0, FaultFacts DEF AccountStep, Register, Insert, Answer, NoAnswer,
            Login, GatewayTypeOK
  <2> USE <1>0, <1>1, <1>2, <2>1 DEF GatewayTypeOK, TypeOK, Goes
  <2>2. ASSUME NEW n \in Name, Register(c, n) PROVE TypeOK'
      BY <2>2 DEF Register
  <2>3. CASE Insert(c)
      BY <2>3 DEF Insert, Owns
  <2>4. CASE Answer(c)
      BY <2>4 DEF Answer
  <2>5. CASE NoAnswer(c)
      BY <2>5 DEF NoAnswer, Owns
  <2>6. ASSUME NEW n \in Name, Login(c, n) PROVE TypeOK'
      BY <2>6 DEF Login, accountVars
  <2> QED BY <2>2, <2>3, <2>4, <2>5, <2>6 DEF AccountStep
<1>5. GatewayTypeOK'
  <2>1. \A d \in Client :
            /\ via'[d] # Nobody <=> at'[d] \in {"sent", "stored"}
            /\ token'[d] = NoToken \/ token'[d].by \in {AuthSecret} \cup 0..newest'
      BY <1>0, <1>2, <1>3 DEF GatewayTypeOK, TokensKnown, Tokens
  <2> QED BY <1>0, <1>4, <2>1 DEF GatewayTypeOK
<1>6. CreatedIsOwned' /\ AccountIsKnown'
  <2> USE <1>1, <1>2 DEF CreatedIsOwned, AccountIsKnown, Goes
  <2>1. ASSUME NEW n \in Name, Register(c, n) PROVE CreatedIsOwned' /\ AccountIsKnown'
      BY <2>1 DEF Register
  <2>2. CASE Insert(c)
    <3>1. CASE owner[about[c]] # Nobody /\ UNCHANGED owner /\ Goes(c, "idle")
      <4>1. \A d \in Client : at'[d] = "created" => d # c /\ at[d] = "created"
          BY <2>2, <3>1
      <4>2. at[c] = "insert" /\ UNCHANGED <<owner, about, acked, open>>
          BY <2>2, <3>1 DEF Insert
      <4> QED BY <2>2, <4>1, <4>2
    <3>2. CASE owner[about[c]] = Nobody /\ Owns(c, about[c])
      <4>1. \A n \in Name : owner'[n] = IF n = about[c] THEN c ELSE owner[n]
          BY <2>2, <3>2 DEF Insert, Owns
      <4>2. at[c] = "insert" /\ at'[c] = "created" /\ UNCHANGED <<about, acked, open>>
          BY <2>2, <3>2 DEF Insert
      <4>3. ASSUME NEW d \in Client, at'[d] = "created" PROVE owner'[about'[d]] = d
        <5>1. CASE d = c
            BY <2>2, <4>1, <4>2, <5>1
        <5>2. CASE d # c
            BY <3>2, <4>1, <4>2, <4>3, <5>2
        <5> QED BY <5>1, <5>2
      <4>4. \A d \in Client, n \in Name : n \in acked[d] => owner'[n] = d
          BY <3>2, <4>1, <4>2
      <4> QED BY <3>2, <4>1, <4>2, <4>3, <4>4
    <3> QED BY <2>2, <3>1, <3>2 DEF Insert
  <2>3. CASE Answer(c)
      BY <2>3 DEF Answer
  <2>4. CASE NoAnswer(c)
    <3>1. /\ at[c] \in {"insert", "created"} /\ at'[c] = "idle"
          /\ UNCHANGED <<about, acked>>
          /\ \A d \in Client : open[d] \subseteq open'[d]
          /\ about[c] \in open'[c]
        BY <2>4 DEF NoAnswer
    <3>2. CASE UNCHANGED owner
      <4>1. \A d \in Client : at'[d] = "created" => owner'[about'[d]] = d
          BY <3>1, <3>2
      <4> QED BY <3>1, <3>2, <4>1
    <3>3. CASE owner[about[c]] = Nobody /\ Owns(c, about[c])
      <4>1. \A n \in Name : owner'[n] = IF n = about[c] THEN c ELSE owner[n]
          BY <3>1, <3>3 DEF Owns
      <4>2. \A d \in Client : at'[d] = "created" => owner'[about'[d]] = d
          BY <3>1, <3>3, <4>1 DEF GatewayTypeOK, TypeOK
      <4>3. \A d \in Client, n \in Name : n \in acked[d] => owner'[n] = d
          BY <3>3, <4>1
      <4> QED BY <3>1, <3>3, <4>1, <4>2, <4>3
    <3> QED BY <2>4, <3>2, <3>3 DEF NoAnswer
  <2>5. ASSUME NEW n \in Name, Login(c, n) PROVE CreatedIsOwned' /\ AccountIsKnown'
      BY <2>5 DEF Login, accountVars
  <2> QED BY <2>1, <2>2, <2>3, <2>4, <2>5 DEF AccountStep
<1>7. PostsMatchAnswers'
    BY <1>0, <1>2 DEF PostsMatchAnswers
<1> QED BY <1>3, <1>5, <1>6, <1>7

\* Tokens come and go without any request.
LEMMA SessionStepInv ==
    ASSUME IInv, NEW c \in Client,
           Expire(c) \/ \E g \in Replica : Enter(c, g) \/ Refuse(c, g)
    PROVE  IInv'
<1> USE DEF IInv, SessionInv
<1>0. UNCHANGED <<owner, about, acked, open, at, limits, secret, prev, conn,
                  newest, restarts, up, via, rows, strays, oks, errs>>
    BY DEF Expire, Enter, Refuse, accountVars, gatewayVars, replicaVars, postVars
<1>1. TokensKnown'
  <2>1. CASE Expire(c)
    <3>1. token[c] \in Tokens
        BY <2>1 DEF Expire, TokensKnown
    <3>2. [token[c] EXCEPT !.expired = TRUE] \in Tokens
        BY <3>1 DEF Tokens
    <3> QED BY <1>0, <2>1, <3>2 DEF Expire, TokensKnown, Tokens
  <2>2. ASSUME NEW g \in Replica, Enter(c, g) PROVE TokensKnown'
    <3>1. Signed(g) \in Tokens
        BY DEF Signed, Token, Tokens, GatewayTypeOK
    <3> QED BY <1>0, <2>2, <3>1 DEF Enter, Holds, TokensKnown, Tokens
  <2>3. ASSUME NEW g \in Replica, Refuse(c, g) PROVE TokensKnown'
      BY <1>0, <2>3 DEF Refuse, Holds, TokensKnown, Tokens
  <2> QED BY <2>1, <2>2, <2>3
<1>2. GatewayTypeOK'
  <2>1. faults' \in 0..limits'.faults
      BY <1>0, FaultFacts DEF Expire, Enter, Refuse, GatewayTypeOK
  <2>2. \A d \in Client : token'[d] = NoToken \/ token'[d].by \in {AuthSecret} \cup 0..newest'
      BY <1>1 DEF TokensKnown, Tokens
  <2> QED BY <1>0, <2>1, <2>2 DEF GatewayTypeOK, TypeOK
<1>3. CreatedIsOwned' /\ AccountIsKnown' /\ PostsMatchAnswers'
    BY <1>0 DEF CreatedIsOwned, AccountIsKnown, PostsMatchAnswers
<1> QED BY <1>1, <1>2, <1>3

\* What no request for a post and no restart touches.
Untouched == UNCHANGED <<accountVars, limits>>

\* A step that leaves names, answers of the auth service and tokens alone,
\* whose secrets only get newer and whose requests are typed, keeps the types
\* and the names.
LEMMA Framed ==
    ASSUME IInv, Untouched, UNCHANGED token, newest <= newest', newest' \in Nat,
           at' \in [Client -> Places],
           \A c \in Client :
                /\ at'[c] = "created" <=> at[c] = "created"
                /\ at'[c] \in {"insert", "created"} => at[c] \in {"insert", "created"},
           Fault \/ UNCHANGED faults
    PROVE  /\ TypeOK' /\ TokensKnown' /\ CreatedIsOwned' /\ AccountIsKnown'
           /\ \A c \in Client :
                token'[c] = NoToken \/ token'[c].by \in {AuthSecret} \cup 0..newest'
<1> USE DEF IInv, SessionInv, Untouched, accountVars
<1>1. faults' \in 0..limits'.faults
    BY FaultFacts DEF GatewayTypeOK
<1>2. TypeOK'
    BY <1>1 DEF GatewayTypeOK, TypeOK
<1>3. newest \in Int
    BY DEF GatewayTypeOK
<1>4. Tokens \subseteq Tokens'
    BY <1>3 DEF Tokens
<1>5. TokensKnown'
    BY <1>4 DEF TokensKnown
<1>6. CreatedIsOwned' /\ AccountIsKnown'
    BY DEF CreatedIsOwned, AccountIsKnown
<1>7. \A c \in Client : token'[c] = NoToken \/ token'[c].by \in {AuthSecret} \cup 0..newest'
    BY <1>5 DEF TokensKnown, Tokens
<1> QED BY <1>2, <1>5, <1>6, <1>7

\* The steps of one request for a post.
PostStep(c) ==
    \/ Store(c) \/ Reply(c) \/ GiveUp(c) \/ StrayStores(c)
    \/ \E g \in Replica : CreatePost(c, g)

LEMMA PostInv ==
    ASSUME IInv, NEW c \in Client, PostStep(c)
    PROVE  IInv'
<1> USE DEF IInv, SessionInv, PostStep
<1>0. /\ at \in [Client -> Places] /\ via \in [Client -> Replica \cup {Nobody}]
      /\ \A d \in Client : via[d] # Nobody <=> at[d] \in {"sent", "stored"}
      /\ rows \in [Client -> Nat] /\ strays \in [Client -> Nat]
      /\ oks \in [Client -> Nat] /\ errs \in [Client -> Nat]
      /\ newest \in Nat /\ Nobody \notin Client \cup Replica
    BY GatewayAssumption DEF GatewayTypeOK, TypeOK
<1>1. /\ Untouched /\ UNCHANGED <<token, replicaVars, up>>
      /\ Fault \/ UNCHANGED faults
    BY DEF Store, Reply, GiveUp, StrayStores, CreatePost, Untouched
<1>2. /\ at' \in [Client -> Places] /\ via' \in [Client -> Replica \cup {Nobody}]
      /\ \A d \in Client : d # c => at'[d] = at[d] /\ via'[d] = via[d]
      /\ at'[c] = at[c] \/ {at[c], at'[c]} \subseteq {"idle", "sent", "stored"}
    BY <1>0 DEF Store, Reply, GiveUp, StrayStores, CreatePost, Ends, Goes, Places
<1>3. \A d \in Client : at'[d] \in {"insert", "created"} \/ at[d] \in {"insert", "created"}
            => at'[d] = at[d]
    BY <1>2
<1>4. via'[c] # Nobody <=> at'[c] \in {"sent", "stored"}
  <2>1. ASSUME NEW g \in Replica, CreatePost(c, g)
        PROVE  via'[c] # Nobody <=> at'[c] \in {"sent", "stored"}
      BY <1>0, <2>1 DEF CreatePost, Goes
  <2>2. CASE Store(c) \/ Reply(c) \/ GiveUp(c) \/ StrayStores(c)
      BY <1>0, <2>2 DEF Store, Reply, GiveUp, StrayStores, Ends, Goes
  <2> QED BY <2>1, <2>2
<1>5. /\ {rows, strays, oks, errs}' \subseteq [Client -> Nat]
      /\ \A d \in Client : d # c =>
            rows'[d] = rows[d] /\ strays'[d] = strays[d] /\ oks'[d] = oks[d] /\ errs'[d] = errs[d]
  <2> USE <1>0, PlusFacts
  <2>1. CASE \E g \in Replica : CreatePost(c, g)
      BY <2>1 DEF CreatePost, postVars
  <2>2. CASE Store(c)
      BY <2>2 DEF Store
  <2>3. CASE Reply(c)
      BY <2>3 DEF Reply
  <2>4. CASE GiveUp(c)
    <3>1. strays' = Plus(strays, c) \/ UNCHANGED strays
        BY <2>4 DEF GiveUp
    <3>2. errs' = Plus(errs, c) /\ UNCHANGED <<rows, oks>>
        BY <2>4 DEF GiveUp
    <3> QED BY <3>1, <3>2
  <2>5. CASE StrayStores(c)
      BY <2>5 DEF StrayStores
  <2> QED BY <2>1, <2>2, <2>3, <2>4, <2>5
<1>6. Balanced(c)'
  <2>0. Balanced(c)
      BY Balances
  <2> USE <1>0, <2>0, PlusFacts DEF Balanced, Stored, Ends, Goes
  <2>1. ASSUME NEW g \in Replica, CreatePost(c, g) PROVE Balanced(c)'
      BY <2>1 DEF CreatePost, postVars
  <2>2. CASE Store(c)
      BY <2>2 DEF Store
  <2>3. CASE Reply(c)
      BY <2>3 DEF Reply
  <2>4. CASE GiveUp(c)
    <3>1. /\ at[c] \in {"sent", "stored"} /\ at'[c] = "idle"
          /\ errs'[c] = errs[c] + 1 /\ UNCHANGED <<rows, oks>>
        BY <2>4 DEF GiveUp
    <3>2. (at[c] = "sent" /\ strays'[c] = strays[c] + 1) \/ UNCHANGED strays
        BY <2>4 DEF GiveUp
    <3> QED BY <3>1, <3>2
  <2>5. CASE StrayStores(c)
      BY <2>5 DEF StrayStores
  <2> QED BY <2>1, <2>2, <2>3, <2>4, <2>5
<1>7. \A d \in Client : d # c => Balanced(d)'
    BY <1>2, <1>5, Balances DEF Balanced, Stored
<1>8. PostsMatchAnswers'
    BY <1>6, <1>7 DEF PostsMatchAnswers, Balanced, Stored
<1>9. newest <= newest' /\ newest' \in Nat
    BY <1>0, <1>1 DEF replicaVars
<1>10. /\ TypeOK' /\ TokensKnown' /\ CreatedIsOwned' /\ AccountIsKnown'
      /\ \A d \in Client :
            token'[d] = NoToken \/ token'[d].by \in {AuthSecret} \cup 0..newest'
    BY <1>1, <1>2, <1>3, <1>9, Framed
<1>11. GatewayTypeOK'
    BY <1>0, <1>1, <1>2, <1>4, <1>5, <1>10
       DEF GatewayTypeOK, replicaVars, Untouched
<1> QED BY <1>8, <1>10, <1>11

\* The post service goes down, or a replica of the gateway restarts.
LEMMA BreakInv ==
    ASSUME IInv, PostGoesDown \/ \E g \in Replica : RestartReplica(g)
    PROVE  IInv'
<1> USE DEF IInv, SessionInv
<1>0. /\ at \in [Client -> Places] /\ rows \in [Client -> Nat]
      /\ strays \in [Client -> Nat] /\ oks \in [Client -> Nat] /\ errs \in [Client -> Nat]
      /\ newest \in Nat /\ Nobody \notin Client \cup Replica
      /\ \A c \in Client : via[c] # Nobody <=> at[c] \in {"sent", "stored"}
    BY GatewayAssumption DEF GatewayTypeOK, TypeOK
<1>1. /\ Untouched /\ UNCHANGED <<token, newest, rows, oks>>
      /\ Fault \/ UNCHANGED faults
    BY DEF PostGoesDown, RestartReplica, Untouched, replicaVars
<1>2. PICK C \in SUBSET Client :
        /\ Breaks(C) /\ \A c \in C : via[c] # Nobody
        /\ strays' \in [Client -> Nat]
        /\ \A c \in Client :
                \/ strays'[c] <= strays[c]
                \/ c \in C /\ at[c] = "sent" /\ strays'[c] = strays[c] + 1
  <2>1. CASE PostGoesDown
    <3>1. strays' = [c \in Client |-> 0]
        BY <2>1 DEF PostGoesDown
    <3>2. {c \in Client : via[c] # Nobody} \in SUBSET Client
        OBVIOUS
    <3> QED BY <1>0, <2>1, <3>1, <3>2 DEF PostGoesDown
  <2>2. ASSUME NEW g \in Replica, RestartReplica(g)
        PROVE  \E C \in SUBSET Client :
                    /\ Breaks(C) /\ \A c \in C : via[c] # Nobody
                    /\ strays' \in [Client -> Nat]
                    /\ \A c \in Client :
                        \/ strays'[c] <= strays[c]
                        \/ c \in C /\ at[c] = "sent" /\ strays'[c] = strays[c] + 1
    <3> DEFINE C == {c \in Client : via[c] = g}
    <3>1. C \in SUBSET Client /\ Breaks(C) /\ \A c \in C : via[c] # Nobody
        BY <1>0, <2>2 DEF RestartReplica
    <3>2. strays' = [c \in Client |-> IF via[c] = g /\ at[c] = "sent"
                                      THEN strays[c] + 1 ELSE strays[c]]
        BY <2>2 DEF RestartReplica
    <3>3. strays' \in [Client -> Nat]
        BY <1>0, <3>2
    <3>4. \A c \in Client :
            \/ strays'[c] <= strays[c]
            \/ c \in C /\ at[c] = "sent" /\ strays'[c] = strays[c] + 1
        BY <1>0, <3>2
    <3> QED BY <3>1, <3>3, <3>4
  <2> QED BY <2>1, <2>2
<1>3. /\ at' \in [Client -> Places] /\ via' \in [Client -> Replica \cup {Nobody}]
      /\ errs' \in [Client -> Nat]
      /\ \A c \in Client :
            /\ via'[c] # Nobody <=> at'[c] \in {"sent", "stored"}
            /\ at'[c] \in {"insert", "created"} <=> at[c] \in {"insert", "created"}
            /\ at'[c] = "created" <=> at[c] = "created"
            /\ IF c \in C THEN at'[c] = "idle" /\ errs'[c] = errs[c] + 1
                          ELSE at'[c] = at[c] /\ errs'[c] = errs[c]
    BY <1>2, BreaksFacts
<1>4. PostsMatchAnswers'
  <2>1. ASSUME NEW c \in Client PROVE Balanced(c)'
    <3>1. Balanced(c)
        BY Balances
    <3>2. /\ rows[c] \in Nat /\ strays[c] \in Nat /\ oks[c] \in Nat /\ errs[c] \in Nat
          /\ strays'[c] \in Nat /\ rows'[c] = rows[c] /\ oks'[c] = oks[c]
        BY <1>0, <1>1, <1>2
    <3>3. CASE c \in C
        BY <1>2, <1>3, <3>1, <3>2, <3>3 DEF Balanced, Stored
    <3>4. CASE c \notin C
        BY <1>2, <1>3, <3>1, <3>2, <3>4 DEF Balanced, Stored
    <3> QED BY <3>3, <3>4
  <2> QED BY <2>1 DEF PostsMatchAnswers, Balanced, Stored
<1>5. /\ secret' \in [Replica -> 0..newest'] /\ conn' \in [Replica -> BOOLEAN]
      /\ prev' = [g \in Replica |-> IF secret'[g] = 0 THEN NoSecret ELSE secret'[g] - 1]
      /\ up' \in BOOLEAN /\ restarts' \in 0..limits'.restarts
      /\ newest' \in 0..limits'.rotations
  <2>1. CASE PostGoesDown
      BY <1>1, <2>1 DEF PostGoesDown, replicaVars, Untouched, GatewayTypeOK
  <2>2. ASSUME NEW g \in Replica, RestartReplica(g)
        PROVE  /\ secret' \in [Replica -> 0..newest'] /\ conn' \in [Replica -> BOOLEAN]
               /\ prev' = [h \in Replica |->
                              IF secret'[h] = 0 THEN NoSecret ELSE secret'[h] - 1]
               /\ up' \in BOOLEAN /\ restarts' \in 0..limits'.restarts
               /\ newest' \in 0..limits'.rotations
    <3>1. limits \in Limits /\ limits.restarts \in Nat
        BY GatewayAssumption DEF GatewayTypeOK, TypeOK
    <3>2. secret' \in [Replica -> 0..newest'] /\ up' \in BOOLEAN
        BY <1>0, <1>1, <2>2 DEF RestartReplica, GatewayTypeOK
    <3>3. conn' \in [Replica -> BOOLEAN]
        BY <2>2 DEF RestartReplica, GatewayTypeOK
    <3>4. restarts' \in 0..limits'.restarts /\ newest' \in 0..limits'.rotations
        BY <1>1, <2>2, <3>1 DEF RestartReplica, Untouched, GatewayTypeOK
    <3>5. prev' = [h \in Replica |-> IF secret'[h] = 0 THEN NoSecret ELSE secret'[h] - 1]
      <4>1. \A h \in Replica : secret'[h] = IF h = g THEN newest ELSE secret[h]
          BY <2>2 DEF RestartReplica, GatewayTypeOK
      <4>2. prev' = [h \in Replica |-> IF h = g THEN (IF newest = 0 THEN NoSecret ELSE newest - 1)
                                               ELSE prev[h]]
          BY <2>2 DEF RestartReplica, GatewayTypeOK
      <4> QED BY <4>1, <4>2 DEF GatewayTypeOK
    <3> QED BY <3>2, <3>3, <3>4, <3>5
  <2> QED BY <2>1, <2>2
<1>6. newest <= newest' /\ newest' \in Nat
    BY <1>0, <1>1
<1>7. /\ TypeOK' /\ TokensKnown' /\ CreatedIsOwned' /\ AccountIsKnown'
      /\ \A c \in Client :
            token'[c] = NoToken \/ token'[c].by \in {AuthSecret} \cup 0..newest'
    BY <1>1, <1>3, <1>6, Framed
<1>8. GatewayTypeOK'
    BY <1>0, <1>1, <1>2, <1>3, <1>5, <1>7 DEF GatewayTypeOK
<1> QED BY <1>4, <1>7, <1>8

\* The post service is back, or a new secret is introduced.
LEMMA QuietInv ==
    ASSUME IInv, PostComesUp \/ Rotate
    PROVE  IInv'
<1> USE DEF IInv, SessionInv
<1>1. /\ Untouched /\ UNCHANGED <<token, at, faults, secret, prev, conn, restarts, via, postVars>>
      /\ newest \in Nat /\ limits.rotations \in Nat /\ at \in [Client -> Places]
    BY GatewayAssumption
       DEF PostComesUp, Rotate, Untouched, replicaVars, GatewayTypeOK, TypeOK
<1>2. up' \in BOOLEAN /\ newest' \in 0..limits.rotations /\ newest <= newest' /\ newest' \in Nat
  <2>1. CASE PostComesUp
      BY <1>1, <2>1 DEF PostComesUp, replicaVars, GatewayTypeOK
  <2>2. CASE Rotate
      BY <1>1, <2>2 DEF Rotate, GatewayTypeOK
  <2> QED BY <2>1, <2>2
<1>3. /\ TypeOK' /\ TokensKnown' /\ CreatedIsOwned' /\ AccountIsKnown'
      /\ \A c \in Client :
            token'[c] = NoToken \/ token'[c].by \in {AuthSecret} \cup 0..newest'
    BY <1>1, <1>2, Framed
<1>4. GatewayTypeOK'
    BY <1>1, <1>2, <1>3 DEF GatewayTypeOK, postVars, Untouched
<1>5. PostsMatchAnswers'
    BY <1>1 DEF PostsMatchAnswers, postVars
<1> QED BY <1>3, <1>4, <1>5

LEMMA StepInv == IInv /\ [GatewayNext]_vars => IInv'
<1>1. SUFFICES ASSUME IInv, [GatewayNext]_vars PROVE IInv'
    OBVIOUS
<1>2. CASE UNCHANGED vars
    BY <1>1, <1>2 DEF vars, accountVars, gatewayVars, replicaVars, postVars, IInv,
        SessionInv, GatewayTypeOK, TypeOK, TokensKnown, Tokens, CreatedIsOwned,
        AccountIsKnown, PostsMatchAnswers
<1>3. ASSUME NEW c \in Client, AccountStep(c), UNCHANGED gatewayVars PROVE IInv'
    BY <1>1, <1>3, AccountInv
<1>4. ASSUME NEW c \in Client,
             Expire(c) \/ \E g \in Replica : Enter(c, g) \/ Refuse(c, g)
      PROVE  IInv'
    BY <1>1, <1>4, SessionStepInv
<1>5. ASSUME NEW c \in Client, PostStep(c) PROVE IInv'
    BY <1>1, <1>5, PostInv
<1>6. CASE PostGoesDown \/ \E g \in Replica : RestartReplica(g)
    BY <1>1, <1>6, BreakInv
<1>7. CASE PostComesUp \/ Rotate
    BY <1>1, <1>7, QuietInv
<1> QED BY <1>1, <1>2, <1>3, <1>4, <1>5, <1>6, <1>7 DEF GatewayNext, PostStep

-----------------------------------------------------------------------------
(* The properties.                                                         *)

\* IInv holds in every reachable state.
THEOREM Invariance == Spec => []IInv
BY InitInv, StepInv, PTL DEF Spec

\* Types; a request is under way exactly where a replica waits for it, and a
\* replica's PrevSecret is the one before its Secret (NewServiceContext).
THEOREM TypeCorrect == Spec => []GatewayTypeOK
<1>1. IInv => GatewayTypeOK
    BY DEF IInv, SessionInv
<1> QED BY <1>1, Invariance, PTL

\* A registered name belongs to whoever was told so, and an owner was told or
\* lost his answer, whatever registrations collide (Register, Create).
THEOREM AccountIsKnownHolds == Spec => []AccountIsKnown
<1>1. IInv => AccountIsKnown
    BY DEF IInv
<1> QED BY <1>1, Invariance, PTL

\* A client's posts are those he was told of, and each other one stands for an
\* error he got, whatever times out, restarts or goes on alone (CreatePost).
THEOREM PostsMatchAnswersHolds == Spec => []PostsMatchAnswers
<1>1. IInv => PostsMatchAnswers
    BY DEF IInv
<1> QED BY <1>1, Invariance, PTL

\* Only an unexpired token of the replica's present Secret starts a request:
\* PrevSecret never helps, however the replicas restart (the JWT middleware).
THEOREM OnlyCurrentSessionsHolds == Spec => OnlyCurrentSessions
<1> DEFINE Current == \A c \in Client : at[c] # "sent" /\ at'[c] = "sent" =>
                            token[c] = Signed(via'[c])
<1>1. ASSUME IInv, [GatewayNext]_vars PROVE Current
  <2> SUFFICES ASSUME NEW c \in Client, at[c] # "sent", at'[c] = "sent"
               PROVE  token[c] = Signed(via'[c])
      OBVIOUS
  <2>1. PICK g \in Replica : CreatePost(c, g)
    <3>1. at \in [Client -> Places] /\ via \in [Client -> Replica \cup {Nobody}]
        BY <1>1 DEF IInv, SessionInv, GatewayTypeOK, TypeOK
    <3>2. ~ UNCHANGED at
        OBVIOUS
    <3>3. ASSUME NEW d \in Client,
                 \/ AccountStep(d) \/ Expire(d) \/ Store(d) \/ Reply(d) \/ GiveUp(d)
                 \/ StrayStores(d)
                 \/ \E g \in Replica : Enter(d, g) \/ Refuse(d, g)
          PROVE  FALSE
        BY <3>1, <3>3 DEF AccountStep, Register, Insert, Answer, NoAnswer, Login,
            Expire, Enter, Refuse, Store, Reply, GiveUp, StrayStores, Ends, Goes
    <3>4. ~ \E C : Breaks(C)
        BY DEF Breaks
    <3>5. ASSUME NEW d \in Client, NEW g \in Replica, CreatePost(d, g) PROVE d = c
        BY <3>1, <3>5 DEF CreatePost, Goes
    <3> QED BY <1>1, <3>2, <3>3, <3>4, <3>5
            DEF GatewayNext, vars, PostGoesDown, PostComesUp, Rotate, RestartReplica
  <2>2. via'[c] = g
      BY <1>1, <2>1 DEF CreatePost, IInv, SessionInv, GatewayTypeOK
  <2> QED BY <1>1, <2>1, <2>2, AcceptsOnlySigned DEF CreatePost, IInv
<1>2. Spec => [][IInv /\ [GatewayNext]_vars]_vars
    BY Invariance, PTL DEF Spec
<1>3. [IInv /\ [GatewayNext]_vars]_vars => [Current]_vars
    BY <1>1
<1>4. Spec => [][Current]_vars
    BY <1>2, <1>3, PTL
<1> QED BY <1>4 DEF OnlyCurrentSessions
=============================================================================
