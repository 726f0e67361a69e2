--------------------------- MODULE MCLikePipeline ---------------------------
(* Model-checking instances of LikePipeline.                               *)
EXTENDS LikePipeline, TLC

CONSTANTS u1, u2, h1, h2, h3, k1, k2

MCUser == {u1, u2}
MCHandler == {h1, h2}
MCConsumer == {k1}

\* Each user sends one request at a time.
OneEach == h1 :> u1 @@ h2 :> u2

Limit(r, f, c, k) == [requests |-> r, faults |-> f, checker |-> c, consumers |-> k]

\* u1 clicks twice while u2 likes.
ThreeHandlers == {h1, h2, h3}
TwoAndOne == h1 :> u1 @@ h2 :> u1 @@ h3 :> u2
TwoConsumers == {k1, k2}

\* Three requests fill a batch of two and leave a partial one; two requests
\* with a fault anywhere and two consumers, or with the checker.
Interesting ==
    {Limit(3, 0, FALSE, {k1}), Limit(2, 1, FALSE, {k1, k2}),
     Limit(2, 0, TRUE, {k1}), Limit(1, 1, TRUE, {k1})}
NoFaults == {Limit(3, 0, FALSE, {k1})}
=============================================================================
