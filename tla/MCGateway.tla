----------------------------- MODULE MCGateway -----------------------------
(* Two instances: two clients who register one name; and one client at two  *)
(* replicas that restart with a new secret.                                  *)
EXTENDS Gateway

CONSTANTS c1, c2, n1, g1, g2

Names ==
    [clients |-> {c1, c2}, names |-> {n1}, replicas |-> {g1}, rotations |-> 0,
     restarts |-> 0, faults |-> 1]
Rotation ==
    [clients |-> {c1}, names |-> {n1}, replicas |-> {g1, g2}, rotations |-> 1,
     restarts |-> 2, faults |-> 2]
Interesting == {Names, Rotation}
=============================================================================
