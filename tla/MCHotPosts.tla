------------------------------ MODULE MCHotPosts ------------------------------
(* Model-checking instance of HotPosts: two replicas, a reader whose requests *)
(* reach either, the job on one and a writer on the other.                    *)
EXTENDS HotPosts, TLC

CONSTANTS i1, i2, r1, j1, w1

MCReplica == {i1, i2}
MCReader == {r1}
MCJob == {j1}
MCWriter == {w1}
MCHome == j1 :> i1 @@ w1 :> i2
MCRanges == <<"hour", "month">>
MCKept == {"month"}
=============================================================================
