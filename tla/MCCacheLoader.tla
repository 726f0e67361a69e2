---------------------------- MODULE MCCacheLoader ----------------------------
(* Model-checking instance of CacheLoader: one request on each of two      *)
(* replicas of the post service.                                           *)
EXTENDS CacheLoader, TLC

CONSTANTS r1, r2, i1, i2

MCReplica == {i1, i2}
MCRequest == {r1, r2}
MCHome == r1 :> i1 @@ r2 :> i2
MCRenewing == {i1}
MCWriting == {i1}
MCStamp == r1 :> 1 @@ r2 :> 2
=============================================================================
