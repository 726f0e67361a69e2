------------------------------- MODULE MCPosts -------------------------------
(* Model-checking instance of Posts, and of ViewCount within it: two       *)
(* replicas, the author and two readers.                                   *)
EXTENDS Posts

CONSTANTS i1, i2, author, u1, u2

MCReplica == {i1, i2}
MCUser == {author, u1, u2}
=============================================================================
