--------------------------- MODULE MCCommentCount ---------------------------
(* Model-checking instance of CommentCount: two users, three handlers and  *)
(* two comments.                                                           *)
EXTENDS CommentCount

CONSTANTS u1, u2, h1, h2, h3, c1, c2

MCUser == {u1, u2}
MCHandler == {h1, h2, h3}
MCComment == {c1, c2}
=============================================================================
