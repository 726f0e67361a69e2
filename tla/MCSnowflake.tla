----------------------------- MODULE MCSnowflake -----------------------------
(* Model-checking instance of Snowflake: two services, two ids per         *)
(* millisecond.                                                            *)
EXTENDS Snowflake, TLC

CONSTANTS post, interaction

MCProcess == {post, interaction}
MCNodeID == post :> 1 @@ interaction :> 3
=============================================================================
