---------------------------- MODULE MCDataStream ----------------------------
(* DataStream with a counter that wraps around several times. *)
EXTENDS DataStream

CONSTANT MaxSent   \* bounds the sends

MCNext == Next /\ sent' <= MaxSent

MCSpec == Init /\ [][MCNext]_vars
==============================================================================
