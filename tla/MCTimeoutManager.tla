--------------------------- MODULE MCTimeoutManager ---------------------------
(* Every workflow has a timeout of one tick.                                 *)
EXTENDS TimeoutManager, TLC

MCTimeout == [e \in Execs |-> 1]

===============================================================================
