----------------------------- MODULE MCSnowflakeId -----------------------------
(* Two bits for the worker and one for the sequence, from a small epoch.    *)
EXTENDS SnowflakeId, TLC

Symmetric == Permutations(Instances)
===============================================================================
