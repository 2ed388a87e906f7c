---------------------------- MODULE MCEventQueue ----------------------------
(* EventQueue with a few messages. *)
EXTENDS EventQueue, TLC

Symmetric == Permutations(Ids)
==============================================================================
