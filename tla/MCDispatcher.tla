---------------------------- MODULE MCDispatcher ----------------------------
(* Dispatcher on a small cluster. *)
EXTENDS Dispatcher, TLC

Symmetric == Permutations(Instances)
==============================================================================
