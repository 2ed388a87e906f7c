----------------------------- MODULE MCLocalLock -----------------------------
(* LocalLock on a small set of callers. *)
EXTENDS LocalLock, TLC

Symmetric == Permutations(Calls)
==============================================================================
