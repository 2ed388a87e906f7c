---------------------------- MODULE MCWorkflowSync ----------------------------
(* Instances and versions are interchangeable.                              *)
EXTENDS WorkflowSync, TLC

Symmetric == Permutations(Instances) \cup Permutations(Versions)
===============================================================================
