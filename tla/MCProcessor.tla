----------------------------- MODULE MCProcessor -----------------------------
(* A workflow whose parallel node p has two branches: in the first one is    *)
(* another parallel node, q, with the branches x and y -> z; the second one  *)
(* is b; t follows p.                                                        *)
EXTENDS Processor

FlowNodes    == {"p", "q", "x", "y", "z", "b", "t"}
FlowUpstream == [p |-> "none", q |-> "p", x |-> "q", y |-> "q", z |-> "y", b |-> "p", t |-> "p"]
FlowBranch   == [p |-> 0, q |-> 1, x |-> 1, y |-> 2, z |-> 0, b |-> 2, t |-> 0]
FlowMode     == [p |-> "any", q |-> "all"]
==============================================================================
