-------------------------- MODULE ExecutionLifecycle --------------------------
(***************************************************************************)
(* What the workflow server promises about the life of an execution,       *)
(* whatever the instances, queue deliveries, retries and crashes: it is    *)
(* claimed for running at most once, only a claimed execution completes,   *)
(* an execution that has ended never lives again, and one that is running  *)
(* is never destroyed under its processor.                                 *)
(***************************************************************************)
CONSTANT Executions

VARIABLE life       \* execution -> the stage of its life

Stages == {"absent", "queueing", "deferred", "running",
           "completed", "aborted", "destroyed"}

TypeOK == life \in [Executions -> Stages]

Init == life = [e \in Executions |-> "absent"]

\* Execution e moves from one of the stages from to the stage to.
Move(e, from, to) == /\ life[e] \in from
                     /\ life' = [life EXCEPT ![e] = to]

Create(e)   == Move(e, {"absent"}, "queueing") \/ Move(e, {"absent"}, "deferred")
Claim(e)    == Move(e, {"queueing", "deferred"}, "running")
Complete(e) == Move(e, {"running"}, "completed")
Abort(e)    == Move(e, {"queueing", "deferred", "running"}, "aborted")
Destroy(e)  == Move(e, {"completed", "aborted"}, "destroyed")

Next == \E e \in Executions :
          Create(e) \/ Claim(e) \/ Complete(e) \/ Abort(e) \/ Destroy(e)

Spec == Init /\ [][Next]_life
==============================================================================
