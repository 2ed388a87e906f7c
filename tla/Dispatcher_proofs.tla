-------------------------- MODULE Dispatcher_proofs --------------------------
(***************************************************************************)
(* Proofs about Dispatcher, for every number of instances and executions,  *)
(* every set of requests and every bound: types, the inductive invariant,  *)
(* the claim, and the life of an execution.                                *)
(***************************************************************************)
EXTENDS Dispatcher, TLAPS

(* The operators of the tables keep their types. *)

\* Another status makes another row, which is otherwise the same.
LEMMA RowTyped ==
  ASSUME NEW r \in Rows, NEW s \in Statuses
  PROVE  LET q == [r EXCEPT !.status = s]
         IN  q \in Rows /\ q.status = s /\ q.dispatched = r.dispatched /\ q.startedAt = r.startedAt
BY DEF Rows

\* A guarded UPDATE of a status leaves a table of rows.
LEMMA StatusTyped ==
  ASSUME TypeOK, NEW e, NEW x, NEW s \in Statuses, SetStatus(e, x, s)
  PROVE  row' \in [Executions -> Rows]
<1>1. CASE row' = row
  BY <1>1 DEF TypeOK
<1>2. CASE row' = [row EXCEPT ![e].status = s] /\ e \in Executions
  <2>1. [row[e] EXCEPT !.status = s] \in Rows
    BY <1>2, RowTyped DEF TypeOK
  <2>2. row' = [row EXCEPT ![e] = [row[e] EXCEPT !.status = s]]
    BY <1>2
  <2> QED
    BY <2>1, <2>2 DEF TypeOK
<1>3. CASE row' = [row EXCEPT ![e].status = s] /\ e \notin Executions
  BY <1>3 DEF TypeOK
<1> QED
  BY <1>1, <1>2, <1>3 DEF SetStatus

\* So does abortExecution, which also updates the PENDING jobs.
LEMMA AbortTyped ==
  ASSUME TypeOK, NEW e, NEW x, AbortExecution(e, x)
  PROVE  row' \in [Executions -> Rows] /\ waiting' \subseteq Executions
<1>1. SetStatus(e, x, "ABORTED")
  BY DEF AbortExecution
<1>2. row' \in [Executions -> Rows]
  BY <1>1, StatusTyped DEF Statuses, Ended
<1>3. waiting' \subseteq Executions
  BY DEF AbortExecution, TypeOK
<1> QED
  BY <1>2, <1>3

\* enqueue leaves a queue that counts copies.
LEMMA EnqueueTyped ==
  ASSUME TypeOK, NEW t \in Tasks, Enqueue(t)
  PROVE  queue' \in [Tasks -> Nat]
BY DEF TypeOK, Enqueue

\* A task that enqueue is given is a task of the queue, with no retries yet.
LEMMA TaskTyped ==
  ASSUME NEW e \in Executions, NEW k \in {"start", "resume", "rerun"}
  PROVE  Task(k, e) \in Tasks
BY DispatcherAssumption DEF Task, Tasks

\* A worker that leaves its task is idle, with no task and no copy.
LEMMA LeaveTyped ==
  ASSUME TypeOK, NEW w \in Workers, Leave(w)
  PROVE  /\ pc' \in [Workers -> PCs]
         /\ task' \in [Workers -> Tasks \cup {NoTask}]
         /\ \A v \in Workers : pc'[v] # "idle" => task'[v] \in Tasks
         /\ seen' \in [Workers -> Rows]
BY DEF TypeOK, Leave, PCs, NoRow, Rows, Statuses

\* A worker that goes on keeps its task.
LEMMA GoTyped ==
  ASSUME TypeOK, NEW w \in Workers, NEW next \in PCs, pc[w] # "idle", Go(w, next)
  PROVE  /\ pc' \in [Workers -> PCs]
         /\ task' \in [Workers -> Tasks \cup {NoTask}]
         /\ \A v \in Workers : pc'[v] # "idle" => task'[v] \in Tasks
BY DEF TypeOK, Go


\* Every step of the dispatcher keeps the types of its state.
THEOREM TypeInductive == TypeOK /\ [Next]_vars => TypeOK'
<1> SUFFICES ASSUME TypeOK, [Next]_vars
             PROVE  TypeOK'
  OBVIOUS
<1>1. ASSUME NEW i \in Instances, NEW e \in Executions, CreateExecution(i, e)
      PROVE  TypeOK'
  <2>1. row' \in [Executions -> Rows]
    <3> DEFINE new(s, d) == [status |-> s, dispatched |-> d, startedAt |-> FALSE]
    <3>1. new("STARTED", TRUE) \in Rows /\ new("QUEUEING", FALSE) \in Rows
      BY DEF Rows, Statuses
    <3>2. row' = [row EXCEPT ![e] = new("STARTED", TRUE)]
          \/ row' = [row EXCEPT ![e] = new("QUEUEING", FALSE)]
      BY <1>1 DEF CreateExecution
    <3> QED
      BY <3>1, <3>2 DEF TypeOK
  <2>2. outbox' \in [Instances -> SUBSET Tasks]
    BY <1>1, TaskTyped DEF TypeOK, CreateExecution
  <2> QED
    BY <1>1, <2>1, <2>2 DEF TypeOK, CreateExecution, workVars
<1>2. ASSUME NEW i \in Instances, NEW e \in Executions, TriggerSync(i, e)
      PROVE  TypeOK'
  BY <1>2, TaskTyped DEF TypeOK, TriggerSync, Rows, Statuses, Ended, PCs, Workers, SyncWorker
<1>3. ASSUME NEW i \in Instances, NEW t \in Tasks, Publish(i, t)
      PROVE  TypeOK'
  BY <1>3, EnqueueTyped DEF TypeOK, Publish, workVars
<1>4. ASSUME NEW i \in Instances, NEW t \in Tasks, PublishFails(i, t)
      PROVE  TypeOK'
  BY <1>4 DEF TypeOK, PublishFails, Fault, workVars
<1>5. ASSUME NEW i \in Instances, NEW e \in Executions, StartDeferred(i, e)
      PROVE  TypeOK'
  BY <1>5, TaskTyped, EnqueueTyped DEF TypeOK, StartDeferred, workVars, tableVars
<1>6. ASSUME NEW i \in Instances, NEW e \in Executions, Resume(i, e)
      PROVE  TypeOK'
  BY <1>6, TaskTyped, AbortTyped DEF TypeOK, Resume, workVars
<1>7. ASSUME NEW i \in Instances, NEW e \in Executions, Rerun(i, e)
      PROVE  TypeOK'
  BY <1>7, TaskTyped, EnqueueTyped DEF TypeOK, Rerun, workVars, tableVars
<1>8. ASSUME NEW e \in Executions, DestroyExecution(e)
      PROVE  TypeOK'
  <2>1. [row[e] EXCEPT !.status = "DESTROYED"] \in Rows
    BY RowTyped DEF TypeOK, Statuses
  <2>2. row' \in [Executions -> Rows]
    BY <1>8, <2>1 DEF TypeOK, DestroyExecution
  <2> QED
    BY <1>8, <2>2 DEF TypeOK, DestroyExecution, workVars
<1>9. ASSUME NEW i \in Instances, RecoverScan(i)
      PROVE  TypeOK'
  BY <1>9 DEF TypeOK, RecoverScan, Recoverable, workVars, tableVars
<1>10. ASSUME NEW i \in Instances, NEW e \in Executions, RecoverPublish(i, e)
      PROVE  TypeOK'
  BY <1>10, TaskTyped, EnqueueTyped DEF TypeOK, RecoverPublish, workVars, tableVars
<1>11. ASSUME NEW i \in Instances, RecoverFails(i)
      PROVE  TypeOK'
  BY <1>11 DEF TypeOK, RecoverFails, Fault, workVars, tableVars
<1>12. ASSUME NEW i \in Instances, NEW t \in Tasks, Receive(i, t)
      PROVE  TypeOK'
  BY <1>12 DEF TypeOK, Receive, PCs, Workers, QueueWorker, tableVars
<1>13. ASSUME NEW w \in Workers, ResolveTask(w)
      PROVE  TypeOK'
  BY <1>13, LeaveTyped, GoTyped DEF TypeOK, ResolveTask, PCs, tableVars
<1>14. ASSUME NEW w \in Workers, Prepare(w)
      PROVE  TypeOK'
  <2>1. CASE Leave(w)
    BY <1>14, <2>1, LeaveTyped DEF TypeOK, Prepare, tableVars
  <2>2. CASE ~Leave(w)
    <3>1. PICK next \in {"lock", "claim"} : Go(w, next)
      BY <1>14, <2>2 DEF Prepare
    <3>2. seen' \in [Workers -> Rows]
      BY <1>14, <2>2 DEF Prepare, TypeOK, Tasks
    <3>3. pc[w] # "idle" /\ next \in PCs
      BY <1>14 DEF Prepare, PCs
    <3> QED
      BY <1>14, <2>2, <3>1, <3>2, <3>3, GoTyped DEF TypeOK, Prepare, tableVars
  <2> QED
    BY <2>1, <2>2
<1>15. ASSUME NEW w \in Workers, Claim(w)
      PROVE  TypeOK'
  <2> DEFINE e == task[w].exec
  <2>1. CASE ClaimMatches(row[e], seen[w])
    <3>1. pc[w] # "idle" /\ e \in Executions
      BY <1>15 DEF Claim, TypeOK, Tasks
    <3>2. Go(w, "lock") /\ "lock" \in PCs
      BY <1>15, <2>1 DEF Claim, PCs
    <3>3. /\ row' \in [Executions -> Rows]
          /\ seen' \in [Workers -> Rows]
          /\ claims' \in [Executions -> Nat]
      <4> DEFINE claimed == [status |-> "STARTED", dispatched |-> TRUE, startedAt |-> TRUE]
      <4>1. claimed \in Rows
        BY DEF Rows, Statuses
      <4>2. /\ row' = [row EXCEPT ![e] = claimed]
            /\ seen' = [seen EXCEPT ![w] = claimed]
            /\ claims' = [claims EXCEPT ![e] = @ + 1]
        BY <1>15, <2>1 DEF Claim
      <4> HIDE DEF claimed
      <4> QED
        BY <3>1, <4>1, <4>2 DEF TypeOK
    <3> QED
      BY <1>15, <3>1, <3>2, <3>3, GoTyped DEF TypeOK, Claim
  <2>2. CASE ~ClaimMatches(row[e], seen[w])
    BY <1>15, <2>2, LeaveTyped DEF TypeOK, Claim
  <2> QED
    BY <2>1, <2>2
<1>16. ASSUME NEW w \in Workers, PrepareFails(w)
      PROVE  TypeOK'
  BY <1>16, LeaveTyped DEF TypeOK, PrepareFails, Fault, tableVars
<1>17. ASSUME NEW w \in Workers, Lock(w)
      PROVE  TypeOK'
  BY <1>17, GoTyped DEF TypeOK, Lock, PCs, tableVars
<1>18. ASSUME NEW w \in Workers, LockTimesOut(w)
      PROVE  TypeOK'
  <2>1. task[w] \in Tasks /\ Leave(w)
    BY <1>18 DEF TypeOK, LockTimesOut
  <2>2. queue' \in [Tasks -> Nat]
    <3>1. CASE UNCHANGED queue
      BY <3>1 DEF TypeOK
    <3>2. CASE /\ task[w].retried < MaxRetries
               /\ Enqueue([task[w] EXCEPT !.retried = @ + 1])
      <4>1. [task[w] EXCEPT !.retried = @ + 1] \in Tasks
        BY <2>1, <3>2, DispatcherAssumption DEF Tasks
      <4> QED
        BY <3>2, <4>1, EnqueueTyped
    <3> QED
      BY <1>18, <3>1, <3>2 DEF LockTimesOut
  <2>3. faults' \in Nat
    BY <1>18 DEF TypeOK, LockTimesOut, Fault
  <2> QED
    BY <1>18, <2>1, <2>2, <2>3, LeaveTyped DEF TypeOK, LockTimesOut, tableVars
<1>19. ASSUME NEW w \in Workers, Begin(w)
      PROVE  TypeOK'
  <2> DEFINE e == task[w].exec
  <2>1. pc[w] # "idle" /\ e \in Executions
    BY <1>19 DEF Begin, TypeOK, Tasks
  <2>2. PICK next \in {"run", "finish"} : Go(w, next)
    BY <1>19 DEF Begin
  <2>3. row' \in [Executions -> Rows] /\ waiting' \subseteq Executions
    BY <1>19, AbortTyped DEF Begin, TypeOK
  <2>4. seen' \in [Workers -> Rows]
    <3>1. CASE seen' = seen
      BY <3>1 DEF TypeOK
    <3>2. CASE seen' = [seen EXCEPT ![w].status = "ABORTED"]
      <4>1. [seen[w] EXCEPT !.status = "ABORTED"] \in Rows
        BY RowTyped DEF TypeOK, Statuses, Ended
      <4>2. seen' = [seen EXCEPT ![w] = [seen[w] EXCEPT !.status = "ABORTED"]]
        BY <3>2
      <4> QED
        BY <4>1, <4>2 DEF TypeOK
    <3>3. seen' = seen \/ seen' = [seen EXCEPT ![w].status = "ABORTED"]
      BY <1>19 DEF Begin
    <3> QED
      BY <3>1, <3>2, <3>3
  <2>5. starts' \in [Executions -> 0..2]
    BY <1>19, <2>1 DEF Begin, TypeOK
  <2>6. next \in PCs
    BY DEF PCs
  <2> QED
    BY <1>19, <2>1, <2>2, <2>3, <2>4, <2>5, <2>6, GoTyped DEF TypeOK, Begin
<1>20. ASSUME NEW w \in Workers, Exit(w)
      PROVE  TypeOK'
  <2> DEFINE e == task[w].exec
  <2>1. pc[w] # "idle" /\ e \in Executions
    BY <1>20 DEF Exit, TypeOK, Tasks
  <2>2. PICK s \in {"RESOLVED", "FAILED", "ABORTED"} : SetStatus(e, "STARTED", s)
    BY <1>20 DEF Exit
  <2>3. row' \in [Executions -> Rows]
    BY <2>2, StatusTyped DEF Statuses, Ended
  <2>4. seen' \in [Workers -> Rows]
    BY <1>20, <2>1, <2>3 DEF Exit, TypeOK
  <2>5. Go(w, "finish") /\ "finish" \in PCs
    BY <1>20 DEF Exit, PCs
  <2> QED
    BY <1>20, <2>1, <2>3, <2>4, <2>5, GoTyped DEF TypeOK, Exit
<1>21. ASSUME NEW w \in Workers, Suspend(w)
      PROVE  TypeOK'
  BY <1>21, GoTyped DEF TypeOK, Suspend, PCs, Tasks
<1>22. ASSUME NEW w \in Workers, RunFails(w)
      PROVE  TypeOK'
  BY <1>22, GoTyped DEF TypeOK, RunFails, Fault, PCs, tableVars
<1>23. ASSUME NEW w \in Workers, Finish(w)
      PROVE  TypeOK'
  <2> DEFINE e == task[w].exec
  <2>1. row' \in [Executions -> Rows]
    <3>1. CASE row' = row
      BY <3>1 DEF TypeOK
    <3>2. CASE row' = [row EXCEPT ![e].status = "DESTROYED"]
      <4>1. e \in Executions
        BY <1>23 DEF TypeOK, Finish, Tasks
      <4>2. [row[e] EXCEPT !.status = "DESTROYED"] \in Rows
        BY <4>1, RowTyped DEF TypeOK, Statuses
      <4> QED
        BY <3>2, <4>1, <4>2 DEF TypeOK
    <3> QED
      BY <1>23, <3>1, <3>2 DEF Finish
  <2>2. lock' \in [Executions -> Workers \cup {Nobody, Dead}]
    BY <1>23 DEF TypeOK, Finish
  <2> QED
    BY <1>23, <2>1, <2>2, LeaveTyped DEF TypeOK, Finish
<1>24. ASSUME NEW e \in Executions, Lapse(e)
      PROVE  TypeOK'
  BY <1>24 DEF TypeOK, Lapse, workVars, tableVars
<1>25. ASSUME NEW e \in Executions, Expire(e)
      PROVE  TypeOK'
  BY <1>25 DEF TypeOK, Expire, workVars, tableVars
<1>26. ASSUME NEW i \in Instances, NEW e \in Executions, TimeoutScan(i, e)
      PROVE  TypeOK'
  BY <1>26, AbortTyped DEF TypeOK, TimeoutScan, workVars
<1>27. ASSUME NEW i \in Instances, NEW e \in Executions, CancelRead(i, e)
      PROVE  TypeOK'
  BY <1>27 DEF TypeOK, CancelRead, workVars, tableVars
<1>28. ASSUME NEW i \in Instances, CancelApply(i)
      PROVE  TypeOK'
  BY <1>28, AbortTyped DEF TypeOK, CancelApply, NoRequest, workVars
<1>29. ASSUME NEW i \in Instances, CancelRefused(i)
      PROVE  TypeOK'
  BY <1>29 DEF TypeOK, CancelRefused, workVars, tableVars
<1>30. ASSUME NEW i \in Instances, Crash(i)
      PROVE  TypeOK'
  BY <1>30 DEF TypeOK, Crash, Fault, PCs, NoRow, Rows, Statuses, tableVars
<1>31. ASSUME NEW i \in Instances, Restart(i)
      PROVE  TypeOK'
  BY <1>31 DEF TypeOK, Restart, workVars, tableVars
<1>32. CASE UNCHANGED vars
  BY <1>32 DEF TypeOK, vars, workVars
<1> QED
  BY <1>1, <1>2, <1>3, <1>4, <1>5, <1>6, <1>7, <1>8, <1>9, <1>10, <1>11,
     <1>12, <1>13, <1>14, <1>15, <1>16, <1>17, <1>18, <1>19, <1>20, <1>21,
     <1>22, <1>23, <1>24, <1>25, <1>26, <1>27, <1>28, <1>29, <1>30, <1>31,
     <1>32 DEF TypeOK, Next, Publishing, WorkerStep, WorkerFails,
     Interrupting

\* TypeOK holds in every reachable state.
THEOREM TypeCorrect == Spec => []TypeOK
<1>1. Init => TypeOK
  BY DispatcherAssumption DEF Init, TypeOK, NoRow, Rows, Statuses, PCs, Workers
<1> QED
  BY <1>1, TypeInductive, PTL DEF Spec

-----------------------------------------------------------------------------
(* The inductive invariant.  What a row allows depends on what the workers  *)
(* believe of it, so the invariant relates every worker's own copy to the   *)
(* row, at each point where the worker stands.                              *)

\* A row that nobody has claimed has no startedAt, and starts undispatched.
RowInv(r) == /\ r.status \in {"ABSENT", "QUEUEING"} => ~r.dispatched /\ ~r.startedAt
             /\ r.status = "STARTED" => r.dispatched

\* What worker w, where it stands, can rely on of the row it works on.
WorkerInv(w) ==
  LET r == row[task[w].exec]
  IN  /\ pc[w] = "claim" => seen[w].status \in {"QUEUEING", "STARTED"} /\ ~seen[w].startedAt
      /\ pc[w] \in {"lock", "begin", "run", "finish"} =>
            /\ r.dispatched /\ r.startedAt
            /\ r.status \in Ended \cup {"STARTED", "DESTROYED"}
      /\ pc[w] \in {"lock", "begin", "run"} => seen[w] = [r EXCEPT !.status = "STARTED"]
      /\ pc[w] = "finish" /\ seen[w].status \in Ended => r.status \in Ended \cup {"DESTROYED"}

DispatchInv == /\ TypeOK
               /\ \A e \in Executions : RowInv(row[e])
               /\ ClaimedOnce
               /\ \A w \in Workers : WorkerInv(w)

Claimed == [status |-> "STARTED", dispatched |-> TRUE, startedAt |-> TRUE]

\* What one step may make of a row.
Moves(r, q) ==
  \/ r.status = "ABSENT" /\ q \in {[status |-> "QUEUEING", dispatched |-> FALSE, startedAt |-> FALSE],
                                   [status |-> "STARTED", dispatched |-> TRUE, startedAt |-> FALSE]}
  \/ r.status \in {"QUEUEING", "STARTED"} /\ ~r.startedAt /\ q = Claimed
  \/ r.status \in {"QUEUEING", "STARTED"} /\ q = [r EXCEPT !.status = "ABORTED"]
  \/ r.status = "STARTED" /\ r.startedAt /\ \E s \in {"RESOLVED", "FAILED"} : q = [r EXCEPT !.status = s]
  \/ r.status \in Ended /\ q = [r EXCEPT !.status = "DESTROYED"]

\* A step changes at most one row, in one of these ways, and counts a claim
\* exactly when it sets startedAt.
RowStep == \/ UNCHANGED <<row, claims>>
           \/ \E e \in Executions, q \in Rows :
                /\ Moves(row[e], q)
                /\ row' = [row EXCEPT ![e] = q]
                /\ claims' = IF q.startedAt /\ ~row[e].startedAt
                             THEN [claims EXCEPT ![e] = @ + 1] ELSE claims

\* An UPDATE guarded by the expected status is one of the moves of a row.
LEMMA StatusStep ==
  ASSUME TypeOK, NEW e \in Executions, NEW x, NEW s, SetStatus(e, x, s), UNCHANGED claims,
         \/ x \in {"QUEUEING", "STARTED"} /\ s = "ABORTED"
         \/ x = "STARTED" /\ row[e].startedAt /\ s \in {"RESOLVED", "FAILED"}
  PROVE  RowStep
<1>1. CASE row[e].status # x
  BY <1>1 DEF SetStatus, RowStep
<1>2. CASE row[e].status = x
  <2> DEFINE q == [row[e] EXCEPT !.status = s]
  <2>1. row' = [row EXCEPT ![e] = q]
    BY <1>2 DEF SetStatus, TypeOK
  <2>2. q \in Rows /\ q.startedAt = row[e].startedAt
    BY RowTyped DEF TypeOK, Statuses, Ended
  <2>3. Moves(row[e], q)
    BY <1>2 DEF Moves
  <2> QED
    BY <2>1, <2>2, <2>3 DEF RowStep
<1> QED
  BY <1>1, <1>2

\* Whatever an instance, a worker or a user does moves one row, or none.
LEMMA StepsAreRowSteps ==
  ASSUME DispatchInv, [Next]_vars
  PROVE  RowStep
<1> USE DEF DispatchInv
<1>1. ASSUME NEW i \in Instances, NEW e \in Executions, CreateExecution(i, e)
      PROVE  RowStep
  <2> DEFINE new(s, d) == [status |-> s, dispatched |-> d, startedAt |-> FALSE]
  <2>1. PICK q \in {new("STARTED", TRUE), new("QUEUEING", FALSE)} : row' = [row EXCEPT ![e] = q]
    BY <1>1 DEF CreateExecution
  <2>2. q \in Rows /\ ~q.startedAt
    <3>1. new("STARTED", TRUE) \in Rows /\ new("QUEUEING", FALSE) \in Rows
      BY DEF Rows, Statuses
    <3>2. ~new("STARTED", TRUE).startedAt /\ ~new("QUEUEING", FALSE).startedAt
      OBVIOUS
    <3> QED
      BY <3>1, <3>2
  <2>3. Moves(row[e], q)
    BY <1>1 DEF CreateExecution, Moves
  <2> QED
    BY <1>1, <2>1, <2>2, <2>3 DEF CreateExecution, RowStep
<1>2. ASSUME NEW i \in Instances, NEW e \in Executions, TriggerSync(i, e)
      PROVE  RowStep
  <2> DEFINE q == [status |-> "QUEUEING", dispatched |-> FALSE, startedAt |-> FALSE]
  <2>1. q \in Rows /\ ~q.startedAt
    BY DEF Rows, Statuses
  <2>2. Moves(row[e], q) /\ row' = [row EXCEPT ![e] = q]
    BY <1>2 DEF TriggerSync, Moves
  <2> QED
    BY <1>2, <2>1, <2>2 DEF TriggerSync, RowStep
<1>3. ASSUME NEW i \in Instances, NEW e \in Executions, Resume(i, e)
      PROVE  RowStep
  <2>1. CASE UNCHANGED row
    BY <1>3, <2>1 DEF Resume, RowStep
  <2>2. CASE AbortExecution(e, "STARTED")
    BY <1>3, <2>2, StatusStep DEF Resume, AbortExecution
  <2> QED
    BY <1>3, <2>1, <2>2 DEF Resume
<1>4. ASSUME NEW e \in Executions, DestroyExecution(e)
      PROVE  RowStep
  <2> DEFINE q == [row[e] EXCEPT !.status = "DESTROYED"]
  <2>1. row' = [row EXCEPT ![e] = q]
    BY <1>4 DEF DestroyExecution, TypeOK
  <2>2. q \in Rows /\ q.startedAt = row[e].startedAt
    BY RowTyped DEF TypeOK, Statuses, Ended
  <2>3. Moves(row[e], q)
    BY <1>4 DEF DestroyExecution, Moves
  <2> QED
    BY <1>4, <2>1, <2>2, <2>3 DEF DestroyExecution, RowStep
<1>5. ASSUME NEW w \in Workers, Claim(w)
      PROVE  RowStep
  <2> DEFINE e == task[w].exec
  <2>1. CASE ClaimMatches(row[e], seen[w])
    <3>1. e \in Executions
      BY <1>5 DEF Claim, TypeOK, Tasks
    <3>2. row[e].status \in {"QUEUEING", "STARTED"} /\ ~row[e].startedAt
      BY <1>5, <2>1 DEF Claim, WorkerInv, ClaimMatches
    <3>3. Claimed \in Rows /\ Claimed.startedAt
      BY DEF Claimed, Rows, Statuses
    <3>4. Moves(row[e], Claimed)
      BY <3>2 DEF Moves
    <3>5. row' = [row EXCEPT ![e] = Claimed] /\ claims' = [claims EXCEPT ![e] = @ + 1]
      BY <1>5, <2>1 DEF Claim, Claimed
    <3> QED
      BY <3>1, <3>2, <3>3, <3>4, <3>5 DEF RowStep
  <2>2. CASE ~ClaimMatches(row[e], seen[w])
    BY <1>5, <2>2 DEF Claim, RowStep
  <2> QED
    BY <2>1, <2>2
<1>6. ASSUME NEW w \in Workers, Begin(w)
      PROVE  RowStep
  <2>1. task[w].exec \in Executions
    BY <1>6 DEF Begin, TypeOK, Tasks
  <2>2. CASE UNCHANGED <<row, waiting, seen>>
    BY <1>6, <2>2 DEF Begin, RowStep
  <2>3. CASE AbortExecution(task[w].exec, "STARTED")
    BY <1>6, <2>1, <2>3, StatusStep DEF Begin, AbortExecution
  <2> QED
    BY <1>6, <2>2, <2>3 DEF Begin
<1>7. ASSUME NEW w \in Workers, Exit(w)
      PROVE  RowStep
  <2>1. task[w].exec \in Executions /\ row[task[w].exec].startedAt
    BY <1>7 DEF Exit, TypeOK, Tasks, WorkerInv
  <2>2. PICK s \in {"RESOLVED", "FAILED", "ABORTED"} : SetStatus(task[w].exec, "STARTED", s)
    BY <1>7 DEF Exit
  <2> QED
    BY <1>7, <2>1, <2>2, StatusStep DEF Exit
<1>8. ASSUME NEW w \in Workers, Finish(w)
      PROVE  RowStep
  <2> DEFINE e == task[w].exec
             q == [row[e] EXCEPT !.status = "DESTROYED"]
  <2>1. CASE UNCHANGED row
    BY <1>8, <2>1 DEF Finish, RowStep
  <2>2. CASE ~ UNCHANGED row
    <3>1. e \in Executions /\ seen[w].status \in Ended /\ row' = [row EXCEPT ![e] = q]
      BY <1>8, <2>2 DEF Finish, TypeOK, Tasks
    <3>2. row[e].status \in Ended \cup {"DESTROYED"}
      BY <1>8, <3>1 DEF Finish, WorkerInv
    <3>3. row[e].status # "DESTROYED"
      <4>1. SUFFICES ASSUME row[e].status = "DESTROYED"
                     PROVE  UNCHANGED row
        BY <2>2
      <4>2. q = row[e]
        BY <3>1, <4>1 DEF TypeOK, Rows
      <4> QED
        BY <3>1, <4>2 DEF TypeOK
    <3>4. q \in Rows /\ q.startedAt = row[e].startedAt
      BY <3>1, RowTyped DEF TypeOK, Statuses, Ended
    <3>5. Moves(row[e], q)
      BY <3>2, <3>3 DEF Moves
    <3> QED
      BY <1>8, <3>1, <3>4, <3>5 DEF Finish, RowStep
  <2> QED
    BY <2>1, <2>2
<1>9. ASSUME NEW i \in Instances, NEW e \in Executions, TimeoutScan(i, e)
      PROVE  RowStep
  BY <1>9, StatusStep DEF TimeoutScan, AbortExecution
<1>10. ASSUME NEW i \in Instances, CancelApply(i)
       PROVE  RowStep
  <2>1. cancel[i].exec \in Executions /\ cancel[i].status \in {"QUEUEING", "STARTED"}
    BY <1>10 DEF CancelApply, TypeOK
  <2> QED
    BY <1>10, <2>1, StatusStep DEF CancelApply, AbortExecution
<1>11. ASSUME UNCHANGED <<row, claims>>
       PROVE  RowStep
  BY <1>11 DEF RowStep
<1>12. ASSUME NEW i \in Instances, Publishing(i)
       PROVE  RowStep
  <2>1. ASSUME NEW e \in Executions,
               StartDeferred(i, e) \/ Rerun(i, e) \/ RecoverPublish(i, e)
        PROVE  UNCHANGED <<row, claims>>
    BY <2>1 DEF StartDeferred, Rerun, RecoverPublish, tableVars
  <2>2. ASSUME NEW t \in outbox[i], Publish(i, t) \/ PublishFails(i, t)
        PROVE  UNCHANGED <<row, claims>>
    BY <2>2 DEF Publish, PublishFails, tableVars
  <2>3. ASSUME RecoverScan(i) \/ RecoverFails(i)
        PROVE  UNCHANGED <<row, claims>>
    BY <2>3 DEF RecoverScan, RecoverFails, tableVars
  <2> QED
    BY <1>1, <1>2, <1>3, <1>11, <1>12, <2>1, <2>2, <2>3 DEF Publishing
<1>13. ASSUME NEW w \in Workers, WorkerStep(w)
       PROVE  RowStep
  <2>1. ASSUME ResolveTask(w) \/ Lock(w) \/ Suspend(w)
        PROVE  UNCHANGED <<row, claims>>
    BY <2>1 DEF ResolveTask, Lock, Suspend, tableVars
  <2>2. ASSUME Prepare(w)
        PROVE  UNCHANGED <<row, claims>>
    BY <2>2 DEF Prepare, tableVars
  <2> QED
    BY <1>5, <1>6, <1>7, <1>8, <1>11, <1>13, <2>1, <2>2 DEF WorkerStep
<1>14. ASSUME NEW w \in Workers, WorkerFails(w)
       PROVE  RowStep
  <2>1. UNCHANGED <<row, claims>>
    BY <1>14 DEF WorkerFails, PrepareFails, LockTimesOut, RunFails, tableVars
  <2> QED
    BY <1>11, <2>1
<1>15. ASSUME NEW i \in Instances, Interrupting(i)
       PROVE  RowStep
  <2>1. ASSUME NEW e \in Executions, CancelRead(i, e)
        PROVE  UNCHANGED <<row, claims>>
    BY <2>1 DEF CancelRead, tableVars
  <2>2. ASSUME CancelRefused(i)
        PROVE  UNCHANGED <<row, claims>>
    BY <2>2 DEF CancelRefused, tableVars
  <2> QED
    BY <1>9, <1>10, <1>11, <1>15, <2>1, <2>2 DEF Interrupting
<1>16. ASSUME NEW i \in Instances,
              \/ Crash(i)
              \/ Restart(i)
              \/ \E t \in Tasks : Receive(i, t)
       PROVE  UNCHANGED <<row, claims>>
  BY <1>16 DEF Crash, Restart, Receive, tableVars
<1>17. ASSUME NEW e \in Executions, Lapse(e) \/ Expire(e)
       PROVE  UNCHANGED <<row, claims>>
  BY <1>17 DEF Lapse, Expire, tableVars
<1>18. CASE UNCHANGED vars
  BY <1>11, <1>18 DEF vars, tableVars
<1> QED
  BY <1>4, <1>11, <1>12, <1>13, <1>14, <1>15, <1>16, <1>17, <1>18 DEF Next


\* Empty tables and idle workers satisfy the invariant.
LEMMA InitInv == Init => DispatchInv
<1> SUFFICES ASSUME Init
             PROVE  DispatchInv
  OBVIOUS
<1>1. TypeOK
  BY DispatcherAssumption DEF Init, TypeOK, NoRow, Rows, Statuses, PCs, Workers
<1>2. \A e \in Executions : RowInv(row[e])
  BY DEF Init, NoRow, RowInv
<1>3. ClaimedOnce
  BY DEF Init, NoRow, ClaimedOnce
<1>4. \A w \in Workers : WorkerInv(w)
  BY DEF Init, WorkerInv
<1> QED
  BY <1>1, <1>2, <1>3, <1>4 DEF DispatchInv

\* The rows and the count of claims stay consistent.
LEMMA RowsStayConsistent ==
  ASSUME DispatchInv, RowStep
  PROVE  (\A e \in Executions : RowInv(row[e]))' /\ ClaimedOnce'
<1>1. CASE UNCHANGED <<row, claims>>
  BY <1>1 DEF DispatchInv, RowInv, ClaimedOnce
<1>2. CASE ~ UNCHANGED <<row, claims>>
  <2>1. PICK e \in Executions, q \in Rows :
           /\ Moves(row[e], q)
           /\ row' = [row EXCEPT ![e] = q]
           /\ claims' = IF q.startedAt /\ ~row[e].startedAt
                        THEN [claims EXCEPT ![e] = @ + 1] ELSE claims
    BY <1>2 DEF RowStep
  <2>2. RowInv(q)
    BY <2>1 DEF DispatchInv, TypeOK, Rows, RowInv, Moves, Claimed, Ended
  <2>3. row[e].startedAt => q.startedAt
    BY <2>1 DEF DispatchInv, TypeOK, Rows, RowInv, Moves, Claimed
  <2>4. (\A d \in Executions : RowInv(row[d]))'
    BY <2>1, <2>2 DEF DispatchInv, TypeOK, RowInv
  <2>5. ClaimedOnce'
    BY <2>1, <2>3 DEF DispatchInv, TypeOK, ClaimedOnce
  <2> QED
    BY <2>4, <2>5
<1> QED
  BY <1>1, <1>2

\* Whatever another actor does to the row, a worker that stands still may go
\* on believing what its copy of the execution says.
LEMMA StandingStill ==
  ASSUME DispatchInv, RowStep, NEW w \in Workers,
         pc'[w] = pc[w], task'[w] = task[w], seen'[w] = seen[w]
  PROVE  WorkerInv(w)'
<1>1. CASE UNCHANGED row
  BY <1>1 DEF DispatchInv, WorkerInv
<1>2. CASE ~ UNCHANGED row
  <2>1. PICK e \in Executions, q \in Rows : Moves(row[e], q) /\ row' = [row EXCEPT ![e] = q]
    BY <1>2 DEF RowStep
  <2>2. CASE task[w].exec # e
    BY <2>1, <2>2 DEF DispatchInv, WorkerInv, TypeOK
  <2>3. CASE task[w].exec = e
    <3>1. row'[e] = q
      BY <2>1 DEF DispatchInv, TypeOK
    <3>2. CASE pc[w] \in {"lock", "begin", "run", "finish"}
      <4>1. row[e].dispatched /\ row[e].startedAt /\ row[e].status \in Ended \cup {"STARTED", "DESTROYED"}
        BY <2>3, <3>2 DEF DispatchInv, WorkerInv
      <4>2. PICK s \in Ended \cup {"DESTROYED"} : q = [row[e] EXCEPT !.status = s]
        BY <2>1, <4>1 DEF Moves, Ended
      <4>3. q.dispatched = row[e].dispatched /\ q.startedAt = row[e].startedAt /\ q.status = s
        BY <4>2 DEF DispatchInv, TypeOK, Rows
      <4>4. [q EXCEPT !.status = "STARTED"] = [row[e] EXCEPT !.status = "STARTED"]
        BY <4>2 DEF DispatchInv, TypeOK, Rows
      <4> QED
        BY <2>3, <3>1, <3>2, <4>1, <4>3, <4>4 DEF DispatchInv, WorkerInv, Ended
    <3>3. CASE pc[w] \notin {"lock", "begin", "run", "finish"}
      BY <2>3, <3>1, <3>3 DEF DispatchInv, WorkerInv
    <3> QED
      BY <3>2, <3>3
  <2> QED
    BY <2>2, <2>3
<1> QED
  BY <1>1, <1>2

\* A step of worker w leaves every other worker where it stands.
LEMMA OneWorkerActs ==
  ASSUME DispatchInv, RowStep, NEW w \in Workers, WorkerInv(w)',
         \/ Leave(w)
         \/ (\E next \in PCs : Go(w, next)) /\ \A v \in Workers \ {w} : seen'[v] = seen[v]
  PROVE  \A v \in Workers : WorkerInv(v)'
<1> SUFFICES ASSUME NEW v \in Workers \ {w}
             PROVE  WorkerInv(v)'
  OBVIOUS
<1>1. pc'[v] = pc[v] /\ task'[v] = task[v] /\ seen'[v] = seen[v]
  BY DEF DispatchInv, TypeOK, Leave, Go
<1> QED
  BY <1>1, StandingStill

\* A worker that has left its task believes nothing.
LEMMA LeavingIsSafe ==
  ASSUME DispatchInv, RowStep, NEW w \in Workers, Leave(w)
  PROVE  \A v \in Workers : WorkerInv(v)'
<1>1. WorkerInv(w)'
  BY DEF DispatchInv, TypeOK, Leave, WorkerInv
<1> QED
  BY <1>1, OneWorkerActs

\* Every step of the dispatcher keeps the relation between the rows, the claims
\* counted and what each worker believes of the execution it works on.
THEOREM DispatchInvInductive == DispatchInv /\ [Next]_vars => DispatchInv'
<1> SUFFICES ASSUME DispatchInv, [Next]_vars
             PROVE  DispatchInv'
  OBVIOUS
<1> DEFINE Workers_OK == \A v \in Workers : WorkerInv(v)'
<1>1. RowStep
  BY StepsAreRowSteps
<1>2. TypeOK'
  BY TypeInductive DEF DispatchInv
<1>3. (\A e \in Executions : RowInv(row[e]))' /\ ClaimedOnce'
  BY <1>1, RowsStayConsistent
<1>4. Workers_OK
  <2>1. CASE UNCHANGED workVars
    BY <1>1, <2>1, StandingStill DEF workVars
  <2>2. ASSUME NEW i \in Instances, NEW e \in Executions, TriggerSync(i, e)
        PROVE  Workers_OK
    <3> DEFINE w == SyncWorker(i)
    <3>1. w \in Workers
      BY <2>2 DEF TriggerSync, Workers
    <3>2. WorkerInv(w)'
      BY <2>2, <3>1 DEF TriggerSync, WorkerInv, DispatchInv, TypeOK
    <3>3. \A v \in Workers \ {w} : pc'[v] = pc[v] /\ task'[v] = task[v] /\ seen'[v] = seen[v]
      BY <2>2, <3>1 DEF TriggerSync, DispatchInv, TypeOK
    <3> QED
      BY <1>1, <3>2, <3>3, StandingStill
  <2>3. ASSUME NEW i \in Instances, NEW t \in Tasks, Receive(i, t)
        PROVE  Workers_OK
    <3> DEFINE w == QueueWorker(i)
    <3>1. w \in Workers
      BY DEF Workers
    <3>2. WorkerInv(w)'
      BY <2>3, <3>1 DEF Receive, WorkerInv, DispatchInv, TypeOK
    <3>3. \A v \in Workers \ {w} : pc'[v] = pc[v] /\ task'[v] = task[v] /\ seen'[v] = seen[v]
      BY <2>3, <3>1 DEF Receive, DispatchInv, TypeOK
    <3> QED
      BY <1>1, <3>2, <3>3, StandingStill
  <2>4. ASSUME NEW w \in Workers, Leave(w)
        PROVE  Workers_OK
    BY <1>1, <2>4, LeavingIsSafe
  <2>5. ASSUME NEW w \in Workers, ResolveTask(w)
        PROVE  Workers_OK
    <3>1. CASE Go(w, "prepare") /\ UNCHANGED seen
      <4>1. WorkerInv(w)'
        BY <3>1 DEF Go, WorkerInv, DispatchInv, TypeOK
      <4> QED
        BY <1>1, <3>1, <4>1, OneWorkerActs DEF PCs
    <3> QED
      BY <2>4, <2>5, <3>1 DEF ResolveTask
  <2>6. ASSUME NEW w \in Workers, Prepare(w), ~Leave(w)
        PROVE  Workers_OK
    <3> DEFINE r == row[task[w].exec]
    <3>1. /\ pc[w] = "prepare"
          /\ r.status \in {"QUEUEING", "STARTED"}
          /\ Go(w, IF r.dispatched /\ r.status = "STARTED" /\ r.startedAt THEN "lock" ELSE "claim")
          /\ seen' = [seen EXCEPT ![w] = r]
          /\ UNCHANGED row
      BY <2>6 DEF Prepare, tableVars
    <3>2. task[w].exec \in Executions
      BY <3>1 DEF DispatchInv, TypeOK, Tasks
    <3>3. RowInv(r) /\ r \in Rows
      BY <3>2 DEF DispatchInv, TypeOK
    <3>4. seen'[w] = r /\ task'[w] = task[w] /\ row'[task'[w].exec] = r
      BY <3>1 DEF DispatchInv, TypeOK, Go
    <3>5. WorkerInv(w)'
      <4>1. CASE r.dispatched /\ r.status = "STARTED" /\ r.startedAt
        <5>1. pc'[w] = "lock" /\ r = [r EXCEPT !.status = "STARTED"]
          BY <3>1, <3>3, <4>1 DEF Go, DispatchInv, TypeOK, Rows
        <5> QED
          BY <3>4, <4>1, <5>1 DEF WorkerInv
      <4>2. CASE ~(r.dispatched /\ r.status = "STARTED" /\ r.startedAt)
        <5>1. pc'[w] = "claim"
          BY <3>1, <4>2 DEF Go, DispatchInv, TypeOK
        <5>2. ~r.startedAt
          BY <3>1, <3>3, <4>2 DEF RowInv
        <5> QED
          BY <3>1, <3>4, <5>1, <5>2 DEF WorkerInv
      <4> QED
        BY <4>1, <4>2
    <3>6. (\E next \in PCs : Go(w, next)) /\ \A v \in Workers \ {w} : seen'[v] = seen[v]
      BY <3>1 DEF PCs, DispatchInv, TypeOK
    <3> QED
      BY <1>1, <3>5, <3>6, OneWorkerActs
  <2>7. ASSUME NEW w \in Workers, Claim(w), ~Leave(w)
        PROVE  Workers_OK
    <3> DEFINE e == task[w].exec
    <3>1. /\ pc[w] = "claim"
          /\ row' = [row EXCEPT ![e] = Claimed]
          /\ seen' = [seen EXCEPT ![w] = Claimed]
          /\ Go(w, "lock")
      BY <2>7 DEF Claim, Claimed
    <3>2. e \in Executions
      BY <3>1 DEF DispatchInv, TypeOK, Tasks
    <3>3. row'[e] = Claimed /\ seen'[w] = Claimed /\ task'[w] = task[w] /\ pc'[w] = "lock"
      BY <3>1, <3>2 DEF DispatchInv, TypeOK, Go
    <3>4. WorkerInv(w)'
      BY <3>3 DEF WorkerInv, Claimed
    <3>5. (\E next \in PCs : Go(w, next)) /\ \A v \in Workers \ {w} : seen'[v] = seen[v]
      BY <3>1 DEF PCs, DispatchInv, TypeOK
    <3> QED
      BY <1>1, <3>4, <3>5, OneWorkerActs
  <2>8. ASSUME NEW w \in Workers, Lock(w) \/ Suspend(w) \/ RunFails(w)
        PROVE  Workers_OK
    <3>1. /\ pc[w] \in {"lock", "run"}
          /\ \E next \in {"begin", "finish"} : Go(w, next)
          /\ UNCHANGED <<row, seen>>
      BY <2>8 DEF Lock, Suspend, RunFails, tableVars
    <3>2. pc'[w] \in {"begin", "finish"} /\ task'[w] = task[w]
      BY <3>1 DEF DispatchInv, TypeOK, Go
    <3>3. pc[w] = "run" => seen[w].status = "STARTED"
      <4>1. SUFFICES ASSUME pc[w] = "run" PROVE seen[w].status = "STARTED"
        OBVIOUS
      <4>2. task[w].exec \in Executions
        BY <4>1 DEF DispatchInv, TypeOK, Tasks
      <4> QED
        BY <4>1, <4>2 DEF DispatchInv, TypeOK, Rows, WorkerInv
    <3>4. pc[w] = "lock" => pc'[w] = "begin"
      BY <2>8 DEF Lock, Suspend, RunFails, Go, DispatchInv, TypeOK
    <3>5. WorkerInv(w)'
      BY <3>1, <3>2, <3>3, <3>4 DEF DispatchInv, WorkerInv, Ended
    <3> QED
      BY <1>1, <3>1, <3>5, OneWorkerActs DEF PCs
  <2>9. ASSUME NEW w \in Workers, Begin(w)
        PROVE  Workers_OK
    <3> DEFINE e == task[w].exec
    <3>1. pc[w] = "begin" /\ e \in Executions
      BY <2>9 DEF Begin, DispatchInv, TypeOK, Tasks
    <3>2. WorkerInv(w)'
      <4>1. CASE e \in expired
        <5>1. /\ SetStatus(e, "STARTED", "ABORTED")
              /\ seen' = IF row[e].status = "STARTED" THEN [seen EXCEPT ![w].status = "ABORTED"] ELSE seen
              /\ pc'[w] = "finish" /\ task'[w] = task[w]
          BY <2>9, <4>1 DEF Begin, AbortExecution, Go, DispatchInv, TypeOK
        <5>2. /\ row[e].dispatched /\ row[e].startedAt
              /\ row[e].status \in Ended \cup {"STARTED", "DESTROYED"}
              /\ seen[w].status = "STARTED"
          BY <3>1 DEF DispatchInv, WorkerInv, TypeOK, Rows
        <5>3. CASE row[e].status = "STARTED"
          <6>1. row'[e] = [row[e] EXCEPT !.status = "ABORTED"]
            BY <3>1, <5>1, <5>3 DEF SetStatus, DispatchInv, TypeOK
          <6>2. row'[e].dispatched /\ row'[e].startedAt /\ row'[e].status = "ABORTED"
            BY <3>1, <5>2, <6>1 DEF DispatchInv, TypeOK, Rows
          <6> QED
            BY <5>1, <6>2 DEF WorkerInv, Ended
        <5>4. CASE row[e].status # "STARTED"
          BY <5>1, <5>2, <5>4 DEF SetStatus, WorkerInv, Ended
        <5> QED
          BY <5>3, <5>4
      <4>2. CASE e \notin expired
        <5>1. UNCHANGED <<row, seen>> /\ pc'[w] = "run" /\ task'[w] = task[w]
          BY <2>9, <4>2 DEF Begin, Go, DispatchInv, TypeOK
        <5> QED
          BY <3>1, <5>1 DEF DispatchInv, WorkerInv
      <4> QED
        BY <4>1, <4>2
    <3>3. (\E next \in PCs : Go(w, next)) /\ \A v \in Workers \ {w} : seen'[v] = seen[v]
      BY <2>9 DEF Begin, PCs, DispatchInv, TypeOK
    <3> QED
      BY <1>1, <3>2, <3>3, OneWorkerActs
  <2>10. ASSUME NEW w \in Workers, Exit(w)
         PROVE  Workers_OK
    <3> DEFINE e == task[w].exec
    <3>1. pc[w] = "run" /\ e \in Executions
      BY <2>10 DEF Exit, DispatchInv, TypeOK, Tasks
    <3>2. PICK s \in {"RESOLVED", "FAILED", "ABORTED"} : SetStatus(e, "STARTED", s)
      BY <2>10 DEF Exit
    <3>3. pc'[w] = "finish" /\ task'[w] = task[w] /\ seen'[w] = row'[e]
      BY <2>10 DEF Exit, Go, DispatchInv, TypeOK
    <3>4. /\ row[e].dispatched /\ row[e].startedAt
          /\ row[e].status \in Ended \cup {"STARTED", "DESTROYED"}
      BY <3>1 DEF DispatchInv, WorkerInv
    <3>5. /\ row'[e].dispatched /\ row'[e].startedAt
          /\ row'[e].status \in Ended \cup {"DESTROYED"}
      <4>1. CASE row[e].status = "STARTED"
        <5>1. row'[e] = [row[e] EXCEPT !.status = s]
          BY <3>1, <3>2, <4>1 DEF SetStatus, DispatchInv, TypeOK
        <5> QED
          BY <3>1, <3>4, <5>1 DEF DispatchInv, TypeOK, Rows, Ended
      <4>2. CASE row[e].status # "STARTED"
        BY <3>2, <3>4, <4>2 DEF SetStatus
      <4> QED
        BY <4>1, <4>2
    <3>6. WorkerInv(w)'
      BY <3>3, <3>5 DEF WorkerInv, Ended
    <3>7. (\E next \in PCs : Go(w, next)) /\ \A v \in Workers \ {w} : seen'[v] = seen[v]
      BY <2>10 DEF Exit, PCs, DispatchInv, TypeOK
    <3> QED
      BY <1>1, <3>6, <3>7, OneWorkerActs
  <2>11. ASSUME NEW i \in Instances, Crash(i)
         PROVE  Workers_OK
    <3> SUFFICES ASSUME NEW v \in Workers
                 PROVE  WorkerInv(v)'
      OBVIOUS
    <3>1. CASE v[1] = i
      <4>1. pc'[v] = "idle"
        BY <2>11, <3>1 DEF Crash
      <4> QED
        BY <4>1 DEF WorkerInv
    <3>2. CASE v[1] # i
      <4>1. pc'[v] = pc[v] /\ task'[v] = task[v] /\ seen'[v] = seen[v]
        BY <2>11, <3>2 DEF Crash
      <4> QED
        BY <1>1, <4>1, StandingStill
    <3> QED
      BY <3>1, <3>2
  <2>12. ASSUME NEW w \in Workers, PrepareFails(w) \/ LockTimesOut(w) \/ Finish(w)
         PROVE  Workers_OK
    BY <2>4, <2>12 DEF PrepareFails, LockTimesOut, Finish
  <2> QED
    BY <2>1, <2>2, <2>3, <2>4, <2>5, <2>6, <2>7, <2>8, <2>9, <2>10, <2>11, <2>12
    DEF Next, Publishing, WorkerStep, WorkerFails, Interrupting, vars, workVars,
        CreateExecution, Publish, PublishFails, StartDeferred, Resume, Rerun,
        DestroyExecution, RecoverScan, RecoverPublish, RecoverFails, Lapse, Expire,
        TimeoutScan, CancelRead, CancelApply, CancelRefused, Restart
<1> QED
  BY <1>2, <1>3, <1>4 DEF DispatchInv

\* The strengthened invariant holds in every reachable state.
THEOREM DispatchInvHolds == Spec => []DispatchInv
BY InitInv, DispatchInvInductive, PTL DEF Spec

-----------------------------------------------------------------------------
(* What follows from it *)

\* An execution is claimed at most once, and startedAt tells that it was.
THEOREM ExecutionIsClaimedOnce == Spec => []ClaimedOnce
<1>1. DispatchInv => ClaimedOnce
  BY DEF DispatchInv
<1> QED
  BY <1>1, DispatchInvHolds, PTL

\* No worker processes an execution that nobody claimed.
THEOREM OnlyClaimedExecutionsRun == Spec => []OnlyClaimedRuns
<1>1. DispatchInv => OnlyClaimedRuns
  BY DEF DispatchInv, WorkerInv, OnlyClaimedRuns
<1> QED
  BY <1>1, DispatchInvHolds, PTL

\* The recovery query matches every queueing execution.
THEOREM RecoveryMissesNothing == Spec => []QueueingIsRecoverable
<1>1. DispatchInv => QueueingIsRecoverable
  BY DEF DispatchInv, RowInv, QueueingIsRecoverable, Recoverable
<1> QED
  BY <1>1, DispatchInvHolds, PTL

-----------------------------------------------------------------------------
(* The life of an execution *)

\* A move of a row is a step in the life of the execution.
LEMMA MovesAreLifeSteps ==
  ASSUME NEW r \in Rows, NEW q \in Rows, Moves(r, q), RowInv(r)
  PROVE  \/ Stage(r) = "absent" /\ Stage(q) \in {"queueing", "deferred"}
         \/ Stage(r) \in {"queueing", "deferred"} /\ Stage(q) = "running"
         \/ Stage(r) = "running" /\ Stage(q) = "completed"
         \/ Stage(r) \in {"queueing", "deferred", "running"} /\ Stage(q) = "aborted"
         \/ Stage(r) \in {"completed", "aborted"} /\ Stage(q) = "destroyed"
<1>1. CASE r.status = "ABSENT" /\ q \in {[status |-> "QUEUEING", dispatched |-> FALSE, startedAt |-> FALSE],
                                         [status |-> "STARTED", dispatched |-> TRUE, startedAt |-> FALSE]}
  BY <1>1 DEF Stage, Ended
<1>2. CASE r.status \in {"QUEUEING", "STARTED"} /\ ~r.startedAt /\ q = Claimed
  BY <1>2 DEF Stage, Claimed, Ended
<1>3. CASE r.status \in {"QUEUEING", "STARTED"} /\ q = [r EXCEPT !.status = "ABORTED"]
  <2>1. q.status = "ABORTED"
    BY <1>3 DEF Rows
  <2> QED
    BY <1>3, <2>1 DEF Stage, Ended
<1>4. CASE r.status = "STARTED" /\ r.startedAt /\ \E s \in {"RESOLVED", "FAILED"} : q = [r EXCEPT !.status = s]
  <2>1. q.status \in {"RESOLVED", "FAILED"}
    BY <1>4 DEF Rows
  <2> QED
    BY <1>4, <2>1 DEF Stage, Ended
<1>5. CASE r.status \in Ended /\ q = [r EXCEPT !.status = "DESTROYED"]
  <2>1. q.status = "DESTROYED"
    BY <1>5 DEF Rows
  <2> QED
    BY <1>5, <2>1 DEF Stage, Ended
<1> QED
  BY <1>1, <1>2, <1>3, <1>4, <1>5 DEF Moves

\* Every step of the dispatcher is a step of ExecutionLifecycle or a stutter.
LEMMA LifeStep ==
  ASSUME DispatchInv, RowStep
  PROVE  Lifecycle!Next \/ UNCHANGED lifeBar
<1>1. CASE UNCHANGED row
  BY <1>1 DEF lifeBar
<1>2. CASE ~ UNCHANGED row
  <2>1. PICK e \in Executions, q \in Rows : Moves(row[e], q) /\ row' = [row EXCEPT ![e] = q]
    BY <1>2 DEF RowStep
  <2>2. row[e] \in Rows /\ RowInv(row[e])
    BY DEF DispatchInv, TypeOK
  <2>3. lifeBar[e] = Stage(row[e]) /\ lifeBar' = [lifeBar EXCEPT ![e] = Stage(q)]
    <3>1. \A d \in Executions : row'[d] = IF d = e THEN q ELSE row[d]
      BY <2>1 DEF DispatchInv, TypeOK
    <3>2. lifeBar' = [d \in Executions |-> Stage(row'[d])]
      BY DEF lifeBar, Stage
    <3> QED
      BY <3>1, <3>2 DEF lifeBar
  <2>4. \/ lifeBar[e] = "absent" /\ Stage(q) \in {"queueing", "deferred"}
        \/ lifeBar[e] \in {"queueing", "deferred"} /\ Stage(q) = "running"
        \/ lifeBar[e] = "running" /\ Stage(q) = "completed"
        \/ lifeBar[e] \in {"queueing", "deferred", "running"} /\ Stage(q) = "aborted"
        \/ lifeBar[e] \in {"completed", "aborted"} /\ Stage(q) = "destroyed"
    BY <2>1, <2>2, <2>3, MovesAreLifeSteps
  <2>5. Lifecycle!Create(e) \/ Lifecycle!Claim(e) \/ Lifecycle!Complete(e)
        \/ Lifecycle!Abort(e) \/ Lifecycle!Destroy(e)
    BY <2>3, <2>4 DEF Lifecycle!Create, Lifecycle!Claim, Lifecycle!Complete,
       Lifecycle!Abort, Lifecycle!Destroy, Lifecycle!Move
  <2> QED
    BY <2>5 DEF Lifecycle!Next
<1> QED
  BY <1>1, <1>2

\* The cluster implements the abstract life of executions.
THEOREM DispatcherImplementsLifecycle == Spec => ImplementsLifecycle
<1>1. Init => Lifecycle!Init
  BY DEF Init, NoRow, lifeBar, Stage, Lifecycle!Init
<1>2. DispatchInv /\ [Next]_vars => [Lifecycle!Next]_lifeBar
  BY StepsAreRowSteps, LifeStep
<1> QED
  BY <1>1, <1>2, DispatchInvHolds, PTL DEF Spec, ImplementsLifecycle, Lifecycle!Spec

\* An execution that has ended is never started or completed again, whatever
\* stale copies the workers hold.
THEOREM EndedExecutionsStayEnded == Spec => EndedIsFinal
<1> DEFINE Final == \A e \in Executions : row[e].status \in Ended =>
                      row'[e].status \in {row[e].status, "DESTROYED"}
<1>1. ASSUME DispatchInv, RowStep
      PROVE  Final
  <2>1. CASE UNCHANGED row
    BY <2>1
  <2>2. CASE ~ UNCHANGED row
    <3>1. PICK e \in Executions, q \in Rows : Moves(row[e], q) /\ row' = [row EXCEPT ![e] = q]
      BY <1>1, <2>2 DEF RowStep
    <3>2. row[e].status \in Ended => q.status = "DESTROYED"
      <4>1. SUFFICES ASSUME row[e].status \in Ended PROVE q.status = "DESTROYED"
        OBVIOUS
      <4>2. q = [row[e] EXCEPT !.status = "DESTROYED"]
        BY <3>1, <4>1 DEF Moves, Ended
      <4> QED
        BY <1>1, <4>2 DEF DispatchInv, TypeOK, Rows
    <3> QED
      BY <1>1, <3>1, <3>2 DEF DispatchInv, TypeOK
  <2> QED
    BY <2>1, <2>2
<1>2. DispatchInv /\ [Next]_vars => [Final]_vars
  BY <1>1, StepsAreRowSteps
<1> QED
  BY <1>2, DispatchInvHolds, PTL DEF Spec, EndedIsFinal

-----------------------------------------------------------------------------
(* No started execution is lost.  A start task at the lock may be given up,  *)
(* so it counts only while nobody holds the lock: who holds it goes on with  *)
(* the execution, or has left it to a PENDING job or a task of another kind. *)

Running(e) == row[e].status = "STARTED" /\ row[e].startedAt

\* A task that resumes or reruns the execution is about to be handled.
Pending(e) == \E t \in Tasks : /\ t.exec = e /\ t.kind # "start"
                               /\ queue[t] > 0 \/ \E i \in Instances : t \in outbox[i]

\* Worker w goes on with the execution, whatever the others do.
Pushing(w, e) == /\ task[w].exec = e
                 /\ \/ pc[w] \in {"begin", "run"}
                    \/ pc[w] \in {"resolve", "prepare", "lock"} /\ task[w].kind # "start"

InHand(e) == e \in waiting \/ Pending(e) \/ \E w \in Workers : Pushing(w, e)

AtFreeLock(e) == lock[e] = Nobody /\ \E w \in Workers : pc[w] = "lock" /\ task[w].exec = e

\* Worker w is between tryAcquire and the release.
Holds(w, e) == w \in Workers /\ task[w].exec = e /\ pc[w] \in {"begin", "run", "finish"}

LossInv ==
  faults = 0 => \A e \in Executions :
    /\ lock[e] = Nobody \/ Holds(lock[e], e)
    /\ Running(e) => InHand(e) \/ AtFreeLock(e)

\* Only a claim makes a row a running one.
LEMMA RunningBefore ==
  ASSUME DispatchInv, RowStep, UNCHANGED claims, NEW e \in Executions, Running(e)'
  PROVE  Running(e)
<1>1. CASE UNCHANGED row
  BY <1>1 DEF Running
<1>2. CASE ~ UNCHANGED row
  <2>1. PICK d \in Executions, q \in Rows :
          /\ Moves(row[d], q) /\ row' = [row EXCEPT ![d] = q]
          /\ claims' = IF q.startedAt /\ ~row[d].startedAt THEN [claims EXCEPT ![d] = @ + 1] ELSE claims
    BY <1>2 DEF RowStep
  <2>2. ~(q.startedAt /\ ~row[d].startedAt)
    BY <2>1 DEF DispatchInv, TypeOK
  <2>3. row[d] \in Rows
    BY DEF DispatchInv, TypeOK
  <2>4. ~(q.status = "STARTED" /\ q.startedAt)
    BY <2>1, <2>2, <2>3 DEF Moves, Claimed, Rows, Ended
  <2> QED
    BY <2>1, <2>4 DEF DispatchInv, TypeOK, Running
<1> QED
  BY <1>1, <1>2

\* Steps that leave the workers alone, give no lock away and lose no task.
LEMMA WorkersAlone ==
  ASSUME DispatchInv, RowStep, LossInv, UNCHANGED <<claims, faults, pc, task>>,
         \A e \in Executions : lock'[e] \in {lock[e], Nobody},
         \A e \in Executions : Running(e)' /\ (e \in waiting \/ Pending(e)) => InHand(e)'
  PROVE  LossInv'
<1> SUFFICES ASSUME faults = 0, NEW e \in Executions
             PROVE  /\ lock'[e] = Nobody \/ Holds(lock[e], e)'
                    /\ Running(e)' => InHand(e)' \/ AtFreeLock(e)'
  BY DEF LossInv
<1>1. lock'[e] = Nobody \/ Holds(lock[e], e)'
  BY DEF LossInv, Holds
<1>2. ASSUME Running(e)'
      PROVE  InHand(e)' \/ AtFreeLock(e)'
  <2>1. InHand(e) \/ AtFreeLock(e)
    BY <1>2, RunningBefore DEF LossInv
  <2>2. ASSUME NEW w \in Workers, Pushing(w, e)
        PROVE  InHand(e)'
    BY <2>2 DEF Pushing, InHand
  <2>3. AtFreeLock(e) => AtFreeLock(e)'
    BY DEF AtFreeLock
  <2> QED
    BY <1>2, <2>1, <2>2, <2>3 DEF InHand
<1> QED
  BY <1>1, <1>2

\* Steps of one worker: it may take the lock it needs, and release its own; the
\* execution it gives up is in other hands.
LEMMA OneWorkerMoves ==
  ASSUME DispatchInv, RowStep, LossInv, UNCHANGED <<claims, faults>>, NEW w \in Workers,
         \A v \in Workers \ {w} : pc'[v] = pc[v] /\ task'[v] = task[v],
         \A e \in Executions : \/ lock'[e] = Nobody
                               \/ lock'[e] = w /\ Holds(w, e)' /\ InHand(e)'
                               \/ lock'[e] = lock[e] /\ (lock[e] = w /\ Holds(w, e) => Holds(w, e)'),
         \A e \in Executions : Running(e)' /\ (e \in waiting \/ Pending(e) \/ Pushing(w, e)) => InHand(e)',
         \A e \in Executions : pc[w] = "lock" /\ task[w].exec = e => lock[e] # Nobody \/ InHand(e)'
  PROVE  LossInv'
<1> SUFFICES ASSUME faults = 0, NEW e \in Executions
             PROVE  /\ lock'[e] = Nobody \/ Holds(lock[e], e)'
                    /\ Running(e)' => InHand(e)' \/ AtFreeLock(e)'
  BY DEF LossInv
<1>1. ASSUME NEW v \in Workers \ {w}, Holds(v, e)
      PROVE  Holds(v, e)'
  BY <1>1 DEF Holds
<1>2. lock'[e] = Nobody \/ Holds(lock[e], e)'
  <2>1. CASE lock'[e] = lock[e] /\ lock[e] # Nobody
    <3>1. Holds(lock[e], e) /\ lock[e] \in Workers
      BY <2>1 DEF LossInv, Holds
    <3> QED
      BY <1>1, <2>1, <3>1
  <2> QED
    BY <2>1
<1>3. ASSUME Running(e)'
      PROVE  InHand(e)' \/ AtFreeLock(e)'
  <2>1. InHand(e) \/ AtFreeLock(e)
    BY <1>3, RunningBefore DEF LossInv
  <2>2. ASSUME NEW v \in Workers \ {w}, Pushing(v, e)
        PROVE  InHand(e)'
    <3>1. Pushing(v, e)'
      BY <2>2 DEF Pushing
    <3> QED
      BY <3>1 DEF InHand
  <2>3. CASE InHand(e)
    BY <1>3, <2>2, <2>3 DEF InHand
  <2>4. CASE AtFreeLock(e)
    <3>1. PICK v \in Workers : pc[v] = "lock" /\ task[v].exec = e
      BY <2>4 DEF AtFreeLock
    <3>2. CASE v = w
      BY <2>4, <3>1, <3>2 DEF AtFreeLock
    <3>3. CASE v # w
      <4>1. pc'[v] = "lock" /\ task'[v].exec = e
        BY <3>1, <3>3
      <4>2. lock'[e] = Nobody \/ InHand(e)'
        BY <2>4 DEF AtFreeLock
      <4> QED
        BY <4>1, <4>2 DEF AtFreeLock
    <3> QED
      BY <3>2, <3>3
  <2> QED
    BY <2>1, <2>3, <2>4
<1> QED
  BY <1>2, <1>3

\* A task that stays in its queue or outbox is still to be handled.
LEMMA TasksStay ==
  ASSUME DispatchInv, NEW e \in Executions, Pending(e),
         \A t \in Tasks : queue'[t] >= queue[t],
         \A i \in Instances : outbox[i] \subseteq outbox'[i],
         queue' \in [Tasks -> Nat]
  PROVE  Pending(e)'
<1>1. PICK t \in Tasks : /\ t.exec = e /\ t.kind # "start"
                         /\ queue[t] > 0 \/ \E i \in Instances : t \in outbox[i]
  BY DEF Pending
<1>2. queue[t] > 0 => queue'[t] > 0
  BY DEF DispatchInv, TypeOK
<1> QED
  BY <1>1, <1>2 DEF Pending

\* enqueue adds a copy, and loses none.
LEMMA EnqueueAdds ==
  ASSUME DispatchInv, NEW t \in Tasks, Enqueue(t)
  PROVE  /\ queue' \in [Tasks -> Nat]
         /\ \A u \in Tasks : queue'[u] >= queue[u]
         /\ queue'[t] > 0
BY DEF DispatchInv, TypeOK, Enqueue

\* A row that is aborted or has ended is not running any more.
LEMMA StatusEnds ==
  ASSUME DispatchInv, NEW e \in Executions, NEW s \in Ended, SetStatus(e, "STARTED", s)
  PROVE  ~Running(e)'
<1>1. CASE row[e].status = "STARTED"
  <2>1. row'[e] = [row[e] EXCEPT !.status = s]
    BY <1>1 DEF SetStatus, DispatchInv, TypeOK
  <2>2. row[e] \in Rows /\ s \in Statuses /\ s # "STARTED"
    BY DEF DispatchInv, TypeOK, Statuses, Ended
  <2> QED
    BY <2>1, <2>2, RowTyped DEF Running
<1>2. CASE row[e].status # "STARTED"
  BY <1>2 DEF SetStatus, Running
<1> QED
  BY <1>1, <1>2

\* abortExecution takes a PENDING job only from an execution that it ends.
LEMMA AbortStrands ==
  ASSUME DispatchInv, NEW d \in Executions, NEW x \in {"QUEUEING", "STARTED"}, AbortExecution(d, x),
         NEW e \in Executions, Running(e)', e \in waiting
  PROVE  e \in waiting'
<1>1. CASE row[d].status = x /\ e = d
  <2>1. row'[e] = [row[e] EXCEPT !.status = "ABORTED"]
    BY <1>1 DEF AbortExecution, SetStatus, DispatchInv, TypeOK
  <2>2. row[e] \in Rows /\ "ABORTED" \in Statuses
    BY DEF DispatchInv, TypeOK, Statuses, Ended
  <2>3. row'[e].status = "ABORTED"
    BY <2>1, <2>2, RowTyped
  <2> QED
    BY <2>3 DEF Running
<1>2. CASE ~(row[d].status = x /\ e = d)
  BY <1>2 DEF AbortExecution
<1> QED
  BY <1>1, <1>2

\* What the users, the publishers and the timers do loses no execution.
LEMMA OutsideLoses ==
  ASSUME DispatchInv, RowStep, LossInv,
         \/ \E i \in Instances :
              \/ \E e \in Executions : \/ CreateExecution(i, e) \/ StartDeferred(i, e) \/ Resume(i, e)
                                       \/ Rerun(i, e) \/ RecoverPublish(i, e)
                                       \/ TimeoutScan(i, e) \/ CancelRead(i, e)
              \/ \E t \in outbox[i] : Publish(i, t)
              \/ RecoverScan(i) \/ CancelApply(i) \/ CancelRefused(i) \/ Restart(i)
         \/ \E e \in Executions : DestroyExecution(e) \/ Lapse(e) \/ Expire(e)
         \/ UNCHANGED vars
  PROVE  LossInv'
<1> DEFINE Alone == UNCHANGED <<claims, faults, pc, task>>
           Locks == \A e \in Executions : lock'[e] \in {lock[e], Nobody}
           Hands == \A e \in Executions : Running(e)' /\ (e \in waiting \/ Pending(e)) => InHand(e)'
<1>1. ASSUME Alone, Locks, Hands
      PROVE  LossInv'
  BY <1>1, WorkersAlone
<1>2. ASSUME UNCHANGED <<waiting, queue, outbox>>
      PROVE  Hands
  BY <1>2 DEF InHand, Pending
<1>3. ASSUME NEW t \in Tasks, Enqueue(t), UNCHANGED <<waiting, outbox>>
      PROVE  Hands
  BY <1>3, EnqueueAdds, TasksStay DEF InHand
<1>4. ASSUME NEW i \in Instances, NEW e \in Executions, CreateExecution(i, e)
      PROVE  LossInv'
  <2>1. Alone /\ Locks /\ UNCHANGED <<waiting, queue>>
    BY <1>4 DEF CreateExecution, workVars
  <2>2. \A k \in Instances : outbox[k] \subseteq outbox'[k]
    BY <1>4 DEF CreateExecution, DispatchInv, TypeOK
  <2>3. \A d \in Executions : Pending(d) => Pending(d)'
    BY <2>1, <2>2 DEF Pending
  <2> QED
    BY <1>1, <2>1, <2>3 DEF InHand
<1>5. ASSUME NEW i \in Instances, NEW e \in Executions,
             StartDeferred(i, e) \/ Rerun(i, e) \/ RecoverPublish(i, e)
      PROVE  LossInv'
  <2>1. Alone /\ Locks /\ UNCHANGED <<waiting, outbox>>
    BY <1>5 DEF StartDeferred, Rerun, RecoverPublish, workVars, tableVars
  <2>2. \E t \in Tasks : Enqueue(t)
    BY <1>5, TaskTyped DEF StartDeferred, Rerun, RecoverPublish
  <2> QED
    BY <1>1, <1>3, <2>1, <2>2
<1>6. ASSUME NEW i \in Instances, NEW e \in Executions, Resume(i, e)
      PROVE  LossInv'
  <2>1. Alone /\ Locks /\ UNCHANGED queue
    BY <1>6 DEF Resume, workVars
  <2>2. CASE outbox' = [outbox EXCEPT ![i] = @ \cup {Task("resume", e)}] /\ waiting' \in {waiting, waiting \ {e}}
    <3>1. \A k \in Instances : outbox[k] \subseteq outbox'[k]
      BY <2>2 DEF DispatchInv, TypeOK
    <3>2. \A d \in Executions : Pending(d) => Pending(d)'
      BY <2>1, <3>1 DEF Pending
    <3>3. Pending(e)'
      <4>1. Task("resume", e) \in Tasks /\ Task("resume", e) \in outbox'[i]
        BY <2>2, TaskTyped DEF DispatchInv, TypeOK
      <4>2. Task("resume", e).exec = e /\ Task("resume", e).kind # "start"
        BY DEF Task
      <4> QED
        BY <4>1, <4>2 DEF Pending
    <3>4. Hands
      BY <2>2, <3>2, <3>3 DEF InHand
    <3> QED
      BY <1>1, <2>1, <3>4
  <2>3. CASE AbortExecution(e, "STARTED") /\ UNCHANGED outbox
    <3>1. \A d \in Executions : Pending(d) => Pending(d)'
      BY <2>1, <2>3 DEF Pending
    <3>2. Hands
      BY <2>3, <3>1, AbortStrands DEF InHand
    <3> QED
      BY <1>1, <2>1, <3>2
  <2> QED
    BY <1>6, <2>2, <2>3 DEF Resume
<1>7. ASSUME NEW i \in Instances,
             CancelApply(i) \/ \E e \in Executions : TimeoutScan(i, e)
      PROVE  LossInv'
  <2>1. Alone /\ Locks /\ UNCHANGED <<queue, outbox>>
    BY <1>7 DEF CancelApply, TimeoutScan, workVars
  <2>2. \E d \in Executions, x \in {"QUEUEING", "STARTED"} : AbortExecution(d, x)
    BY <1>7 DEF CancelApply, TimeoutScan, DispatchInv, TypeOK
  <2>3. \A d \in Executions : Pending(d) => Pending(d)'
    BY <2>1 DEF Pending
  <2>4. Hands
    BY <2>2, <2>3, AbortStrands DEF InHand
  <2> QED
    BY <1>1, <2>1, <2>4
<1>8. ASSUME NEW i \in Instances, NEW t \in outbox[i], Publish(i, t)
      PROVE  LossInv'
  <2>1. Alone /\ Locks /\ UNCHANGED waiting /\ Enqueue(t) /\ t \in Tasks
        /\ outbox' = [outbox EXCEPT ![i] = @ \ {t}]
    BY <1>8 DEF Publish, workVars, DispatchInv, TypeOK
  <2>2. ASSUME NEW e \in Executions, Pending(e)
        PROVE  Pending(e)'
    <3>1. PICK u \in Tasks : /\ u.exec = e /\ u.kind # "start"
                             /\ queue[u] > 0 \/ \E k \in Instances : u \in outbox[k]
      BY <2>2 DEF Pending
    <3>2. u # t => \A k \in Instances : u \in outbox[k] => u \in outbox'[k]
      BY <2>1 DEF DispatchInv, TypeOK
    <3>3. queue'[t] > 0 /\ queue'[u] >= queue[u] /\ queue'[u] \in Nat /\ queue[u] \in Nat
      BY <2>1, EnqueueAdds DEF DispatchInv, TypeOK
    <3> QED
      BY <3>1, <3>2, <3>3 DEF Pending
  <2> QED
    BY <1>1, <2>1, <2>2 DEF InHand
<1>9. ASSUME NEW i \in Instances,
             RecoverScan(i) \/ CancelRefused(i) \/ Restart(i) \/ \E e \in Executions : CancelRead(i, e)
      PROVE  LossInv'
  <2>1. Alone /\ Locks /\ UNCHANGED <<waiting, queue, outbox>>
    BY <1>9 DEF RecoverScan, CancelRefused, Restart, CancelRead, workVars, tableVars
  <2> QED
    BY <1>1, <1>2, <2>1
<1>10. ASSUME NEW e \in Executions, DestroyExecution(e) \/ Lapse(e) \/ Expire(e)
       PROVE  LossInv'
  <2>1. Alone /\ Locks /\ UNCHANGED <<waiting, queue, outbox>>
    BY <1>10 DEF DestroyExecution, Lapse, Expire, workVars, tableVars, DispatchInv, TypeOK
  <2> QED
    BY <1>1, <1>2, <2>1
<1>11. CASE UNCHANGED vars
  <2>1. Alone /\ Locks /\ UNCHANGED <<waiting, queue, outbox>>
    BY <1>11 DEF vars, workVars
  <2> QED
    BY <1>1, <1>2, <2>1
<1> HIDE DEF Alone, Locks, Hands
<1> QED
  BY <1>4, <1>5, <1>6, <1>7, <1>8, <1>9, <1>10, <1>11

\* What a worker does loses no execution.
LEMMA WorkersLose ==
  ASSUME DispatchInv, RowStep, LossInv, UNCHANGED faults, NEW w \in Workers,
         \/ \E i \in Instances, t \in Tasks : w = QueueWorker(i) /\ Receive(i, t)
         \/ \E i \in Instances, e \in Executions : w = SyncWorker(i) /\ TriggerSync(i, e)
         \/ ResolveTask(w) \/ Prepare(w) \/ Claim(w) \/ Lock(w) \/ Begin(w)
         \/ Exit(w) \/ Suspend(w) \/ Finish(w) \/ LockTimesOut(w)
  PROVE  LossInv'
<1> DEFINE Others == \A v \in Workers \ {w} : pc'[v] = pc[v] /\ task'[v] = task[v]
           Locks == \A e \in Executions : \/ lock'[e] = Nobody
                                          \/ lock'[e] = w /\ Holds(w, e)' /\ InHand(e)'
                                          \/ lock'[e] = lock[e] /\ (lock[e] = w /\ Holds(w, e) => Holds(w, e)')
           Hands == \A e \in Executions :
                      Running(e)' /\ (e \in waiting \/ Pending(e) \/ Pushing(w, e)) => InHand(e)'
           Tries == \A e \in Executions : pc[w] = "lock" /\ task[w].exec = e => lock[e] # Nobody \/ InHand(e)'
<1>1. ASSUME UNCHANGED claims, Others, Locks, Hands, Tries
      PROVE  LossInv'
  BY <1>1, OneWorkerMoves
<1>2. ASSUME Leave(w) \/ \E next : Go(w, next)
      PROVE  Others
  BY <1>2 DEF Leave, Go, DispatchInv, TypeOK
<1>3. ASSUME NEW next, Go(w, next)
      PROVE  pc'[w] = next /\ task'[w] = task[w]
  BY <1>3 DEF Go, DispatchInv, TypeOK
<1>4. ASSUME UNCHANGED lock, pc[w] \notin {"begin", "run", "finish"}
      PROVE  Locks
  BY <1>4 DEF Holds
<1>5. ASSUME UNCHANGED <<queue, outbox>>
      PROVE  \A e \in Executions : Pending(e) => Pending(e)'
  BY <1>5 DEF Pending
<1>6. pc[w] # "idle" => task[w] \in Tasks /\ task[w].exec \in Executions
  BY DEF DispatchInv, TypeOK, Tasks
<1>7. ASSUME NEW i \in Instances, NEW t \in Tasks, w = QueueWorker(i), Receive(i, t)
      PROVE  LossInv'
  <2>1. /\ pc[w] = "idle" /\ queue' = [queue EXCEPT ![t] = @ - 1]
        /\ pc' = [pc EXCEPT ![w] = "resolve"] /\ task' = [task EXCEPT ![w] = t]
        /\ UNCHANGED <<claims, waiting, outbox, lock>>
    BY <1>7 DEF Receive, tableVars
  <2>2. pc'[w] = "resolve" /\ task'[w] = t /\ Others
    BY <2>1 DEF DispatchInv, TypeOK
  <2>3. ASSUME NEW e \in Executions, Pending(e)
        PROVE  InHand(e)'
    <3>1. PICK u \in Tasks : /\ u.exec = e /\ u.kind # "start"
                             /\ queue[u] > 0 \/ \E k \in Instances : u \in outbox[k]
      BY <2>3 DEF Pending
    <3>2. CASE u = t
      BY <2>2, <3>1, <3>2 DEF InHand, Pushing
    <3>3. CASE u # t
      <4>1. queue'[u] = queue[u] /\ UNCHANGED outbox
        BY <2>1, <3>3 DEF DispatchInv, TypeOK
      <4> QED
        BY <3>1, <4>1 DEF InHand, Pending
    <3> QED
      BY <3>2, <3>3
  <2>4. Hands
    BY <2>1, <2>3 DEF InHand, Pushing
  <2> QED
    BY <1>1, <1>4, <2>1, <2>2, <2>4
<1>8. ASSUME NEW i \in Instances, NEW e \in Executions, w = SyncWorker(i), TriggerSync(i, e)
      PROVE  LossInv'
  <2>1. /\ pc[w] = "idle" /\ Others
        /\ UNCHANGED <<claims, waiting, queue, outbox, lock>>
    BY <1>8 DEF TriggerSync, DispatchInv, TypeOK
  <2>2. Hands
    BY <1>5, <2>1 DEF InHand, Pushing
  <2> QED
    BY <1>1, <1>4, <2>1, <2>2
<1>9. ASSUME ResolveTask(w)
      PROVE  LossInv'
  <2>1. pc[w] = "resolve" /\ UNCHANGED <<row, claims, waiting, queue, outbox, lock>>
    BY <1>9 DEF ResolveTask, tableVars
  <2>2. Others
    BY <1>2, <1>9 DEF ResolveTask
  <2>3. ASSUME NEW e \in Executions, Running(e)', Pushing(w, e)
        PROVE  InHand(e)'
    <3>1. task[w].exec = e /\ task[w].kind # "start" /\ row[e].status # "DESTROYED"
      BY <2>1, <2>3 DEF Pushing, Running
    <3>2. Go(w, "prepare")
      BY <1>9, <3>1 DEF ResolveTask
    <3> QED
      BY <1>3, <3>1, <3>2 DEF InHand, Pushing
  <2>4. Hands
    BY <1>5, <2>1, <2>3 DEF InHand
  <2> QED
    BY <1>1, <1>4, <2>1, <2>2, <2>4
<1>10. ASSUME Prepare(w)
       PROVE  LossInv'
  <2>1. pc[w] = "prepare" /\ UNCHANGED <<row, claims, waiting, queue, outbox, lock>>
    BY <1>10 DEF Prepare, tableVars
  <2>2. Others
    BY <1>2, <1>10 DEF Prepare
  <2>3. ASSUME NEW e \in Executions, Running(e)', Pushing(w, e)
        PROVE  InHand(e)'
    <3>1. task[w].exec = e /\ task[w].kind # "start" /\ row[e].status = "STARTED" /\ row[e].startedAt
      BY <2>1, <2>3 DEF Pushing, Running
    <3>2. row[e].dispatched
      BY <3>1 DEF DispatchInv, RowInv
    <3>3. Go(w, "lock")
      BY <1>10, <3>1, <3>2 DEF Prepare, Ended
    <3> QED
      BY <1>3, <3>1, <3>3 DEF InHand, Pushing
  <2>4. Hands
    BY <1>5, <2>1, <2>3 DEF InHand
  <2> QED
    BY <1>1, <1>4, <2>1, <2>2, <2>4
<1>11. ASSUME Claim(w)
       PROVE  LossInv'
  <2> DEFINE e == task[w].exec
  <2>1. pc[w] = "claim" /\ e \in Executions /\ UNCHANGED <<waiting, queue, outbox, lock>> /\ Others
    BY <1>2, <1>6, <1>11 DEF Claim
  <2>2. CASE UNCHANGED claims
    <3>1. Hands
      BY <1>5, <2>1 DEF InHand, Pushing
    <3> QED
      BY <1>1, <1>4, <2>1, <2>2, <3>1
  <2>3. CASE ~ UNCHANGED claims
    <3>1. ClaimMatches(row[e], seen[w]) /\ Go(w, "lock") /\ row' = [row EXCEPT ![e] = Claimed]
      BY <1>11, <2>3 DEF Claim, Claimed
    <3>2. ~row[e].startedAt
      BY <2>1, <3>1 DEF DispatchInv, WorkerInv, ClaimMatches
    <3> SUFFICES ASSUME faults = 0, NEW d \in Executions
                 PROVE  /\ lock[d] = Nobody \/ Holds(lock[d], d)'
                        /\ Running(d)' => InHand(d)' \/ AtFreeLock(d)'
      BY <2>1 DEF LossInv
    <3>3. lock[d] = Nobody \/ Holds(lock[d], d)
      BY DEF LossInv
    <3>4. ASSUME NEW v \in Workers, Holds(v, d)
          PROVE  Holds(v, d)'
      BY <2>1, <3>4 DEF Holds
    <3>5. CASE d = e
      <4>1. lock[d] = Nobody
        <5>1. ASSUME Holds(lock[d], d) PROVE FALSE
          BY <3>2, <3>5, <5>1 DEF Holds, DispatchInv, WorkerInv
        <5> QED
          BY <3>3, <5>1
      <4>2. AtFreeLock(d)'
        BY <1>3, <2>1, <3>1, <3>5, <4>1 DEF AtFreeLock
      <4> QED
        BY <4>1, <4>2
    <3>6. CASE d # e
      <4>1. row'[d] = row[d]
        BY <3>1, <3>6 DEF DispatchInv, TypeOK
      <4>2. ASSUME InHand(d) PROVE InHand(d)'
        <5>1. \A v \in Workers : Pushing(v, d) => Pushing(v, d)'
          BY <2>1, <3>6 DEF Pushing
        <5> QED
          BY <1>5, <2>1, <4>2, <5>1 DEF InHand
      <4>3. ASSUME AtFreeLock(d) PROVE AtFreeLock(d)'
        BY <2>1, <4>3 DEF AtFreeLock
      <4>4. Running(d)' => InHand(d)' \/ AtFreeLock(d)'
        BY <4>1, <4>2, <4>3 DEF Running, LossInv
      <4>5. Holds(lock[d], d) => Holds(lock[d], d)'
        <5>1. Holds(lock[d], d) => lock[d] \in Workers
          BY DEF Holds
        <5> QED
          BY <2>1, <3>4, <5>1
      <4> QED
        BY <3>3, <4>4, <4>5
    <3> QED
      BY <3>5, <3>6
  <2> QED
    BY <2>2, <2>3
<1>12. ASSUME Lock(w)
       PROVE  LossInv'
  <2> DEFINE e == task[w].exec
  <2>1. /\ pc[w] = "lock" /\ lock' = [lock EXCEPT ![e] = w] /\ Go(w, "begin") /\ e \in Executions
        /\ UNCHANGED <<claims, waiting, queue, outbox>> /\ Others
    BY <1>2, <1>6, <1>12 DEF Lock, tableVars
  <2>2. pc'[w] = "begin" /\ task'[w] = task[w]
    BY <1>3, <2>1
  <2>3. \A d \in Executions : d = e => Holds(w, d)' /\ InHand(d)'
    BY <2>2 DEF Holds, InHand, Pushing
  <2>4. \A d \in Executions : Pushing(w, d) => InHand(d)'
    BY <2>3 DEF Pushing
  <2>5. Hands
    BY <1>5, <2>1, <2>4 DEF InHand
  <2>6. Locks
    BY <2>1, <2>3 DEF Holds, DispatchInv, TypeOK
  <2>7. Tries
    BY <2>3
  <2> QED
    BY <1>1, <2>1, <2>5, <2>6, <2>7
<1>13. ASSUME LockTimesOut(w)
       PROVE  LossInv'
  <2> DEFINE t == task[w]
             again == [t EXCEPT !.retried = @ + 1]
  <2>1. pc[w] = "lock" /\ lock[t.exec] # Nobody /\ t \in Tasks /\ UNCHANGED <<claims, waiting, outbox, lock>> /\ Others
    BY <1>2, <1>6, <1>13 DEF LockTimesOut, tableVars
  <2>2. Enqueue(again) /\ t.retried < MaxRetries
    <3>1. faults \in Nat
      BY DEF DispatchInv, TypeOK
    <3>2. ~Fault
      BY <3>1 DEF Fault
    <3> QED
      BY <1>13, <3>2 DEF LockTimesOut
  <2>3. again \in Tasks /\ again.exec = t.exec /\ again.kind = t.kind
    BY <2>1, <2>2, DispatcherAssumption DEF Tasks
  <2>4. \A e \in Executions : Pushing(w, e) => Pending(e)'
    <3> HIDE DEF again
    <3> QED
      BY <2>1, <2>2, <2>3, EnqueueAdds DEF Pushing, Pending
  <2>5. \A e \in Executions : Pending(e) => Pending(e)'
    <3> HIDE DEF again
    <3> QED
      BY <2>1, <2>2, <2>3, EnqueueAdds, TasksStay
  <2>6. Hands
    BY <2>1, <2>4, <2>5 DEF InHand
  <2> QED
    BY <1>1, <1>4, <2>1, <2>6
<1>14. ASSUME NEW next \in {"run", "finish"}, Go(w, next), pc[w] \in {"begin", "run"},
              UNCHANGED <<claims, queue, outbox, lock>>,
              \A e \in Executions : Running(e)' /\ e \in waiting => e \in waiting',
              \A e \in Executions : Running(e)' /\ task[w].exec = e /\ next = "finish" => e \in waiting'
       PROVE  LossInv'
  <2>1. pc'[w] = next /\ task'[w] = task[w] /\ Others
    BY <1>2, <1>3, <1>14
  <2>2. Locks
    BY <1>14, <2>1 DEF Holds
  <2>3. Hands
    BY <1>5, <1>14, <2>1 DEF InHand, Pushing
  <2> QED
    BY <1>1, <1>14, <2>1, <2>2, <2>3
<1>15. ASSUME Begin(w)
       PROVE  LossInv'
  <2> DEFINE e == task[w].exec
  <2>1. pc[w] = "begin" /\ e \in Executions /\ UNCHANGED <<claims, queue, outbox, lock>>
    BY <1>6, <1>15 DEF Begin
  <2>2. CASE e \in expired
    <3>1. AbortExecution(e, "STARTED") /\ Go(w, "finish")
      BY <1>15, <2>2 DEF Begin
    <3>2. ASSUME NEW d \in Executions, d = e
          PROVE  ~Running(d)'
      BY <3>1, <3>2, StatusEnds DEF AbortExecution, Ended
    <3>3. \A d \in Executions : Running(d)' /\ d \in waiting => d \in waiting'
      BY <2>1, <3>1, AbortStrands
    <3> QED
      BY <1>14, <2>1, <3>1, <3>2, <3>3
  <2>3. CASE e \notin expired
    BY <1>14, <1>15, <2>1, <2>3 DEF Begin
  <2> QED
    BY <2>2, <2>3
<1>16. ASSUME Exit(w)
       PROVE  LossInv'
  <2> DEFINE e == task[w].exec
  <2>1. pc[w] = "run" /\ e \in Executions /\ UNCHANGED <<claims, waiting, queue, outbox, lock>> /\ Go(w, "finish")
    BY <1>6, <1>16 DEF Exit
  <2>2. ASSUME NEW d \in Executions, d = e
        PROVE  ~Running(d)'
    BY <1>16, <2>2, StatusEnds DEF Exit, Ended
  <2> QED
    BY <1>14, <2>1, <2>2
<1>17. ASSUME Suspend(w)
       PROVE  LossInv'
  BY <1>14, <1>17 DEF Suspend
<1>18. ASSUME Finish(w)
       PROVE  LossInv'
  <2>1. /\ pc[w] = "finish" /\ UNCHANGED <<claims, waiting, queue, outbox>> /\ Others
        /\ lock' = IF lock[task[w].exec] = w THEN [lock EXCEPT ![task[w].exec] = Nobody] ELSE lock
    BY <1>2, <1>18 DEF Finish
  <2>2. Hands
    BY <1>5, <2>1 DEF InHand, Pushing
  <2>3. Locks
    BY <2>1 DEF Holds, DispatchInv, TypeOK
  <2> QED
    BY <1>1, <2>1, <2>2, <2>3
<1> HIDE DEF Others, Locks, Hands, Tries
<1> QED
  BY <1>7, <1>8, <1>9, <1>10, <1>11, <1>12, <1>13, <1>15, <1>16, <1>17, <1>18

\* Nothing is running at first, and nothing is held.
LEMMA InitLoss == Init => LossInv
BY DEF Init, LossInv, Running, NoRow

\* No step loses an execution, unless it is a fault.
LEMMA LossInvInductive == DispatchInv /\ LossInv /\ [Next]_vars => LossInv'
<1> SUFFICES ASSUME DispatchInv, LossInv, [Next]_vars, faults' = 0
             PROVE  LossInv'
  BY DEF LossInv
<1>1. RowStep
  BY StepsAreRowSteps
<1>2. ~Fault
  BY DEF Fault, DispatchInv, TypeOK
<1>3. UNCHANGED faults
  <2>1. ASSUME NEW i \in Instances, Publishing(i)
        PROVE  UNCHANGED faults
    BY <1>2, <2>1 DEF Publishing, CreateExecution, TriggerSync, Publish, PublishFails,
       StartDeferred, Resume, Rerun, RecoverScan, RecoverPublish, RecoverFails
  <2>2. ASSUME NEW w \in Workers, WorkerStep(w) \/ WorkerFails(w)
        PROVE  UNCHANGED faults
    BY <1>2, <2>2 DEF WorkerStep, WorkerFails, ResolveTask, Prepare, Claim, PrepareFails, Lock,
       LockTimesOut, Begin, Exit, Suspend, RunFails, Finish
  <2>3. ASSUME NEW i \in Instances, Interrupting(i) \/ Crash(i) \/ Restart(i) \/ \E t \in Tasks : Receive(i, t)
        PROVE  UNCHANGED faults
    BY <1>2, <2>3 DEF Interrupting, TimeoutScan, CancelRead, CancelApply, CancelRefused,
       Crash, Restart, Receive
  <2>4. ASSUME NEW e \in Executions, DestroyExecution(e) \/ Lapse(e) \/ Expire(e)
        PROVE  UNCHANGED faults
    BY <2>4 DEF DestroyExecution, Lapse, Expire
  <2> QED
    BY <2>1, <2>2, <2>3, <2>4 DEF Next, vars
<1>4. ASSUME NEW i \in Instances, NEW t \in Tasks, Receive(i, t)
      PROVE  LossInv'
  BY <1>1, <1>3, <1>4, WorkersLose DEF Workers
<1>5. ASSUME NEW i \in Instances, NEW e \in Executions, TriggerSync(i, e)
      PROVE  LossInv'
  BY <1>1, <1>3, <1>5, WorkersLose DEF Workers, TriggerSync
<1>6. ASSUME NEW w \in Workers, WorkerStep(w) \/ WorkerFails(w)
      PROVE  LossInv'
  BY <1>1, <1>2, <1>3, <1>6, WorkersLose DEF WorkerStep, WorkerFails, PrepareFails, RunFails
<1> QED
  BY <1>1, <1>2, <1>4, <1>5, <1>6, OutsideLoses
  DEF Next, Publishing, Interrupting, PublishFails, RecoverFails, Crash

\* Without faults a started execution waits for a job or has somebody who goes on
\* with it, whatever leases lapse and however requests, retries and timeouts mix.
THEOREM NoExecutionIsLost == Spec => []NoneLost
<1>1. DispatchInv /\ LossInv => NoneLost
  <2> SUFFICES ASSUME LossInv, faults = 0, NEW e \in Executions, Running(e)
               PROVE  Attended(e)
    BY DEF NoneLost, Running
  <2>1. InHand(e) \/ AtFreeLock(e)
    BY DEF LossInv
  <2> QED
    BY <2>1 DEF InHand, AtFreeLock, Pending, Pushing, Attended
<1> QED
  BY <1>1, InitLoss, LossInvInductive, DispatchInvHolds, PTL DEF Spec

==============================================================================
