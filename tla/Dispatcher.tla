----------------------------- MODULE Dispatcher -----------------------------
(***************************************************************************)
(* The dispatching of workflow executions over a cluster of application    *)
(* instances (plugin-workflow/src/server/Dispatcher.ts, with the parts of  *)
(* Plugin.ts, ExecutionTimeoutManager.ts, utils.ts and actions/ that share *)
(* its state): the rows of the executions table, the queue of start,       *)
(* resume and rerun tasks, the worker of each instance, the lock of each   *)
(* execution, recovery, cancellation, timeouts and crashes.                *)
(*                                                                         *)
(* The steps of a worker are the stretches of code between two awaits that *)
(* touch shared state.  A processor run is one step from its first check   *)
(* to its exit: nodes and jobs are reduced to whether the execution waits  *)
(* for a job.  Time is abstracted: a timer that is armed may fire.         *)
(***************************************************************************)
EXTENDS Naturals, FiniteSets

CONSTANTS
  Instances,      \* the application instances
  SyncInstances,  \* those on which a request may trigger a workflow in sync mode
  Executions,     \* the identities of the executions
  Deferred,       \* executions whose event may have the deferred option
  Timed,          \* executions of a workflow with a timeout
  AutoDelete,     \* executions whose workflow sets deleteExecutionOnStatus
  DurableQueue,   \* the queue outlives a crash (a queue adapter, not memory)
  LeaseMayLapse,  \* a run may outlast the TTL of the execution's lock
  Requests,       \* bound: what users ask for, of "resume", "rerun", "cancel", "destroy"
  MaxRetries,     \* QUEUE_TASK_MAX_ATTEMPTS - 1
  MaxCopies,      \* bound: copies of one task in the queue
  MaxFaults,      \* bound: crashes and database or queue failures
  Nobody, Dead    \* lock holders: nobody, a worker that crashed

ASSUME DispatcherAssumption ==
  /\ SyncInstances \subseteq Instances
  /\ Deferred \subseteq Executions
  /\ Timed \subseteq Executions
  /\ AutoDelete \subseteq Executions
  /\ DurableQueue \in BOOLEAN
  /\ LeaseMayLapse \in BOOLEAN
  /\ Requests \subseteq {"resume", "rerun", "cancel", "destroy"}
  /\ MaxRetries \in Nat
  /\ MaxCopies \in Nat
  /\ MaxFaults \in Nat

VARIABLES
  row,         \* the executions table
  expired,     \* executions whose expiresAt has passed
  waiting,     \* executions with a PENDING job
  queue,       \* task -> copies of it in the channel pendingExecution
  outbox,      \* instance -> tasks about to be published
  recovering,  \* instance -> executions its recovery still has to publish
  lock,        \* execution -> the worker that holds workflow:execution:<id>
  pc, task,    \* worker -> where it stands, and with which task
  seen,        \* worker -> its in-memory copy of the execution
  cancel,      \* instance -> the cancel request it serves
  up,          \* the instances that are running
  faults,      \* faults so far
  claims,      \* history: how often each execution was claimed
  starts,      \* history: how often each execution was started at its head
  cancelled    \* history: executions whose cancel request was answered 200

tableVars == <<row, waiting, claims>>
workVars == <<pc, task, seen>>
vars == <<row, expired, waiting, queue, outbox, recovering, lock, pc, task, seen,
          cancel, up, faults, claims, starts, cancelled>>

-----------------------------------------------------------------------------
(* Types *)

\* EXECUTION_STATUS.  FAILED stands for every status of a failed execution.
Ended == {"RESOLVED", "FAILED", "ABORTED"}
Statuses == {"ABSENT", "QUEUEING", "STARTED", "DESTROYED"} \cup Ended

Rows == [status : Statuses, dispatched : BOOLEAN, startedAt : BOOLEAN]
NoRow == [status |-> "ABSENT", dispatched |-> FALSE, startedAt |-> FALSE]

\* WorkflowQueueTask, with the retries the queue counts
Tasks == [kind : {"start", "resume", "rerun"}, exec : Executions, retried : 0..MaxRetries]
Task(k, e) == [kind |-> k, exec |-> e, retried |-> 0]

\* The queue callback of each instance handles one task at a time (executing);
\* a synchronous trigger runs beside it.
QueueWorker(i) == <<i, "queue">>
SyncWorker(i) == <<i, "sync">>
Workers == {QueueWorker(i) : i \in Instances} \cup {SyncWorker(i) : i \in SyncInstances}

\* idle; resolve: resolveTask; prepare, claim: the transaction that enters the
\* execution; lock: tryAcquire; begin, run, finish: under the lock
PCs == {"idle", "resolve", "prepare", "claim", "lock", "begin", "run", "finish"}

NoTask == [kind |-> "start", exec |-> Nobody, retried |-> 0]
NoRequest == [exec |-> Nobody, status |-> "ABSENT"]

TypeOK ==
  /\ row \in [Executions -> Rows]
  /\ expired \subseteq Executions
  /\ waiting \subseteq Executions
  /\ queue \in [Tasks -> Nat]
  /\ outbox \in [Instances -> SUBSET Tasks]
  /\ recovering \in [Instances -> SUBSET Executions]
  /\ lock \in [Executions -> Workers \cup {Nobody, Dead}]
  /\ pc \in [Workers -> PCs]
  /\ task \in [Workers -> Tasks \cup {NoTask}]
  /\ \A w \in Workers : pc[w] # "idle" => task[w] \in Tasks
  /\ seen \in [Workers -> Rows]
  /\ cancel \in [Instances -> [exec : Executions, status : {"QUEUEING", "STARTED"}] \cup {NoRequest}]
  /\ up \subseteq Instances
  /\ faults \in Nat
  /\ claims \in [Executions -> Nat]
  /\ starts \in [Executions -> 0..2]
  /\ cancelled \subseteq Executions

Init ==
  /\ row = [e \in Executions |-> NoRow]
  /\ expired = {}
  /\ waiting = {}
  /\ queue = [t \in Tasks |-> 0]
  /\ outbox = [i \in Instances |-> {}]
  /\ recovering = [i \in Instances |-> {}]
  /\ lock = [e \in Executions |-> Nobody]
  /\ pc = [w \in Workers |-> "idle"]
  /\ task = [w \in Workers |-> NoTask]
  /\ seen = [w \in Workers |-> NoRow]
  /\ cancel = [i \in Instances |-> NoRequest]
  /\ up = Instances
  /\ faults = 0
  /\ claims = [e \in Executions |-> 0]
  /\ starts = [e \in Executions |-> 0]
  /\ cancelled = {}

-----------------------------------------------------------------------------
(* The tables *)

\* The worker stops working on its task.
Leave(w) == /\ pc' = [pc EXCEPT ![w] = "idle"]
            /\ task' = [task EXCEPT ![w] = NoTask]
            /\ seen' = [seen EXCEPT ![w] = NoRow]

Go(w, next) == pc' = [pc EXCEPT ![w] = next] /\ UNCHANGED task

\* Mutant: the UPDATE does not compare the status.
SetStatusBlindly(e, expected, s) == row' = [row EXCEPT ![e].status = s]

\* UPDATE executions SET status = s WHERE id = e AND status = expected
SetStatus(e, expected, s) ==
  row' = IF row[e].status = expected THEN [row EXCEPT ![e].status = s] ELSE row

\* abortExecution: with the status, the PENDING jobs become ABORTED.
AbortExecution(e, expected) ==
  /\ SetStatus(e, expected, "ABORTED")
  /\ waiting' = IF row[e].status = expected THEN waiting \ {e} ELSE waiting

Enqueue(t) == /\ queue[t] < MaxCopies
              /\ queue' = [queue EXCEPT ![t] = @ + 1]

Fault == faults < MaxFaults /\ faults' = faults + 1

-----------------------------------------------------------------------------
(* Creating executions and publishing tasks *)

\* saveEvent: createExecution for a buffered event; a deferred one is created
\* dispatched and is not published.
CreateExecution(i, e) ==
  /\ i \in up
  /\ row[e].status = "ABSENT"
  /\ \/ /\ e \in Deferred
        /\ row' = [row EXCEPT ![e] = [status |-> "STARTED", dispatched |-> TRUE, startedAt |-> FALSE]]
        /\ UNCHANGED outbox
     \/ /\ row' = [row EXCEPT ![e] = [status |-> "QUEUEING", dispatched |-> FALSE, startedAt |-> FALSE]]
        /\ outbox' = [outbox EXCEPT ![i] = @ \cup {Task("start", e)}]
  /\ UNCHANGED <<expired, waiting, queue, recovering, lock, workVars, cancel, up, faults, claims, starts, cancelled>>

\* triggerSync: createExecution without the deferred option, then prepare.
TriggerSync(i, e) ==
  LET w == SyncWorker(i)
  IN  /\ i \in up \cap SyncInstances
      /\ pc[w] = "idle"
      /\ row[e].status = "ABSENT"
      /\ row' = [row EXCEPT ![e] = [status |-> "QUEUEING", dispatched |-> FALSE, startedAt |-> FALSE]]
      /\ pc' = [pc EXCEPT ![w] = "prepare"]
      /\ task' = [task EXCEPT ![w] = Task("start", e)]
      /\ UNCHANGED <<expired, waiting, queue, outbox, recovering, lock, seen, cancel, up, faults, claims, starts, cancelled>>

\* enqueue reaches the queue.
Publish(i, t) ==
  /\ t \in outbox[i]
  /\ outbox' = [outbox EXCEPT ![i] = @ \ {t}]
  /\ Enqueue(t)
  /\ UNCHANGED <<row, expired, waiting, recovering, lock, workVars, cancel, up, faults, claims, starts, cancelled>>

\* enqueue throws: saveEvent logs it, resume and start throw it to the caller.
PublishFails(i, t) ==
  /\ t \in outbox[i]
  /\ Fault
  /\ outbox' = [outbox EXCEPT ![i] = @ \ {t}]
  /\ UNCHANGED <<row, expired, waiting, queue, recovering, lock, workVars, cancel, up, claims, starts, cancelled>>

\* plugin.start of a deferred execution
StartDeferred(i, e) ==
  /\ i \in up
  /\ row[e].status = "STARTED" /\ ~row[e].startedAt
  /\ Enqueue(Task("start", e))
  /\ UNCHANGED <<tableVars, expired, outbox, recovering, lock, workVars, cancel, up, faults, starts, cancelled>>

\* plugin.resume: the job is saved before the task is published, or, for a
\* delay, left PENDING.  The action jobs:resume aborts an expired execution
\* instead, without the lock.
Resume(i, e) ==
  /\ "resume" \in Requests
  /\ i \in up
  /\ row[e].status = "STARTED" /\ e \in waiting
  /\ \/ /\ waiting' \in {waiting, waiting \ {e}}
        /\ outbox' = [outbox EXCEPT ![i] = @ \cup {Task("resume", e)}]
        /\ UNCHANGED row
     \/ /\ e \in expired
        /\ AbortExecution(e, "STARTED")
        /\ UNCHANGED outbox
  /\ UNCHANGED <<expired, queue, recovering, lock, workVars, cancel, up, faults, claims, starts, cancelled>>

\* executions:rerun
Rerun(i, e) ==
  /\ "rerun" \in Requests
  /\ i \in up
  /\ row[e].status = "STARTED"
  /\ Enqueue(Task("rerun", e))
  /\ UNCHANGED <<tableVars, expired, outbox, recovering, lock, workVars, cancel, up, faults, starts, cancelled>>

\* Mutant: destroy without the filter on the status.
DestroyAnyExecution(e) ==
  /\ "destroy" \in Requests
  /\ row[e].status # "ABSENT"
  /\ row' = [row EXCEPT ![e].status = "DESTROYED"]
  /\ UNCHANGED <<expired, waiting, queue, outbox, recovering, lock, workVars, cancel, up, faults, claims, starts, cancelled>>

\* executions:destroy.  Its filter, status != STARTED, is a comparison that SQL
\* does not hold true of QUEUEING, which is NULL.
DestroyExecution(e) ==
  /\ "destroy" \in Requests
  /\ row[e].status \in Ended
  /\ row' = [row EXCEPT ![e].status = "DESTROYED"]
  /\ UNCHANGED <<expired, waiting, queue, outbox, recovering, lock, workVars, cancel, up, faults, claims, starts, cancelled>>

-----------------------------------------------------------------------------
(* Recovery *)

\* Mutant: the recovery query asks for dispatched executions.
RecoverableIfDispatched == {e \in Executions : row[e].status = "QUEUEING" /\ row[e].dispatched}

\* findQueueingExecutions
Recoverable == {e \in Executions : /\ row[e].status = "QUEUEING"
                                   /\ ~row[e].dispatched
                                   /\ ~row[e].startedAt}

\* recoverQueueTasks reads the list under the recovery lock ...
RecoverScan(i) ==
  /\ i \in up
  /\ \A j \in Instances : recovering[j] = {}
  /\ Recoverable # {}
  /\ recovering' = [recovering EXCEPT ![i] = Recoverable]
  /\ UNCHANGED <<tableVars, expired, queue, outbox, lock, workVars, cancel, up, faults, starts, cancelled>>

\* ... and publishes a start task for each, whatever became of it meanwhile.
RecoverPublish(i, e) ==
  /\ e \in recovering[i]
  /\ recovering' = [recovering EXCEPT ![i] = @ \ {e}]
  /\ Enqueue(Task("start", e))
  /\ UNCHANGED <<tableVars, expired, outbox, lock, workVars, cancel, up, faults, starts, cancelled>>

\* A publication throws: the rest of the list is given up.
RecoverFails(i) ==
  /\ recovering[i] # {}
  /\ Fault
  /\ recovering' = [recovering EXCEPT ![i] = {}]
  /\ UNCHANGED <<tableVars, expired, queue, outbox, lock, workVars, cancel, up, starts, cancelled>>

-----------------------------------------------------------------------------
(* The worker: onQueueTask and triggerSync *)

\* The queue hands a task to an idle instance.
Receive(i, t) ==
  LET w == QueueWorker(i)
  IN  /\ i \in up
      /\ pc[w] = "idle"
      /\ queue[t] > 0
      /\ queue' = [queue EXCEPT ![t] = @ - 1]
      /\ pc' = [pc EXCEPT ![w] = "resolve"]
      /\ task' = [task EXCEPT ![w] = t]
      /\ UNCHANGED <<tableVars, expired, outbox, recovering, lock, seen, cancel, up, faults, starts, cancelled>>

\* Mutant: resume and rerun tasks are dropped as repeated start tasks are.
ResolveTaskOfAnyKind(w) ==
  LET r == row[task[w].exec]
  IN  /\ pc[w] = "resolve"
      /\ IF r.status = "DESTROYED" \/ (r.status = "STARTED" /\ r.startedAt)
         THEN Leave(w)
         ELSE Go(w, "prepare") /\ UNCHANGED seen
      /\ UNCHANGED <<tableVars, expired, queue, outbox, recovering, lock, cancel, up, faults, starts, cancelled>>

\* resolveTask drops the task of a missing execution, and a start task of one
\* that this first read shows as started.
ResolveTask(w) ==
  LET e == task[w].exec
      started == row[e].status = "STARTED" /\ row[e].startedAt
  IN  /\ pc[w] = "resolve"
      /\ IF row[e].status = "DESTROYED" \/ (task[w].kind = "start" /\ started)
         THEN Leave(w)
         ELSE Go(w, "prepare") /\ UNCHANGED seen
      /\ UNCHANGED <<tableVars, expired, queue, outbox, recovering, lock, cancel, up, faults, starts, cancelled>>

\* prepare: the transaction reloads the row, and enter decides on it: an ended
\* execution is left alone, a started one is entered without a claim.
Prepare(w) ==
  LET r == row[task[w].exec]
  IN  /\ pc[w] = "prepare"
      /\ \/ /\ r.status \in Ended \cup {"DESTROYED"}
            /\ Leave(w)
         \/ /\ r.status \in {"QUEUEING", "STARTED"}
            /\ Go(w, IF r.dispatched /\ r.status = "STARTED" /\ r.startedAt THEN "lock" ELSE "claim")
            /\ seen' = [seen EXCEPT ![w] = r]
      /\ UNCHANGED <<tableVars, expired, queue, outbox, recovering, lock, cancel, up, faults, starts, cancelled>>

\* Mutant: the UPDATE that claims names the execution by its id only.
ClaimMatchesAnything(r, read) == TRUE

\* The WHERE clause of the UPDATE that claims an execution.
ClaimMatches(r, read) == /\ r.status = read.status
                         /\ ~read.dispatched => ~r.dispatched
                         /\ ~read.startedAt => ~r.startedAt

\* Mutant: the worker goes on although the UPDATE affected no row.
ClaimUnchecked(w) ==
  LET e == task[w].exec
      claimed == [status |-> "STARTED", dispatched |-> TRUE, startedAt |-> TRUE]
  IN  /\ pc[w] = "claim"
      /\ IF ClaimMatches(row[e], seen[w])
         THEN /\ row' = [row EXCEPT ![e] = claimed]
              /\ seen' = [seen EXCEPT ![w] = claimed]
              /\ claims' = [claims EXCEPT ![e] = @ + 1]
         ELSE UNCHANGED <<row, seen, claims>>
      /\ Go(w, "lock")
      /\ UNCHANGED <<expired, waiting, queue, outbox, recovering, lock, cancel, up, faults, starts, cancelled>>

\* enter: the UPDATE claims the execution, or affects no row and is given up.
Claim(w) ==
  LET e == task[w].exec
      claimed == [status |-> "STARTED", dispatched |-> TRUE, startedAt |-> TRUE]
  IN  /\ pc[w] = "claim"
      /\ IF ClaimMatches(row[e], seen[w])
         THEN /\ row' = [row EXCEPT ![e] = claimed]
              /\ seen' = [seen EXCEPT ![w] = claimed]
              /\ claims' = [claims EXCEPT ![e] = @ + 1]
              /\ Go(w, "lock")
         ELSE Leave(w) /\ UNCHANGED <<row, claims>>
      /\ UNCHANGED <<expired, waiting, queue, outbox, recovering, lock, cancel, up, faults, starts, cancelled>>

\* The transaction fails, or conflicts more often than it is retried: prepare
\* answers null and the task is taken as handled.
PrepareFails(w) ==
  /\ pc[w] \in {"prepare", "claim"}
  /\ Fault
  /\ Leave(w)
  /\ UNCHANGED <<tableVars, expired, queue, outbox, recovering, lock, cancel, up, starts, cancelled>>

\* process: tryAcquire of the execution's lock
Lock(w) ==
  LET e == task[w].exec
  IN  /\ pc[w] = "lock"
      /\ lock[e] = Nobody
      /\ lock' = [lock EXCEPT ![e] = w]
      /\ Go(w, "begin")
      /\ UNCHANGED <<tableVars, expired, queue, outbox, recovering, seen, cancel, up, faults, starts, cancelled>>

\* The wait for the lock is over: the queue publishes the task again, as long
\* as it has retries left; a synchronous trigger just fails.
LockTimesOut(w) ==
  LET t == task[w]
  IN  /\ pc[w] = "lock"
      /\ lock[t.exec] # Nobody
      /\ Leave(w)
      /\ IF w[2] = "queue" /\ t.retried < MaxRetries
         THEN Enqueue([t EXCEPT !.retried = @ + 1]) /\ UNCHANGED faults
         ELSE Fault /\ UNCHANGED queue
      /\ UNCHANGED <<tableVars, expired, outbox, recovering, lock, cancel, up, starts, cancelled>>

\* shouldContinue looks at the worker's own copy of the execution: an expired
\* one is aborted, any other one is run.
Begin(w) ==
  LET e == task[w].exec
  IN  /\ pc[w] = "begin"
      /\ IF e \in expired
         THEN /\ AbortExecution(e, "STARTED")
              /\ seen' = IF row[e].status = "STARTED" THEN [seen EXCEPT ![w].status = "ABORTED"] ELSE seen
              /\ Go(w, "finish")
              /\ UNCHANGED starts
         ELSE /\ Go(w, "run")
              /\ starts' = IF task[w].kind = "start" /\ starts[e] < 2
                           THEN [starts EXCEPT ![e] = @ + 1] ELSE starts
              /\ UNCHANGED <<row, waiting, seen>>
      /\ UNCHANGED <<expired, queue, outbox, recovering, lock, cancel, up, faults, claims, cancelled>>

\* exit(status): the UPDATE of a STARTED execution, or else a reload.
Exit(w) ==
  LET e == task[w].exec
  IN  /\ pc[w] = "run"
      /\ \E s \in {"RESOLVED", "FAILED"} \cup (IF e \in expired THEN {"ABORTED"} ELSE {}) :
           SetStatus(e, "STARTED", s)
      /\ seen' = [seen EXCEPT ![w] = row'[e]]
      /\ Go(w, "finish")
      /\ UNCHANGED <<expired, waiting, queue, outbox, recovering, lock, cancel, up, faults, claims, starts, cancelled>>

\* exit() of an execution that waits: its PENDING job is saved.
Suspend(w) ==
  /\ pc[w] = "run"
  /\ waiting' = waiting \cup {task[w].exec}
  /\ Go(w, "finish")
  /\ UNCHANGED <<row, expired, queue, outbox, recovering, lock, seen, cancel, up, faults, claims, starts, cancelled>>

\* The processor throws; process logs it.
RunFails(w) ==
  /\ pc[w] = "run"
  /\ Fault
  /\ Go(w, "finish")
  /\ UNCHANGED <<tableVars, expired, queue, outbox, recovering, lock, seen, cancel, up, starts, cancelled>>

\* deleteExecutionOnStatus, then the end of runExclusive: a lock that lapsed
\* meanwhile is not touched.
Finish(w) ==
  LET e == task[w].exec
  IN  /\ pc[w] = "finish"
      /\ row' = IF e \in AutoDelete /\ seen[w].status \in Ended
                THEN [row EXCEPT ![e].status = "DESTROYED"] ELSE row
      /\ lock' = IF lock[e] = w THEN [lock EXCEPT ![e] = Nobody] ELSE lock
      /\ Leave(w)
      /\ UNCHANGED <<expired, waiting, queue, outbox, recovering, cancel, up, faults, claims, starts, cancelled>>

\* The TTL of the lock passes while its holder still runs, or is dead.
Lapse(e) ==
  /\ lock[e] = Dead \/ (LeaseMayLapse /\ lock[e] # Nobody)
  /\ lock' = [lock EXCEPT ![e] = Nobody]
  /\ UNCHANGED <<tableVars, expired, queue, outbox, recovering, workVars, cancel, up, faults, starts, cancelled>>

-----------------------------------------------------------------------------
(* Timeouts and cancellation *)

Expire(e) ==
  /\ e \in Timed \ expired
  /\ row[e].startedAt
  /\ expired' = expired \cup {e}
  /\ UNCHANGED <<tableVars, queue, outbox, recovering, lock, workVars, cancel, up, faults, starts, cancelled>>

\* A scan of the timeout manager, under the execution's lock.
TimeoutScan(i, e) ==
  /\ i \in up
  /\ e \in expired /\ row[e].status = "STARTED" /\ row[e].startedAt
  /\ lock[e] = Nobody
  /\ AbortExecution(e, "STARTED")
  /\ UNCHANGED <<expired, queue, outbox, recovering, lock, workVars, cancel, up, faults, claims, starts, cancelled>>

\* executions:cancel reads the execution ...
CancelRead(i, e) ==
  /\ "cancel" \in Requests
  /\ i \in up
  /\ cancel[i] = NoRequest
  /\ row[e].status \in {"QUEUEING", "STARTED"}
  /\ cancel' = [cancel EXCEPT ![i] = [exec |-> e, status |-> row[e].status]]
  /\ UNCHANGED <<tableVars, expired, queue, outbox, recovering, lock, workVars, up, faults, starts, cancelled>>

\* ... and aborts it under the lock, expecting the status that it read.
CancelApply(i) ==
  LET e == cancel[i].exec
  IN  /\ cancel[i] # NoRequest
      /\ lock[e] = Nobody
      /\ AbortExecution(e, cancel[i].status)
      /\ cancelled' = cancelled \cup {e}
      /\ cancel' = [cancel EXCEPT ![i] = NoRequest]
      /\ UNCHANGED <<expired, queue, outbox, recovering, lock, workVars, up, faults, claims, starts>>

\* 409: the execution is being processed.
CancelRefused(i) ==
  /\ cancel[i] # NoRequest
  /\ lock[cancel[i].exec] # Nobody
  /\ cancel' = [cancel EXCEPT ![i] = NoRequest]
  /\ UNCHANGED <<tableVars, expired, queue, outbox, recovering, lock, workVars, up, faults, starts, cancelled>>

-----------------------------------------------------------------------------
(* Crashes *)

\* An instance dies with its memory; its locks stay until their TTL.
Crash(i) ==
  LET mine == {w \in Workers : w[1] = i}
  IN  /\ i \in up
      /\ Fault
      /\ up' = up \ {i}
      /\ pc' = [w \in Workers |-> IF w \in mine THEN "idle" ELSE pc[w]]
      /\ task' = [w \in Workers |-> IF w \in mine THEN NoTask ELSE task[w]]
      /\ seen' = [w \in Workers |-> IF w \in mine THEN NoRow ELSE seen[w]]
      /\ lock' = [e \in Executions |-> IF lock[e] \in mine THEN Dead ELSE lock[e]]
      /\ outbox' = [outbox EXCEPT ![i] = {}]
      /\ recovering' = [recovering EXCEPT ![i] = {}]
      /\ cancel' = [cancel EXCEPT ![i] = NoRequest]
      /\ queue' = IF DurableQueue THEN queue ELSE [t \in Tasks |-> 0]
      /\ UNCHANGED <<tableVars, expired, starts, cancelled>>

Restart(i) ==
  /\ i \in Instances \ up
  /\ up' = up \cup {i}
  /\ UNCHANGED <<tableVars, expired, queue, outbox, recovering, lock, workVars, cancel, faults, starts, cancelled>>

-----------------------------------------------------------------------------

Publishing(i) == \/ \E e \in Executions : \/ CreateExecution(i, e)
                                          \/ TriggerSync(i, e)
                                          \/ StartDeferred(i, e)
                                          \/ Resume(i, e)
                                          \/ Rerun(i, e)
                                          \/ RecoverPublish(i, e)
                 \/ \E t \in outbox[i] : Publish(i, t) \/ PublishFails(i, t)
                 \/ RecoverScan(i)
                 \/ RecoverFails(i)

WorkerStep(w) == \/ ResolveTask(w)
                 \/ Prepare(w)
                 \/ Claim(w)
                 \/ Lock(w)
                 \/ Begin(w)
                 \/ Exit(w)
                 \/ Suspend(w)
                 \/ Finish(w)

WorkerFails(w) == PrepareFails(w) \/ LockTimesOut(w) \/ RunFails(w)

Interrupting(i) == \/ \E e \in Executions : TimeoutScan(i, e) \/ CancelRead(i, e)
                   \/ CancelApply(i)
                   \/ CancelRefused(i)

Next == \/ \E i \in Instances : \/ Publishing(i)
                                \/ \E t \in Tasks : Receive(i, t)
                                \/ Interrupting(i)
                                \/ Crash(i)
                                \/ Restart(i)
        \/ \E w \in Workers : WorkerStep(w) \/ WorkerFails(w)
        \/ \E e \in Executions : DestroyExecution(e) \/ Lapse(e) \/ Expire(e)

Spec == Init /\ [][Next]_vars

-----------------------------------------------------------------------------
(* Fairness: running code goes on, the recovery interval of a running      *)
(* instance keeps firing, a crashed instance is restarted, dead locks      *)
(* expire, and the queue is first in first out, so that a task that stays  *)
(* in it is delivered.  Nothing is assumed of users, faults or timeouts.   *)

Fairness ==
  /\ \A i \in Instances : /\ WF_vars(\E t \in outbox[i] : Publish(i, t))
                          /\ WF_vars(\E e \in Executions : RecoverPublish(i, e))
                          /\ WF_vars(RecoverScan(i))
                          /\ WF_vars(Restart(i))
                          /\ \A e \in Executions : SF_vars(Receive(i, Task("start", e)))
  /\ \A w \in Workers : WF_vars(WorkerStep(w) \/ LockTimesOut(w))
  /\ \A e \in Executions : WF_vars(lock[e] = Dead /\ Lapse(e))

FairSpec == Spec /\ Fairness

-----------------------------------------------------------------------------
(* Properties *)

\* An execution is claimed at most once, however many start tasks, instances
\* and synchronous triggers race for it, and it is the claim that sets startedAt.
ClaimedOnce == \A e \in Executions : claims[e] = IF row[e].startedAt THEN 1 ELSE 0

\* Only a claimed execution is processed: the worker past the transaction holds
\* a copy that is dispatched and started, as the row is.  (The unguarded UPDATE
\* at the head of process therefore never runs.)
OnlyClaimedRuns ==
  \A w \in Workers : pc[w] \in {"lock", "begin", "run", "finish"} =>
     LET r == row[task[w].exec]
     IN  /\ r.dispatched /\ r.startedAt
         /\ r.status \in Ended \cup {"STARTED", "DESTROYED"}
         /\ pc[w] # "finish" => seen[w] = [r EXCEPT !.status = "STARTED"]

\* Recovery misses no execution that is queueing: nothing leaves a row between
\* QUEUEING and claimed.
QueueingIsRecoverable == \A e \in Executions : row[e].status = "QUEUEING" => e \in Recoverable

\* An execution that has ended keeps its status, until it is destroyed.
EndedIsFinal ==
  [][\A e \in Executions : row[e].status \in Ended =>
       row'[e].status \in {row[e].status, "DESTROYED"}]_vars

\* A started execution that nobody waits for is on its way: some task in a
\* queue, or a worker, will go on with it.
Attended(e) ==
  \/ e \in waiting
  \/ \E w \in Workers : /\ task[w].exec = e
                        /\ \/ pc[w] \in {"lock", "begin", "run"}
                           \/ pc[w] # "finish" /\ task[w].kind # "start"
  \/ \E t \in Tasks : /\ t.exec = e /\ t.kind # "start"
                      /\ queue[t] > 0 \/ \E i \in Instances : t \in outbox[i]

\* Without faults, no started execution is lost.
NoneLost ==
  faults = 0 => \A e \in Executions : row[e].status = "STARTED" /\ row[e].startedAt => Attended(e)

\* The stage of life that a row amounts to.
Stage(r) == CASE r.status = "ABSENT" -> "absent"
              [] r.status = "QUEUEING" -> "queueing"
              [] r.status = "STARTED" /\ ~r.startedAt -> "deferred"
              [] r.status = "STARTED" /\ r.startedAt -> "running"
              [] r.status \in {"RESOLVED", "FAILED"} -> "completed"
              [] r.status = "ABORTED" -> "aborted"
              [] r.status = "DESTROYED" -> "destroyed"

lifeBar == [e \in Executions |-> Stage(row[e])]

Lifecycle == INSTANCE ExecutionLifecycle WITH life <- lifeBar

\* The life of every execution is the one that ExecutionLifecycle allows,
\* whatever the instances, deliveries, retries, lapses and crashes.
ImplementsLifecycle == Lifecycle!Spec

\* A queueing execution does not stay in the queue for ever, whatever tasks
\* crashes and failures lose: recovery publishes it again.
QueueingLeaves == \A e \in Executions : row[e].status = "QUEUEING" ~> row[e].status # "QUEUEING"

\* Distributed workers do not duplicate an execution: it is started once.
StartedOnce == \A e \in Executions : starts[e] <= 1

\* A cancel request that was answered with success has ended the execution.
CancelTakesEffect == \A e \in cancelled : row[e].status \in Ended \cup {"DESTROYED"}
==============================================================================
