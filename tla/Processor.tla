------------------------------ MODULE Processor ------------------------------
(***************************************************************************)
(* The processing of one workflow execution: the Processor that runs its   *)
(* nodes, the parallel instruction that joins branches, the instructions   *)
(* that wait, the resume tasks that wake them up, and what aborts the      *)
(* execution meanwhile.                                                    *)
(*                                                                         *)
(* A Processor works on copies: the execution's status read before the     *)
(* lock, the jobs loaded by prepare, the jobs it has changed or built and  *)
(* not saved yet.  Only exit() writes them back.  Processors of one        *)
(* execution run one at a time, under the execution's lock (LocalLock).    *)
(***************************************************************************)
EXTENDS Integers, Sequences, FiniteSets

CONSTANTS
  Nodes,      \* the nodes of the workflow
  NoNode,     \* null
  Upstream,   \* node -> its upstream node, or NoNode
  Branch,     \* node -> its branchIndex, 0 (null) when it follows its upstream
  Waiting,    \* the nodes that suspend the execution until they are resumed
  Parallels,  \* the parallel nodes; every other node just runs
  Mode,       \* parallel node -> its mode
  Workers,    \* the instances' queue workers
  NoWorker,
  JobIds,     \* bound: the job ids the generator can hand out, 1..n
  MaxPokes,   \* bound: how often one waiting job is resumed
  Aborts,     \* who may abort: subset of {"here", "elsewhere", "timeout"}
  MaxCrashes  \* bound: crashes of the instance that runs the processor

ASSUME ProcessorAssumption ==
  /\ NoNode \notin Nodes /\ NoWorker \notin Workers
  /\ Upstream \in [Nodes -> Nodes \cup {NoNode}]
  /\ Branch \in [Nodes -> Nat]
  /\ Waiting \subseteq Nodes /\ Parallels \subseteq Nodes \ Waiting
  /\ Mode \in [Parallels -> {"all", "any", "race", "allSettled"}]
  /\ JobIds \subseteq Nat \ {0}
  /\ MaxPokes \in Nat /\ MaxCrashes \in Nat
  /\ Aborts \subseteq {"here", "elsewhere", "timeout"}

VARIABLES
  exec,      \* executions.status
  jobs,      \* the jobs table: id -> [node, status, result]
  nextId,    \* the snowflake ids handed out so far
  tasks,     \* the queue: number of resume tasks per job id; 0 is the start task
  loaded,    \* worker -> the task it has loaded, with its copy of the job
  holder,    \* the worker whose processor holds the execution's lock
  stack,     \* the awaited calls of that processor, innermost first
  copy,      \* its execution.status
  running,   \* runningRegistered: an abort here reaches it; its timeout guard is set
  signal,    \* abortSignal.aborted
  held,      \* its job objects: id -> [node, status, result]
  base,      \* the same objects as last loaded or saved
  unsaved,   \* jobsToSave
  expired,   \* expiresAt has passed
  runs,      \* ghost: node -> how often its instruction's run was called
  poked,     \* ghost: job id -> how often it was resumed
  crashes,   \* ghost: number of crashes
  late       \* ghost: ordinary nodes run after the abort signal

dbVars    == <<exec, jobs, nextId>>
queueVars == <<tasks, loaded>>
procVars  == <<holder, stack, copy, running, signal, held, base, unsaved>>
ghostVars == <<runs, poked, crashes, late>>
vars      == <<dbVars, queueVars, procVars, expired, ghostVars>>

------------------------------------------------------------------------------
(* Statuses of jobs and executions, as the integers of constants.ts.       *)

PENDING  == 0    \* EXECUTION_STATUS.STARTED is the same number
STARTED  == 0
RESOLVED == 1
FAILED   == -1   \* stands for ERROR too
ABORTED  == -3
Null     == 2    \* no status: a branch without a result, exit() without argument
Statuses == {PENDING, RESOLVED, FAILED, ABORTED}

Job   == [node : Nodes, status : Statuses, result : Seq(Statuses \cup {Null})]
Ids(f) == DOMAIN f
NoJobs == [id \in {} |-> {}]

\* What a worker holds between reading a task and entering the lock.
NoTask == [job |-> 0, status |-> Null]

(* The shape of the workflow. *)

Downstream(n) == IF \E m \in Nodes : Upstream[m] = n /\ Branch[m] = 0
                 THEN CHOOSE m \in Nodes : Upstream[m] = n /\ Branch[m] = 0
                 ELSE NoNode
Head0 == CHOOSE n \in Nodes : Upstream[n] = NoNode

Branches(n) == {m \in Nodes : Upstream[m] = n /\ Branch[m] # 0}
BranchNo(n, i) == CHOOSE m \in Branches(n) :
                    Cardinality({b \in Branches(n) : Branch[b] <= Branch[m]}) = i
IndexOf(n, m) == Cardinality({b \in Branches(n) : Branch[b] <= Branch[m]})

\* The first nodes of branches.
Starts == {m \in Nodes : Branch[m] # 0}

\* There is a first node, and branches are those of parallel nodes, with
\* different numbers.
ASSUME ShapeAssumption ==
  /\ IsFiniteSet(Nodes)
  /\ \E n \in Nodes : Upstream[n] = NoNode
  /\ \A m \in Starts : Upstream[m] \in Parallels
  /\ \A m, n \in Starts : Upstream[m] = Upstream[n] /\ Branch[m] = Branch[n] => m = n

\* Nobody comes before himself: a node is created with an upstream that exists.
ASSUME TreeAssumption ==
  \A S \in SUBSET Nodes : S # {} => \E n \in S : Upstream[n] \notin S

\* What a loop "n = n.upstream" visits from n on, when it ends at a node of S:
\* the least set with n in it that has the upstream of whatever goes on.
Up(n, S) ==
  LET visits(set) == /\ n \in set
                     /\ \A x \in set \ S : Upstream[x] \in set \cup {NoNode}
  IN  {m \in Nodes : \A set \in SUBSET Nodes : visits(set) => m \in set}

\* The way from a node to the first one of its branch.
Line == [n \in Nodes |-> Up(n, Starts)]

\* findBranchParentNode: the node whose branch n is in.
ParentOf == [n \in Nodes |-> LET start == Line[n] \cap Starts
                             IN  IF start = {} THEN NoNode
                                 ELSE Upstream[CHOOSE m \in start : TRUE]]

\* findBranchStartNode: the first node of the branch of p that n is in.
WayTo == [p \in Nodes |-> [n \in Nodes |-> Up(n, {m \in Nodes : Upstream[m] = p})]]
StartIn(n, p) == CHOOSE m \in WayTo[p][n] : Upstream[m] = p

\* The nodes of the branch that starts at b, nested branches apart.
Chain(b) == {m \in Nodes : b \in Line[m]}

(* The modes of the parallel instruction. *)

NextBranch(mode, status) == CASE mode = "all"        -> status >= PENDING
                              [] mode = "any"        -> status <= PENDING
                              [] mode = "race"       -> status = PENDING
                              [] mode = "allSettled" -> TRUE

JoinStatus(mode, result) ==
  LET is(s)  == \E i \in DOMAIN result : result[i] = s
      failed == {i \in DOMAIN result : result[i] < PENDING}
      first  == result[CHOOSE i \in failed : \A j \in failed : i <= j]
      open   == is(PENDING) \/ is(Null)
  IN  CASE mode = "all"  -> IF failed # {} THEN first ELSE IF open THEN PENDING ELSE RESOLVED
        [] mode = "any"  -> IF is(RESOLVED) THEN RESOLVED ELSE IF open THEN PENDING ELSE FAILED
        [] mode = "race" -> IF is(RESOLVED) THEN RESOLVED
                            ELSE IF failed # {} THEN first ELSE PENDING
        [] mode = "allSettled" -> IF open THEN PENDING ELSE RESOLVED

------------------------------------------------------------------------------
(* The awaited calls.  A frame is one call: which operation, on which node, *)
(* with which job, and its branch number or status.                         *)

Frame(op, n, j, k) == [op |-> op, node |-> n, job |-> j, k |-> k]
Run(n, j)    == Frame("run", n, j, Null)
Resume(n, j) == Frame("resume", n, j, Null)
Exit(s)      == Frame("exit", NoNode, 0, s)

Top        == Head(stack)
At(op)     == stack # <<>> /\ Top.op = op
Replace(f) == stack' = <<f>> \o Tail(stack)
Pop        == stack' = Tail(stack)

\* The job the processor knows for a node: the latest one.
Current(h, n) == LET ids == {j \in Ids(h) : h[j].node = n}
                 IN  IF ids = {} THEN 0 ELSE CHOOSE j \in ids : \A i \in ids : i <= j

\* findBranchLastJob
LastStatus(b) == LET ids == {j \in Ids(held) : held[j].node \in Chain(b)}
                 IN  IF ids = {} THEN Null
                     ELSE held[CHOOSE j \in ids : \A i \in ids : i <= j].status

\* saveJob: a built job gets the next id, a changed one keeps its own.
With(h, j, job) == [i \in Ids(h) \cup {j} |-> IF i = j THEN job ELSE h[i]]
SaveJob(j, job) == /\ held' = With(held, j, job)
                   /\ unsaved' = unsaved \cup {j}
NewJob(n, s, result) ==
  /\ nextId + 1 \in JobIds
  /\ nextId' = nextId + 1
  /\ SaveJob(nextId + 1, [node |-> n, status |-> s, result |-> result])

\* Mutant of AfterJob: the abort signal is not looked at.
AfterJobGoesOn(n, j, s) ==
  Replace(IF copy = ABORTED THEN Exit(ABORTED)
          ELSE IF s = RESOLVED /\ Downstream(n) # NoNode THEN Run(Downstream(n), j)
          ELSE IF ParentOf[n] # NoNode THEN Resume(ParentOf[n], j)
          ELSE Exit(s))

\* The rest of exec once an instruction has returned a job.
AfterJob(n, j, s) ==
  Replace(IF copy = ABORTED \/ signal THEN Exit(ABORTED)
          ELSE IF s = RESOLVED /\ Downstream(n) # NoNode THEN Run(Downstream(n), j)
          ELSE IF ParentOf[n] # NoNode THEN Resume(ParentOf[n], j)
          ELSE Exit(s))

\* abortExecution: the execution, if it has not ended, with its pending jobs.
AbortRows ==
  IF exec = STARTED
  THEN /\ exec' = ABORTED
       /\ jobs' = [j \in Ids(jobs) |->
                     IF jobs[j].status = PENDING THEN [jobs[j] EXCEPT !.status = ABORTED]
                     ELSE jobs[j]]
  ELSE UNCHANGED <<exec, jobs>>

------------------------------------------------------------------------------
(* Tasks: the start task and the resumption of waiting jobs.                *)

Init ==
  /\ exec = STARTED /\ jobs = NoJobs /\ nextId = 0
  /\ tasks = [t \in JobIds \cup {0} |-> IF t = 0 THEN 1 ELSE 0]
  /\ loaded = [w \in Workers |-> NoTask]
  /\ holder = NoWorker /\ stack = <<>>
  /\ copy = STARTED /\ running = FALSE /\ signal = FALSE
  /\ held = NoJobs /\ base = NoJobs /\ unsaved = {}
  /\ expired = FALSE
  /\ runs = [n \in Nodes |-> 0] /\ poked = [j \in JobIds |-> 0]
  /\ crashes = 0 /\ late = 0

\* Something resumes a waiting job as it is: the timer of a delay, on every
\* instance that has loaded it; it looks at the execution, not at the job.
Poke(j) ==
  /\ jobs[j].node \in Waiting
  /\ exec = STARTED
  /\ poked[j] < MaxPokes
  /\ poked' = [poked EXCEPT ![j] = @ + 1]
  /\ tasks' = [tasks EXCEPT ![j] = @ + 1]
  /\ UNCHANGED <<dbVars, loaded, procVars, expired, runs, crashes, late>>

\* The action jobs:resume: sets the job's status under the lock, which it
\* does not wait for, then resumes it.
ResumeAction(j, s) ==
  /\ jobs[j].node \in Waiting
  /\ exec = STARTED /\ ~expired
  /\ holder = NoWorker
  /\ poked[j] < MaxPokes
  /\ poked' = [poked EXCEPT ![j] = @ + 1]
  /\ jobs' = [jobs EXCEPT ![j].status = s]
  /\ tasks' = [tasks EXCEPT ![j] = @ + 1]
  /\ UNCHANGED <<exec, nextId, loaded, procVars, expired, runs, crashes, late>>

\* The same action when the execution's time is up: aborted at once, without
\* the lock, and the request is refused.
ResumeTooLate(j, where) ==
  /\ jobs[j].node \in Waiting
  /\ exec = STARTED /\ expired
  /\ AbortRows
  /\ signal' = (signal \/ (where = "here" /\ running))
  /\ UNCHANGED <<nextId, queueVars, holder, stack, copy, running, held, base, unsaved,
                 expired, ghostVars>>

\* A worker takes a task and loads execution and job; an execution that has
\* ended drops the task.
Load(w, t) ==
  /\ loaded[w] = NoTask /\ holder # w
  /\ tasks[t] > 0
  /\ tasks' = [tasks EXCEPT ![t] = @ - 1]
  /\ loaded' = IF exec # STARTED THEN loaded
               ELSE [loaded EXCEPT ![w] =
                       [job |-> t, status |-> IF t = 0 THEN PENDING ELSE jobs[t].status]]
  /\ UNCHANGED <<dbVars, procVars, expired, ghostVars>>

\* With the lock: start or resume, on the copies loaded before.
Enter(w) ==
  /\ holder = NoWorker /\ loaded[w] # NoTask
  /\ holder' = w
  /\ copy' = STARTED
  /\ signal' = FALSE
  /\ held' = NoJobs /\ base' = NoJobs /\ unsaved' = {}
  /\ \/ /\ expired                       \* shouldContinue aborts it
        /\ AbortRows
        /\ loaded' = [loaded EXCEPT ![w] = NoTask]
        /\ UNCHANGED <<stack, running>>
     \/ /\ ~expired
        /\ running' = TRUE
        /\ stack' = <<Frame("prepare", NoNode, loaded[w].job, Null)>>
        /\ UNCHANGED <<exec, jobs, loaded>>
  /\ UNCHANGED <<nextId, tasks, expired, ghostVars>>

\* prepare: the latest job of every node; the resumed job is the copy the
\* worker brought.
Prepare ==
  LET latest == {j \in Ids(jobs) : j = Current(jobs, jobs[j].node)}
      arg    == loaded[holder]
      seen   == [j \in latest \cup (IF arg.job = 0 THEN {} ELSE {arg.job}) |->
                   IF j = arg.job THEN [jobs[j] EXCEPT !.status = arg.status] ELSE jobs[j]]
  IN  /\ At("prepare")
      /\ held' = seen /\ base' = seen
      /\ loaded' = [loaded EXCEPT ![holder] = NoTask]
      /\ Replace(IF arg.job = 0 THEN Run(Head0, 0) ELSE Resume(jobs[arg.job].node, arg.job))
      /\ UNCHANGED <<dbVars, tasks, holder, copy, running, signal, unsaved, expired, ghostVars>>

------------------------------------------------------------------------------
(* exec: shouldContinue, the instruction, and what its result leads to.     *)

\* Before an instruction: the copy of the status, and the clock, decide.
Stop ==
  /\ At("run") \/ At("resume")
  /\ copy # STARTED \/ expired
  /\ Replace(Exit(Null))
  /\ IF copy = STARTED
     THEN /\ AbortRows
          /\ copy' = IF exec = STARTED THEN ABORTED ELSE copy
          /\ signal' = (signal \/ (running /\ exec = STARTED))
     ELSE UNCHANGED <<exec, jobs, copy, signal>>
  /\ UNCHANGED <<nextId, queueVars, holder, running, held, base, unsaved, expired, ghostVars>>

\* The instruction is called; a node that just runs takes its time.
Call ==
  /\ At("run")
  /\ copy = STARTED /\ ~expired
  /\ runs' = [runs EXCEPT ![Top.node] = @ + 1]
  /\ late' = IF signal /\ Top.node \notin Waiting \cup Parallels THEN late + 1 ELSE late
  /\ Replace([Top EXCEPT !.op = "called"])
  /\ UNCHANGED <<dbVars, queueVars, holder, copy, running, signal, held, base, unsaved,
                 expired, poked, crashes>>

Called(S) == At("called") /\ Top.node \in S

RunNode ==
  /\ Called(Nodes \ (Waiting \cup Parallels))
  /\ \E s \in {RESOLVED, FAILED} \cup (IF signal THEN {ABORTED} ELSE {}) :
       /\ NewJob(Top.node, s, <<>>)
       /\ AfterJob(Top.node, nextId + 1, s)
  /\ UNCHANGED <<exec, jobs, queueVars, holder, copy, running, signal, base, expired, ghostVars>>

\* A waiting node saves its job itself and returns null (delay), or returns a
\* pending job (manual), which its parent node is told of.
RunWaiting ==
  /\ Called(Waiting)
  /\ NewJob(Top.node, PENDING, <<>>)
  /\ \/ Replace(Exit(Null))
     \/ AfterJob(Top.node, nextId + 1, PENDING)
  /\ UNCHANGED <<exec, jobs, queueVars, holder, copy, running, signal, base, expired, ghostVars>>

RunParallel ==
  LET n == Top.node
  IN  /\ Called(Parallels)
      /\ NewJob(n, PENDING, [i \in 1..Cardinality(Branches(n)) |-> Null])
      /\ Replace(Frame("branches", n, nextId + 1, 1))
      /\ UNCHANGED <<exec, jobs, queueVars, holder, copy, running, signal, base, expired, ghostVars>>

\* The branches, one after the other: the last job of the previous one
\* decides whether the next one starts.
RunBranch ==
  LET n == Top.node
      i == Top.k
      last == IF i = 1 THEN Null ELSE LastStatus(BranchNo(n, i - 1))
  IN  /\ At("branches")
      /\ i <= Cardinality(Branches(n))
      /\ i = 1 \/ (last # Null /\ NextBranch(Mode[n], last))
      /\ stack' = <<Run(BranchNo(n, i), Top.job), [Top EXCEPT !.k = i + 1]>> \o Tail(stack)
      /\ UNCHANGED <<dbVars, queueVars, holder, copy, running, signal, held, base, unsaved,
                     expired, ghostVars>>

\* No branch is left, or none may start: the call returns nothing, and
\* exit(true) only leaves the running state.
BranchesEnd ==
  LET n == Top.node
      i == Top.k
      last == LastStatus(BranchNo(n, i - 1))
  IN  /\ At("branches")
      /\ \/ i > Cardinality(Branches(n))
         \/ i > 1 /\ last # Null /\ ~NextBranch(Mode[n], last)
      /\ Pop
      /\ running' = FALSE
      /\ UNCHANGED <<dbVars, queueVars, holder, copy, signal, held, base, unsaved, expired, ghostVars>>

\* The previous branch was stopped before it had a job: reading the status of
\* null throws, and exec makes a job of the error.
BranchesThrow ==
  LET n == Top.node
      i == Top.k
      s == IF signal THEN ABORTED ELSE FAILED
  IN  /\ At("branches")
      /\ i \in 2..Cardinality(Branches(n))
      /\ LastStatus(BranchNo(n, i - 1)) = Null
      /\ Mode[n] # "allSettled"
      /\ NewJob(n, s, <<>>)
      /\ AfterJob(n, nextId + 1, s)
      /\ UNCHANGED <<exec, jobs, queueVars, holder, copy, running, signal, base, expired, ghostVars>>

\* The resumed job of a waiting node: a delay settles it, a manual node takes
\* it as it was saved.
ResumeWaiting ==
  LET j == Top.job
      n == Top.node
  IN  /\ At("resume") /\ n \in Waiting
      /\ copy = STARTED /\ ~expired
      /\ \E s \in IF held[j].status = PENDING THEN {RESOLVED, FAILED} ELSE {held[j].status} :
           /\ SaveJob(j, [held[j] EXCEPT !.status = s])
           /\ AfterJob(n, j, s)
      /\ UNCHANGED <<dbVars, queueVars, holder, copy, running, signal, base, expired, ghostVars>>

\* Mutant of ResumeParallel: joins again although it is done.
ResumeParallelAgain ==
  LET n      == Top.node
      j      == Current(held, n)
      i      == IndexOf(n, StartIn(held[Top.job].node, n))
      result == [held[j].result EXCEPT ![i] = held[Top.job].status]
      s      == JoinStatus(Mode[n], result)
  IN  /\ At("resume") /\ n \in Parallels
      /\ copy = STARTED /\ ~expired
      /\ SaveJob(j, [held[j] EXCEPT !.status = s, !.result = result])
      /\ IF s = PENDING THEN Replace(Exit(Null)) ELSE AfterJob(n, j, s)
      /\ UNCHANGED <<dbVars, queueVars, holder, copy, running, signal, base, expired, ghostVars>>

\* Mutant of ResumeParallel: a result that does not finish the join is not saved.
ResumeParallelForgets ==
  LET n      == Top.node
      j      == Current(held, n)
      i      == IndexOf(n, StartIn(held[Top.job].node, n))
      result == [held[j].result EXCEPT ![i] = held[Top.job].status]
      s      == JoinStatus(Mode[n], result)
  IN  /\ At("resume") /\ n \in Parallels
      /\ copy = STARTED /\ ~expired
      /\ IF held[j].status # PENDING \/ s = PENDING
         THEN /\ Replace(Exit(Null))
              /\ UNCHANGED <<held, unsaved>>
         ELSE /\ SaveJob(j, [held[j] EXCEPT !.status = s, !.result = result])
              /\ AfterJob(n, j, s)
      /\ UNCHANGED <<dbVars, queueVars, holder, copy, running, signal, base, expired, ghostVars>>

\* A branch has ended: its parallel node records the result and goes on once
\* the mode is satisfied; a node that is done ignores it.
ResumeParallel ==
  LET n      == Top.node
      j      == Current(held, n)
      i      == IndexOf(n, StartIn(held[Top.job].node, n))
      result == [held[j].result EXCEPT ![i] = held[Top.job].status]
      s      == JoinStatus(Mode[n], result)
  IN  /\ At("resume") /\ n \in Parallels
      /\ copy = STARTED /\ ~expired
      /\ \/ /\ held[j].status # PENDING
            /\ Replace(Exit(Null))
            /\ UNCHANGED <<held, unsaved>>
         \/ /\ held[j].status = PENDING
            /\ SaveJob(j, [held[j] EXCEPT !.status = s, !.result = result])
            /\ IF s = PENDING THEN Replace(Exit(Null)) ELSE AfterJob(n, j, s)
      /\ UNCHANGED <<dbVars, queueVars, holder, copy, running, signal, base, expired, ghostVars>>

------------------------------------------------------------------------------
(* exit: leave the running state, save the jobs, then the execution.        *)

\* Mutant of Merge: only a changed status is written.
MergeStatus(j) ==
  IF j \notin Ids(jobs) THEN held[j]
  ELSE [jobs[j] EXCEPT !.status = IF held[j].status # base[j].status THEN held[j].status ELSE @]

\* A new job is inserted; of a known one only the changed fields are updated.
Merge(j) ==
  IF j \notin Ids(jobs) THEN held[j]
  ELSE [jobs[j] EXCEPT
          !.status = IF held[j].status # base[j].status THEN held[j].status ELSE @,
          !.result = IF held[j].result # base[j].result THEN held[j].result ELSE @]

ExitSave ==
  /\ At("exit")
  /\ running' = FALSE
  /\ jobs' = [j \in Ids(jobs) \cup unsaved |-> IF j \in unsaved THEN Merge(j) ELSE jobs[j]]
  /\ base' = [j \in Ids(base) \cup unsaved |-> IF j \in unsaved THEN held[j] ELSE base[j]]
  /\ unsaved' = {}
  /\ Replace([Top EXCEPT !.op = "update"])
  /\ UNCHANGED <<exec, nextId, queueVars, holder, copy, signal, held, expired, ghostVars>>

\* The status is written only over STARTED; otherwise the row is read again.
ExitUpdate ==
  /\ At("update")
  /\ IF Top.k = Null THEN UNCHANGED <<exec, copy>>
     ELSE /\ exec' = IF exec = STARTED THEN Top.k ELSE exec
          /\ copy' = exec'
  /\ Pop
  /\ UNCHANGED <<jobs, nextId, queueVars, holder, running, signal, held, base, unsaved,
                 expired, ghostVars>>

\* Mutant of Leave: the lock is released without awaiting the run.
LeaveEarly ==
  /\ holder # NoWorker
  /\ holder' = NoWorker
  /\ running' = FALSE
  /\ held' = NoJobs /\ base' = NoJobs /\ unsaved' = {}
  /\ copy' = STARTED /\ signal' = FALSE
  /\ UNCHANGED <<dbVars, queueVars, stack, expired, ghostVars>>

\* start or resume returns: the lock is released.
Leave ==
  /\ holder # NoWorker /\ stack = <<>>
  /\ holder' = NoWorker
  /\ running' = FALSE
  /\ held' = NoJobs /\ base' = NoJobs /\ unsaved' = {}
  /\ copy' = STARTED /\ signal' = FALSE
  /\ UNCHANGED <<dbVars, queueVars, stack, expired, ghostVars>>

------------------------------------------------------------------------------
(* What happens meanwhile.                                                  *)

\* abortExecution of a parent aborts its children without their lock.  Only
\* on the same instance, and in the running state, is the processor told.
Abort(where) ==
  /\ where \in Aborts \ {"timeout"}
  /\ exec = STARTED
  /\ AbortRows
  /\ signal' = (signal \/ (where = "here" /\ running))
  /\ UNCHANGED <<nextId, queueVars, holder, stack, copy, running, held, base, unsaved,
                 expired, ghostVars>>

Expire ==
  /\ "timeout" \in Aborts /\ ~expired
  /\ expired' = TRUE
  /\ UNCHANGED <<dbVars, queueVars, procVars, ghostVars>>

\* The processor's own timer, cleared when it leaves the running state.
TimeoutGuard ==
  /\ expired /\ running /\ ~signal
  /\ signal' = TRUE
  /\ UNCHANGED <<dbVars, queueVars, holder, stack, copy, running, held, base, unsaved,
                 expired, ghostVars>>

\* The timers and scans of ExecutionTimeoutManager, under the lock.
TimeoutAbort ==
  /\ expired /\ holder = NoWorker
  /\ exec = STARTED
  /\ AbortRows
  /\ UNCHANGED <<nextId, queueVars, procVars, expired, ghostVars>>

\* The instance of the processor dies: the lock lapses, the copies are gone.
Crash ==
  /\ holder # NoWorker /\ crashes < MaxCrashes
  /\ crashes' = crashes + 1
  /\ loaded' = [loaded EXCEPT ![holder] = NoTask]
  /\ holder' = NoWorker /\ stack' = <<>> /\ running' = FALSE
  /\ held' = NoJobs /\ base' = NoJobs /\ unsaved' = {}
  /\ copy' = STARTED /\ signal' = FALSE
  /\ UNCHANGED <<dbVars, tasks, expired, runs, poked, late>>

Processing == \/ Prepare
              \/ Stop \/ Call
              \/ RunNode \/ RunWaiting \/ RunParallel
              \/ RunBranch \/ BranchesEnd \/ BranchesThrow
              \/ ResumeWaiting \/ ResumeParallel
              \/ ExitSave \/ ExitUpdate
              \/ Leave

Next == \/ \E w \in Workers : Enter(w) \/ \E t \in JobIds \cup {0} : Load(w, t)
        \/ Processing
        \/ \E j \in Ids(jobs) : \/ Poke(j)
                                \/ \E s \in {RESOLVED, FAILED} : ResumeAction(j, s)
                                \/ \E where \in {"here", "elsewhere"} : ResumeTooLate(j, where)
        \/ \E where \in {"here", "elsewhere"} : Abort(where)
        \/ Expire \/ TimeoutGuard \/ TimeoutAbort
        \/ Crash

Spec == Init /\ [][Next]_vars

\* Fairness: the processor's code goes on, queued tasks are taken, the lock is
\* granted to whoever waits for it, and a waiting job is eventually resumed:
\* the delay's timer fires, somebody answers the manual task.
Fairness ==
  /\ WF_vars(Processing)
  /\ \A w \in Workers : /\ WF_vars(\E t \in JobIds \cup {0} : Load(w, t))
                        /\ SF_vars(Enter(w))
  /\ \A j \in JobIds : WF_vars(j \in Ids(jobs) /\ Poke(j))
  /\ WF_vars(TimeoutAbort)

FairSpec == Spec /\ Fairness

------------------------------------------------------------------------------
(* Properties                                                               *)

\* Types of the tables, of the queue and of the processor's copies.
TypeOK ==
  /\ exec \in Statuses /\ nextId \in JobIds \cup {0}
  /\ Ids(jobs) \subseteq 1..nextId /\ \A j \in Ids(jobs) : jobs[j] \in Job
  /\ tasks \in [JobIds \cup {0} -> Nat]
  /\ loaded \in [Workers -> [job : JobIds \cup {0}, status : Statuses \cup {Null}]]
  /\ holder \in Workers \cup {NoWorker}
  /\ copy \in Statuses /\ running \in BOOLEAN /\ signal \in BOOLEAN
  /\ Ids(base) \subseteq Ids(held) /\ unsaved \subseteq Ids(held)
  /\ \A j \in Ids(held) : held[j] \in Job
  /\ stack # <<>> => holder # NoWorker
  /\ runs \in [Nodes -> Nat] /\ late \in Nat

\* Nobody works on the execution and no task for it is queued.
Quiet == /\ holder = NoWorker
         /\ \A w \in Workers : loaded[w] = NoTask
         /\ \A t \in DOMAIN tasks : tasks[t] = 0

\* A running execution nobody works on waits for something: the jobs table
\* holds a pending job of a waiting node, which a timer or a user can resume.
\* Everything the processor kept in memory must have been saved for that.
SomethingToWaitFor ==
  Quiet /\ exec = STARTED /\ crashes = 0 =>
    \E j \in Ids(jobs) : jobs[j].node \in Waiting /\ jobs[j].status = PENDING

\* Whatever is resumed how often and in whatever order, from however stale a
\* copy: the branches of a parallel node are joined once for every time it is
\* run, and once more at most for every crash, which may have lost a join.
JoinsOnce ==
  \A n \in Parallels : Downstream(n) # NoNode => runs[Downstream(n)] <= runs[n] + crashes

\* A branch has ended when its last node is resolved, or any of its nodes failed.
BranchEnded(b) ==
  \E j \in Ids(jobs) : /\ jobs[j].node \in Chain(b)
                       /\ \/ jobs[j].status < PENDING
                          \/ jobs[j].status = RESOLVED /\ Downstream(jobs[j].node) = NoNode

\* Between two processors the saved result of a pending parallel node tells
\* exactly which branches have ended: no branch's result is lost or invented.
JoinIsAccurate ==
  Quiet /\ exec = STARTED /\ crashes = 0 =>
    \A j \in Ids(jobs) :
      jobs[j].node \in Parallels /\ jobs[j].status = PENDING =>
        \A i \in DOMAIN jobs[j].result :
          jobs[j].result[i] \notin {Null, PENDING} <=> BranchEnded(BranchNo(jobs[j].node, i))

\* After the abort signal at most one ordinary node is still run.
SignalStops == late <= 1

\* Every execution ends, if its waiting jobs are resumed and no worker dies with
\* what it has in memory.
Ends == exec = STARTED ~> exec # STARTED \/ crashes > 0

\* options.md:30: when an execution is aborted, its running and waiting jobs
\* are marked as aborted: none stays pending.
AbortedJobsAreMarked ==
  Quiet /\ exec = ABORTED => \A j \in Ids(jobs) : jobs[j].status # PENDING

\* Processor.execution-state.test.ts:15: a processor stops before it runs an
\* instruction when the execution was ended by another one.
NothingRunsAfterEnd == [][\A n \in Nodes : runs'[n] > runs[n] => exec = STARTED]_vars
=============================================================================
