# Formal models of the server's execution core

This directory holds TLA+ models of the parts of this NocoBase distribution
whose correctness depends on interleavings, crashes, stale copies and timers:
the lock manager, the event queue, the workflow engine over a cluster of
application instances (buffer, dispatcher, processor, timeouts, cache of
enabled workflows), the generator of identifiers, the renewal of tokens, and
the sign-in of the LDAP plugin. Each model is checked by TLC on small
instances, and ten of them carry proofs that TLAPS checks for every value of the
constants. Paths below are relative to `src/packages/`; `plugin-workflow/`,
`plugin-auth/` and `plugin-auth-ldap/` stand for
`plugins/@nocobase/<name>/src/server/`.

    tlc -workers 2 -config MCLocalLock.cfg MCLocalLock.tla     one run
    tlapm LocalLock_proofs.tla                                  one module's proofs

`PROJECT.json` lists, for a program to read, the components, runs, mutants,
the lines each definition stands for, the finding, the hazards and the
theorems.

## 1. The system

A NocoBase application is one Node.js process (an *instance*); several of them
may share a database, and through adapters a queue, a pub/sub channel and a
lock service. Inside an instance JavaScript runs one slice at a time, so what
interleaves are the stretches between two `await`s, the timers, and the other
instances.

| Component | State it keeps | Operations | What makes it hard | What makes it correct |
|---|---|---|---|---|
| Lock manager, `core/lock-manager` | one async-mutex per key: holder, FIFO of waiters; TTL timers; handles | `acquire`, `runExclusive`, `tryAcquire`, handle `acquire` / `runExclusive` / `release` | a TTL fires under a running function; a waiter times out with its ticket in line; a handle is used twice | one owner; no lost wake-up; nobody releases another's lock; waiters are answered |
| Event queue, `core/server/src/event-queue.ts` | per channel: queue, messages in processing, armed retry timers, a scheduled wake-up; a file over restarts | connect, close, subscribe, unsubscribe, publish, poll, wake-up, retry | two readers of one queue; retries; restart between read and done | nothing held twice, nothing untried lost, order kept, everything tried |
| Workflow dispatcher, `plugin-workflow/Dispatcher.ts` | the buffer of events, the rows of `executions`, the task being executed | `trigger`, `onQueueTask`, `recover`, `beforeStop` | many instances claim one row; stale copies; crash between claim and run; a stop while events come in | claimed once, run only when claimed, ended is final, nothing lost, a drain leaves nothing |
| Processor, `plugin-workflow/Processor.ts` with the instructions | nodes, jobs in memory and in the table, the running registry | start, resume, exec, exit, abort | branches, resume from a stale copy, abort while running | branches are joined once and from what was saved; a suspended execution waits for something; a signal stops it |
| Timeouts, `plugin-workflow/ExecutionTimeoutManager.ts` | a timer for the next deadline, one per execution, one for the periodic scan; the scan | load, unload, scan, schedule, shouldContinue | three mechanisms overlap; stale reads and batches; a lock that is not had gives up a scan | only expired executions are aborted, all of them in the end; a stopped manager is quiet |
| Workflow plugin server, `plugin-workflow/Plugin.ts` | the cache of enabled workflows | the hooks of the workflows table, toggle, sync messages, resume, start, rerun | rollbacks, debounced messages, handlers that await the database | one version of a workflow is enabled; every instance agrees with the table |
| Execution requests, `plugin-workflow/actions/` | none | destroy, cancel, rerun, resume a job | status read before the lock | an execution's life stays one the table allows |
| Pub/sub and sync messages, `core/server/src/pub-sub-manager`, `sync-message-manager.ts` | handlers, debounced messages | publish, subscribe, handle | debouncing, own messages, commit order | each instance handles the last message |
| Identifiers, `core/snowflake-id`, `worker-id-allocator.ts`, `application.ts` | last second, sequence, worker id | load, reload, stop, generate | the sequence wraps; worker ids go to another process; the clock steps back | identifiers differ and grow |
| Tokens, `core/auth/src/base/auth.ts`, `plugin-auth/token-controller.ts`, `core/cache` | the row of a session, a cached successor, calls that are coalesced | check, renew, cleanup | concurrent renewals on several instances, a crash between the UPDATE and the cache | all calls get one answer; nobody is refused without a reason; nobody waits for ever |
| LDAP sign-in, `plugin-auth-ldap`, `plugin-auth/model/authenticator.ts` | a connection per attempt; users and their links | connect, bind, search, bind again, find or create the user, unbind | concurrent first sign-ins, passwords that change half way, errors at any request | one user per account; nobody without an accepted password; no connection is left |

How they interact: a trigger puts an event into the dispatcher's buffer, which
writes an execution row and publishes a *start* task to the event queue; the
queue calls `onQueueTask` on an instance that is idle, which claims the row in a
transaction, takes the lock `workflow:execution:<id>` and runs a processor; the
processor runs nodes until they wait, saves their jobs and gives up the lock;
timers and users publish *resume* and *rerun* tasks and abort executions;
recovery re-publishes what is still queueing, every five minutes and at start;
hooks on the workflows table tell every instance which workflows may trigger.

## 2. Modules

| Module | What it is |
|---|---|
| `LeaseLock` | abstract: a key is a lease, one valid at a time; a lapsed one frees nothing |
| `LocalLock` | the local adapter of the lock manager, one key |
| `EventQueue` | `EventQueue` with `MemoryEventQueueAdapter`, one channel |
| `ExecutionLifecycle` | abstract: the stages in the life of an execution |
| `Dispatcher` | executions over instances: rows, tasks, workers, locks, recovery, requests, timeouts, crashes |
| `EventBuffer` | what stands before the dispatcher on one instance: `trigger`, the saving loop, `beforeStop` |
| `Processor` | one execution: nodes, jobs, branches, waiting, resumption, aborts |
| `TimeoutManager` | the timers and scans that end executions whose time is up |
| `WorkflowSync` | the versions of a workflow, the caches of the instances, and the messages between them |
| `SnowflakeId` | the generators of identifiers and their worker ids |
| `TokenRenewal` | the renewal of one session's token |
| `LdapSignIn` | sign-ins of accounts of one directory |
| `Workflow_proofs` | the proofs about `Processor` and `EventBuffer` (section 5) |
| `Authentication_proofs` | the proofs about `TokenRenewal` and `LdapSignIn` |
| other `*_proofs` | the proofs about the module of that name |
| `MC*` | what TLC needs to instantiate a module: symmetry of identities, the shape of a workflow |

How they fit together. Each module sees its neighbours as what their own
modules establish. A lock is a lease: granted to one worker, it lapses when its
TTL passes, and a release after that touches nothing (`LocalLock` implements
`LeaseLock`; `Dispatcher` and `TimeoutManager` have such a lapse as an action).
The queue is a bag of tasks in `Dispatcher`: delivery in any order covers
several instances and adapters; a task that fails is published again with one
retry fewer, and a crash either keeps the bag (an adapter) or empties it (the
worst of memory queues). `Dispatcher` runs a processor in one step, from the
check at its head to its `exit`; `Processor` takes that step apart for one
execution that is claimed, and begins where `Dispatcher` has the lock.
`EventBuffer` ends where `Dispatcher` begins, with the row and the published
task. `TimeoutManager` takes apart the one action `TimeoutScan` of
`Dispatcher`.

Definitions whose comment begins with *Mutant* are not part of the model. Each
is a plausible mistake in the definition that follows; putting it in that
definition's place must make TLC refute one property, which shows that the
property depends on the code and is not true of any model of this shape.

### LocalLock

`holder` and `queue` are the async-mutex; a *call* is one use of the adapter by
a caller. `pc` says where its code stands: `queued` awaits `mutex.acquire()`,
`abandoned` is a `tryAcquire` whose waiting time is over while its ticket is in
line, `handle` has the handle but has not used it, `critical` runs under the
lock, `spent` has a handle whose ticket is used up. `released` is the
idempotency guard of the releaser. `ttl` is an armed timer. Each function is a
path through the actions: `Ask`, `Granted`, then `Finish` for `acquire` and
`runExclusive`; `TryNow` or `Ask`, `Granted`, `UseHandle` or `ReleaseHandle`
for `tryAcquire`. The adapter's own `runExclusive` arms no timer in `Granted`:
the code clears it before the function has run.

### EventQueue

`phase` is the connection, `subscribed` what the facade knows, `listening` what
the adapter knows (they differ while disconnected). `Listen` is the function
`listen`; it runs from the wake-up (`Immediate`) and from the polling loop
(`Poll`). Reading a batch, and handing its messages to the consumer, is one
slice. `Close` stops reading, `Save` writes the file when processing has ended,
`Closed` is the facade's loop that unsubscribes. `Retry` publishes to the
adapter and not to the facade, so it goes through whatever the connection is;
after `Save` such a message is lost, as in the code.

### Dispatcher

`row` is the `executions` table (status, dispatched, startedAt). A worker is the
queue callback of an instance (`executing` serialises it, so there is one) or a
synchronous trigger beside it. `pc` follows the code: `resolve`
(`resolveTask`), `prepare` and `claim` (the two statements of the transaction
in `enter`), `lock` (`tryAcquire`), `begin` (`shouldContinue`), `run`, `finish`.
`seen` is the worker's own copy of the execution, as old as the statement that
read it; decisions use `seen` where the code uses the model instance and `row`
where it uses a `WHERE` clause. Nodes and jobs are reduced to `waiting`, the set
of executions with a PENDING job. `FAILED` stands for the five failure statuses.
`claims`, `starts` and `cancelled` are history variables: no action reads them,
except that `starts` stops counting at two.

### EventBuffer

`events` is the buffer, `saving` where the one saving loop stands, `current` the
event in its hands, `executing` and `recovering` the two promises that
`beforeStop` awaits, `stopping` where that stands. A loop is started by a
trigger, by the end of a task and by its own `finally` block (`SaveEvent`); with
SQLite it awaits a running task before it takes an event (`AwaitTask`, and
`resumed` once it has). `TaskEnds(TRUE)` is a task whose promise rejects: it
rejects whoever awaits it, the loop (which starts again) or `beforeStop` (which
returns with an error, `rejected`).

### Processor

`stack` holds the awaited calls of the processor that has the lock, innermost
first: `run` and `resume` of a node, `branches` of a parallel node with the
number of the next branch, `exit` and its `update`. `held` are its job objects,
`base` what they were when loaded or saved (only changed fields are written),
`unsaved` is `jobsToSave`. `copy` is its execution's status, read before the
lock. `Merge` and `ExitSave` write the jobs, `ExitUpdate` the status, only over
STARTED. `running` and `signal` are the registry and the abort signal: an abort
on this instance, in the running state, sets it (`Abort("here")`), another one
only changes the table. `Poke` is a timer of a delay, `ResumeAction` the
request of a user; with `MaxPokes` > 1 both may come for one job. `Load` reads execution and job
before the lock, `Enter` has it. The modes of the parallel instruction are
`NextBranch` and `JoinStatus`. A waiting node either saves its job itself and
returns nothing (delay) or returns a pending job (manual). The loops of the code
that follow `upstream` (`findBranchParentNode`, `findBranchStartNode`) are what
they visit, the least set that is closed under the step (`Up`): `Line` is the
way to the first node of a branch, `WayTo` the way to the branch of a given
parallel node. `ShapeAssumption` says what the code takes for granted of the
nodes it loads: there is a first one, and branches belong to parallel nodes and
have different numbers. `TreeAssumption` says that nobody comes before himself: a
node is created below one that exists, and a node that is moved does not move
below itself (`plugin-workflow/server/actions/nodes.ts`).

### TimeoutManager

`timers` are the timers of single executions, `next` the one for the next
deadline, `scanTimer` the periodic one; 0 is a timer that is not set. `scan` is
the one scan an instance runs, with its batch and the callers that await it;
`refresh` are reads of the next deadline that are under way, `due` timers that
have fired and await the execution's lock. `Run`, `Pause` and `Exit` are what the
processor tells the manager; `Lapse` is the end of the lock of a node that
hangs. A scan that does not get a lock ends (`ScanFails`), and its callers act on
it as the code does: the periodic timer is set again in any case, the start of
the instance fails.

### WorkflowSync

`rows` is the committed table, `tx` the open transaction of one instance with
the messages that wait for its commit. The hooks switch `cache` of their own
instance inside the transaction (`Open`); `Commit` sends, `Rollback` does not.
`sent` are messages on their way, per instance in order; `armed` those whose
debounce runs; `reads` are handlers of an *on* message that await the row. A
graceful stop empties all of them; `Start` reads the table and `StartSwitch`
switches one workflow after the other on. `doubtful` is a history variable: the
pairs of an instance and a version whose last change met one of the three races
of section 6.

### SnowflakeId, TokenRenewal, LdapSignIn

`SnowflakeId`: `leased` is what the worker-id adapter has given to an instance,
`worker` the id its generator was made with; a reload changes the first and not
the second. `GenerateNext` wraps the sequence and then blocks until `NextSecond`.
`Id` is the number itself, with its widths as constants; `issued` is the history
of all numbers, by process and order.

`TokenRenewal`: one session, one row; `jti`s are numbered as they are made.
`call` is a request, `flight` the coalesced `cache.wrap` of one key in one
process, with its four awaits: look into the cache, the guarded UPDATE, the
second look of the loser, the write of the winner. `Shared` chooses between one
store for all and one store per process.

`LdapSignIn`: an attempt goes through the requests of `validate` for one of the
three ways to bind, then through `handleSignin`, `findOrCreateUser` and
`signNewToken`. Every request may fail, the directory may change between any
two, and every way out goes through `Unbind`. `findUser` and the creation of the
user with its link are two steps, as in the code.

## 3. Runs

All runs are exhaustive over the instance given.

| Run | Instance | States | Shows |
|---|---|---|---|
| `lock` | 3 callers, fairness | 20,169 | `MutualExclusion`, `TicketsInLine`, `ImplementsLease`, `WaitersAreServed` |
| `queue` | 3 messages, concurrency 2, 1 retry, 1 stop, 1 crash, 1 pause, fairness | 521,308 | `HeldOnce`, `UntriedAreKept`, `FirstInFirstOut`, `PublishedAreTried` |
| `dispatch_claim` | 2 instances, 1 execution, a synchronous trigger, rerun, destroy, 1 fault, a queue without storage, fairness | 245,731 | `ClaimedOnce`, `OnlyClaimedRuns`, `ImplementsLifecycle`, `QueueingLeaves` |
| `dispatch_resume` | 2 instances, 1 timed execution, resume, cancel | 2,641,572 | `NoneLost`, `EndedIsFinal` |
| `dispatch_twice` | 2 instances, 1 retry | | refutes `StartedOnce` |
| `processor` | 7 nodes, a parallel node in a branch of another, 2 waiting nodes, 2 workers, 1 crash, every abort, fairness | 265,326 | `SomethingToWaitFor`, `JoinsOnce`, `JoinIsAccurate`, `SignalStops`, `Ends` |
| `buffer` | 4 events, 2 with one key, SQLite, 2 tasks, fairness | 98,008 | `CreatedInOrder`, `DrainedIsEmpty`, `EventsAreHandled`, `StopDrains` |
| `sync` | 3 versions, 2 instances, 4 transactions, 1 rollback, 1 restart | 1,459,868 | `OneEnabled`, `OthersAgree` |
| `timeout` | 1 instance, 2 executions, batches of 1, 1 lock that is not had, 1 stop or crash, fairness | 386,815 | `OffIsQuiet`, `OnlyExpiredAreAborted`, `ExpiredAreEnded` |
| `snowflake` | 2 instances, 2 worker ids, 2 numbers per second, 2 starts each, 1 reload, 1 step back | 2,080,070 | `UniqueIds`, `IdsGrow` |
| `token` | 2 instances, a shared cache, 2 calls, 3 renewals in sequence, 1 crash, fairness | 247,954 | `SameAnswer`, `RefusedOnlyLate`, `CallsEnd` |
| `ldap` | 2 attempts, 4 tries, 2 accounts, every mode, 1 failure, 2 changes of the directory | 2,162,018 | `OneUserPerAccount`, `PasswordWasAccepted`, `ConflictIsOverNextTime` |

`queue`, `processor`, `buffer` (`BufferTypeOK`) and `sync` check their type
invariants as well. The type invariants of all modules are proved.

What the main properties say, and where the difficulty is:

* `ImplementsLease`, `ImplementsLifecycle`: the detailed modules are
  refinements of the abstract ones, whatever timers and requests race.
* `NoneLost`: without faults, whoever gives up an execution that is started
  leaves a task, a worker or a waiting job behind. With faults it may be lost,
  and the code promises no more (see the hazards in `PROJECT.json`); the
  property says so itself, so that it holds, and is proved, for any bound.
* `SomethingToWaitFor`: `exit` runs once per branch that suspends; what the
  branches have built in memory must be in the table when the last one gives
  up the lock. `JoinsOnce`, `JoinIsAccurate`: branches end in different
  processors, from copies of any age, and the parallel node still knows exactly
  which of them have ended, and goes on once; a crash may lose a join that was
  not saved, which is then made again.
* `OthersAgree`: in a quiet cluster a cache differs from the table only for a
  version whose last change met a rollback, a starting instance, or another
  message about it that was being handled. The exceptions are as narrow as the
  code allows: `EnabledIsInSync`, without them, does not hold (section 6).
* `ExpiredAreEnded`: a lock that is not had, a batch that is too small, a stop, a
  crash and a lost signal, in any order, do not keep an expired execution
  going for ever.
* `RefusedOnlyLate`: where the instances share a store, a call is refused only
  when its session was removed, when its token's successor is no longer kept, or
  while the winner on another instance is between its UPDATE and its write to
  the cache, for good if it dies there.

Bounds, and why they are enough. Three callers of a key make the cases that
matter possible at once: an owner, an abandoned ticket in line and a live waiter
or a late caller beside it; the proofs cover any number. Three messages with a
concurrency of two leave one in the queue while a batch runs, and can meet a
restart, a retry and a crash. Executions share nothing but the workers, so one
execution with two instances shows every race for a row. `MaxCopies` = 1 bounds
identical tasks in the queue; tasks of one kind with different retry counts are
different, so two start tasks can be underway together with two in the workers'
hands. `MaxFaults` bounds crashes and failed statements or publications. In
`dispatch_resume` it is 0, as `NoneLost` states that nothing *but* a fault
loses an execution; locks do not lapse under a live holder in the two runs of
`Dispatcher`, and the theorems, which have no such restriction, cover that. The
workflow of `processor` has the shapes that a branch can have: a nested parallel
node in another mode, a waiting node first and last in a branch, nodes after a
join. Each waiting job is resumed once in that run (`MaxPokes` = 1); the theorems
about `JoinsOnce`, `SomethingToWaitFor` and `SignalStops` hold for any number of
resumptions (the one about `JoinIsAccurate` does not, section 5), and for this
workflow the five invariants were also checked once, without fairness, with two resumptions of
each job and nine job ids: 10,882,458 states without an error, too many to be
checked each time. Four transactions let a version be enabled, replaced, destroyed and
created again. With batches of one, the second expired execution needs a second
scan. Two numbers per second make the sequence wrap at once. Two calls are a
winner with one that joined it, or with a loser elsewhere; a third would only be
another of these, and the proof of `SameAnswer` covers any number. Four tries
with two attempts are two first sign-ins that race, and one more of each.

Deadlock is checked for the lock; the others may really stop (every message
settled, every execution ended, bounds used up).

## 4. Fairness

* Lock: continuations and timers run (`Granted`, `DropTicket`, `TtlFires`), as
  the event loop is alive, and a caller that was given a handle uses it, as the
  comment on `ILock` demands. Work under a lock may hang for ever, except, for
  `WaitersAreServed`, a function passed to the adapter's own `runExclusive`,
  because that one has no TTL in effect (section 6).
* Queue: the application starts again, subscribes again, processing ends (the
  consumer returns or throws), a busy consumer becomes idle, and the polling
  loop, which comes around every interval, finds it idle again and again
  (strong fairness of `Poll`, because `idle()` may turn in between).
* Dispatcher: running code goes on, outboxes and recovery lists are published,
  the recovery interval of a running instance keeps firing, a crashed instance
  is restarted, a dead lock's TTL passes, and the queue is first in first out,
  so that a task that stays in it is delivered (strong fairness of `Receive`).
  Users, timeouts and faults are not fair. The recovery query also asks for
  `workflow.enabled`; the models assume a workflow that stays enabled.
* Processor: its code goes on, queued tasks are taken, a worker that waits for
  the lock gets it (strong fairness of `Enter`), a waiting job is resumed in
  the end, and an execution whose time is up is aborted in the end, as
  `TimeoutManager` shows. `Ends` excepts crashes: a processor that dies takes
  jobs with it that it had not saved.
* EventBuffer: the loop, a task, a recovery scan and `beforeStop` are code that
  runs to its end. Triggers and stops are not fair.
* TimeoutManager: time passes, an instance that is down or failed to load is
  started again, the periodic timer fires, scans and reads go on, and the lock
  of a processor that does not come back lapses. The other timers are not
  fair: the periodic scan alone has to suffice, since any of them may be lost.
* TokenRenewal: what a call awaits comes back.

## 5. Proofs

The proof modules work for any constants that satisfy the named assumptions of
their modules, which say what kind of value each constant is (that "nobody" is
no caller, that a bound is a number, that the set of executions or of local
users is finite). All of them have the form: an inductive invariant that
implies the property, one step per action.

**LocalLock.** `MutualExclusion` is not inductive: a step that hands the mutex
over needs to know that its releaser is the holder and that the next in line is
not inside. `LockInv` adds: an unreleased ticket is the holder's (`OwnersHold`),
the holder is waiting for its continuation or owns its ticket (`HolderIsLive`),
the queue holds waiting calls only, each once, never the holder
(`QueueHoldsWaiters`), and guards and timers are fresh (`GuardsFresh`). The
argument is stated once per kind of change: joining (`JoinKeepsInv`), handing
over (`HandOverKeepsInv`), and leaving the mutex alone (`ElsewhereKeepsInv`).
Mutual exclusion, no lost wake-up, that only a call's own step takes the lock
from it, and the refinement of `LeaseLock` follow. `TicketsInLine` needs the
converse of `QueueHoldsWaiters`, that whoever waits has a ticket
(`WaitersHaveTickets`): tickets are given out by asking (`AcquireGivesTicket`)
and leave the line only to become the holder's.

**EventQueue.** A message is in the queue, in the file, in processing or in an
armed timer, in one of them only and in none once it is settled (`OnceInv`:
`HeldOnce`). That needs to know where messages come from (`KnownInv`) and when
the connection may have what (`ConnInv`: nothing is processed once the queue is
saved, the file is gone when it has been read). The order needs that what is
untried is in the queue, behind everything published before it, and that
nothing published later has been tried (`OrderInv`: `UntriedAreKept`,
`FirstInFirstOut`).

**Dispatcher.** What is safe depends on what a worker believes of a row that
others change, so `DispatchInv` relates each worker's `seen` to the `row` at
every `pc`: before the claim the copy is unclaimed; past it the row is
dispatched and started and can only have ended since. Rows themselves change in
six ways only (`Moves`), one row per step, and a claim is counted exactly when
startedAt is set (`RowStep`, `StepsAreRowSteps`). `RowsStayConsistent` and
`StandingStill` carry the facts of the workers that do not act over such a
step, `OneWorkerActs` the one that does. `ClaimedOnce`, `OnlyClaimedRuns` and
`QueueingIsRecoverable` follow from the invariant; `ImplementsLifecycle` and
`EndedIsFinal` from `Moves`. `NoneLost` speaks of the lock as well: a start task
that waits for the lock may be given up, so it counts only while nobody holds
that lock; whoever holds it goes on with the execution, or has left it to a
pending job or to a task that resumes or reruns it (`LossInv`).

**EventBuffer** (in `Workflow_proofs`). A taken event is in the buffer, in the
hands of the loop, a row or reported (`NoneLost`), nothing comes in once a stop
has begun, and what a drain found when it looked last stays so (`StopsForGood`):
`DrainedIsEmpty`. The buffer is the end of the sequence of what was taken, the
event in the loop's hands comes just before it, and the rows before that
(`OrderInv`): `CreatedInOrder`.

**Processor** (in `Workflow_proofs`). The proofs hold for every tree of nodes,
which takes some facts about trees first (`Parents`, `DownstreamTyped`: what
follows a node is in the node's branch). `ProcessorInv` then says:

* `DataInv`: the objects of the processor against the table. A node of a branch
  has a job only where its parallel node has one (`Rooted`), what the processor
  knows is in the table or unsaved (`Objects`), and the job of a parallel node is
  settled by the processor alone: unless it is unsaved, its status is the one
  that was loaded, and only the latest job of the node may be unsaved
  (`Settles`). One lemma for each way these change, whoever does it: a job is
  built (`BuiltData`), an object is changed (`ChangedData`), written
  (`SavedData`), dropped with the lock or by a crash (`DroppedData`,
  `LostData`), or the table is touched from outside (`TouchedData`).
* `StackInv`: each awaited call is about a node whose parallel node has a job,
  and whoever waits for another call is a parallel node with a branch run.
* `SavedInv`: whoever has returned from `exit` or from a branch has nothing
  unsaved. `NothingUnsavedAtLeave` is its consequence for the lock.
* `JoinInv`: the runs of what follows a parallel node, the calls that are about
  to run it, and the jobs of the parallel node that may still be joined
  (`Open`) are together no more than the runs of the parallel node and the
  crashes. A job that is joined stops being open in the same step that pushes
  the call; a crash loses the objects and so reopens one job at most, because
  of `Settles`. `JoinsOnce` is its first summand.

`SignalStops` needs that an execution whose processor got the signal is over,
and that a processor that has run its last node is on its way out
(`SignalInv`).

`SomethingToWaitFor` compares the jobs with the tree of nodes, and rests on a
second invariant, `RestInv`. It counts the jobs as the processor sees them: those
of the table, with the objects that are not saved yet in front of them (`Seen`).

* `OwedInv`: while the execution goes on, something goes on in the main line
  (`RootOK`) and in every branch whose result is missing (`BranchOK`): a pending
  job of a waiting or parallel node, a task for one of its jobs, a call that runs
  one of its nodes or brings the result of one, or an awaited call that has not
  come to the branch yet. `TurnOK` says that a parallel node that still waits
  does not leave its loop with branches that were never begun.
* `MirrorInv`: while the execution runs, the processor has the latest job of each
  parallel node, and the table has it as it was loaded or saved. Otherwise a
  branch's result could be put into an array without those of the others.
* `CallInv`, `WaitInv`, `CopyInv`: which branch an awaited call comes to and whose
  result a parallel node is given; an object of a waiting node that is unsaved
  and has a row is not pending, so that saving it does not make it wait again; a
  copy that is not started means that the execution is not started.

When nobody works on the execution, pending jobs are all that is left. If none of
them were one of a waiting node, every parallel node that waits would have
another one that waits in one of its branches. That maps finitely many nodes to
as many different ones, and so to all of them; but the one in the main line is in
nobody's branch (`SomebodyAsks`). The finite set and the tree
(`TreeAssumption`) are needed for this kind of argument.

`JoinIsAccurate` rests on a third one, `ThreadInv`, which says while the
execution goes on and no job was resumed twice:

* `ChainsOK`: the jobs of a branch come one after the other: all but the last are
  resolved and done with (`Ordered`), and a node that runs comes after all of
  them (`InFront`). The result of a parallel job that waits tells exactly the
  branches with a job that ends them (`Told`, `Accurate`), except for a job that
  a task or a call is about to look at (`Active`).
* `TasksOK` and `WokenOK`: there is one task for a job at most, its copy has the
  job's status, there is none for a job the processor works on, and a job of a
  waiting node that was not resumed is pending. Two resumptions break this.
* `CallsOK`: the awaited calls are about different jobs, the branch before the
  next one has begun, and nobody is in those to come. `ReturnOK`: a parallel node
  is told of a job that ends its branch, or waits. `TableOK`: the rows of the jobs
  that the processor has are as it read them.

`SavedInv` and `JoinInv` hold where every parallel node has a branch
(`Branched`), and the theorems that rest on them say so (`JoinsHappenOnce`,
`NothingUnsavedAtLeave`, `NobodyIsForgotten`, `BranchesAreJoined`); `TypeCorrect`
and `SignalIsHeeded` do without. It is a real restriction: section 6 shows what
happens otherwise. `BranchesAreJoined` says moreover that no job was resumed
twice (`poked`), which is how the run is bounded. That is a restriction, too:
a delay may be resumed by its timer and by a user. When two copies of the
execution resume one job, both run the node that follows, and if that is a
parallel or a waiting node it has two jobs, so that a branch may have ended by
the one and not by the other. TLC finds this with `MaxPokes` = 2 and the nodes *y*
(waiting), then *p* (mode *all*) with two waiting nodes as branches, or *p* with
two waiting nodes in one branch. `SomethingToWaitFor` and `JoinsOnce` need no such
condition.

**TimeoutManager.** Whoever stands for the periodic timer awaits the scan while
that timer is not set, nobody awaits a scan that does not run, and an instance
that stops has given up its timers before its scan ends (`Quiet`):
`OffIsQuiet`, and `RescanNeverStops`, which is what `ExpiredAreEnded` rests on.
`OnlyExpiredAreAborted` needs the types only: every abort reads the row again.
That a table with deadlines has an earliest one (`EarliestType`) is an argument
over finite sets, by the well-founded order of their subsets.

**WorkflowSync.** `OneEnabled` has to hold of the table a transaction would
commit as well, from its opening to its end (`SaveKeepsOne`, `DestroyKeepsOne`).
`OthersAgree` speaks of a quiet cluster; the invariant says of any other moment
how an instance that met no race will come to agree. An enabled version is in
the cache or is coming (a message on its way or debounced, a handler that
reads, a start that will switch it on), and no *off* comes after that
(`Settling`); any other version is not coming, and is in the cache only while
an *off* is under way (`Ceasing`); the instance of the open transaction agrees
with what it would commit (`Ahead`). Each of the three races marks its pair as
doubtful, and a change without one starts it afresh (`Agreed`).

**SnowflakeId.** Identifiers are compared by second, worker and sequence. The
invariant relates each generator to the numbers it has issued (its last second
and sequence bound them), and, for leased ids, two generators with one worker id
to each other: the later one was made in a later second. `IdsGrow` needs nothing
about the adapter; `UniqueIds` assumes one (`Adapter`).

**TokenRenewal** (in `Authentication_proofs`). What a cache or a coalesced call
holds for a token is the successor the row was given (`SameAnswer`); a call that
waits has a renewal under way (`WaitsForSomething`), on which `CallsEnd` rests.
For `RefusedOnlyLate`: every token but the last has a successor (`Chain`), a
renewal whose UPDATE changed nothing is for a token the row has gone past
(`Passed`), and without a crash a successor is about to be written to the cache
or is there until its time is over (`Recorded`).

**LdapSignIn** (in `Authentication_proofs`). A link is only made for an account
that has none, in one statement with the unique name (`OneUserPerAccount`); the
password an attempt was bound with is carried from the accepted bind to the
sign-in (`PasswordWasAccepted`); a lost race leaves a linked user behind
(`ConflictIsOverNextTime`); and every way out closes the connection
(`NoConnectionLeft`).

**Only model-checked.** Liveness (`WaitersAreServed`, `PublishedAreTried`,
`QueueingLeaves`, `Ends`, `EventsAreHandled`, `StopDrains`, `ExpiredAreEnded`,
`CallsEnd`), which is out of the prover's reach, and the refutations of section 6,
which need a small instance only. Every invariant and every action property of
the passing runs is a theorem, with the conditions named above.

## 6. Where the code and its documentation disagree

One run shows such a case by itself:

* `dispatch_twice`, `StartedOnce`: `enter()` (`plugin-workflow/Dispatcher.ts:639`)
  lets a *start* task into an execution that another worker has claimed since
  `resolveTask` checked it. The second worker waits for the process lock and
  runs the workflow from its head again, on its own copy that still says
  STARTED. The code's comment (541) promises that workers do not duplicate
  executions.

The others are definitions in the modules. To see the counterexample, put the
definition in the place of the properties of the run named, and of its symmetry:

* `TtlReleases`, `lock` with `TimerSpec`: the documentation of clusters
  (`src/docs/docs/en/cluster-mode/development.md:120`) calls `ttl` the safeguard
  that releases a lock. In the local adapter's `runExclusive`
  (`core/lock-manager/src/lock-manager.ts:89`) the promise is returned and not
  awaited, so the `finally` block clears the timer at once, and a function that
  never ends keeps the lock.
* `CancelTakesEffect`, `dispatch_resume`: `cancel`
  (`plugin-workflow/actions/executions.ts:46`) reads the status before it takes
  the lock, and `abortExecution` updates only a row that still has it. If a
  worker claims a queueing execution in between, nothing is updated, the result
  is ignored, and the request is answered with success.
* `AbortedJobsAreMarked`, `processor`: `exit()` (`plugin-workflow/Processor.ts:528`)
  inserts the pending jobs of the run before it learns that the execution was
  aborted meanwhile; `src/docs/docs/en/workflow/advanced/options.md:30` says that
  jobs that wait are marked as aborted.
* `NothingRunsAfterEnd`, `processor`: a task's execution is loaded before the
  wait for its lock, and `resume()` looks at that copy: when another task has
  ended the execution meanwhile, its nodes are run. The test
  `Processor.execution-state.test.ts:15` is named *should stop before running
  instruction when execution was ended externally*.
* `SomethingToWaitFor` and `JoinsOnce`, `processor` with a workflow of its own, for
  example the parallel node `p` with two waiting nodes as branches, in the mode
  `any`, followed by a parallel node `d` without branches: `getBranches` does not
  see a branch that has no nodes, so the instruction of `d` calls nobody and
  returns nothing, and `exit(true)` (`plugin-workflow/Processor.ts:407`, 524)
  returns before it saves. The job of `d`, and the join of `p` when it was made
  in the same processor, are lost with the processor; the execution stays
  started with nothing to wait for, or `p` is joined again by its other branch
  and `d` runs twice. `src/docs/docs/en/workflow/nodes/parallel.md` says that any
  number of nodes can be added to a branch (21) and that the workflow will
  either continue or exit (37). The workflow of the run, and the theorems about
  `JoinsOnce`, `SomethingToWaitFor` and `JoinIsAccurate`, have a branch for every
  parallel node.
* `StopWaitsForAll`, `buffer`: `beforeStop` (`plugin-workflow/Dispatcher.ts:231`)
  awaits the promise of the task, which rejects when the task fails, and then
  leaves with events in the buffer. The test `Plugin.test.ts:1268` is named
  *beforeStop should wait for all pending and executing tasks*.
* `EnabledIsInSync`, `sync`: the handler of an *on* message awaits the row and
  then switches on, whatever the row says (`plugin-workflow/Plugin.ts:218`), so
  that an *off* handled meanwhile is undone; the hooks toggle inside the
  transaction (`Plugin.ts:134`), so that a rollback leaves the instance switched;
  an instance that starts acts on what it has read before. The test
  `cluster.test.ts:55` is named *enabled status of workflow should be sync in every
  nodes*.
* `AcceptedSignsIn`, `ldap`: of two first sign-ins of one account the second one
  cannot create the user that the first one has just created, and is refused
  (`plugin-auth/model/authenticator.ts:59`); a local user with the name of the
  account is not bound to it, although
  `src/docs/docs/en/auth-verification/auth-ldap/index.md:52` calls the field the
  one that binds to existing users.

Three properties state the code's limits as exceptions of their own.
`UniqueIds` excepts a reload (`core/server/src/application.ts:703` keeps the
generator of a worker id that was given back) and a clock that was set back
(`core/snowflake-id/src/snowflake-id.ts:47` compares for equality only), and its
run and its proof assume an adapter, because without one worker ids are
drawn at random from 32 (`worker-id-allocator.ts:26`).
`RefusedOnlyLate` excepts the moment between the winner's UPDATE and its write to
the cache: a loser on another instance looks once and refuses
(`plugin-auth/token-controller.ts:144`). `NoneLost` holds without faults only.

## 7. Not modelled

* Client and user interface, access control and resources, gateway and process
  supervisor, installation of plugins, the feature plugins: sequential code with
  unit tests of its own, rendering, or input and output.
* Database layer: external to the models, which take from it that one
  `UPDATE ... WHERE` is atomic, that a transaction reads committed rows, that a
  unique index refuses the second row, and that `status <> 0` does not hold of
  NULL.
* Cache, application life cycle: only what the modelled components rest on (the
  coalesced `wrap`, shared or local stores, the order of start and stop, what a
  reload keeps).
* In the modelled parts: `Processor.rerun` beyond its task, the loop and condition
  instructions, sub-flows (an execution of the models has no children; it may be
  aborted as one); the registration of triggers and instructions; channels that
  are shared (`EventQueue`); remote adapters of lock, queue, pub/sub and worker
  ids, which are not in this repository; the token blacklist and sign-out;
  escaping of LDAP filters and names.

A later extension would begin with the loop instruction and `rerun` in
`Processor` (whose state grows with the number of visits of a node), children of
executions.
