---------------------------- MODULE TimeoutManager ----------------------------
(***************************************************************************)
(* ExecutionTimeoutManager on several instances: who notices that an       *)
(* execution's time is up.  Three mechanisms overlap: a timer per execution *)
(* on the instance that processed it last, one timer for the next deadline *)
(* in the table, and a periodic scan.  All of them abort under the lock of  *)
(* the execution, which may not be had, and read the row again under it.   *)
(***************************************************************************)
EXTENDS Naturals, Sequences, FiniteSets

CONSTANTS
  Instances,
  Execs,
  Nobody,
  Timeout,      \* execution -> the timeout of its workflow
  BatchSize,    \* LOAD_BATCH_SIZE
  MaxTime,      \* bound: the clock
  MaxFailures,  \* bound: locks that are not acquired in time
  MaxUnloads,   \* bound: graceful stops and crashes
  MaxStarts     \* bound: how often an execution is started or resumed

ASSUME TimeoutAssumption ==
  /\ Nobody \notin Instances /\ IsFiniteSet(Execs)
  /\ Timeout \in [Execs -> Nat \ {0}]
  /\ BatchSize \in Nat \ {0}
  /\ MaxTime \in Nat \ {0} /\ MaxFailures \in Nat /\ MaxUnloads \in Nat /\ MaxStarts \in Nat

VARIABLES
  now,        \* the clock
  status,     \* execution -> "queueing", "started", "resolved", "aborted"
  deadline,   \* execution -> expiresAt, 0 for null
  holder,     \* execution -> the instance whose processor holds its lock
  life,       \* instance -> "off", "loading", "failed" (to load), "on", "leaving"
  timers,     \* instance -> execution -> when its timer is due, 0 for none
  due,        \* instance -> executions whose timer has fired and that await the lock
  next,       \* instance -> when the next-deadline timer is due, 0 for none
  scanTimer,  \* instance -> the periodic timer is set
  scan,       \* instance -> the scan: where it is, what is left, who awaits it
  refresh,    \* instance -> reads of the earliest deadline that are under way
  failures, unloads, starts   \* ghost counters

table   == <<status, deadline, holder>>
manager == <<life, timers, due, next, scanTimer, scan, refresh>>
vars    == <<now, table, manager, failures, unloads, starts>>

NoScan   == [at |-> "idle", left |-> <<>>, awaited |-> {}]
NoTimers == [e \in Execs |-> 0]

Expired(e)   == status[e] = "started" /\ deadline[e] # 0 /\ deadline[e] <= now
Stopped(i)   == life[i] \in {"off", "leaving"}
Earlier(a, b) == IF a = 0 THEN b ELSE IF b = 0 \/ a < b THEN a ELSE b
Deadlines    == {deadline[e] : e \in {d \in Execs : status[d] = "started"}} \ {0}
Earliest     == IF Deadlines = {} THEN 0 ELSE CHOOSE t \in Deadlines : \A u \in Deadlines : t <= u

\* A read of the earliest deadline that has not returned yet.
Ask(who) == [load |-> who = "load", seen |-> FALSE, at |-> 0]

Init ==
  /\ now = 1
  /\ status = [e \in Execs |-> "queueing"]
  /\ deadline = [e \in Execs |-> 0]
  /\ holder = [e \in Execs |-> Nobody]
  /\ life = [i \in Instances |-> "off"]
  /\ timers = [i \in Instances |-> NoTimers]
  /\ due = [i \in Instances |-> {}]
  /\ next = [i \in Instances |-> 0]
  /\ scanTimer = [i \in Instances |-> FALSE]
  /\ scan = [i \in Instances |-> NoScan]
  /\ refresh = [i \in Instances |-> {}]
  /\ failures = 0 /\ unloads = 0 /\ starts = [e \in Execs |-> 0]

Tick == /\ now < MaxTime
        /\ now' = now + 1
        /\ UNCHANGED <<table, manager, failures, unloads, starts>>

\* abortExecutionIfExpired, under the lock: the row as it is now decides, and
\* the timer of this instance goes with it.
AbortIfExpired(i, e) ==
  IF Expired(e) THEN /\ status' = [status EXCEPT ![e] = "aborted"]
                     /\ timers' = [timers EXCEPT ![i][e] = 0]
  ELSE UNCHANGED <<status, timers>>

------------------------------------------------------------------------------
(* Processing: what Dispatcher and Processor tell the manager.              *)

\* A claimed execution gets its deadline when it is first started; a waiting
\* one is resumed or rerun by any instance.  The timer set before the processor is
\* cleared when that enters the running state, and the guard replaces it.
Run(i, e) ==
  LET t == IF status[e] = "queueing" THEN now + Timeout[e] ELSE deadline[e]
  IN  /\ life[i] = "on"
      /\ status[e] \in {"queueing", "started"} /\ ~Expired(e)
      /\ holder[e] = Nobody
      /\ starts[e] < MaxStarts /\ t < MaxTime
      /\ starts' = [starts EXCEPT ![e] = @ + 1]
      /\ status' = [status EXCEPT ![e] = "started"]
      /\ deadline' = [deadline EXCEPT ![e] = t]
      /\ holder' = [holder EXCEPT ![e] = i]
      /\ timers' = [timers EXCEPT ![i][e] = 0]
      /\ next' = [next EXCEPT ![i] = Earlier(@, t)]
      /\ UNCHANGED <<now, life, due, scanTimer, scan, refresh, failures, unloads>>

\* A task for an execution whose time is up: shouldContinue aborts it.
TooLate(i, e) ==
  /\ life[i] = "on" /\ holder[e] = Nobody
  /\ Expired(e)
  /\ AbortIfExpired(i, e)
  /\ UNCHANGED <<now, deadline, holder, life, due, next, scanTimer, scan, refresh,
                 failures, unloads, starts>>

\* exit of an execution that waits, as the processor's copy has it: its timer
\* is set again, unless it is due.
Pause(e) ==
  LET i == holder[e]
  IN  /\ i # Nobody
      /\ holder' = [holder EXCEPT ![e] = Nobody]
      /\ \/ /\ deadline[e] > now
            /\ timers' = [timers EXCEPT ![i][e] = deadline[e]]
            /\ UNCHANGED due
         \/ /\ deadline[e] <= now
            /\ due' = [due EXCEPT ![i] = @ \cup {e}]
            /\ UNCHANGED timers
      /\ next' = IF Stopped(i) THEN next ELSE [next EXCEPT ![i] = Earlier(@, deadline[e])]
      /\ UNCHANGED <<now, status, deadline, life, scanTimer, scan, refresh,
                     failures, unloads, starts>>

\* exit of an execution that has ended: the next-deadline timer is for another
\* one now, and is found by a read of the table.
Exit(e) ==
  LET i == holder[e]
  IN  /\ i # Nobody
      /\ status' = [status EXCEPT ![e] = IF @ = "started" THEN "resolved" ELSE @]
      /\ holder' = [holder EXCEPT ![e] = Nobody]
      /\ timers' = [timers EXCEPT ![i][e] = 0]
      /\ IF next[i] # 0 /\ next[i] = deadline[e]
         THEN /\ next' = [next EXCEPT ![i] = 0]
              /\ refresh' = IF Stopped(i) THEN refresh
                            ELSE [refresh EXCEPT ![i] = @ \cup {Ask("exit")}]
         ELSE UNCHANGED <<next, refresh>>
      /\ UNCHANGED <<now, deadline, life, due, scanTimer, scan, failures, unloads, starts>>

\* The lock of a node that hangs lapses.
Lapse(e) ==
  /\ holder[e] # Nobody /\ deadline[e] <= now
  /\ holder' = [holder EXCEPT ![e] = Nobody]
  /\ UNCHANGED <<now, status, deadline, manager, failures, unloads, starts>>

------------------------------------------------------------------------------
(* The scan                                                                 *)

\* scanExpiredExecutions: joins a scan that runs.
StartScan(i, who) ==
  scan' = [scan EXCEPT ![i] =
             IF scan[i].at = "idle" THEN [at |-> "query", left |-> <<>>, awaited |-> {who}]
             ELSE [scan[i] EXCEPT !.awaited = @ \cup {who}]]

Load(i) ==
  /\ life[i] \in {"off", "failed"} /\ \A e \in Execs : holder[e] # i
  /\ life' = [life EXCEPT ![i] = "loading"]
  /\ StartScan(i, "load")
  /\ UNCHANGED <<now, table, timers, due, next, scanTimer, refresh, failures, unloads, starts>>

ScanTimer(i) ==
  /\ scanTimer[i]
  /\ scanTimer' = [scanTimer EXCEPT ![i] = FALSE]
  /\ StartScan(i, "timer")
  /\ UNCHANGED <<now, table, life, timers, due, next, refresh, failures, unloads, starts>>

NextTimer(i) ==
  /\ next[i] # 0 /\ next[i] <= now
  /\ next' = [next EXCEPT ![i] = 0]
  /\ StartScan(i, "next")
  /\ UNCHANGED <<now, table, life, timers, due, scanTimer, refresh, failures, unloads, starts>>

\* The query: expired executions, by deadline, no more than a batch.
ScanQuery(i) ==
  LET expired == {e \in Execs : status[e] = "started" /\ deadline[e] # 0 /\ deadline[e] < now}
      size    == IF Cardinality(expired) < BatchSize THEN Cardinality(expired) ELSE BatchSize
  IN  /\ scan[i].at = "query"
      /\ \E left \in [1..size -> expired] :
           /\ \A a, b \in 1..size : a < b => left[a] # left[b] /\ deadline[left[a]] <= deadline[left[b]]
           /\ \A e \in expired : (\A a \in 1..size : left[a] # e) =>
                                   \A a \in 1..size : deadline[left[a]] <= deadline[e]
           /\ scan' = [scan EXCEPT ![i].at = "abort", ![i].left = left]
      /\ UNCHANGED <<now, table, life, timers, due, next, scanTimer, refresh, failures, unloads, starts>>

\* Mutant of ScanAbort: the row is not read again.
ScanAbortBlindly(i) ==
  LET e == Head(scan[i].left)
  IN  /\ scan[i].at = "abort" /\ scan[i].left # <<>>
      /\ holder[e] = Nobody
      /\ scan' = [scan EXCEPT ![i].left = Tail(@)]
      /\ status' = [status EXCEPT ![e] = "aborted"]
      /\ UNCHANGED <<now, deadline, holder, life, timers, due, next, scanTimer, refresh,
                     failures, unloads, starts>>

\* The next of the batch, under its lock, if it still has to be aborted.
ScanAbort(i) ==
  LET e == Head(scan[i].left)
  IN  /\ scan[i].at = "abort" /\ scan[i].left # <<>>
      /\ holder[e] = Nobody
      /\ scan' = [scan EXCEPT ![i].left = Tail(@)]
      /\ AbortIfExpired(i, e)
      /\ UNCHANGED <<now, deadline, holder, life, due, next, scanTimer, refresh,
                     failures, unloads, starts>>

\* Mutant of ScanDone: the periodic timer is set again only after a success.
ScanDoneIfItSucceeds(i, fails) ==
  LET who == scan[i].awaited
  IN  /\ scan' = [scan EXCEPT ![i] = NoScan]
      /\ refresh' = IF Stopped(i) \/ fails THEN refresh
                    ELSE [refresh EXCEPT ![i] = @ \cup {Ask(w) : w \in who}]
      /\ scanTimer' = IF "timer" \in who /\ ~fails /\ ~Stopped(i)
                      THEN [scanTimer EXCEPT ![i] = TRUE] ELSE scanTimer
      /\ life' = IF fails /\ "load" \in who /\ ~Stopped(i) THEN [life EXCEPT ![i] = "failed"] ELSE life

\* What the scan's callers do next: each reads the earliest deadline, if the
\* scan did not fail; the periodic timer is set again in any case; a start of
\* the instance that awaited a failed scan fails.
ScanDone(i, fails) ==
  LET who == scan[i].awaited
  IN  /\ scan' = [scan EXCEPT ![i] = NoScan]
      /\ refresh' = IF Stopped(i) \/ fails THEN refresh
                    ELSE [refresh EXCEPT ![i] = @ \cup {Ask(w) : w \in who}]
      /\ scanTimer' = IF "timer" \in who /\ ~Stopped(i)
                      THEN [scanTimer EXCEPT ![i] = TRUE] ELSE scanTimer
      /\ life' = IF fails /\ "load" \in who /\ ~Stopped(i) THEN [life EXCEPT ![i] = "failed"] ELSE life

\* A lock that is not acquired, because a processor or a request to cancel has
\* it, gives up the whole scan.
ScanFails(i) ==
  /\ scan[i].at = "abort" /\ scan[i].left # <<>>
  /\ failures < MaxFailures
  /\ failures' = failures + 1
  /\ ScanDone(i, TRUE)
  /\ UNCHANGED <<now, table, timers, due, next, unloads, starts>>

ScanEnds(i) ==
  /\ scan[i].at = "abort" /\ scan[i].left = <<>>
  /\ ScanDone(i, FALSE)
  /\ UNCHANGED <<now, table, timers, due, next, failures, unloads, starts>>

\* The read of the earliest deadline, and what is done with it later.
RefreshRead(i, r) ==
  /\ ~r.seen
  /\ refresh' = [refresh EXCEPT ![i] = (@ \ {r}) \cup {[r EXCEPT !.seen = TRUE, !.at = Earliest]}]
  /\ UNCHANGED <<now, table, life, timers, due, next, scanTimer, scan, failures, unloads, starts>>

RefreshApply(i, r) ==
  /\ r.seen
  /\ refresh' = [refresh EXCEPT ![i] = @ \ {r}]
  /\ next' = IF Stopped(i) THEN next ELSE [next EXCEPT ![i] = r.at]
  /\ IF r.load /\ life[i] = "loading"
     THEN /\ scanTimer' = [scanTimer EXCEPT ![i] = TRUE]
          /\ life' = [life EXCEPT ![i] = "on"]
     ELSE UNCHANGED <<scanTimer, life>>
  /\ UNCHANGED <<now, table, timers, due, scan, failures, unloads, starts>>

------------------------------------------------------------------------------
(* The timer of one execution                                               *)

\* It only signals a processor that runs here, which may come too late for the
\* processor or not be heeded; otherwise it is to take the lock.
OwnerTimer(i, e) ==
  /\ timers[i][e] # 0 /\ timers[i][e] <= now
  /\ timers' = [timers EXCEPT ![i][e] = 0]
  /\ due' = IF holder[e] = i THEN due ELSE [due EXCEPT ![i] = @ \cup {e}]
  /\ UNCHANGED <<now, status, deadline, holder, life, next, scanTimer, scan, refresh,
                 failures, unloads, starts>>

OwnerAbort(i, e) ==
  /\ e \in due[i] /\ holder[e] = Nobody
  /\ due' = [due EXCEPT ![i] = @ \ {e}]
  /\ AbortIfExpired(i, e)
  /\ UNCHANGED <<now, deadline, holder, life, next, scanTimer, scan, refresh,
                 failures, unloads, starts>>

\* Its lock is not acquired, as above: logged, and left to the scans.
OwnerFails(i, e) ==
  /\ e \in due[i]
  /\ failures < MaxFailures
  /\ failures' = failures + 1
  /\ due' = [due EXCEPT ![i] = @ \ {e}]
  /\ UNCHANGED <<now, table, life, timers, next, scanTimer, scan, refresh, unloads, starts>>

------------------------------------------------------------------------------
(* Stopping                                                                 *)

\* Mutant of Unload: the scan that runs is not awaited.
UnloadAtOnce(i) ==
  /\ life[i] = "on" /\ unloads < MaxUnloads
  /\ unloads' = unloads + 1
  /\ life' = [life EXCEPT ![i] = "off"]
  /\ timers' = [timers EXCEPT ![i] = NoTimers]
  /\ next' = [next EXCEPT ![i] = 0]
  /\ scanTimer' = [scanTimer EXCEPT ![i] = FALSE]
  /\ UNCHANGED <<now, table, due, scan, refresh, failures, starts>>

\* unload clears the timers and awaits the scan.
Unload(i) ==
  /\ life[i] = "on" /\ unloads < MaxUnloads
  /\ unloads' = unloads + 1
  /\ life' = [life EXCEPT ![i] = "leaving"]
  /\ timers' = [timers EXCEPT ![i] = NoTimers]
  /\ next' = [next EXCEPT ![i] = 0]
  /\ scanTimer' = [scanTimer EXCEPT ![i] = FALSE]
  /\ UNCHANGED <<now, table, due, scan, refresh, failures, starts>>

Unloaded(i) ==
  /\ life[i] = "leaving" /\ scan[i].at = "idle"
  /\ life' = [life EXCEPT ![i] = "off"]
  /\ UNCHANGED <<now, table, timers, due, next, scanTimer, scan, refresh, failures, unloads, starts>>

\* The process dies: its timers are gone, its locks lapse.
Crash(i) ==
  /\ life[i] # "off" /\ unloads < MaxUnloads
  /\ unloads' = unloads + 1
  /\ life' = [life EXCEPT ![i] = "off"]
  /\ timers' = [timers EXCEPT ![i] = NoTimers]
  /\ due' = [due EXCEPT ![i] = {}]
  /\ next' = [next EXCEPT ![i] = 0]
  /\ scanTimer' = [scanTimer EXCEPT ![i] = FALSE]
  /\ scan' = [scan EXCEPT ![i] = NoScan]
  /\ refresh' = [refresh EXCEPT ![i] = {}]
  /\ holder' = [e \in Execs |-> IF holder[e] = i THEN Nobody ELSE holder[e]]
  /\ UNCHANGED <<now, status, deadline, failures, starts>>

Scanning(i)   == ScanQuery(i) \/ ScanAbort(i) \/ ScanFails(i) \/ ScanEnds(i)
Refreshing(i) == \E r \in refresh[i] : RefreshRead(i, r) \/ RefreshApply(i, r)

Next ==
  \/ Tick
  \/ \E e \in Execs : Pause(e) \/ Exit(e) \/ Lapse(e)
  \/ \E i \in Instances :
       \/ Load(i) \/ Unload(i) \/ Unloaded(i) \/ Crash(i)
       \/ ScanTimer(i) \/ NextTimer(i)
       \/ Scanning(i) \/ Refreshing(i)
       \/ \E e \in Execs : \/ Run(i, e) \/ TooLate(i, e)
                           \/ OwnerTimer(i, e) \/ OwnerAbort(i, e) \/ OwnerFails(i, e)

Spec == Init /\ [][Next]_vars

\* Fairness: time passes; an instance that is down is started again, and its
\* periodic timer fires; scans and reads go on; the lock of a processor that
\* does not come back lapses.
FairSpec ==
  /\ Spec
  /\ WF_vars(Tick)
  /\ \A e \in Execs : WF_vars(Lapse(e))
  /\ \A i \in Instances : /\ WF_vars(Load(i)) /\ WF_vars(Unloaded(i))
                          /\ WF_vars(ScanTimer(i))
                          /\ WF_vars(Scanning(i)) /\ WF_vars(Refreshing(i))

------------------------------------------------------------------------------
(* Properties                                                               *)

\* Types of the table, the timers, the scans and the reads.
TypeOK ==
  /\ now \in 1..MaxTime
  /\ status \in [Execs -> {"queueing", "started", "resolved", "aborted"}]
  /\ deadline \in [Execs -> Nat]
  /\ holder \in [Execs -> Instances \cup {Nobody}]
  /\ life \in [Instances -> {"off", "loading", "failed", "on", "leaving"}]
  /\ timers \in [Instances -> [Execs -> Nat]]
  /\ due \in [Instances -> SUBSET Execs]
  /\ next \in [Instances -> Nat]
  /\ scanTimer \in [Instances -> BOOLEAN]
  /\ scan \in [Instances -> [at : {"idle", "query", "abort"}, left : Seq(Execs),
                             awaited : SUBSET {"load", "timer", "next"}]]
  /\ refresh \in [Instances -> SUBSET [load : BOOLEAN, seen : BOOLEAN, at : Nat]]
  /\ failures \in Nat /\ unloads \in Nat /\ starts \in [Execs -> Nat]

\* Whatever scan fails, and however timers, stops and starts fall together: an
\* instance that is on has its next periodic scan before it.
RescanNeverStops ==
  \A i \in Instances : life[i] = "on" => scanTimer[i] \/ "timer" \in scan[i].awaited

\* After a stop no scan runs, and neither the periodic nor the next-deadline
\* timer is set, although reads of the table may come back later.
OffIsQuiet ==
  \A i \in Instances : life[i] = "off" => ~scanTimer[i] /\ next[i] = 0 /\ scan[i].at = "idle"

\* A timer, a scan or a late task aborts no execution but one that is started
\* and whose time is up, although it acts on a batch or on a timer that is
\* older than the execution's present state.
OnlyExpiredAreAborted ==
  [][\A e \in Execs : status[e] # status'[e] /\ status'[e] = "aborted" => Expired(e)]_vars

\* An execution whose time is up does not stay started: another mechanism
\* steps in for a lock that was not had, a crash, a stop or a lost signal.
ExpiredAreEnded == \A e \in Execs : Expired(e) ~> ~Expired(e)
===============================================================================
