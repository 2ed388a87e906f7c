------------------------------ MODULE SnowflakeId ------------------------------
(***************************************************************************)
(* The snowflake ids of a cluster: Snowflake generates them from a clock in *)
(* seconds, a worker id and a sequence; Application gets the worker id from *)
(* the WorkerIdAllocator when it loads.  Nothing but the worker id keeps    *)
(* two instances from generating the same id, and nothing but lastTs and   *)
(* sequence keeps one instance from doing so.                              *)
(***************************************************************************)
EXTENDS Integers

CONSTANTS
  Instances,
  NoId,          \* null: no worker id
  Adapter,       \* an adapter hands out worker ids; otherwise each draws one
  MaxWorkerId,   \* 31
  MaxSequence,   \* 65535
  Epoch,         \* the first second
  MaxTime,       \* bound: the clock
  MaxBoots,      \* bound: processes per instance
  MaxReloads,    \* bound: reloads of the application in its process
  MaxSteps       \* bound: how often the clock is set back

ASSUME SnowflakeAssumption ==
  /\ Adapter \in BOOLEAN
  /\ MaxWorkerId \in Nat /\ MaxSequence \in Nat /\ Epoch \in Nat
  /\ NoId \notin 0..MaxWorkerId
  /\ MaxTime \in Nat /\ MaxBoots \in Nat /\ MaxReloads \in Nat /\ MaxSteps \in Nat

WorkerIds == 0..MaxWorkerId

VARIABLES
  clock,     \* Date.now() in seconds, the same for all instances
  leased,    \* instance -> _instanceId, which the adapter counts as used
  worker,    \* instance -> workerId of its generator, NoId when there is none
  lastTs,    \* instance -> lastTs of its generator
  sequence,  \* instance -> sequence of its generator
  blocked,   \* instance -> its generator is in tilNextSecond
  boots, count,   \* ghost: instance -> its processes, the ids of the present one
  reloads, steps, \* ghost counters
  issued          \* ghost: every id there is, with the call that it was made by

generator == <<worker, lastTs, sequence, blocked>>
issues    == <<boots, count, issued>>
vars == <<clock, leased, generator, issues, reloads, steps>>

Init ==
  /\ clock = Epoch
  /\ leased = [i \in Instances |-> NoId]
  /\ worker = [i \in Instances |-> NoId]
  /\ lastTs = [i \in Instances |-> -1]
  /\ sequence = [i \in Instances |-> 0]
  /\ blocked = [i \in Instances |-> FALSE]
  /\ boots = [i \in Instances |-> 0] /\ count = [i \in Instances |-> 0]
  /\ reloads = 0 /\ steps = 0
  /\ issued = {}

\* The number that stands for a second, a worker and a sequence.
Id(r) == (r.ts - Epoch) * (MaxWorkerId + 1) * (MaxSequence + 1)
           + r.worker * (MaxSequence + 1) + r.sequence

------------------------------------------------------------------------------
(* The clock                                                                *)

Tick == /\ clock < MaxTime
        /\ clock' = clock + 1
        /\ UNCHANGED <<leased, generator, issues, reloads, steps>>

StepBack == /\ steps < MaxSteps /\ clock > Epoch
            /\ steps' = steps + 1
            /\ clock' = clock - 1
            /\ UNCHANGED <<leased, generator, issues, reloads>>

------------------------------------------------------------------------------
(* The application and its worker id                                        *)

\* An adapter does not hand out an id that is in use, or was in this second.
Free(w) == /\ \A i \in Instances : leased[i] # w
           /\ \A r \in issued : r.worker = w => r.ts < clock

\* load: a worker id, and a generator for it unless the process has one.
Load(i) ==
  /\ leased[i] = NoId
  /\ worker[i] = NoId => boots[i] < MaxBoots
  /\ \E w \in WorkerIds :
       /\ Adapter => Free(w)
       /\ leased' = [leased EXCEPT ![i] = w]
       /\ IF worker[i] = NoId
          THEN /\ worker' = [worker EXCEPT ![i] = w]
               /\ boots' = [boots EXCEPT ![i] = @ + 1]
               /\ count' = [count EXCEPT ![i] = 0]
          ELSE UNCHANGED <<worker, boots, count>>
  /\ UNCHANGED <<clock, lastTs, sequence, blocked, reloads, steps, issued>>

\* load({ reload: true }), reInit: the worker id is released and forgotten;
\* the generator is not.
Reload(i) ==
  /\ leased[i] # NoId /\ ~blocked[i]
  /\ reloads < MaxReloads
  /\ reloads' = reloads + 1
  /\ leased' = [leased EXCEPT ![i] = NoId]
  /\ UNCHANGED <<clock, generator, issues, steps>>

\* The process stops or dies: its generator goes with it.
Quit(i) ==
  /\ worker[i] # NoId
  /\ leased' = [leased EXCEPT ![i] = NoId]
  /\ worker' = [worker EXCEPT ![i] = NoId]
  /\ lastTs' = [lastTs EXCEPT ![i] = -1]
  /\ sequence' = [sequence EXCEPT ![i] = 0]
  /\ blocked' = [blocked EXCEPT ![i] = FALSE]
  /\ UNCHANGED <<clock, issues, reloads, steps>>

------------------------------------------------------------------------------
(* generate                                                                 *)

\* The id of this second with sequence s.
Issue(i, s) ==
  /\ issued' = issued \cup {[ts |-> clock, worker |-> worker[i], sequence |-> s,
                             by |-> i, boot |-> boots[i], nth |-> count[i] + 1]}
  /\ count' = [count EXCEPT ![i] = @ + 1]

Ready(i) == leased[i] # NoId /\ worker[i] # NoId /\ ~blocked[i]

\* The first id of a second.
GenerateFirst(i) ==
  /\ Ready(i)
  /\ lastTs[i] # clock
  /\ lastTs' = [lastTs EXCEPT ![i] = clock]
  /\ sequence' = [sequence EXCEPT ![i] = 0]
  /\ Issue(i, 0)
  /\ UNCHANGED <<clock, leased, worker, blocked, boots, reloads, steps>>

\* Mutant of GenerateNext: the sequence wraps without a wait.
GenerateNextWraps(i) ==
  LET s == (sequence[i] + 1) % (MaxSequence + 1)
  IN  /\ Ready(i)
      /\ lastTs[i] = clock
      /\ sequence' = [sequence EXCEPT ![i] = s]
      /\ Issue(i, s)
      /\ UNCHANGED <<clock, leased, worker, lastTs, blocked, boots, reloads, steps>>

\* Another one: the sequence goes on, and when it wraps the process is blocked
\* until the next second.
GenerateNext(i) ==
  LET s == (sequence[i] + 1) % (MaxSequence + 1)
  IN  /\ Ready(i)
      /\ lastTs[i] = clock
      /\ sequence' = [sequence EXCEPT ![i] = s]
      /\ IF s = 0 THEN /\ blocked' = [blocked EXCEPT ![i] = TRUE]
                       /\ UNCHANGED <<issued, count>>
                  ELSE /\ Issue(i, s)
                       /\ UNCHANGED blocked
      /\ UNCHANGED <<clock, leased, worker, lastTs, boots, reloads, steps>>

\* Mutant of NextSecond: it goes on in the second it waited in.
NextSecondTooSoon(i) ==
  /\ blocked[i] /\ clock >= lastTs[i]
  /\ lastTs' = [lastTs EXCEPT ![i] = clock]
  /\ blocked' = [blocked EXCEPT ![i] = FALSE]
  /\ Issue(i, sequence[i])
  /\ UNCHANGED <<clock, leased, worker, sequence, boots, reloads, steps>>

\* tilNextSecond returns.
NextSecond(i) ==
  /\ blocked[i] /\ clock > lastTs[i]
  /\ lastTs' = [lastTs EXCEPT ![i] = clock]
  /\ blocked' = [blocked EXCEPT ![i] = FALSE]
  /\ Issue(i, sequence[i])
  /\ UNCHANGED <<clock, leased, worker, sequence, boots, reloads, steps>>

Next == \/ Tick \/ StepBack
        \/ \E i \in Instances : \/ Load(i) \/ Reload(i) \/ Quit(i)
                                \/ GenerateFirst(i) \/ GenerateNext(i) \/ NextSecond(i)

Spec == Init /\ [][Next]_vars

------------------------------------------------------------------------------
(* Properties                                                               *)

\* Types of the generators and of the ids.
TypeOK ==
  /\ clock \in Nat /\ clock >= Epoch
  /\ leased \in [Instances -> WorkerIds \cup {NoId}]
  /\ worker \in [Instances -> WorkerIds \cup {NoId}]
  /\ lastTs \in [Instances -> Int]
  /\ sequence \in [Instances -> 0..MaxSequence]
  /\ blocked \in [Instances -> BOOLEAN]
  /\ boots \in [Instances -> Nat] /\ count \in [Instances -> Nat]
  /\ reloads \in Nat /\ steps \in Nat
  /\ issued \subseteq [ts : {t \in Nat : t >= Epoch}, worker : WorkerIds, sequence : 0..MaxSequence,
                       by : Instances, boot : Nat, nth : Nat]

\* No two calls of generate in the cluster return the same number, whatever
\* process, second or worker they are made in, as long as no application was
\* reloaded and the clock was not set back.
UniqueIds == reloads = 0 /\ steps = 0 => \A r, s \in issued : Id(r) = Id(s) => r = s

\* What one process generates grows, across a wrap of the sequence and a reload
\* as well, as long as the clock was not set back.
IdsGrow ==
  steps = 0 =>
    \A r, s \in issued : r.by = s.by /\ r.boot = s.boot /\ r.nth < s.nth => Id(r) < Id(s)

===============================================================================
