-------------------------- MODULE SnowflakeId_proofs --------------------------
(***************************************************************************)
(* Snowflake ids, for any number of instances and any widths.  A process's  *)
(* ids grow whoever chose its worker id: its generator is ahead of all of   *)
(* them.  When an adapter hands out the worker ids, and while no application *)
(* was reloaded and the clock not set back, a generator is ahead of every id *)
(* of its worker, so that seconds, workers and sequences are never used     *)
(* twice, and different triples are different numbers.                      *)
(***************************************************************************)
EXTENDS SnowflakeId, TLAPS

\* The order in which a generator uses seconds and sequences.
Before(r, s) == r.ts < s.ts \/ (r.ts = s.ts /\ r.sequence < s.sequence)

\* A generator that is not there is fresh; one that waits has wrapped.
Fresh ==
  \A i \in Instances : /\ worker[i] = NoId => lastTs[i] = -1 /\ ~blocked[i]
                       /\ blocked[i] => sequence[i] = 0 /\ lastTs[i] # -1

TypeInv == TypeOK /\ Fresh

\* No generator is ahead of the clock.
Behind == \A i \in Instances : lastTs[i] <= clock

\* The ids of a process are counted, are of one worker, and grow, and its
\* generator is at the last of them.
Counted ==
  /\ \A r \in issued : r.boot <= boots[r.by]
  /\ \A i \in Instances : \A r \in issued :
       r.by = i /\ r.boot = boots[i] /\ worker[i] # NoId =>
         /\ r.nth <= count[i] /\ r.worker = worker[i]
         /\ r.ts <= lastTs[i]
         /\ r.ts = lastTs[i] /\ ~blocked[i] => r.sequence <= sequence[i]
  /\ \A r, s \in issued : r.by = s.by /\ r.boot = s.boot /\ r.nth < s.nth
       => r.worker = s.worker /\ Before(r, s)

\* While the clock is not set back, every process is in order.
Growth == steps = 0 => Behind /\ Counted

\* An instance uses the worker id that it leased, which no other one leased.
OneWorkerEach ==
  /\ leased = worker
  /\ \A i, j \in Instances : worker[i] = worker[j] /\ worker[i] # NoId => i = j

\* A generator is ahead of every id of its worker.
Ahead ==
  \A i \in Instances : \A r \in issued :
    worker[i] # NoId /\ r.worker = worker[i] =>
      IF lastTs[i] = -1 THEN r.ts < clock
      ELSE /\ r.ts <= lastTs[i]
           /\ r.ts = lastTs[i] /\ ~blocked[i] => r.sequence <= sequence[i]

\* Different calls have different triples.
Triples == \A r, s \in issued : r.ts = s.ts /\ r.worker = s.worker /\ r.sequence = s.sequence => r = s

\* While no application is reloaded either, the workers are in order.
Faultless == reloads = 0 /\ steps = 0
Order == Faultless => OneWorkerEach /\ Ahead /\ Triples

------------------------------------------------------------------------------
(* Arithmetic of the numbers                                                *)

\* A digit below the base leaves the number below the next multiple.
LEMMA Digit ==
  ASSUME NEW n \in Nat, NEW a \in Int, NEW b \in Int, NEW x \in 0..n, NEW y \in Int, y >= 0, a < b
  PROVE  a * (n + 1) + x < b * (n + 1) + y
  <1>1. PICK d \in Nat : b = a + 1 + d
    <2>1. b - a - 1 \in Nat /\ b = a + 1 + (b - a - 1)
      OBVIOUS
    <2> QED BY <2>1
  <1>2. d * (n + 1) >= 0 /\ d * (n + 1) \in Int
    OBVIOUS
  <1>3. b * (n + 1) = a * (n + 1) + (n + 1) + d * (n + 1)
    BY <1>1
  <1>4. a * (n + 1) \in Int
    OBVIOUS
  <1> QED BY <1>2, <1>3, <1>4

\* The number of a triple, as two digits on top of each other.
LEMMA IdValue ==
  ASSUME NEW t \in Int, NEW w \in Int, NEW s \in Int
  PROVE  t * (MaxWorkerId + 1) * (MaxSequence + 1) + w * (MaxSequence + 1) + s
           = (t * (MaxWorkerId + 1) + w) * (MaxSequence + 1) + s
  BY SnowflakeAssumption

\* An earlier second gives a smaller number, whatever the worker and sequence.
LEMMA EarlierIsSmaller ==
  ASSUME NEW t \in Int, NEW w \in WorkerIds, NEW s \in 0..MaxSequence,
         NEW u \in Int, NEW v \in WorkerIds, NEW z \in 0..MaxSequence, t < u
  PROVE  (t * (MaxWorkerId + 1) + w) * (MaxSequence + 1) + s
           < (u * (MaxWorkerId + 1) + v) * (MaxSequence + 1) + z
  <1> DEFINE a == t * (MaxWorkerId + 1) + w
             b == u * (MaxWorkerId + 1) + v
  <1>1. w \in 0..MaxWorkerId /\ v \in Int /\ v >= 0 /\ s \in Int /\ z \in Int /\ z >= 0
        /\ MaxWorkerId \in Nat /\ MaxSequence \in Nat
    BY SnowflakeAssumption DEF WorkerIds
  <1>2. a < b
    BY <1>1, Digit
  <1>3. a \in Int /\ b \in Int
    BY <1>1
  <1> HIDE DEF a, b
  <1>4. a * (MaxSequence + 1) + s < b * (MaxSequence + 1) + z
    BY <1>1, <1>2, <1>3, Digit
  <1> QED BY <1>4 DEF a, b

\* The order of a process's ids is the order of their numbers.
LEMMA BeforeIsSmaller ==
  ASSUME TypeOK, NEW r \in issued, NEW s \in issued, r.worker = s.worker, Before(r, s)
  PROVE  Id(r) < Id(s)
  <1>1. /\ r.ts - Epoch \in Int /\ r.worker \in WorkerIds /\ r.sequence \in 0..MaxSequence
        /\ s.ts - Epoch \in Int /\ s.worker \in WorkerIds /\ s.sequence \in 0..MaxSequence
        /\ r.ts \in Int /\ s.ts \in Int /\ r.worker \in Int /\ s.worker \in Int
        /\ r.sequence \in Int /\ s.sequence \in Int
    BY SnowflakeAssumption DEF TypeOK, WorkerIds
  <1>2. /\ Id(r) = ((r.ts - Epoch) * (MaxWorkerId + 1) + r.worker) * (MaxSequence + 1) + r.sequence
        /\ Id(s) = ((s.ts - Epoch) * (MaxWorkerId + 1) + s.worker) * (MaxSequence + 1) + s.sequence
    BY <1>1, IdValue DEF Id
  <1>3. CASE r.ts < s.ts
    <2>1. r.ts - Epoch < s.ts - Epoch
      BY <1>1, <1>3, SnowflakeAssumption
    <2> QED BY <1>1, <1>2, <2>1, EarlierIsSmaller
  <1>4. CASE r.ts = s.ts /\ r.sequence < s.sequence
    <2>1. ((r.ts - Epoch) * (MaxWorkerId + 1) + r.worker) * (MaxSequence + 1) \in Int
      BY <1>1, SnowflakeAssumption
    <2> QED BY <1>1, <1>2, <1>4, <2>1
  <1> QED BY <1>3, <1>4 DEF Before

\* Two digits are found again in the number they make.
LEMMA TwoDigits ==
  ASSUME NEW n \in Nat, NEW a \in Int, NEW b \in Int, NEW x \in 0..n, NEW y \in 0..n,
         a * (n + 1) + x = b * (n + 1) + y
  PROVE  a = b /\ x = y
  <1>1. a * (n + 1) \in Int /\ b * (n + 1) \in Int /\ x \in Int /\ y \in Int /\ x >= 0 /\ y >= 0
    OBVIOUS
  <1>2. ~(a < b)
    <2>1. a < b => a * (n + 1) + x < b * (n + 1) + y
      BY <1>1, Digit
    <2> QED BY <1>1, <2>1
  <1>3. ~(b < a)
    <2>1. b < a => b * (n + 1) + y < a * (n + 1) + x
      BY <1>1, Digit
    <2> QED BY <1>1, <2>1
  <1>4. a = b
    BY <1>2, <1>3
  <1> QED BY <1>1, <1>4

\* Three digits are found again in the number they make.
LEMMA ThreeDigits ==
  ASSUME NEW t \in Int, NEW w \in 0..MaxWorkerId, NEW s \in 0..MaxSequence,
         NEW u \in Int, NEW v \in 0..MaxWorkerId, NEW z \in 0..MaxSequence,
         (t * (MaxWorkerId + 1) + w) * (MaxSequence + 1) + s
           = (u * (MaxWorkerId + 1) + v) * (MaxSequence + 1) + z
  PROVE  t = u /\ w = v /\ s = z
  <1>1. PICK a \in Int : a = t * (MaxWorkerId + 1) + w
    BY SnowflakeAssumption
  <1>2. PICK b \in Int : b = u * (MaxWorkerId + 1) + v
    BY SnowflakeAssumption
  <1>3. a * (MaxSequence + 1) + s = b * (MaxSequence + 1) + z
    BY <1>1, <1>2
  <1>4. a = b /\ s = z
    BY <1>3, TwoDigits, SnowflakeAssumption
  <1>5. t = u /\ w = v
    BY <1>1, <1>2, <1>4, TwoDigits, SnowflakeAssumption
  <1> QED BY <1>4, <1>5

\* Equal numbers stand for equal triples.
LEMMA EqualIds ==
  ASSUME NEW t \in Int, NEW w \in 0..MaxWorkerId, NEW s \in 0..MaxSequence,
         NEW u \in Int, NEW v \in 0..MaxWorkerId, NEW z \in 0..MaxSequence,
         t * (MaxWorkerId + 1) * (MaxSequence + 1) + w * (MaxSequence + 1) + s
           = u * (MaxWorkerId + 1) * (MaxSequence + 1) + v * (MaxSequence + 1) + z
  PROVE  t = u /\ w = v /\ s = z
  <1>1. t * (MaxWorkerId + 1) * (MaxSequence + 1) + w * (MaxSequence + 1) + s
          = (t * (MaxWorkerId + 1) + w) * (MaxSequence + 1) + s
    BY IdValue
  <1>2. u * (MaxWorkerId + 1) * (MaxSequence + 1) + v * (MaxSequence + 1) + z
          = (u * (MaxWorkerId + 1) + v) * (MaxSequence + 1) + z
    BY IdValue
  <1>3. (t * (MaxWorkerId + 1) + w) * (MaxSequence + 1) + s
          = (u * (MaxWorkerId + 1) + v) * (MaxSequence + 1) + z
    BY <1>1, <1>2
  <1> QED BY <1>3, ThreeDigits

\* Equal numbers were issued in the same second, by the same worker and with
\* the same sequence.
LEMMA EqualNumbers ==
  ASSUME TypeOK, NEW r \in issued, NEW q \in issued, Id(r) = Id(q)
  PROVE  r.ts = q.ts /\ r.worker = q.worker /\ r.sequence = q.sequence
  <1>1. /\ r.ts \in Int /\ r.worker \in 0..MaxWorkerId /\ r.sequence \in 0..MaxSequence
        /\ q.ts \in Int /\ q.worker \in 0..MaxWorkerId /\ q.sequence \in 0..MaxSequence
        /\ Epoch \in Int
    BY SnowflakeAssumption DEF TypeOK, WorkerIds
  <1>2. PICK t \in Int, w \in 0..MaxWorkerId, s \in 0..MaxSequence :
          t = r.ts - Epoch /\ w = r.worker /\ s = r.sequence
    BY <1>1
  <1>3. PICK u \in Int, v \in 0..MaxWorkerId, z \in 0..MaxSequence :
          u = q.ts - Epoch /\ v = q.worker /\ z = q.sequence
    BY <1>1
  <1>4. t * (MaxWorkerId + 1) * (MaxSequence + 1) + w * (MaxSequence + 1) + s
          = u * (MaxWorkerId + 1) * (MaxSequence + 1) + v * (MaxSequence + 1) + z
    BY <1>2, <1>3 DEF Id
  <1>5. t = u /\ w = v /\ s = z
    BY <1>4, EqualIds
  <1> QED BY <1>1, <1>2, <1>3, <1>5

------------------------------------------------------------------------------
(* What the three ways of generate have in common                           *)

\* An id is issued with sequence n, after those of this process.
Issues(i, n) ==
  /\ worker[i] # NoId
  /\ lastTs[i] # clock \/ (~blocked[i] /\ sequence[i] < n)
  /\ Issue(i, n)
  /\ lastTs' = [lastTs EXCEPT ![i] = clock]
  /\ sequence' = [sequence EXCEPT ![i] = n]
  /\ blocked' = [blocked EXCEPT ![i] = FALSE]
  /\ UNCHANGED <<clock, leased, worker, boots, reloads, steps>>

\* The sequence has wrapped, and nothing is issued.
Wraps(i) ==
  /\ worker[i] # NoId /\ lastTs[i] = clock
  /\ sequence' = [sequence EXCEPT ![i] = 0]
  /\ blocked' = [blocked EXCEPT ![i] = TRUE]
  /\ UNCHANGED <<clock, leased, worker, lastTs, boots, count, reloads, steps, issued>>

\* The next sequence stays within its width.
LEMMA NextSequence ==
  ASSUME NEW m \in 0..MaxSequence
  PROVE  /\ (m + 1) % (MaxSequence + 1) \in 0..MaxSequence
         /\ (m + 1) % (MaxSequence + 1) # 0 => m < (m + 1) % (MaxSequence + 1)
  <1>1. CASE m = MaxSequence
    BY <1>1, SnowflakeAssumption
  <1>2. CASE m < MaxSequence
    BY <1>2, SnowflakeAssumption
  <1> QED BY <1>1, <1>2, SnowflakeAssumption

\* A step of generate issues an id or wraps.
LEMMA Generate ==
  ASSUME TypeInv, NEW i \in Instances, GenerateFirst(i) \/ GenerateNext(i) \/ NextSecond(i)
  PROVE  (\E n \in 0..MaxSequence : Issues(i, n)) \/ Wraps(i)
  <1> USE SnowflakeAssumption DEF TypeInv
  <1>1. CASE GenerateFirst(i)
    <2>1. blocked' = [blocked EXCEPT ![i] = FALSE]
      BY <1>1 DEF GenerateFirst, Ready, TypeOK
    <2>2. Issues(i, 0)
      BY <1>1, <2>1 DEF GenerateFirst, Ready, Issues
    <2>3. 0 \in 0..MaxSequence
      OBVIOUS
    <2> QED BY <2>2, <2>3
  <1>2. CASE GenerateNext(i)
    <2> DEFINE n == (sequence[i] + 1) % (MaxSequence + 1)
    <2>1. n \in 0..MaxSequence /\ (n # 0 => sequence[i] < n)
      BY NextSequence DEF TypeOK
    <2>2. CASE n = 0
      <3>1. Wraps(i)
        BY <1>2, <2>2 DEF GenerateNext, Ready, Wraps
      <3> QED BY <3>1
    <2>3. CASE n # 0
      <3>1. /\ Issue(i, n) /\ sequence' = [sequence EXCEPT ![i] = n] /\ UNCHANGED blocked
            /\ UNCHANGED <<clock, leased, worker, lastTs, boots, reloads, steps>>
            /\ worker[i] # NoId /\ ~blocked[i] /\ lastTs[i] = clock
        BY <1>2, <2>3 DEF GenerateNext, Ready
      <3> HIDE DEF n
      <3>2. lastTs' = [lastTs EXCEPT ![i] = clock] /\ blocked' = [blocked EXCEPT ![i] = FALSE]
        BY <3>1 DEF TypeOK
      <3>3. Issues(i, n)
        BY <2>1, <2>3, <3>1, <3>2 DEF Issues
      <3> QED BY <2>1, <3>3
    <2> QED BY <2>2, <2>3
  <1>3. CASE NextSecond(i)
    <2>1. sequence[i] = 0 /\ worker[i] # NoId /\ lastTs[i] # clock
      BY <1>3 DEF NextSecond, Fresh, TypeOK
    <2>2. sequence' = [sequence EXCEPT ![i] = 0]
      BY <1>3, <2>1 DEF NextSecond, TypeOK
    <2>3. Issues(i, 0)
      BY <1>3, <2>1, <2>2 DEF NextSecond, Issues
    <2>4. 0 \in 0..MaxSequence
      OBVIOUS
    <2> QED BY <2>3, <2>4
  <1> QED BY <1>1, <1>2, <1>3

------------------------------------------------------------------------------
(* Types                                                                    *)

\* Types and fresh generators at first.
LEMMA InitType == ASSUME Init PROVE TypeInv
  BY SnowflakeAssumption DEF Init, TypeInv, TypeOK, Fresh, WorkerIds

\* An id that is issued has the types of its parts.
LEMMA IssuesType == ASSUME TypeInv, NEW i \in Instances, NEW n \in 0..MaxSequence, Issues(i, n) PROVE TypeInv'
  <1> DEFINE new == [ts |-> clock, worker |-> worker[i], sequence |-> n,
                     by |-> i, boot |-> boots[i], nth |-> count[i] + 1]
  <1> USE SnowflakeAssumption DEF TypeInv
  <1>1. new \in [ts : {t \in Nat : t >= Epoch}, worker : WorkerIds, sequence : 0..MaxSequence,
                 by : Instances, boot : Nat, nth : Nat]
    BY DEF TypeOK, Issues
  <1>2. issued' = issued \cup {new} /\ count' = [count EXCEPT ![i] = @ + 1]
    BY DEF Issues, Issue
  <1> HIDE DEF new
  <1>3. TypeOK'
    BY <1>1, <1>2 DEF TypeOK, Issues
  <1>4. Fresh'
    BY DEF TypeOK, Fresh, Issues
  <1> QED BY <1>3, <1>4

\* Every step keeps the types, and a generator that is not there fresh.
LEMMA NextType == ASSUME TypeInv, [Next]_vars PROVE TypeInv'
  <1> USE SnowflakeAssumption DEF TypeInv
  <1>1. CASE Tick
    BY <1>1 DEF TypeOK, Fresh, Tick, generator, issues
  <1>2. CASE StepBack
    BY <1>2 DEF TypeOK, Fresh, StepBack, generator, issues
  <1>3. ASSUME NEW i \in Instances, Load(i) PROVE TypeInv'
    <2>1. TypeOK'
      BY <1>3 DEF TypeOK, Load
    <2>2. Fresh'
      BY <1>3 DEF TypeOK, Fresh, Load
    <2> QED BY <2>1, <2>2
  <1>4. ASSUME NEW i \in Instances, Reload(i) PROVE TypeInv'
    BY <1>4 DEF TypeOK, Fresh, Reload, generator, issues
  <1>5. ASSUME NEW i \in Instances, Quit(i) PROVE TypeInv'
    <2>1. TypeOK'
      BY <1>5 DEF TypeOK, Quit, issues
    <2>2. Fresh'
      BY <1>5 DEF TypeOK, Fresh, Quit, issues
    <2> QED BY <2>1, <2>2
  <1>6. ASSUME NEW i \in Instances, GenerateFirst(i) \/ GenerateNext(i) \/ NextSecond(i) PROVE TypeInv'
    <2>1. CASE Wraps(i)
      BY <2>1 DEF TypeOK, Fresh, Wraps
    <2>2. CASE \E n \in 0..MaxSequence : Issues(i, n)
      BY <2>2, IssuesType
    <2> QED BY <1>6, <2>1, <2>2, Generate
  <1>7. CASE UNCHANGED vars
    BY <1>7 DEF TypeOK, Fresh, vars, generator, issues
  <1> QED BY <1>1, <1>2, <1>3, <1>4, <1>5, <1>6, <1>7 DEF Next

\* The types, and what a generator that is not there looks like, hold throughout.
LEMMA TypeInvHolds == Spec => []TypeInv
  <1> QED BY InitType, NextType, PTL DEF Spec

\* The state of the generators and the ids keeps its types.
THEOREM TypeCorrect == Spec => []TypeOK
  <1>1. TypeInv => TypeOK
    BY DEF TypeInv
  <1> QED BY <1>1, TypeInvHolds, PTL

------------------------------------------------------------------------------
(* Growth                                                                   *)

\* Only a step back and a reload are counted, and the counters never shrink.
LEMMA FaultsGrow ==
  ASSUME TypeInv, [Next]_vars
  PROVE  (steps' = 0 => steps = 0 /\ ~StepBack) /\ (reloads' = 0 => reloads = 0 /\ \A i \in Instances : ~Reload(i))
  <1> USE DEF TypeInv
  <1>1. steps \in Nat /\ reloads \in Nat
    BY DEF TypeOK
  <1>2. StepBack => steps' # 0 /\ steps' # steps /\ reloads' = reloads
    BY <1>1 DEF StepBack
  <1>3. \A i \in Instances : Reload(i) => reloads' # 0 /\ steps' = steps
    BY <1>1 DEF Reload
  <1>4. \A i \in Instances : GenerateFirst(i) \/ GenerateNext(i) \/ NextSecond(i) => UNCHANGED <<steps, reloads>>
    BY DEF GenerateFirst, GenerateNext, NextSecond
  <1>5. Tick \/ (\E i \in Instances : Load(i) \/ Quit(i)) \/ UNCHANGED vars => UNCHANGED <<steps, reloads>>
    BY DEF Tick, Load, Quit, vars
  <1>6. CASE StepBack
    <2>1. \A i \in Instances : ~Reload(i)
      BY <1>2, <1>3, <1>6
    <2> QED BY <1>2, <1>6, <2>1
  <1>7. CASE \E i \in Instances : Reload(i)
    BY <1>2, <1>3, <1>7
  <1>8. CASE ~StepBack /\ \A i \in Instances : ~Reload(i)
    BY <1>4, <1>5, <1>8 DEF Next
  <1> QED BY <1>6, <1>7, <1>8

\* What a process adds comes after all that it issued before.
LEMMA IssuesGrow ==
  ASSUME TypeInv, Behind, Counted, NEW i \in Instances, NEW n \in 0..MaxSequence, Issues(i, n)
  PROVE  Behind' /\ Counted'
  <1> DEFINE new == [ts |-> clock, worker |-> worker[i], sequence |-> n,
                     by |-> i, boot |-> boots[i], nth |-> count[i] + 1]
  <1> USE SnowflakeAssumption DEF TypeInv
  <1>1. issued' = issued \cup {new} /\ count' = [count EXCEPT ![i] = @ + 1]
    BY DEF Issues, Issue
  <1>2. /\ new.ts = clock /\ new.worker = worker[i] /\ new.sequence = n
        /\ new.by = i /\ new.boot = boots[i] /\ new.nth = count[i] + 1
    OBVIOUS
  <1> HIDE DEF new
  <1>3. Behind'
    BY DEF TypeOK, Behind, Issues
  <1>4. /\ \A r \in issued : /\ r.ts \in Nat /\ r.sequence \in Nat /\ r.nth \in Nat
                             /\ r.boot \in Nat /\ r.by \in Instances
        /\ \A j \in Instances : boots[j] \in Nat /\ count[j] \in Nat /\ lastTs[j] \in Int /\ sequence[j] \in Nat
        /\ clock \in Nat /\ lastTs[i] <= clock /\ worker[i] # NoId
        /\ worker' = worker /\ boots' = boots
    BY DEF TypeOK, Behind, Issues
  <1>5. \A r \in issued : r.by = i /\ r.boot = boots[i] =>
          /\ r.nth <= count[i] /\ r.worker = worker[i] /\ r.ts <= lastTs[i]
          /\ r.ts = lastTs[i] /\ ~blocked[i] => r.sequence <= sequence[i]
    BY <1>4 DEF Counted
  <1>6. \A r \in issued : r.by = i /\ r.boot = boots[i] => Before(r, new)
    BY <1>2, <1>4, <1>5 DEF Before, Issues
  <1>7. /\ \A j \in Instances \ {i} : /\ lastTs'[j] = lastTs[j] /\ sequence'[j] = sequence[j]
                                      /\ blocked'[j] = blocked[j] /\ count'[j] = count[j]
        /\ lastTs'[i] = clock /\ sequence'[i] = n /\ ~blocked'[i] /\ count'[i] = count[i] + 1
    BY <1>1 DEF TypeOK, Issues
  <1>8. \A r \in issued' : r.boot <= boots'[r.by]
    BY <1>1, <1>2, <1>4 DEF Counted
  <1>9. ASSUME NEW j \in Instances, NEW r \in issued', r.by = j, r.boot = boots'[j], worker'[j] # NoId
        PROVE  /\ r.nth <= count'[j] /\ r.worker = worker'[j] /\ r.ts <= lastTs'[j]
               /\ r.ts = lastTs'[j] /\ ~blocked'[j] => r.sequence <= sequence'[j]
    <2>1. CASE r = new
      BY <1>2, <1>4, <1>7, <1>9, <2>1
    <2>2. CASE r \in issued /\ j = i
      <3>1. Before(r, new) /\ r.nth <= count[i] /\ r.worker = worker[i]
        BY <1>4, <1>5, <1>6, <1>9, <2>2
      <3> QED BY <1>2, <1>4, <1>7, <2>2, <3>1 DEF Before
    <2>3. CASE r \in issued /\ j # i
      BY <1>4, <1>7, <1>9, <2>3 DEF Counted
    <2> QED BY <1>1, <2>1, <2>2, <2>3
  <1>10. ASSUME NEW r \in issued', NEW s \in issued', r.by = s.by, r.boot = s.boot, r.nth < s.nth
         PROVE  r.worker = s.worker /\ Before(r, s)
    <2>1. CASE r \in issued /\ s \in issued
      BY <1>10, <2>1 DEF Counted
    <2>2. CASE r \in issued /\ s = new
      BY <1>2, <1>5, <1>6, <1>10, <2>2
    <2>3. CASE r = new /\ s \in issued
      <3>1. s.nth <= count[i]
        BY <1>2, <1>5, <1>10, <2>3
      <3> QED BY <1>2, <1>4, <1>10, <2>3, <3>1
    <2>4. CASE r = new /\ s = new
      BY <1>2, <1>4, <1>10, <2>4
    <2> QED BY <1>1, <2>1, <2>2, <2>3, <2>4
  <1>11. Counted'
    BY <1>8, <1>9, <1>10 DEF Counted, Before
  <1> QED BY <1>3, <1>11

\* Every step but one that sets the clock back keeps the processes in order.
LEMMA NextGrowth == ASSUME TypeInv, Growth, [Next]_vars PROVE Growth'
  <1> SUFFICES ASSUME steps' = 0 PROVE Behind' /\ Counted'
    BY DEF Growth
  <1> USE SnowflakeAssumption DEF TypeInv
  <1>1. Behind /\ Counted /\ ~StepBack
    BY FaultsGrow DEF Growth
  <1>2. CASE Tick
    <2>1. Behind'
      BY <1>1, <1>2 DEF TypeOK, Behind, Tick, generator
    <2>2. Counted'
      BY <1>1, <1>2 DEF Counted, Before, Tick, generator, issues
    <2> QED BY <2>1, <2>2
  <1>3. ASSUME NEW i \in Instances, Load(i), worker[i] = NoId PROVE Behind' /\ Counted'
    <2>1. /\ boots' = [boots EXCEPT ![i] = @ + 1] /\ count' = [count EXCEPT ![i] = 0]
          /\ UNCHANGED <<clock, lastTs, sequence, blocked, issued>>
          /\ \A j \in Instances \ {i} : worker'[j] = worker[j]
      BY <1>3 DEF Load, TypeOK
    <2>2. \A r \in issued : r.boot \in Nat /\ r.by \in Instances /\ r.boot <= boots[r.by]
      BY <1>1 DEF TypeOK, Counted
    <2>3. \A j \in Instances : /\ boots[j] \in Nat
                               /\ boots'[j] = IF j = i THEN boots[j] + 1 ELSE boots[j]
                               /\ j # i => count'[j] = count[j]
      BY <2>1 DEF TypeOK
    <2>4. \A r \in issued' : r.boot <= boots'[r.by]
      BY <2>1, <2>2, <2>3
    <2>5. \A r \in issued' : r.by = i => r.boot # boots'[i]
      BY <2>1, <2>2, <2>3
    <2>6. \A j \in Instances : \A r \in issued' :
            r.by = j /\ r.boot = boots'[j] /\ worker'[j] # NoId =>
              /\ r.nth <= count'[j] /\ r.worker = worker'[j] /\ r.ts <= lastTs'[j]
              /\ r.ts = lastTs'[j] /\ ~blocked'[j] => r.sequence <= sequence'[j]
      BY <1>1, <2>1, <2>3, <2>5 DEF Counted
    <2>7. \A r, s \in issued' : r.by = s.by /\ r.boot = s.boot /\ r.nth < s.nth
            => r.worker = s.worker /\ Before(r, s)
      BY <1>1, <2>1 DEF Counted
    <2> QED BY <1>1, <2>1, <2>4, <2>6, <2>7 DEF Behind, Counted, Before
  <1>4. ASSUME NEW i \in Instances, Load(i), worker[i] # NoId PROVE Behind' /\ Counted'
    BY <1>1, <1>4 DEF Load, Behind, Counted, Before
  <1>5. ASSUME NEW i \in Instances, Reload(i) PROVE Behind' /\ Counted'
    BY <1>1, <1>5 DEF Reload, Behind, Counted, Before, generator, issues
  <1>6. ASSUME NEW i \in Instances, Quit(i) PROVE Behind' /\ Counted'
    <2>1. Behind'
      BY <1>1, <1>6 DEF TypeOK, Behind, Quit
    <2>2. /\ UNCHANGED issues /\ worker'[i] = NoId
          /\ \A j \in Instances \ {i} : /\ worker'[j] = worker[j] /\ lastTs'[j] = lastTs[j]
                                        /\ sequence'[j] = sequence[j] /\ blocked'[j] = blocked[j]
      BY <1>6 DEF TypeOK, Quit
    <2>3. Counted'
      BY <1>1, <2>2 DEF Counted, Before, issues
    <2> QED BY <2>1, <2>3
  <1>7. ASSUME NEW i \in Instances, GenerateFirst(i) \/ GenerateNext(i) \/ NextSecond(i)
        PROVE  Behind' /\ Counted'
    <2>1. CASE Wraps(i)
      <3>1. Behind'
        BY <1>1, <2>1 DEF Behind, Wraps
      <3>2. /\ \A j \in Instances \ {i} : sequence'[j] = sequence[j] /\ blocked'[j] = blocked[j]
            /\ blocked'[i] = TRUE
            /\ UNCHANGED <<worker, lastTs, boots, count, issued>>
        BY <2>1 DEF TypeOK, Wraps
      <3>3. Counted'
        BY <1>1, <3>2 DEF Counted, Before
      <3> QED BY <3>1, <3>3
    <2>2. CASE \E n \in 0..MaxSequence : Issues(i, n)
      BY <1>1, <2>2, IssuesGrow
    <2> QED BY <1>7, <2>1, <2>2, Generate
  <1>8. CASE UNCHANGED vars
    BY <1>1, <1>8 DEF Behind, Counted, Before, vars, generator, issues
  <1> QED BY <1>1, <1>2, <1>3, <1>4, <1>5, <1>6, <1>7, <1>8 DEF Next

\* Processes are in order throughout.
LEMMA GrowthHolds == Spec => []Growth
  <1>1. Init => Growth
    BY SnowflakeAssumption DEF Init, Growth, Behind, Counted
  <1> QED BY <1>1, NextGrowth, TypeInvHolds, PTL DEF Spec

\* What one process generates grows, whoever chose its worker id, and over
\* reloads and wraps of the sequence, unless the clock was set back.
THEOREM IdsGrowing == Spec => []IdsGrow
  <1>1. TypeInv /\ Growth => IdsGrow
    BY BeforeIsSmaller DEF TypeInv, Growth, IdsGrow, Counted
  <1> QED BY <1>1, TypeInvHolds, GrowthHolds, PTL

------------------------------------------------------------------------------
(* Uniqueness                                                               *)

\* What a worker adds comes after all its ids, so it is a new triple.
LEMMA IssuesOrdered ==
  ASSUME TypeInv, Behind, OneWorkerEach, Ahead, Triples,
         NEW i \in Instances, NEW n \in 0..MaxSequence, Issues(i, n)
  PROVE  OneWorkerEach' /\ Ahead' /\ Triples'
  <1> DEFINE new == [ts |-> clock, worker |-> worker[i], sequence |-> n,
                     by |-> i, boot |-> boots[i], nth |-> count[i] + 1]
  <1> USE SnowflakeAssumption DEF TypeInv
  <1>1. issued' = issued \cup {new}
    BY DEF Issues, Issue
  <1>2. new.ts = clock /\ new.worker = worker[i] /\ new.sequence = n
    OBVIOUS
  <1> HIDE DEF new
  <1>3. /\ \A r \in issued : r.ts \in Nat /\ r.sequence \in Nat
        /\ clock \in Nat /\ n \in Nat /\ lastTs[i] \in Int /\ sequence[i] \in Nat
        /\ lastTs[i] <= clock /\ worker[i] # NoId /\ worker' = worker
    BY DEF TypeOK, Behind, Issues
  <1>4. \A r \in issued : r.worker = worker[i] => Before(r, new)
    <2> SUFFICES ASSUME NEW r \in issued, r.worker = worker[i] PROVE Before(r, new)
      OBVIOUS
    <2>1. IF lastTs[i] = -1 THEN r.ts < clock
          ELSE r.ts <= lastTs[i] /\ (r.ts = lastTs[i] /\ ~blocked[i] => r.sequence <= sequence[i])
      BY <1>3 DEF Ahead
    <2>2. lastTs[i] # clock \/ (~blocked[i] /\ sequence[i] < n)
      BY DEF Issues
    <2> QED BY <1>2, <1>3, <2>1, <2>2 DEF Before
  <1>5. OneWorkerEach'
    BY DEF OneWorkerEach, Issues
  <1>6. Ahead'
    <2> SUFFICES ASSUME NEW j \in Instances, NEW r \in issued', worker[j] # NoId, r.worker = worker[j]
                 PROVE  IF lastTs'[j] = -1 THEN r.ts < clock'
                        ELSE /\ r.ts <= lastTs'[j]
                             /\ r.ts = lastTs'[j] /\ ~blocked'[j] => r.sequence <= sequence'[j]
      BY <1>3 DEF Ahead
    <2>1. CASE j = i
      <3>1. lastTs'[j] = clock /\ sequence'[j] = n /\ clock # -1
        BY <1>3, <2>1 DEF TypeOK, Issues
      <3>2. r = new \/ (r \in issued /\ Before(r, new))
        BY <1>1, <1>4, <2>1
      <3> QED BY <1>2, <1>3, <3>1, <3>2 DEF Before
    <2>2. CASE j # i
      <3>1. worker[j] # worker[i]
        BY <2>2 DEF OneWorkerEach
      <3>2. r \in issued
        BY <1>1, <1>2, <3>1
      <3>3. lastTs'[j] = lastTs[j] /\ sequence'[j] = sequence[j] /\ blocked'[j] = blocked[j] /\ clock' = clock
        BY <2>2 DEF TypeOK, Issues
      <3> QED BY <3>2, <3>3 DEF Ahead
    <2> QED BY <2>1, <2>2
  <1>7. \A r \in issued : ~(r.ts = new.ts /\ r.worker = new.worker /\ r.sequence = new.sequence)
    <2> SUFFICES ASSUME NEW r \in issued, r.ts = new.ts, r.worker = new.worker, r.sequence = new.sequence
                 PROVE  FALSE
      OBVIOUS
    <2>1. r.ts \in Nat /\ r.sequence \in Nat /\ Before(r, new)
      BY <1>2, <1>3, <1>4
    <2> QED BY <2>1 DEF Before
  <1>8. Triples'
    BY <1>1, <1>7 DEF Triples
  <1> QED BY <1>5, <1>6, <1>8

\* Every step but a reload and a step back keeps the workers in order.
LEMMA NextOrder == ASSUME Adapter, TypeInv, Growth, Order, [Next]_vars PROVE Order'
  <1> SUFFICES ASSUME Faultless' PROVE OneWorkerEach' /\ Ahead' /\ Triples'
    BY DEF Order
  <1> USE SnowflakeAssumption DEF TypeInv
  <1>1. Behind /\ OneWorkerEach /\ Ahead /\ Triples /\ ~StepBack /\ \A i \in Instances : ~Reload(i)
    BY FaultsGrow DEF Growth, Order, Faultless
  <1>2. CASE Tick
    <2>1. \A r \in issued : r.ts \in Nat
      BY DEF TypeOK
    <2>2. Ahead'
      BY <1>1, <1>2, <2>1 DEF TypeOK, Ahead, Tick, generator, issues
    <2> QED BY <1>1, <1>2, <2>2 DEF OneWorkerEach, Triples, Tick, generator, issues
  <1>3. ASSUME NEW i \in Instances, Load(i) PROVE OneWorkerEach' /\ Ahead' /\ Triples'
    <2>1. PICK w \in WorkerIds : /\ Free(w)
                                 /\ leased' = [leased EXCEPT ![i] = w]
                                 /\ worker' = [worker EXCEPT ![i] = w]
      BY <1>1, <1>3 DEF Load, OneWorkerEach
    <2>2. UNCHANGED <<clock, lastTs, sequence, blocked, issued>> /\ lastTs[i] = -1
      BY <1>1, <1>3 DEF Load, OneWorkerEach, Fresh
    <2>3. OneWorkerEach'
      BY <1>1, <2>1 DEF TypeOK, OneWorkerEach, Free
    <2>4. Ahead'
      BY <1>1, <2>1, <2>2 DEF TypeOK, Ahead, Free
    <2> QED BY <1>1, <2>2, <2>3, <2>4 DEF Triples
  <1>4. ASSUME NEW i \in Instances, Quit(i) PROVE OneWorkerEach' /\ Ahead' /\ Triples'
    <2>1. OneWorkerEach'
      BY <1>1, <1>4 DEF TypeOK, OneWorkerEach, Quit
    <2>2. Ahead'
      BY <1>1, <1>4 DEF TypeOK, Ahead, Quit, issues
    <2> QED BY <1>1, <1>4, <2>1, <2>2 DEF Triples, Quit, issues
  <1>5. ASSUME NEW i \in Instances, GenerateFirst(i) \/ GenerateNext(i) \/ NextSecond(i)
        PROVE  OneWorkerEach' /\ Ahead' /\ Triples'
    <2>1. CASE Wraps(i)
      <3>1. Ahead'
        BY <1>1, <2>1 DEF TypeOK, Ahead, Wraps
      <3> QED BY <1>1, <2>1, <3>1 DEF OneWorkerEach, Triples, Wraps
    <2>2. CASE \E n \in 0..MaxSequence : Issues(i, n)
      BY <1>1, <2>2, IssuesOrdered
    <2> QED BY <1>5, <2>1, <2>2, Generate
  <1>6. CASE UNCHANGED vars
    BY <1>1, <1>6 DEF OneWorkerEach, Ahead, Triples, vars, generator, issues
  <1> QED BY <1>1, <1>2, <1>3, <1>4, <1>5, <1>6 DEF Next

\* With an adapter, no two calls of generate return the same number while no
\* application was reloaded and the clock not set back, however many instances,
\* processes, seconds and wraps of the sequence there are.
THEOREM IdsAreUnique == ASSUME Adapter PROVE Spec => []UniqueIds
  <1>1. Init => Order
    BY DEF Init, Order, OneWorkerEach, Ahead, Triples
  <1>2. TypeInv /\ Growth /\ Order /\ [Next]_vars => Order'
    BY NextOrder
  <1>3. TypeInv /\ Order => UniqueIds
    BY EqualNumbers DEF TypeInv, Order, Faultless, UniqueIds, Triples
  <1> QED BY <1>1, <1>2, <1>3, TypeInvHolds, GrowthHolds, PTL DEF Spec
===============================================================================
