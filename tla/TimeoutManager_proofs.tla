------------------------ MODULE TimeoutManager_proofs ------------------------
(***************************************************************************)
(* What the timers and the scans of the timeout manager never do, for any   *)
(* instances, executions, timeouts and batches.  The argument: whoever     *)
(* waits for a scan stands for the periodic timer while that is not set,   *)
(* and an instance that stops has given up both before its scan ends.       *)
(***************************************************************************)
EXTENDS TimeoutManager, FiniteSetTheorems, WellFoundedInduction, TLAPS

Callers == {"load", "timer", "next"}
Scans   == [at : {"idle", "query", "abort"}, left : Seq(Execs), awaited : SUBSET Callers]
Reads   == [load : BOOLEAN, seen : BOOLEAN, at : Nat]
Lives   == {"off", "loading", "failed", "on", "leaving"}
Phases  == {"queueing", "started", "resolved", "aborted"}

\* TypeOK, with its record sets named.
TableOK ==
  /\ now \in 1..MaxTime
  /\ status \in [Execs -> Phases]
  /\ deadline \in [Execs -> Nat]
  /\ holder \in [Execs -> Instances \cup {Nobody}]
  /\ failures \in Nat /\ unloads \in Nat /\ starts \in [Execs -> Nat]

TimersOK ==
  /\ life \in [Instances -> Lives]
  /\ timers \in [Instances -> [Execs -> Nat]]
  /\ due \in [Instances -> SUBSET Execs]
  /\ next \in [Instances -> Nat]
  /\ scanTimer \in [Instances -> BOOLEAN]

ScansOK == scan \in [Instances -> Scans] /\ refresh \in [Instances -> SUBSET Reads]

\* The three parts are the type invariant.
LEMMA TypeParts == TypeOK <=> TableOK /\ TimersOK /\ ScansOK
  BY DEF TypeOK, TableOK, TimersOK, ScansOK, Scans, Callers, Reads, Lives, Phases

\* A stopping instance has no timers, a stopped one no scan, and nobody awaits
\* a scan that does not run.
Quiet ==
  \A i \in Instances : /\ Stopped(i) => ~scanTimer[i] /\ next[i] = 0
                       /\ life[i] = "off" => scan[i].at = "idle"
                       /\ scan[i].at = "idle" => scan[i].awaited = {}

Inv == TypeOK /\ Quiet /\ RescanNeverStops

------------------------------------------------------------------------------
(* The helpers                                                              *)

\* A scan that is asked for runs, for whoever awaited it and for who asks now.
LEMMA StartScanAwaits ==
  ASSUME ScansOK, NEW i \in Instances, NEW who \in Callers, StartScan(i, who),
         scan[i].at = "idle" => scan[i].awaited = {}
  PROVE  /\ scan' \in [Instances -> Scans]
         /\ scan'[i].awaited = scan[i].awaited \cup {who} /\ scan'[i].at # "idle"
         /\ \A j \in Instances \ {i} : scan'[j] = scan[j]
  <1>1. scan \in [Instances -> Scans] /\ scan[i] \in Scans
    BY DEF ScansOK
  <1>2. <<>> \in Seq(Execs)
    OBVIOUS
  <1>3. CASE scan[i].at = "idle"
    <2>1. scan' = [scan EXCEPT ![i] = [at |-> "query", left |-> <<>>, awaited |-> {who}]]
      BY <1>3 DEF StartScan
    <2>2. [at |-> "query", left |-> <<>>, awaited |-> {who}] \in Scans
      BY <1>2 DEF Scans
    <2> QED BY <1>1, <1>3, <2>1, <2>2
  <1>4. CASE scan[i].at # "idle"
    <2> DEFINE new == [scan[i] EXCEPT !.awaited = scan[i].awaited \cup {who}]
    <2>1. scan' = [scan EXCEPT ![i] = new]
      BY <1>4 DEF StartScan
    <2>2. new \in Scans /\ new.awaited = scan[i].awaited \cup {who} /\ new.at = scan[i].at
      BY <1>1 DEF Scans
    <2> HIDE DEF new
    <2> QED BY <1>1, <1>4, <2>1, <2>2
  <1> QED BY <1>3, <1>4

\* The earliest deadline is a time, or none: of the sets of deadlines before a
\* deadline, one has no other below it.
LEMMA EarliestType == ASSUME TableOK PROVE Earliest \in Nat
  <1>1. Deadlines \subseteq Nat
    BY DEF Deadlines, TableOK
  <1>2. CASE Deadlines = {}
    BY <1>2 DEF Earliest
  <1>3. CASE Deadlines # {}
    <2> DEFINE Below(t) == {d \in Deadlines : d < t}
               Cuts     == {Below(t) : t \in Deadlines}
    <2>1. ASSUME NEW t \in Deadlines PROVE Below(t) \in FiniteSubsetsOf(Nat)
      <3>1. t \in Nat /\ 0 \in Int
        BY <1>1
      <3>2. IsFiniteSet(0..t)
        BY <3>1, FS_Interval
      <3>3. ASSUME NEW d \in Below(t) PROVE d \in Nat /\ d \in 0..t
        <4>1. d \in Deadlines /\ d < t
          OBVIOUS
        <4>2. d \in Nat
          BY <1>1, <4>1
        <4> QED BY <3>1, <4>1, <4>2
      <3>4. IsFiniteSet(Below(t))
        BY <3>2, <3>3, FS_Subset
      <3> QED BY <1>1, <3>4 DEF FiniteSubsetsOf
    <2>2. Cuts \subseteq FiniteSubsetsOf(Nat) /\ Cuts # {}
      BY <1>3, <2>1
    <2> HIDE DEF Below
    <2>3. PICK c \in Cuts : \A b \in Cuts : ~ (<<b, c>> \in StrictSubsetOrdering(Nat))
      <3> HIDE DEF Cuts
      <3>1. IsWellFoundedOn(StrictSubsetOrdering(Nat), FiniteSubsetsOf(Nat))
        BY FS_StrictSubsetOrderingWellFounded
      <3> QED BY <2>2, <3>1, WFMin
    <2>4. PICK t \in Deadlines : c = Below(t)
      OBVIOUS
    <2>5. ASSUME NEW u \in Deadlines, u < t PROVE FALSE
      <3>0. u \in Nat /\ t \in Nat
        BY <1>1
      <3>a. ASSUME NEW d \in Below(u) PROVE d \in Below(t)
        <4>1. d \in Deadlines /\ d < u
          BY DEF Below
        <4>2. d \in Nat
          BY <1>1, <4>1
        <4>3. d < t
          BY <2>5, <3>0, <4>1, <4>2
        <4> QED BY <4>1, <4>3 DEF Below
      <3>b. ~ (u < u)
        BY <3>0
      <3>1. Below(u) \subseteq Below(t) /\ u \in Below(t) /\ u \notin Below(u)
        BY <2>5, <3>a, <3>b DEF Below
      <3>2. Below(u) \in SUBSET Nat /\ Below(t) \in SUBSET Nat
        BY <1>1 DEF Below
      <3>3. Below(u) # Below(t)
        BY <3>1
      <3>4. <<Below(u), Below(t)>> \in StrictSubsetOrdering(Nat)
        BY <3>1, <3>2, <3>3 DEF StrictSubsetOrdering
      <3>5. Below(u) \in Cuts
        OBVIOUS
      <3> QED BY <2>3, <2>4, <3>4, <3>5
    <2>6. \E s \in Deadlines : \A u \in Deadlines : s <= u
      BY <1>1, <2>5
    <2> QED BY <1>1, <1>3, <2>6 DEF Earliest
  <1> QED BY <1>2, <1>3

\* An abort keeps the types, and is of an execution whose time is up.
LEMMA AbortType ==
  ASSUME TableOK, TimersOK, NEW i \in Instances, NEW e \in Execs, AbortIfExpired(i, e)
  PROVE  /\ status' \in [Execs -> Phases] /\ timers' \in [Instances -> [Execs -> Nat]]
         /\ \A d \in Execs : status[d] # status'[d] => Expired(d)
  <1>1. status \in [Execs -> Phases] /\ timers \in [Instances -> [Execs -> Nat]] /\ "aborted" \in Phases
    BY DEF TableOK, TimersOK, Phases
  <1>2. CASE Expired(e)
    <2>1. status' = [status EXCEPT ![e] = "aborted"] /\ timers' = [timers EXCEPT ![i][e] = 0]
      BY <1>2 DEF AbortIfExpired
    <2>2. timers[i] \in [Execs -> Nat] /\ timers' = [timers EXCEPT ![i] = [timers[i] EXCEPT ![e] = 0]]
      BY <1>1, <2>1
    <2>3. timers' \in [Instances -> [Execs -> Nat]]
      BY <1>1, <2>2
    <2> QED BY <1>1, <1>2, <2>1, <2>3
  <1>3. CASE ~Expired(e)
    BY <1>1, <1>3 DEF AbortIfExpired
  <1> QED BY <1>2, <1>3

\* A read that has not returned is one of the reads.
LEMMA AskType == \A w : Ask(w) \in Reads
  BY DEF Ask, Reads

\* No scan is one of the scans, which nobody awaits.
LEMMA NoScanType == NoScan \in Scans /\ NoScan.at = "idle" /\ NoScan.awaited = {}
  <1>1. <<>> \in Seq(Execs)
    OBVIOUS
  <1> QED BY <1>1 DEF NoScan, Scans, Callers

\* Nobody awaits a scan in the initial states.
LEMMA InitInv == Init => Inv
  <1> SUFFICES ASSUME Init PROVE Inv
    OBVIOUS
  <1>1. TableOK /\ TimersOK
    BY TimeoutAssumption DEF Init, NoTimers, TableOK, TimersOK, Phases, Lives
  <1>2. ScansOK /\ Quiet /\ RescanNeverStops
    BY NoScanType DEF Init, ScansOK, Quiet, Stopped, RescanNeverStops
  <1> QED BY <1>1, <1>2, TypeParts DEF Inv

\* The end of a scan: the periodic timer is set for those who stood for it.
LEMMA ScanDoneInv ==
  ASSUME TimersOK, ScansOK, Quiet, RescanNeverStops, UNCHANGED <<timers, due, next>>,
         NEW i \in Instances, NEW fails \in BOOLEAN, ScanDone(i, fails)
  PROVE  TimersOK' /\ ScansOK' /\ Quiet' /\ RescanNeverStops'
  <1>1. scan' = [scan EXCEPT ![i] = NoScan] /\ scan \in [Instances -> Scans] /\ refresh \in [Instances -> SUBSET Reads]
    BY DEF ScanDone, ScansOK
  <1>2. scan'[i] = NoScan /\ \A j \in Instances \ {i} : scan'[j] = scan[j]
    BY <1>1
  <1>3. ScansOK'
    <2>1. refresh' \in [Instances -> SUBSET Reads]
      BY <1>1, AskType DEF ScanDone
    <2> QED BY <1>1, <2>1, NoScanType DEF ScansOK
  <1>4. TimersOK'
    BY DEF ScanDone, TimersOK, Lives
  <1>5. \A j \in Instances \ {i} : life'[j] = life[j] /\ scanTimer'[j] = scanTimer[j] /\ next'[j] = next[j]
    BY DEF ScanDone, TimersOK
  <1>6. next'[i] = next[i] /\ (Stopped(i) => life'[i] = life[i] /\ scanTimer'[i] = scanTimer[i])
        /\ (Stopped(i)' => Stopped(i))
        /\ (life'[i] = "on" => life[i] = "on")
        /\ (scanTimer'[i] \/ ~ ("timer" \in scan[i].awaited) \/ Stopped(i))
        /\ (scanTimer[i] => scanTimer'[i])
    BY DEF ScanDone, TimersOK, Stopped
  <1>7. Quiet'
    <2>1. ASSUME NEW j \in Instances PROVE Quiet!(j)'
      <3>1. CASE j = i
        BY <1>2, <1>6, <3>1, NoScanType DEF Quiet, Stopped
      <3>2. CASE j # i
        BY <1>2, <1>5, <3>2 DEF Quiet, Stopped
      <3> QED BY <3>1, <3>2
    <2> QED BY <2>1 DEF Quiet
  <1>8. RescanNeverStops'
    <2>1. ASSUME NEW j \in Instances PROVE RescanNeverStops!(j)'
      <3>1. CASE j = i
        BY <1>6, <3>1 DEF RescanNeverStops, Stopped
      <3>2. CASE j # i
        BY <1>2, <1>5, <3>2 DEF RescanNeverStops
      <3> QED BY <3>1, <3>2
    <2> QED BY <2>1 DEF RescanNeverStops
  <1> QED BY <1>3, <1>4, <1>7, <1>8

\* A request for a scan, with the timer that made it given up.
LEMMA StartScanInv ==
  ASSUME TimersOK, ScansOK, Quiet, RescanNeverStops, NEW i \in Instances, NEW who \in Callers,
         StartScan(i, who), refresh' = refresh,
         life'[i] # "off" /\ (life'[i] = "on" => life[i] = "on") /\ (Stopped(i)' => Stopped(i)),
         scanTimer[i] => scanTimer'[i] \/ who = "timer",
         Stopped(i)' => ~scanTimer'[i] /\ next'[i] = 0,
         \A j \in Instances \ {i} :
           life'[j] = life[j] /\ scanTimer'[j] = scanTimer[j] /\ next'[j] = next[j]
  PROVE  ScansOK' /\ Quiet' /\ RescanNeverStops'
  <1>1. /\ scan' \in [Instances -> Scans]
        /\ scan'[i].awaited = scan[i].awaited \cup {who} /\ scan'[i].at # "idle"
        /\ \A j \in Instances \ {i} : scan'[j] = scan[j]
    BY StartScanAwaits DEF Quiet
  <1>2. Quiet'
    <2>1. ASSUME NEW j \in Instances PROVE Quiet!(j)'
      <3>1. CASE j = i
        BY <1>1, <3>1 DEF Quiet, Stopped
      <3>2. CASE j # i
        BY <1>1, <3>2 DEF Quiet, Stopped
      <3> QED BY <3>1, <3>2
    <2> QED BY <2>1 DEF Quiet
  <1>3. RescanNeverStops'
    <2>1. ASSUME NEW j \in Instances PROVE RescanNeverStops!(j)'
      <3>1. CASE j = i
        BY <1>1, <3>1 DEF RescanNeverStops
      <3>2. CASE j # i
        BY <1>1, <3>2 DEF RescanNeverStops
      <3> QED BY <3>1, <3>2
    <2> QED BY <2>1 DEF RescanNeverStops
  <1> QED BY <1>1, <1>2, <1>3 DEF ScansOK

------------------------------------------------------------------------------
(* The steps                                                                *)

\* Every step keeps the timers, the scans and those who wait for them together.
LEMMA NextInv == Inv /\ [Next]_vars => Inv'
  <1> SUFFICES ASSUME Inv, [Next]_vars PROVE Inv'
    OBVIOUS
  <1>t. TypeOK /\ TableOK /\ TimersOK /\ ScansOK /\ Quiet /\ RescanNeverStops
    BY TypeParts DEF Inv
  <1> SUFFICES TableOK' /\ TimersOK' /\ ScansOK' /\ Quiet' /\ RescanNeverStops'
    <2>1. TypeOK' <=> TableOK' /\ TimersOK' /\ ScansOK'
      BY TypeParts, PTL
    <2> QED BY <2>1 DEF Inv
  <1> USE <1>t
  <1>0. CASE UNCHANGED vars
    BY <1>0 DEF vars, table, manager, TableOK, TimersOK, ScansOK, Quiet, RescanNeverStops, Stopped
  <1>1. CASE Tick
    BY <1>1, TimeoutAssumption DEF Tick, table, manager, TableOK, TimersOK, ScansOK, Quiet, RescanNeverStops, Stopped
  <1>2. ASSUME NEW e \in Execs, Pause(e) PROVE TableOK' /\ TimersOK' /\ ScansOK' /\ Quiet' /\ RescanNeverStops'
    <2>1. holder[e] \in Instances /\ deadline[e] \in Nat
      BY <1>2 DEF Pause, TableOK
    <2>2. TableOK' /\ ScansOK'
      BY <1>2 DEF Pause, TableOK, ScansOK
    <2>3. TimersOK'
      <3>1. \A a, b \in Nat : Earlier(a, b) \in Nat
        BY DEF Earlier
      <3>2. next' \in [Instances -> Nat]
        BY <1>2, <2>1, <3>1 DEF Pause, TimersOK
      <3>3. timers' \in [Instances -> [Execs -> Nat]] /\ due' \in [Instances -> SUBSET Execs]
        <4> DEFINE i == holder[e]
        <4>1. i \in Instances /\ timers \in [Instances -> [Execs -> Nat]] /\ due \in [Instances -> SUBSET Execs]
          BY <2>1 DEF TimersOK
        <4>2. \/ timers' = [timers EXCEPT ![i][e] = deadline[e]] /\ due' = due
              \/ timers' = timers /\ due' = [due EXCEPT ![i] = due[i] \cup {e}]
          BY <1>2 DEF Pause
        <4> HIDE DEF i
        <4>3. CASE timers' = [timers EXCEPT ![i][e] = deadline[e]] /\ due' = due
          BY <2>1, <4>1, <4>3
        <4>4. CASE timers' = timers /\ due' = [due EXCEPT ![i] = due[i] \cup {e}]
          BY <4>1, <4>4
        <4> QED BY <4>2, <4>3, <4>4
      <3> QED BY <1>2, <3>2, <3>3 DEF Pause, TimersOK
    <2>4. Quiet' /\ RescanNeverStops'
      BY <1>2, <2>1 DEF Pause, TimersOK, Quiet, RescanNeverStops, Stopped
    <2> QED BY <2>2, <2>3, <2>4
  <1>3. ASSUME NEW e \in Execs, Exit(e) PROVE TableOK' /\ TimersOK' /\ ScansOK' /\ Quiet' /\ RescanNeverStops'
    <2>1. holder[e] \in Instances
      BY <1>3 DEF Exit, TableOK
    <2>2. TableOK'
      <3>1. status' \in [Execs -> Phases]
        BY <1>3 DEF Exit, TableOK, Phases
      <3> QED BY <1>3, <3>1 DEF Exit, TableOK
    <2>3. TimersOK' /\ ScansOK'
      <3>1. next' \in [Instances -> Nat] /\ refresh' \in [Instances -> SUBSET Reads]
        BY <1>3, <2>1, AskType DEF Exit, TimersOK, ScansOK
      <3>2. timers' \in [Instances -> [Execs -> Nat]]
        BY <1>3, <2>1 DEF Exit, TimersOK
      <3> QED BY <1>3, <3>1, <3>2 DEF Exit, TimersOK, ScansOK
    <2>4. Quiet' /\ RescanNeverStops'
      BY <1>3, <2>1 DEF Exit, TimersOK, Quiet, RescanNeverStops, Stopped
    <2> QED BY <2>2, <2>3, <2>4
  <1>4. ASSUME NEW e \in Execs, Lapse(e) PROVE TableOK' /\ TimersOK' /\ ScansOK' /\ Quiet' /\ RescanNeverStops'
    BY <1>4 DEF Lapse, manager, TableOK, TimersOK, ScansOK, Quiet, RescanNeverStops, Stopped
  <1>5. ASSUME NEW i \in Instances, Load(i) PROVE TableOK' /\ TimersOK' /\ ScansOK' /\ Quiet' /\ RescanNeverStops'
    <2>1. TableOK' /\ TimersOK'
      BY <1>5 DEF Load, table, TableOK, TimersOK, Lives
    <2>2. life'[i] = "loading" /\ \A j \in Instances \ {i} : life'[j] = life[j]
      BY <1>5 DEF Load, TimersOK
    <2>3. (life[i] = "failed" => ~Stopped(i)) /\ ~Stopped(i)'
      BY <2>2 DEF Stopped
    <2> QED BY <1>5, <2>1, <2>2, <2>3, StartScanInv DEF Load, Callers
  <1>6. ASSUME NEW i \in Instances, ScanTimer(i) PROVE TableOK' /\ TimersOK' /\ ScansOK' /\ Quiet' /\ RescanNeverStops'
    <2>1. TableOK' /\ TimersOK'
      BY <1>6 DEF ScanTimer, table, TableOK, TimersOK
    <2>2. \A j \in Instances \ {i} : scanTimer'[j] = scanTimer[j]
      BY <1>6 DEF ScanTimer, TimersOK
    <2>3. ~Stopped(i) /\ ~Stopped(i)' /\ life[i] # "off"
      BY <1>6 DEF ScanTimer, Quiet, Stopped
    <2> QED BY <1>6, <2>1, <2>2, <2>3, StartScanInv DEF ScanTimer, Callers
  <1>7. ASSUME NEW i \in Instances, NextTimer(i) PROVE TableOK' /\ TimersOK' /\ ScansOK' /\ Quiet' /\ RescanNeverStops'
    <2>1. TableOK' /\ TimersOK'
      BY <1>7 DEF NextTimer, table, TableOK, TimersOK
    <2>2. \A j \in Instances \ {i} : next'[j] = next[j]
      BY <1>7 DEF NextTimer, TimersOK
    <2>3. ~Stopped(i) /\ ~Stopped(i)' /\ life[i] # "off"
      BY <1>7 DEF NextTimer, Quiet, Stopped
    <2> QED BY <1>7, <2>1, <2>2, <2>3, StartScanInv DEF NextTimer, Callers
  <1>8. ASSUME NEW i \in Instances, Unload(i) PROVE TableOK' /\ TimersOK' /\ ScansOK' /\ Quiet' /\ RescanNeverStops'
    <2>1. TableOK' /\ ScansOK'
      BY <1>8 DEF Unload, table, TableOK, ScansOK
    <2>2. TimersOK'
      BY <1>8 DEF Unload, NoTimers, TimersOK, Lives
    <2>3. Quiet' /\ RescanNeverStops'
      BY <1>8 DEF Unload, TimersOK, Quiet, RescanNeverStops, Stopped
    <2> QED BY <2>1, <2>2, <2>3
  <1>9. ASSUME NEW i \in Instances, Unloaded(i) PROVE TableOK' /\ TimersOK' /\ ScansOK' /\ Quiet' /\ RescanNeverStops'
    <2>1. TableOK' /\ ScansOK' /\ TimersOK'
      BY <1>9 DEF Unloaded, table, TableOK, ScansOK, TimersOK, Lives
    <2>3. Quiet' /\ RescanNeverStops'
      BY <1>9 DEF Unloaded, TimersOK, Quiet, RescanNeverStops, Stopped
    <2> QED BY <2>1, <2>3
  <1>10. ASSUME NEW i \in Instances, Crash(i) PROVE TableOK' /\ TimersOK' /\ ScansOK' /\ Quiet' /\ RescanNeverStops'
    <2>1. TableOK' /\ ScansOK'
      BY <1>10, NoScanType DEF Crash, TableOK, ScansOK
    <2>2. TimersOK'
      BY <1>10 DEF Crash, NoTimers, TimersOK, Lives
    <2>3. /\ scan'[i] = NoScan /\ life'[i] = "off" /\ ~scanTimer'[i] /\ next'[i] = 0
          /\ \A j \in Instances \ {i} : scan'[j] = scan[j] /\ life'[j] = life[j]
                                          /\ scanTimer'[j] = scanTimer[j] /\ next'[j] = next[j]
      BY <1>10 DEF Crash, TimersOK, ScansOK
    <2>4. Quiet'
      <3>1. ASSUME NEW j \in Instances PROVE Quiet!(j)'
        <4>1. CASE j = i
          BY <2>3, <4>1, NoScanType DEF Stopped
        <4>2. CASE j # i
          BY <2>3, <4>2 DEF Quiet, Stopped
        <4> QED BY <4>1, <4>2
      <3> QED BY <3>1 DEF Quiet
    <2>5. RescanNeverStops'
      BY <2>3 DEF RescanNeverStops
    <2> QED BY <2>1, <2>2, <2>4, <2>5
  <1>11. ASSUME NEW i \in Instances, ScanQuery(i) PROVE TableOK' /\ TimersOK' /\ ScansOK' /\ Quiet' /\ RescanNeverStops'
    <2> DEFINE expired == {e \in Execs : status[e] = "started" /\ deadline[e] # 0 /\ deadline[e] < now}
               size    == IF Cardinality(expired) < BatchSize THEN Cardinality(expired) ELSE BatchSize
    <2>1. PICK left \in [1..size -> expired] : scan' = [scan EXCEPT ![i].at = "abort", ![i].left = left]
      BY <1>11 DEF ScanQuery
    <2>2. size \in Nat
      <3>1. IsFiniteSet(expired)
        BY TimeoutAssumption, FS_Subset
      <3>2. Cardinality(expired) \in Nat
        BY <3>1, FS_CardinalityType
      <3> QED BY <3>2, TimeoutAssumption
    <2>3. left \in Seq(Execs)
      <3>1. expired \subseteq Execs
        OBVIOUS
      <3> HIDE DEF expired, size
      <3>2. left \in [1..size -> Execs]
        BY <2>1, <3>1
      <3>3. [1..size -> Execs] \subseteq Seq(Execs)
        BY <2>2
      <3> QED BY <3>2, <3>3
    <2> HIDE DEF expired, size
    <2> DEFINE new == [[scan[i] EXCEPT !.at = "abort"] EXCEPT !.left = left]
    <2>4. scan \in [Instances -> Scans] /\ scan[i] \in Scans
      BY DEF ScansOK
    <2>5. scan' = [scan EXCEPT ![i] = new]
      BY <2>1, <2>4
    <2>6. new \in Scans /\ new.awaited = scan[i].awaited /\ new.at = "abort"
      BY <2>3, <2>4 DEF Scans
    <2> HIDE DEF new
    <2>7. ScansOK' /\ scan'[i] = new /\ \A j \in Instances \ {i} : scan'[j] = scan[j]
      BY <1>11, <2>4, <2>5, <2>6 DEF ScanQuery, ScansOK
    <2>8. TableOK' /\ TimersOK'
      BY <1>11 DEF ScanQuery, table, TableOK, TimersOK
    <2>9. Quiet'
      BY <1>11, <2>6, <2>7 DEF ScanQuery, Quiet, Stopped
    <2>10. RescanNeverStops'
      BY <1>11, <2>6, <2>7 DEF ScanQuery, RescanNeverStops
    <2> QED BY <2>7, <2>8, <2>9, <2>10
  <1>12. ASSUME NEW i \in Instances, ScanAbort(i) PROVE TableOK' /\ TimersOK' /\ ScansOK' /\ Quiet' /\ RescanNeverStops'
    <2>1. scan \in [Instances -> Scans] /\ scan[i] \in Scans /\ scan[i].left \in Seq(Execs) /\ scan[i].left # <<>>
      BY <1>12 DEF ScanAbort, ScansOK, Scans
    <2>2. Head(scan[i].left) \in Execs /\ Tail(scan[i].left) \in Seq(Execs)
      BY <2>1
    <2> DEFINE new == [scan[i] EXCEPT !.left = Tail(scan[i].left)]
    <2>3. scan' = [scan EXCEPT ![i] = new]
      BY <1>12, <2>1 DEF ScanAbort
    <2>4. new \in Scans /\ new.awaited = scan[i].awaited /\ new.at = scan[i].at
      BY <2>1, <2>2 DEF Scans
    <2> HIDE DEF new
    <2>5. scan' \in [Instances -> Scans] /\ scan'[i] = new /\ \A j \in Instances \ {i} : scan'[j] = scan[j]
      BY <2>1, <2>3, <2>4
    <2>6. status' \in [Execs -> Phases] /\ timers' \in [Instances -> [Execs -> Nat]]
      BY <1>12, <2>2, AbortType DEF ScanAbort
    <2>7. TableOK' /\ TimersOK' /\ ScansOK'
      BY <1>12, <2>5, <2>6 DEF ScanAbort, TableOK, TimersOK, ScansOK
    <2>8. \A j \in Instances : scan'[j].awaited = scan[j].awaited /\ scan'[j].at = scan[j].at
      BY <2>4, <2>5
    <2>9. Quiet' /\ RescanNeverStops'
      BY <1>12, <2>8 DEF ScanAbort, Quiet, RescanNeverStops, Stopped
    <2> QED BY <2>7, <2>9
  <1>13. ASSUME NEW i \in Instances, ScanFails(i) PROVE TableOK' /\ TimersOK' /\ ScansOK' /\ Quiet' /\ RescanNeverStops'
    <2>1. TableOK'
      BY <1>13 DEF ScanFails, table, TableOK
    <2> QED BY <1>13, <2>1, ScanDoneInv DEF ScanFails
  <1>14. ASSUME NEW i \in Instances, ScanEnds(i) PROVE TableOK' /\ TimersOK' /\ ScansOK' /\ Quiet' /\ RescanNeverStops'
    <2>1. TableOK'
      BY <1>14 DEF ScanEnds, table, TableOK
    <2> QED BY <1>14, <2>1, ScanDoneInv DEF ScanEnds
  <1>15. ASSUME NEW i \in Instances, NEW r \in refresh[i], RefreshRead(i, r)
         PROVE  TableOK' /\ TimersOK' /\ ScansOK' /\ Quiet' /\ RescanNeverStops'
    <2>1. [r EXCEPT !.seen = TRUE, !.at = Earliest] \in Reads
      <3>1. r \in Reads
        BY DEF ScansOK
      <3> QED BY <3>1, EarliestType DEF Reads
    <2>2. ScansOK'
      <3> DEFINE read == [r EXCEPT !.seen = TRUE, !.at = Earliest]
      <3>1. refresh' = [refresh EXCEPT ![i] = (refresh[i] \ {r}) \cup {read}] /\ scan' = scan
        BY <1>15 DEF RefreshRead
      <3> HIDE DEF read
      <3>2. read \in Reads
        BY <2>1 DEF read
      <3> QED BY <3>1, <3>2 DEF ScansOK
    <2>3. TableOK' /\ TimersOK' /\ Quiet' /\ RescanNeverStops'
      BY <1>15 DEF RefreshRead, table, TableOK, TimersOK, Quiet, RescanNeverStops, Stopped
    <2> QED BY <2>2, <2>3
  <1>16. ASSUME NEW i \in Instances, NEW r \in refresh[i], RefreshApply(i, r)
         PROVE  TableOK' /\ TimersOK' /\ ScansOK' /\ Quiet' /\ RescanNeverStops'
    <2>1. r.at \in Nat
      BY DEF ScansOK, Reads
    <2>2. TableOK' /\ ScansOK'
      BY <1>16 DEF RefreshApply, table, TableOK, ScansOK
    <2>3. TimersOK'
      <3>1. next' \in [Instances -> Nat]
        BY <1>16, <2>1 DEF RefreshApply, TimersOK
      <3>2. life' \in [Instances -> Lives] /\ scanTimer' \in [Instances -> BOOLEAN]
        BY <1>16 DEF RefreshApply, TimersOK, Lives
      <3> QED BY <1>16, <3>1, <3>2 DEF RefreshApply, TimersOK
    <2>4. Quiet' /\ RescanNeverStops'
      BY <1>16 DEF RefreshApply, TimersOK, Quiet, RescanNeverStops, Stopped
    <2> QED BY <2>2, <2>3, <2>4
  <1>17. ASSUME NEW i \in Instances, NEW e \in Execs, Run(i, e)
         PROVE  TableOK' /\ TimersOK' /\ ScansOK' /\ Quiet' /\ RescanNeverStops'
    <2> DEFINE t == IF status[e] = "queueing" THEN now + Timeout[e] ELSE deadline[e]
    <2>1. t \in Nat
      BY TimeoutAssumption DEF TableOK
    <2>2. /\ status' = [status EXCEPT ![e] = "started"] /\ deadline' = [deadline EXCEPT ![e] = t]
          /\ next' = [next EXCEPT ![i] = Earlier(@, t)] /\ life[i] = "on"
      BY <1>17 DEF Run
    <2> HIDE DEF t
    <2>3. TableOK'
      BY <1>17, <2>1, <2>2 DEF Run, TableOK, Phases
    <2>4. TimersOK' /\ ScansOK'
      <3>1. \A a, b \in Nat : Earlier(a, b) \in Nat
        BY DEF Earlier
      <3>2. next' \in [Instances -> Nat]
        BY <2>1, <2>2, <3>1 DEF TimersOK
      <3>3. timers' \in [Instances -> [Execs -> Nat]]
        BY <1>17 DEF Run, TimersOK
      <3> QED BY <1>17, <3>2, <3>3 DEF Run, TimersOK, ScansOK
    <2>5. Quiet' /\ RescanNeverStops'
      BY <1>17, <2>2 DEF Run, TimersOK, Quiet, RescanNeverStops, Stopped
    <2> QED BY <2>3, <2>4, <2>5
  <1>18. ASSUME NEW i \in Instances, NEW e \in Execs, TooLate(i, e)
         PROVE  TableOK' /\ TimersOK' /\ ScansOK' /\ Quiet' /\ RescanNeverStops'
    <2>1. status' \in [Execs -> Phases] /\ timers' \in [Instances -> [Execs -> Nat]]
      BY <1>18, AbortType DEF TooLate
    <2> QED BY <1>18, <2>1 DEF TooLate, TableOK, TimersOK, ScansOK, Quiet, RescanNeverStops, Stopped
  <1>19. ASSUME NEW i \in Instances, NEW e \in Execs, OwnerTimer(i, e)
         PROVE  TableOK' /\ TimersOK' /\ ScansOK' /\ Quiet' /\ RescanNeverStops'
    <2>1. timers' \in [Instances -> [Execs -> Nat]] /\ due' \in [Instances -> SUBSET Execs]
      BY <1>19 DEF OwnerTimer, TimersOK
    <2> QED BY <1>19, <2>1 DEF OwnerTimer, TableOK, TimersOK, ScansOK, Quiet, RescanNeverStops, Stopped
  <1>20. ASSUME NEW i \in Instances, NEW e \in Execs, OwnerAbort(i, e)
         PROVE  TableOK' /\ TimersOK' /\ ScansOK' /\ Quiet' /\ RescanNeverStops'
    <2>1. status' \in [Execs -> Phases] /\ timers' \in [Instances -> [Execs -> Nat]]
          /\ due' \in [Instances -> SUBSET Execs]
      BY <1>20, AbortType DEF OwnerAbort, TimersOK
    <2> QED BY <1>20, <2>1 DEF OwnerAbort, TableOK, TimersOK, ScansOK, Quiet, RescanNeverStops, Stopped
  <1>21. ASSUME NEW i \in Instances, NEW e \in Execs, OwnerFails(i, e)
         PROVE  TableOK' /\ TimersOK' /\ ScansOK' /\ Quiet' /\ RescanNeverStops'
    <2>1. due' \in [Instances -> SUBSET Execs]
      BY <1>21 DEF OwnerFails, TimersOK
    <2> QED BY <1>21, <2>1 DEF OwnerFails, table, TableOK, TimersOK, ScansOK, Quiet, RescanNeverStops, Stopped
  <1> HIDE <1>t
  <1> QED
    BY <1>0, <1>1, <1>2, <1>3, <1>4, <1>5, <1>6, <1>7, <1>8, <1>9, <1>10, <1>11, <1>12, <1>13, <1>14,
       <1>15, <1>16, <1>17, <1>18, <1>19, <1>20, <1>21 DEF Next, Scanning, Refreshing

\* The inductive invariant.
LEMMA SpecInv == Spec => []Inv
  BY InitInv, NextInv, PTL DEF Spec

------------------------------------------------------------------------------
(* The theorems                                                             *)

\* The table, the timers, the scans and the reads have their types.
THEOREM TypeCorrect == Spec => []TypeOK
  <1>1. Inv => TypeOK
    BY DEF Inv
  <1> QED BY <1>1, SpecInv, PTL

\* Whatever scan fails, an instance that is on has its next scan before it.
THEOREM ScanningGoesOn == Spec => []RescanNeverStops
  <1>1. Inv => RescanNeverStops
    BY DEF Inv
  <1> QED BY <1>1, SpecInv, PTL

\* After a stop no scan runs and no timer of the whole table is set.
THEOREM StopsQuietly == Spec => []OffIsQuiet
  <1>1. Inv => OffIsQuiet
    BY DEF Inv, Quiet, OffIsQuiet, Stopped
  <1> QED BY <1>1, SpecInv, PTL

\* Only an execution that is started and whose time is up is aborted.
THEOREM NobodyElseIsAborted == Spec => OnlyExpiredAreAborted
  <1>1. ASSUME TypeOK, [Next]_vars
        PROVE  [\A e \in Execs : status[e] # status'[e] /\ status'[e] = "aborted" => Expired(e)]_vars
    <2> SUFFICES ASSUME NEW d \in Execs, status[d] # status'[d], status'[d] = "aborted"
                 PROVE  Expired(d)
      OBVIOUS
    <2>0. TableOK /\ TimersOK /\ ScansOK
      BY <1>1, TypeParts
    <2>1. ASSUME NEW i \in Instances, NEW e \in Execs, AbortIfExpired(i, e) PROVE Expired(d)
      BY <2>0, <2>1, AbortType
    <2>2. ASSUME NEW i \in Instances, ScanAbort(i) PROVE Expired(d)
      <3>1. scan[i].left \in Seq(Execs) /\ scan[i].left # <<>>
        BY <2>0, <2>2 DEF ScanAbort, ScansOK, Scans
      <3>2. Head(scan[i].left) \in Execs
        BY <3>1
      <3> QED BY <2>1, <2>2, <3>2 DEF ScanAbort
    <2>3. ASSUME NEW i \in Instances, NEW e \in Execs, TooLate(i, e) \/ OwnerAbort(i, e) PROVE Expired(d)
      BY <2>1, <2>3 DEF TooLate, OwnerAbort
    <2>4. ASSUME NEW i \in Instances, NEW e \in Execs, Run(i, e) PROVE FALSE
      BY <2>0, <2>4 DEF Run, TableOK
    <2>5. ASSUME NEW e \in Execs, Exit(e) PROVE FALSE
      BY <2>0, <2>5 DEF Exit, TableOK
    <2>6. status' # status
      OBVIOUS
    <2>7. ~UNCHANGED vars /\ ~Tick
      BY <2>6 DEF vars, table, Tick
    <2>8. \A e \in Execs : ~Pause(e) /\ ~Lapse(e)
      BY <2>6 DEF Pause, Lapse
    <2>9. \A i \in Instances : ~Load(i) /\ ~Unload(i) /\ ~Unloaded(i) /\ ~Crash(i)
      BY <2>6 DEF Load, Unload, Unloaded, Crash, table
    <2>10. \A i \in Instances : ~ScanTimer(i) /\ ~NextTimer(i) /\ ~ScanQuery(i) /\ ~ScanFails(i) /\ ~ScanEnds(i)
      BY <2>6 DEF ScanTimer, NextTimer, ScanQuery, ScanFails, ScanEnds, table
    <2>11. \A i \in Instances : ~Refreshing(i)
      BY <2>6 DEF Refreshing, RefreshRead, RefreshApply, table
    <2>12. \A i \in Instances, e \in Execs : ~OwnerTimer(i, e) /\ ~OwnerFails(i, e)
      BY <2>6 DEF OwnerTimer, OwnerFails, table
    <2> QED
      BY <1>1, <2>2, <2>3, <2>4, <2>5, <2>7, <2>8, <2>9, <2>10, <2>11, <2>12 DEF Next, Scanning
  <1> QED BY <1>1, TypeCorrect, PTL DEF Spec, OnlyExpiredAreAborted
===============================================================================
