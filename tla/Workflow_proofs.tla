---------------------------- MODULE Workflow_proofs ----------------------------
(***************************************************************************)
(* From an event to the end of its execution: the buffer that makes         *)
(* executions of events, and the processor that runs one.                   *)
(*                                                                         *)
(* Nothing is left in memory when beforeStop has drained, for any events    *)
(* and keys.  The argument: an event that was taken is in the buffer, in    *)
(* the hands of the saving loop, a row or reported; and nothing comes in    *)
(* once beforeStop has begun.  Executions are created in the order of the   *)
(* events: the buffer is always the end of what was taken.                  *)
(*                                                                         *)
(* The branches of a parallel node are joined once, in every workflow, for  *)
(* any number of workers, tasks and resumptions.  The argument: what        *)
(* follows a parallel node was run, is about to be run, or waits for a job  *)
(* that may still be joined, and all of them together are no more than the  *)
(* runs of the parallel node.  For that the objects of a processor and the  *)
(* table have to agree on which joins are settled, whatever else has        *)
(* changed in the table since they were loaded.                             *)
(*                                                                         *)
(* A running execution never stands still with nothing to wait for.  The    *)
(* argument: the main line, and every branch whose result is missing, has   *)
(* somebody who will go on with it, and as nodes are finitely many, the     *)
(* innermost of them is a waiting node's job.                               *)
(*                                                                         *)
(* The result of a parallel node tells which of its branches have ended.    *)
(* The argument: the jobs of a branch come one after the other, only the    *)
(* last one is about to be looked at, and a branch that has ended was told  *)
(* unless somebody is about to look at that job.                            *)
(***************************************************************************)
EXTENDS Processor, EventBuffer, SequenceTheorems, FiniteSetTheorems, TLAPS

(***************************************************************************)
(* EventBuffer                                                             *)
(***************************************************************************)

Savings == {"off", "loop", "waiting", "resumed", "creating", "publishing"}
Stops   == {"no", "recovering", "loop", "saving", "executing", "drained", "rejected"}

\* TypeOK, in parts.
SeqsOK  == events \in Seq(Events) /\ rows \in Seq(Events) /\ accepted \in Seq(Events)
FlagsOK == ready \in BOOLEAN /\ executing \in BOOLEAN /\ recovering \in BOOLEAN
LoopOK  == /\ saving \in Savings /\ stopping \in Stops
           /\ current \in Events \cup {NoEvent}
           /\ current # NoEvent <=> saving = "creating"
RestOK  == failed \subseteq Events /\ taskCount \in 0..MaxTasks

\* The four parts are the type invariant.
LEMMA BufferTypeParts == BufferTypeOK <=> SeqsOK /\ FlagsOK /\ LoopOK /\ RestOK
  BY DEF BufferTypeOK, SeqsOK, FlagsOK, LoopOK, RestOK, Savings, Stops

\* No event that was taken is lost.
NoneLost == ToSet(accepted) \subseteq ToSet(rows) \cup failed \cup ToSet(events) \cup {current}

\* Nothing comes in once beforeStop has begun, and what it found when it looked
\* last stays so.
StopsForGood ==
  /\ stopping # "no" => ~ready
  /\ stopping = "drained" => events = <<>> /\ saving = "off" /\ ~executing

BufferInv == SeqsOK /\ FlagsOK /\ LoopOK /\ RestOK /\ NoneLost /\ StopsForGood

------------------------------------------------------------------------------
(* Sequences and their elements                                             *)

\* What is appended is one element more.
LEMMA AppendToSet ==
  ASSUME NEW S, NEW s \in Seq(S), NEW e \in S
  PROVE  Append(s, e) \in Seq(S) /\ ToSet(Append(s, e)) = ToSet(s) \cup {e}
  <1>1. /\ Append(s, e) \in Seq(S) /\ Len(Append(s, e)) = Len(s) + 1
        /\ \A i \in 1..Len(s) : Append(s, e)[i] = s[i]
        /\ Append(s, e)[Len(s) + 1] = e
    BY AppendProperties
  <1>2. DOMAIN s = 1..Len(s) /\ DOMAIN Append(s, e) = 1..(Len(s) + 1) /\ Len(s) \in Nat
    BY <1>1
  <1>3. 1..(Len(s) + 1) = 1..Len(s) \cup {Len(s) + 1}
    BY <1>2
  <1> QED BY <1>1, <1>2, <1>3 DEF ToSet

\* A sequence has its head and the elements of its tail.
LEMMA HeadTailToSet ==
  ASSUME NEW S, NEW s \in Seq(S), s # <<>>
  PROVE  Head(s) \in S /\ Tail(s) \in Seq(S) /\ ToSet(s) = {Head(s)} \cup ToSet(Tail(s))
  <1>1. /\ Head(s) = s[1] /\ Head(s) \in S /\ Tail(s) \in Seq(S) /\ Len(s) \in Nat \ {0}
        /\ Len(Tail(s)) = Len(s) - 1 /\ \A i \in 1..(Len(s) - 1) : Tail(s)[i] = s[i + 1]
    BY HeadTailProperties, EmptySeq, LenProperties
  <1>2. DOMAIN s = 1..Len(s) /\ DOMAIN Tail(s) = 1..(Len(s) - 1)
    BY <1>1, LenProperties
  <1>3. ASSUME NEW x \in ToSet(s) PROVE x \in {Head(s)} \cup ToSet(Tail(s))
    <2>1. PICK i \in 1..Len(s) : x = s[i]
      BY <1>2 DEF ToSet
    <2>2. CASE i = 1
      BY <1>1, <2>1, <2>2
    <2>3. CASE i # 1
      <3>1. i - 1 \in 1..(Len(s) - 1) /\ Tail(s)[i - 1] = s[i]
        BY <1>1, <2>1, <2>3
      <3> QED BY <1>2, <2>1, <3>1 DEF ToSet
    <2> QED BY <2>2, <2>3
  <1>4. ASSUME NEW x \in {Head(s)} \cup ToSet(Tail(s)) PROVE x \in ToSet(s)
    <2>1. CASE x = Head(s)
      BY <1>1, <1>2, <2>1 DEF ToSet
    <2>2. CASE x \in ToSet(Tail(s))
      <3>1. PICK i \in 1..(Len(s) - 1) : x = Tail(s)[i]
        BY <1>2, <2>2 DEF ToSet
      <3>2. i + 1 \in 1..Len(s) /\ x = s[i + 1]
        BY <1>1, <3>1
      <3> QED BY <1>2, <3>2 DEF ToSet
    <2> QED BY <1>4, <2>1, <2>2
  <1> QED BY <1>1, <1>3, <1>4

\* The empty sequence has no element.
LEMMA EmptyToSet == ToSet(<<>>) = {}
  BY DEF ToSet

------------------------------------------------------------------------------
(* The steps                                                                *)

\* The buffer is empty at first.
LEMMA BufferInitInv == BufferInit => BufferInv
  <1> SUFFICES ASSUME BufferInit PROVE BufferInv
    OBVIOUS
  <1>1. <<>> \in Seq(Events)
    OBVIOUS
  <1>2. SeqsOK /\ FlagsOK
    BY <1>1 DEF BufferInit, SeqsOK, FlagsOK
  <1>3. LoopOK
    BY DEF BufferInit, LoopOK, Savings, Stops
  <1>4. RestOK
    BY BufferAssumption DEF BufferInit, RestOK
  <1>5. NoneLost /\ StopsForGood
    BY EmptyToSet DEF BufferInit, NoneLost, StopsForGood
  <1> QED BY <1>2, <1>3, <1>4, <1>5 DEF BufferInv

\* Every step keeps the taken events accounted for.
LEMMA BufferNextInv == BufferInv /\ [BufferNext]_bufferVars => BufferInv'
  <1> SUFFICES ASSUME BufferInv, [BufferNext]_bufferVars PROVE BufferInv'
    OBVIOUS
  <1> USE DEF BufferInv, FlagsOK, RestOK
  <1>1. CASE UNCHANGED bufferVars
    BY <1>1 DEF bufferVars, SeqsOK, LoopOK, NoneLost, StopsForGood
  <1>2. CASE SetReady
    BY <1>2 DEF SetReady, SeqsOK, LoopOK, NoneLost, StopsForGood
  <1>3. ASSUME NEW e \in Events, Trigger(e) PROVE BufferInv'
    <2>1. CASE ~ready /\ failed' = failed \cup {e} /\ UNCHANGED <<events, saving, accepted>>
      BY <1>3, <2>1 DEF Trigger, SeqsOK, LoopOK, NoneLost, StopsForGood
    <2>2. CASE ready /\ events' = Append(events, e) /\ accepted' = Append(accepted, e)
               /\ saving' = SaveEvent(events', saving) /\ failed' = failed
      <3>1. SeqsOK' /\ ToSet(events') = ToSet(events) \cup {e} /\ ToSet(accepted') = ToSet(accepted) \cup {e}
        BY <1>3, <2>2, AppendToSet DEF Trigger, SeqsOK
      <3>2. LoopOK'
        BY <1>3, <2>2 DEF Trigger, SaveEvent, LoopOK, Savings
      <3>3. NoneLost'
        BY <1>3, <2>2, <3>1 DEF Trigger, NoneLost
      <3>4. StopsForGood'
        BY <1>3, <2>2 DEF Trigger, StopsForGood
      <3> QED BY <1>3, <2>2, <3>1, <3>2, <3>3, <3>4 DEF Trigger
    <2> QED BY <1>3, <2>1, <2>2 DEF Trigger
  <1>4. CASE Shift
    <2>1. /\ events \in Seq(Events) /\ events # <<>> /\ current' = Head(events) /\ events' = Tail(events)
          /\ saving' = "creating" /\ saving \in {"loop", "resumed"}
      BY <1>4 DEF Shift, SeqsOK
    <2>2. /\ Head(events) \in Events /\ Tail(events) \in Seq(Events)
          /\ ToSet(events) = {Head(events)} \cup ToSet(Tail(events))
      BY <2>1, HeadTailToSet
    <2>3. current = NoEvent
      BY <2>1 DEF LoopOK
    <2>4. LoopOK'
      BY <1>4, <2>1, <2>2, BufferAssumption DEF Shift, LoopOK, Savings
    <2>5. NoneLost'
      <3>1. NoEvent \notin ToSet(accepted)
        BY BufferAssumption DEF SeqsOK, ToSet
      <3> QED BY <1>4, <2>1, <2>2, <2>3, <3>1 DEF Shift, NoneLost
    <2> QED BY <1>4, <2>1, <2>2, <2>4, <2>5 DEF Shift, SeqsOK, StopsForGood
  <1>5. CASE AwaitTask
    BY <1>5 DEF AwaitTask, SeqsOK, LoopOK, NoneLost, StopsForGood, Savings
  <1>6. CASE Create
    <2>1. current \in Events /\ current' = NoEvent /\ saving' \in {"publishing", "loop"} /\ saving = "creating"
      BY <1>6 DEF Create, LoopOK
    <2>2. LoopOK'
      BY <1>6, <2>1 DEF Create, LoopOK, Savings
    <2>3. \/ rows' = Append(rows, current) /\ failed' = failed
          \/ rows' = rows /\ failed' = failed \cup {current}
      BY <1>6 DEF Create
    <2>4. SeqsOK' /\ ToSet(rows') \cup failed' = ToSet(rows) \cup failed \cup {current}
          /\ failed' \subseteq Events
      <3>1. events' = events /\ accepted' = accepted /\ rows \in Seq(Events)
        BY <1>6 DEF Create, SeqsOK
      <3>2. CASE rows' = Append(rows, current) /\ failed' = failed
        <4>1. rows' \in Seq(Events) /\ ToSet(rows') = ToSet(rows) \cup {current}
          BY <2>1, <3>1, <3>2, AppendToSet
        <4> QED BY <3>1, <3>2, <4>1 DEF SeqsOK
      <3>3. CASE rows' = rows /\ failed' = failed \cup {current}
        BY <2>1, <3>1, <3>3 DEF SeqsOK
      <3> QED BY <2>3, <3>2, <3>3
    <2>5. NoneLost'
      BY <1>6, <2>4 DEF Create, NoneLost
    <2> QED BY <1>6, <2>1, <2>2, <2>4, <2>5 DEF Create, StopsForGood
  <1>7. CASE Publish
    BY <1>7 DEF Publish, SeqsOK, LoopOK, NoneLost, StopsForGood, Savings
  <1>8. CASE LoopEnds
    BY <1>8 DEF LoopEnds, AwaitedSaving, SeqsOK, LoopOK, NoneLost, StopsForGood, Savings, Stops
  <1>9. CASE TaskStarts
    BY <1>9, BufferAssumption DEF TaskStarts, SeqsOK, LoopOK, NoneLost, StopsForGood
  <1>10. ASSUME NEW fails \in BOOLEAN, TaskEnds(fails) PROVE BufferInv'
    <2>1. saving' \in Savings /\ (saving' = "creating" <=> saving = "creating")
          /\ (saving' # "off" => saving # "off" \/ events # <<>>)
      BY <1>10 DEF TaskEnds, SaveEvent, LoopOK, Savings
    <2>2. stopping' \in Stops /\ (stopping' = "no" <=> stopping = "no") /\ (stopping' = "drained" <=> stopping = "drained")
      BY <1>10 DEF TaskEnds, AwaitedSaving, LoopOK, Stops
    <2> QED BY <1>10, <2>1, <2>2 DEF TaskEnds, SeqsOK, LoopOK, NoneLost, StopsForGood
  <1>11. CASE Recover
    BY <1>11 DEF Recover, SeqsOK, LoopOK, NoneLost, StopsForGood
  <1>12. CASE RecoveryEnds
    BY <1>12 DEF RecoveryEnds, SeqsOK, LoopOK, NoneLost, StopsForGood, Stops
  <1>13. CASE BeforeStop
    BY <1>13 DEF BeforeStop, SeqsOK, LoopOK, NoneLost, StopsForGood, Stops
  <1>14. CASE Drain
    <2>1. saving' \in Savings /\ (saving' = "creating" <=> saving = "creating")
      BY <1>14 DEF Drain, SaveEvent, LoopOK, Savings
    <2>2. stopping' \in Stops \ {"no"}
          /\ (stopping' = "drained" => saving = "off" /\ ~executing /\ events = <<>>)
      BY <1>14 DEF Drain, Stops
    <2>3. stopping' = "drained" => saving' = "off"
      BY <1>14, <2>2 DEF Drain, SaveEvent
    <2> QED BY <1>14, <2>1, <2>2, <2>3 DEF Drain, SeqsOK, LoopOK, NoneLost, StopsForGood
  <1> QED
    BY <1>1, <1>2, <1>3, <1>4, <1>5, <1>6, <1>7, <1>8, <1>9, <1>10, <1>11, <1>12, <1>13, <1>14 DEF BufferNext, Saver

\* The inductive invariant.
LEMMA BufferSpecInv == BufferSpec => []BufferInv
  BY BufferInitInv, BufferNextInv, PTL DEF BufferSpec

------------------------------------------------------------------------------
(* The order of the executions                                              *)

\* The events that were taken and have left the buffer come first.
Gone == Len(accepted) - Len(events)

\* The buffer is the end of what was taken, the current event is the one before
\* it, and the rows are from before that, in order.
OrderInv ==
  /\ \A i, j \in DOMAIN accepted : accepted[i] = accepted[j] => i = j
  /\ Len(events) <= Len(accepted)
  /\ \A k \in DOMAIN events : events[k] = accepted[Gone + k]
  /\ current # NoEvent => Gone \in DOMAIN accepted /\ current = accepted[Gone]
  /\ \A k \in DOMAIN rows : \E i \in DOMAIN accepted :
       rows[k] = accepted[i] /\ i <= Gone /\ (current # NoEvent => i < Gone)
  /\ CreatedInOrder

\* A sequence is a function on 1..n.
LEMMA Indices ==
  ASSUME NEW s \in Seq(Events)
  PROVE  Len(s) \in Nat /\ DOMAIN s = 1..Len(s) /\ \A k \in DOMAIN s : s[k] \in Events
  BY LenProperties, ElementOfSeq

\* Appending adds an index at the end.
LEMMA AppendIndices ==
  ASSUME NEW s \in Seq(Events), NEW e \in Events
  PROVE  /\ DOMAIN Append(s, e) = 1..(Len(s) + 1) /\ Len(Append(s, e)) = Len(s) + 1
         /\ \A k \in 1..Len(s) : Append(s, e)[k] = s[k]
         /\ Append(s, e)[Len(s) + 1] = e
  BY AppendProperties, LenProperties

LEMMA OrderInit == BufferInit => OrderInv
  BY DEF BufferInit, OrderInv, CreatedInOrder, Gone

\* A new event comes last.
LEMMA TriggerKeepsOrder ==
  ASSUME SeqsOK, OrderInv, NEW e \in Events, e \notin ToSet(accepted),
         events' = Append(events, e), accepted' = Append(accepted, e),
         current' = current, rows' = rows
  PROVE  OrderInv'
  <1> DEFINE n == Len(accepted)
             b == Len(events)
  <1>1. /\ n \in Nat /\ DOMAIN accepted = 1..n
        /\ b \in Nat /\ DOMAIN events = 1..b /\ b <= n
    BY Indices DEF SeqsOK, OrderInv
  <1>2. /\ DOMAIN accepted' = 1..(n + 1) /\ Len(accepted') = n + 1
        /\ \A k \in 1..n : accepted'[k] = accepted[k]
        /\ accepted'[n + 1] = e
        /\ DOMAIN events' = 1..(b + 1) /\ Len(events') = b + 1
        /\ \A k \in 1..b : events'[k] = events[k]
        /\ events'[b + 1] = e
    BY AppendIndices DEF SeqsOK
  <1>3. Gone = n - b /\ Gone' = n - b
    BY <1>1, <1>2 DEF Gone
  <1>4. \A k \in 1..n : accepted[k] # e
    BY <1>1 DEF ToSet
  <1> HIDE DEF n, b
  <1>5. ASSUME NEW i \in 1..(n + 1), NEW j \in 1..(n + 1), accepted'[i] = accepted'[j] PROVE i = j
    <2>1. (i \in 1..n \/ i = n + 1) /\ (j \in 1..n \/ j = n + 1)
      BY <1>1
    <2> QED BY <1>1, <1>2, <1>4, <1>5, <2>1 DEF OrderInv
  <1>6. ASSUME NEW k \in 1..(b + 1) PROVE events'[k] = accepted'[n - b + k]
    <2>1. CASE k \in 1..b
      <3>1. n - b + k \in 1..n
        BY <1>1, <2>1
      <3> QED BY <1>1, <1>2, <1>3, <2>1, <3>1 DEF OrderInv
    <2>2. CASE k = b + 1
      <3>1. n - b + k = n + 1
        BY <1>1, <2>2
      <3> QED BY <1>2, <2>2, <3>1
    <2> QED BY <1>1, <2>1, <2>2
  <1>7. current # NoEvent => Gone' \in 1..(n + 1) /\ current = accepted'[Gone']
    <2>1. current # NoEvent => Gone \in 1..n /\ current = accepted[Gone]
      BY <1>1 DEF OrderInv
    <2> QED BY <1>1, <1>2, <1>3, <2>1
  <1>8. \A k \in DOMAIN rows : \E i \in 1..n :
          rows[k] = accepted'[i] /\ i <= Gone' /\ (current # NoEvent => i < Gone')
    BY <1>1, <1>2, <1>3 DEF OrderInv
  <1>9. CreatedInOrder'
    <2> SUFFICES ASSUME NEW i \in 1..(n + 1), NEW j \in 1..(n + 1), NEW k \in DOMAIN rows, NEW l \in DOMAIN rows,
                        i < j, rows[k] = accepted'[i], rows[l] = accepted'[j]
                 PROVE  k < l
      BY <1>2 DEF CreatedInOrder
    <2>1. \A x \in DOMAIN rows : rows[x] # e
      <3> SUFFICES ASSUME NEW x \in DOMAIN rows PROVE rows[x] # e
        OBVIOUS
      <3>1. PICK a \in 1..n : rows[x] = accepted'[a]
        BY <1>8
      <3> QED BY <1>2, <1>4, <3>1
    <2>2. i # n + 1 /\ j # n + 1
      BY <1>2, <2>1
    <2>3. i \in 1..n /\ j \in 1..n
      BY <1>1, <2>2
    <2>4. rows[k] = accepted[i] /\ rows[l] = accepted[j]
      BY <1>2, <2>3
    <2>5. CreatedInOrder
      BY DEF OrderInv
    <2> QED BY <1>1, <2>3, <2>4, <2>5 DEF CreatedInOrder
  <1>10. Gone' \in Int /\ 1..n \subseteq 1..(n + 1)
    BY <1>1, <1>3
  <1>11. Len(events') <= Len(accepted')
    BY <1>1, <1>2
  <1> QED BY <1>2, <1>3, <1>5, <1>6, <1>7, <1>8, <1>9, <1>10, <1>11 DEF OrderInv

\* The head of the buffer becomes the current event.
LEMMA ShiftKeepsOrder ==
  ASSUME SeqsOK, OrderInv, Shift, current = NoEvent
  PROVE  OrderInv'
  <1> DEFINE n == Len(accepted)
             b == Len(events)
  <1>1. /\ n \in Nat /\ DOMAIN accepted = 1..n
        /\ b \in Nat /\ DOMAIN events = 1..b /\ b <= n
    BY Indices DEF SeqsOK, OrderInv
  <1>2. /\ events # <<>> /\ current' = Head(events) /\ events' = Tail(events)
        /\ accepted' = accepted /\ rows' = rows
    BY DEF Shift
  <1>3. /\ b > 0 /\ Head(events) = events[1]
        /\ DOMAIN events' = 1..(b - 1) /\ Len(events') = b - 1
        /\ \A k \in 1..(b - 1) : events'[k] = events[k + 1]
    BY <1>2, HeadTailProperties, EmptySeq, LenProperties DEF SeqsOK
  <1>4. Gone = n - b /\ Gone' = n - b + 1
    BY <1>1, <1>2, <1>3 DEF Gone
  <1> HIDE DEF n, b
  <1>5. \A k \in 1..b : events[k] = accepted[n - b + k]
    BY <1>1, <1>4 DEF OrderInv
  <1>6. ASSUME NEW k \in 1..(b - 1) PROVE events'[k] = accepted[n - b + 1 + k]
    <2>1. k + 1 \in 1..b /\ n - b + (k + 1) = n - b + 1 + k
      BY <1>1
    <2> QED BY <1>3, <1>5, <2>1
  <1>7. Gone' \in 1..n /\ current' = accepted[Gone']
    BY <1>1, <1>2, <1>3, <1>4, <1>5
  <1>8. \A k \in DOMAIN rows : \E i \in 1..n : rows[k] = accepted[i] /\ i <= Gone' /\ i < Gone'
    <2>1. \A k \in DOMAIN rows : \E i \in 1..n : rows[k] = accepted[i] /\ i <= n - b
      BY <1>1, <1>4 DEF OrderInv
    <2> QED BY <1>1, <1>4, <2>1
  <1>9. Len(events') <= Len(accepted')
    BY <1>1, <1>2, <1>3 DEF n
  <1>10. CreatedInOrder'
    BY <1>2 DEF OrderInv, CreatedInOrder
  <1>11. \A k \in DOMAIN events' : events'[k] = accepted'[Gone' + k]
    BY <1>2, <1>3, <1>4, <1>6
  <1>12. \A i, j \in DOMAIN accepted' : accepted'[i] = accepted'[j] => i = j
    BY <1>2 DEF OrderInv
  <1> QED BY <1>1, <1>2, <1>7, <1>8, <1>9, <1>10, <1>11, <1>12 DEF OrderInv

\* The current event is younger than every row, and older than the buffer.
LEMMA CreateKeepsOrder ==
  ASSUME SeqsOK, OrderInv, Create, current \in Events, current # NoEvent
  PROVE  OrderInv'
  <1> DEFINE n == Len(accepted)
             g == Gone
  <1>1. /\ current' = NoEvent /\ events' = events /\ accepted' = accepted /\ Gone' = g
        /\ rows' = rows \/ rows' = Append(rows, current)
    BY DEF Create, Gone
  <1>2. /\ n \in Nat /\ DOMAIN accepted = 1..n
        /\ g \in 1..n /\ current = accepted[g]
    BY Indices DEF SeqsOK, OrderInv
  <1>3. /\ \A i, j \in 1..n : accepted[i] = accepted[j] => i = j
        /\ \A k \in DOMAIN rows : \E i \in 1..n : rows[k] = accepted[i] /\ i < g
        /\ CreatedInOrder
    BY <1>2 DEF OrderInv
  <1> HIDE DEF n, g
  <1>4. CASE rows' = rows
    <2>1. CreatedInOrder'
      BY <1>1, <1>3, <1>4 DEF CreatedInOrder
    <2>2. \A k \in DOMAIN rows' : \E i \in DOMAIN accepted' : rows'[k] = accepted'[i] /\ i <= Gone'
      BY <1>1, <1>2, <1>3, <1>4
    <2> QED BY <1>1, <2>1, <2>2 DEF OrderInv, Gone
  <1>5. CASE rows' = Append(rows, current)
    <2> DEFINE r == Len(rows)
    <2>1. /\ r \in Nat /\ DOMAIN rows = 1..r /\ DOMAIN rows' = 1..(r + 1)
          /\ \A k \in 1..r : rows'[k] = rows[k]
          /\ rows'[r + 1] = current
      BY <1>5, Indices, AppendIndices DEF SeqsOK
    <2> HIDE DEF r
    <2>2. \A k \in 1..(r + 1) : \E i \in 1..n : rows'[k] = accepted[i] /\ i <= g
      <3> SUFFICES ASSUME NEW k \in 1..(r + 1) PROVE \E i \in 1..n : rows'[k] = accepted[i] /\ i <= g
        OBVIOUS
      <3>1. CASE k \in 1..r
        BY <1>2, <1>3, <2>1, <3>1
      <3>2. CASE k = r + 1
        BY <1>2, <2>1, <3>2
      <3> QED BY <2>1, <3>1, <3>2
    <2>3. CreatedInOrder'
      <3> SUFFICES ASSUME NEW i \in 1..n, NEW j \in 1..n, NEW k \in 1..(r + 1), NEW l \in 1..(r + 1),
                          i < j, rows'[k] = accepted[i], rows'[l] = accepted[j]
                   PROVE  k < l
        BY <1>1, <1>2, <2>1 DEF CreatedInOrder
      <3>1. CASE k \in 1..r /\ l \in 1..r
        <4>1. rows[k] = accepted[i] /\ rows[l] = accepted[j]
          BY <2>1, <3>1
        <4>2. i \in DOMAIN accepted /\ j \in DOMAIN accepted /\ k \in DOMAIN rows /\ l \in DOMAIN rows
          BY <1>2, <2>1, <3>1
        <4>3. CreatedInOrder /\ i < j
          BY <1>3
        <4> QED BY ONLY <4>1, <4>2, <4>3 DEF CreatedInOrder
      <3>2. CASE k \in 1..r /\ l = r + 1
        BY <2>1, <3>2
      <3>3. CASE k = r + 1
        <4>1. i = g
          BY <1>2, <1>3, <2>1, <3>3
        <4>2. \E h \in 1..n : accepted[j] = accepted[h] /\ h <= g
          BY <2>2
        <4>3. j <= g
          BY <1>3, <4>2
        <4> QED BY <1>2, <4>1, <4>3
      <3> QED BY <2>1, <3>1, <3>2, <3>3
    <2>4. \A k \in DOMAIN rows' : \E i \in DOMAIN accepted' : rows'[k] = accepted'[i] /\ i <= Gone'
      BY <1>1, <1>2, <2>1, <2>2
    <2>5. /\ \A i, j \in DOMAIN accepted' : accepted'[i] = accepted'[j] => i = j
          /\ Len(events') <= Len(accepted')
          /\ \A k \in DOMAIN events' : events'[k] = accepted'[Gone' + k]
      BY <1>1 DEF OrderInv, Gone
    <2> QED BY <1>1, <2>3, <2>4, <2>5 DEF OrderInv
  <1> QED BY <1>1, <1>4, <1>5

LEMMA OrderNext == BufferInv /\ OrderInv /\ [BufferNext]_bufferVars => OrderInv'
  <1> SUFFICES ASSUME BufferInv, OrderInv, [BufferNext]_bufferVars PROVE OrderInv'
    OBVIOUS
  <1>1. UNCHANGED <<accepted, events, rows, current>> => OrderInv'
    BY DEF OrderInv, CreatedInOrder, Gone
  <1>2. ASSUME NEW e \in Events, Trigger(e) PROVE OrderInv'
    BY <1>1, <1>2, TriggerKeepsOrder DEF Trigger, BufferInv
  <1>3. CASE Shift
    BY <1>3, ShiftKeepsOrder DEF Shift, BufferInv, LoopOK
  <1>4. CASE Create
    BY <1>4, CreateKeepsOrder DEF Create, BufferInv, LoopOK
  <1>5. CASE AwaitTask \/ Publish \/ LoopEnds \/ SetReady \/ TaskStarts \/ Recover
             \/ RecoveryEnds \/ BeforeStop \/ Drain \/ UNCHANGED bufferVars
    BY <1>1, <1>5 DEF AwaitTask, Publish, LoopEnds, SetReady, TaskStarts, Recover,
       RecoveryEnds, BeforeStop, Drain, bufferVars
  <1>6. ASSUME NEW fails \in BOOLEAN, TaskEnds(fails) PROVE OrderInv'
    BY <1>1, <1>6 DEF TaskEnds
  <1> QED BY <1>2, <1>3, <1>4, <1>5, <1>6 DEF BufferNext, Saver

------------------------------------------------------------------------------
(* The theorems                                                             *)

\* The buffer, the loop and beforeStop have their types.
THEOREM BufferTypeCorrect == BufferSpec => []BufferTypeOK
  <1>1. BufferInv => BufferTypeOK
    BY BufferTypeParts DEF BufferInv
  <1> QED BY <1>1, BufferSpecInv, PTL

\* When beforeStop has drained, every event that was taken has an execution or
\* its failure was reported, and no task is processed.
THEOREM DrainsEverything == BufferSpec => []DrainedIsEmpty
  <1>1. ASSUME BufferInv PROVE DrainedIsEmpty
    <2> SUFFICES ASSUME stopping = "drained" PROVE Handled /\ ~executing /\ saving = "off"
      BY DEF DrainedIsEmpty
    <2>1. events = <<>> /\ saving = "off" /\ ~executing
      BY <1>1 DEF BufferInv, StopsForGood
    <2>2. current = NoEvent /\ NoEvent \notin ToSet(accepted)
      BY <1>1, <2>1, BufferAssumption DEF BufferInv, LoopOK, SeqsOK, ToSet
    <2> QED BY <1>1, <2>1, <2>2, EmptyToSet DEF BufferInv, NoneLost, Handled
  <1> QED BY <1>1, BufferSpecInv, PTL

\* Executions are created in the order in which their events were taken,
\* whatever fails, is dropped or has to wait in between.
THEOREM ExecutionsAreInOrder == BufferSpec => []CreatedInOrder
  <1>1. OrderInv => CreatedInOrder
    BY DEF OrderInv
  <1> QED BY <1>1, BufferSpecInv, OrderInit, OrderNext, PTL DEF BufferSpec

(***************************************************************************)
(* Processor                                                               *)
(***************************************************************************)

------------------------------------------------------------------------------
(* The shape of the workflow                                                *)

\* A loop over upstreams visits where it begins, goes on from every node that is
\* no end, and visits nothing else than any other set that does so.
LEMMA UpClosed ==
  ASSUME NEW n \in Nodes, NEW S
  PROVE  /\ n \in Up(n, S) /\ Up(n, S) \subseteq Nodes
         /\ \A x \in Up(n, S) \ S : Upstream[x] \in Up(n, S) \cup {NoNode}
  <1>1. n \in Up(n, S) /\ Up(n, S) \subseteq Nodes
    BY DEF Up
  <1>2. ASSUME NEW x \in Up(n, S) \ S, Upstream[x] # NoNode PROVE Upstream[x] \in Up(n, S)
    <2>1. Upstream[x] \in Nodes
      BY <1>1, <1>2, ProcessorAssumption
    <2>2. ASSUME NEW set \in SUBSET Nodes, n \in set, \A y \in set \ S : Upstream[y] \in set \cup {NoNode}
          PROVE  Upstream[x] \in set
      <3>1. x \in set
        BY <2>2 DEF Up
      <3> QED BY <1>2, <2>2, <3>1
    <2> QED BY <2>1, <2>2 DEF Up
  <1> QED BY <1>1, <1>2

LEMMA UpLeast ==
  ASSUME NEW n \in Nodes, NEW S, NEW set \in SUBSET Nodes, n \in set,
         \A x \in set \ S : Upstream[x] \in set \cup {NoNode}
  PROVE  Up(n, S) \subseteq set
  BY DEF Up

\* The first node of a branch is in the branch of the node before it, the first
\* node of all is in none, and a node that follows another one is where that is.
LEMMA Parents ==
  /\ \A n \in Nodes : ParentOf[n] \in Parallels \cup {NoNode}
  /\ \A n \in Starts : ParentOf[n] = Upstream[n]
  /\ \A n \in Nodes : Upstream[n] = NoNode => ParentOf[n] = NoNode
  /\ \A n \in Nodes, d \in Nodes : Upstream[d] = n /\ Branch[d] = 0 => ParentOf[d] = ParentOf[n]
  <1>1. \A n \in Nodes : ParentOf[n] = LET start == Line[n] \cap Starts
                                       IN  IF start = {} THEN NoNode
                                           ELSE Upstream[CHOOSE m \in start : TRUE]
    BY DEF ParentOf
  <1>2. \A n \in Nodes : Line[n] = Up(n, Starts)
    BY DEF Line
  <1>3. ASSUME NEW n \in Nodes PROVE ParentOf[n] \in Parallels \cup {NoNode}
    <2>1. CASE Line[n] \cap Starts # {}
      <3>1. PICK m \in Line[n] \cap Starts : ParentOf[n] = Upstream[m]
        BY <1>1, <2>1
      <3> QED BY <3>1, ShapeAssumption
    <2> QED BY <1>1, <2>1
  <1>4. ASSUME NEW n \in Starts PROVE ParentOf[n] = Upstream[n]
    <2>1. n \in Nodes
      BY DEF Starts
    <2>2. Up(n, Starts) \subseteq {n}
      <3>1. {n} \in SUBSET Nodes /\ n \in {n} /\ {n} \ Starts = {}
        BY <2>1
      <3> QED BY <2>1, <3>1, UpLeast
    <2>3. Line[n] \cap Starts = {n}
      BY <1>2, <2>1, <2>2, UpClosed
    <2> QED BY <1>1, <2>1, <2>3
  <1>5. ASSUME NEW n \in Nodes, Upstream[n] = NoNode PROVE ParentOf[n] = NoNode
    <2>1. n \notin Starts
      BY <1>5, ShapeAssumption, ProcessorAssumption
    <2>2. Up(n, Starts) \subseteq {n}
      BY <1>5, UpLeast
    <2>3. Line[n] \cap Starts = {}
      BY <1>2, <2>1, <2>2
    <2> QED BY <1>1, <2>3
  <1>6. ASSUME NEW n \in Nodes, NEW d \in Nodes, Upstream[d] = n, Branch[d] = 0
        PROVE  ParentOf[d] = ParentOf[n]
    <2>1. d \notin Starts /\ n # NoNode
      BY <1>6, ProcessorAssumption DEF Starts
    <2>2. Up(d, Starts) \subseteq Up(n, Starts) \cup {d}
      <3> DEFINE set == Up(n, Starts) \cup {d}
      <3>1. set \in SUBSET Nodes /\ d \in set
        BY UpClosed
      <3>2. \A x \in set \ Starts : Upstream[x] \in set \cup {NoNode}
        BY <1>6, UpClosed
      <3> HIDE DEF set
      <3>3. Up(d, Starts) \subseteq set
        BY <3>1, <3>2, UpLeast
      <3> QED BY <3>3 DEF set
    <2>3. Up(n, Starts) \subseteq Up(d, Starts)
      <3>1. Up(d, Starts) \in SUBSET Nodes /\ \A x \in Up(d, Starts) \ Starts : Upstream[x] \in Up(d, Starts) \cup {NoNode}
        BY UpClosed
      <3>2. n \in Up(d, Starts)
        BY <1>6, <2>1, UpClosed
      <3> QED BY <3>1, <3>2, UpLeast
    <2>4. Line[d] \cap Starts = Line[n] \cap Starts
      BY <1>2, <2>1, <2>2, <2>3
    <2> QED BY <1>1, <2>4
  <1> QED BY <1>3, <1>4, <1>5, <1>6

\* What comes next on the main line, or in the same branch.
LEMMA DownstreamTyped ==
  ASSUME NEW n \in Nodes, Downstream(n) # NoNode
  PROVE  /\ Downstream(n) \in Nodes /\ Upstream[Downstream(n)] = n /\ Branch[Downstream(n)] = 0
         /\ ParentOf[Downstream(n)] = ParentOf[n]
  <1>1. Downstream(n) \in Nodes /\ Upstream[Downstream(n)] = n /\ Branch[Downstream(n)] = 0
    BY DEF Downstream
  <1> QED BY <1>1, Parents

LEMMA HeadTyped == Head0 \in Nodes /\ Upstream[Head0] = NoNode /\ ParentOf[Head0] = NoNode
  BY ShapeAssumption, Parents DEF Head0

\* Every parallel node has a branch.  The instruction of one that has none calls
\* nobody and returns nothing, and exit(true) saves nothing: the jobs in memory
\* are lost and nothing resumes the execution.
Branched == \A n \in Parallels : Branches(n) # {}

\* The branches are counted through: there is a first one, and so on to the last.
LEMMA BranchesCounted ==
  ASSUME NEW n \in Parallels
  PROVE  /\ IsFiniteSet(Branches(n)) /\ Cardinality(Branches(n)) \in Nat
         /\ Branched => Cardinality(Branches(n)) # 0
         /\ \A i \in 1..Cardinality(Branches(n)) :
              /\ BranchNo(n, i) \in Nodes /\ BranchNo(n, i) \in Starts
              /\ ParentOf[BranchNo(n, i)] = n /\ Upstream[BranchNo(n, i)] = n
              /\ IndexOf(n, BranchNo(n, i)) = i
         /\ \A m \in Starts : Upstream[m] = n =>
              /\ IndexOf(n, m) \in 1..Cardinality(Branches(n))
              /\ BranchNo(n, IndexOf(n, m)) = m
  <1> DEFINE B == Branches(n)
             upto(m) == {b \in B : Branch[b] <= Branch[m]}
             rank == [m \in B |-> Cardinality(upto(m))]
  <1>1. B \subseteq Nodes /\ B \subseteq Starts /\ \A m \in B : Upstream[m] = n /\ Branch[m] \in Nat
    BY ProcessorAssumption DEF Branches, Starts
  <1>2. IsFiniteSet(B) /\ Cardinality(B) \in Nat /\ (Branched => Cardinality(B) # 0)
    <2>1. IsFiniteSet(B)
      BY <1>1, ShapeAssumption, FS_Subset
    <2>2. Branched => B # {}
      BY DEF Branched
    <2> QED BY <2>1, <2>2, FS_EmptySet, FS_CardinalityType
  <1>3. ASSUME NEW m \in B
        PROVE  IsFiniteSet(upto(m)) /\ Cardinality(upto(m)) \in 1..Cardinality(B)
    <2>1. upto(m) \in SUBSET B /\ m \in upto(m)
      BY <1>1
    <2>2. IsFiniteSet(upto(m)) /\ Cardinality(upto(m)) <= Cardinality(B)
      BY <1>2, <2>1, FS_Subset
    <2>3. Cardinality(upto(m)) \in Nat /\ Cardinality(upto(m)) # 0
      BY <2>1, <2>2, FS_CardinalityType, FS_EmptySet
    <2> QED BY <1>2, <2>2, <2>3
  <1>4. ASSUME NEW l \in B, NEW m \in B, rank[l] = rank[m], Branch[l] <= Branch[m] PROVE l = m
    <2>1. upto(l) \in SUBSET upto(m)
      <3>1. ASSUME NEW b \in B, Branch[b] <= Branch[l] PROVE Branch[b] <= Branch[m]
        <4>1. Branch[b] \in Nat /\ Branch[l] \in Nat /\ Branch[m] \in Nat
          BY <1>1
        <4> QED BY <1>4, <3>1, <4>1
      <3> QED BY <3>1
    <2>2. upto(l) = upto(m)
      BY <1>3, <1>4, <2>1, FS_Subset
    <2>3. m \in upto(l)
      <3>1. m \in upto(m)
        BY <1>1
      <3> QED BY <2>2, <3>1
    <2>4. Branch[m] = Branch[l]
      BY <1>1, <1>4, <2>3
    <2> QED BY <1>1, <2>4, ShapeAssumption
  <1>5. rank \in Injection(B, 1..Cardinality(B))
    <2>1. rank \in [B -> 1..Cardinality(B)]
      BY <1>3
    <2> HIDE DEF rank
    <2>2. ASSUME NEW l \in B, NEW m \in B, rank[l] = rank[m] PROVE l = m
      <3>1. Branch[l] \in Nat /\ Branch[m] \in Nat
        BY <1>1
      <3>2. CASE Branch[l] <= Branch[m]
        BY <1>4, <2>2, <3>2
      <3>3. CASE Branch[m] <= Branch[l]
        BY <1>4, <2>2, <3>3
      <3> QED BY <3>1, <3>2, <3>3
    <2> QED BY <2>1, <2>2 DEF Injection, IsInjective
  <1>6. rank \in Surjection(B, 1..Cardinality(B))
    <2>1. IsFiniteSet(1..Cardinality(B)) /\ Cardinality(1..Cardinality(B)) = Cardinality(B)
      BY <1>2, FS_Interval
    <2> HIDE DEF rank
    <2> QED BY <1>5, <2>1, FS_Injection
  <1>7. ASSUME NEW i \in 1..Cardinality(B) PROVE BranchNo(n, i) \in B /\ rank[BranchNo(n, i)] = i
    <2>1. \E m \in B : rank[m] = i
      <3> HIDE DEF rank
      <3> QED BY <1>6 DEF Surjection
    <2> QED BY <2>1 DEF BranchNo
  <1>8. ASSUME NEW m \in Starts, Upstream[m] = n
        PROVE  m \in B /\ IndexOf(n, m) = rank[m] /\ rank[m] \in 1..Cardinality(B)
    <2>1. m \in B
      BY <1>8 DEF Branches, Starts
    <2> QED BY <1>3, <2>1 DEF IndexOf
  <1>9. ASSUME NEW m \in Starts, Upstream[m] = n PROVE BranchNo(n, IndexOf(n, m)) = m
    <2> HIDE DEF rank
    <2> QED BY <1>5, <1>7, <1>8, <1>9 DEF Injection, IsInjective
  <1>10. ASSUME NEW i \in 1..Cardinality(B)
         PROVE  /\ BranchNo(n, i) \in Nodes /\ BranchNo(n, i) \in Starts
                /\ ParentOf[BranchNo(n, i)] = n /\ Upstream[BranchNo(n, i)] = n
                /\ IndexOf(n, BranchNo(n, i)) = i
    <2> HIDE DEF rank, B
    <2>1. PICK m \in B : m = BranchNo(n, i) /\ rank[m] = i
      BY <1>7
    <2> QED BY <1>1, <1>8, <2>1, Parents
  <1> HIDE DEF rank
  <1> QED BY <1>2, <1>8, <1>9, <1>10

\* A set of numbers up to n has a greatest one.
LEMMA Greatest ==
  ASSUME NEW n \in Nat, NEW T \in SUBSET (1..n), T # {}
  PROVE  \E t \in T : \A u \in T : u <= t
  <1> DEFINE Above(t) == {u \in T : u > t}
             Cuts     == {Above(t) : t \in T}
  <1>1. IsFiniteSet(T) /\ T \subseteq Nat
    <2>1. IsFiniteSet(1..n) /\ T \subseteq Nat
      BY FS_Interval
    <2>2. IsFiniteSet(T)
      BY <2>1, FS_Subset
    <2> QED BY <2>1, <2>2
  <1>2. Cuts \subseteq FiniteSubsetsOf(Nat) /\ Cuts # {}
    <2>1. ASSUME NEW t \in T PROVE Above(t) \in FiniteSubsetsOf(Nat)
      BY <1>1, FS_Subset DEF FiniteSubsetsOf
    <2> QED BY <2>1
  <1>3. PICK c \in Cuts : \A b \in Cuts : ~ (<<b, c>> \in StrictSubsetOrdering(Nat))
    <2> HIDE DEF Cuts
    <2>1. IsWellFoundedOn(StrictSubsetOrdering(Nat), FiniteSubsetsOf(Nat))
      BY FS_StrictSubsetOrderingWellFounded
    <2> QED BY <1>2, <2>1, WFMin
  <1>4. PICK t \in T : c = Above(t)
    OBVIOUS
  <1>5. ASSUME NEW u \in T, u > t PROVE FALSE
    <2>1. Above(u) \subseteq Above(t) /\ u \in Above(t) /\ u \notin Above(u)
      <3>1. \A v \in T : v \in Nat
        BY <1>1
      <3>2. ASSUME NEW v \in T, v > u PROVE v > t
        BY <1>5, <3>1, <3>2
      <3>3. ~ (u > u)
        BY <3>1
      <3>4. Above(u) \subseteq Above(t)
        BY <3>2
      <3> QED BY <1>5, <3>3, <3>4
    <2>2. Above(u) \in Cuts /\ Above(u) \in FiniteSubsetsOf(Nat) /\ Above(t) \in FiniteSubsetsOf(Nat)
      BY <1>2
    <2> HIDE DEF Above, Cuts
    <2>3. <<Above(u), Above(t)>> \in StrictSubsetOrdering(Nat)
      BY <2>1, <2>2 DEF StrictSubsetOrdering, FiniteSubsetsOf
    <2> QED BY <1>3, <1>4, <2>2, <2>3
  <1> QED BY <1>1, <1>5

LEMMA Least ==
  ASSUME NEW n \in Nat, NEW T \in SUBSET (1..n), T # {}
  PROVE  \E t \in T : \A u \in T : t <= u
  <1> DEFINE U == {n + 1 - t : t \in T}
  <1>1. U \in SUBSET (1..n) /\ U # {}
    <2>1. ASSUME NEW t \in T PROVE n + 1 - t \in 1..n
      OBVIOUS
    <2> QED BY <2>1
  <1>2. PICK m \in U : \A u \in U : u <= m
    <2> HIDE DEF U
    <2> QED BY <1>1, Greatest
  <1>3. PICK t \in T : m = n + 1 - t
    OBVIOUS
  <1>4. ASSUME NEW u \in T PROVE t <= u
    <2>1. n + 1 - u \in U
      OBVIOUS
    <2>2. n + 1 - u <= n + 1 - t
      BY <1>2, <1>3, <2>1
    <2> QED BY <2>2
  <1> QED BY <1>4

\* What a parallel node makes of its branches' results is a status.
LEMMA JoinStatusTyped ==
  ASSUME NEW mode \in {"all", "any", "race", "allSettled"}, NEW result \in Seq(Statuses \cup {Null})
  PROVE  JoinStatus(mode, result) \in Statuses
  <1> DEFINE broken == {i \in DOMAIN result : result[i] < PENDING}
             first  == result[CHOOSE i \in broken : \A j \in broken : i <= j]
  <1>1. ASSUME broken # {} PROVE first \in Statuses
    <2>1. broken \in SUBSET (1..Len(result)) /\ Len(result) \in Nat
      OBVIOUS
    <2>2. \E i \in broken : \A j \in broken : i <= j
      <3> HIDE DEF broken
      <3> QED BY <1>1, <2>1, Least
    <2>3. PICK i \in broken : first = result[i]
      BY <2>2
    <2>4. result[i] \in Statuses \cup {Null} /\ result[i] < PENDING
      BY <2>1
    <2> QED BY <2>3, <2>4 DEF Statuses, Null, PENDING
  <1>2. JoinStatus(mode, result) \in {PENDING, RESOLVED, FAILED}
        \/ (broken # {} /\ JoinStatus(mode, result) = first)
    BY DEF JoinStatus
  <1> HIDE DEF broken, first
  <1> QED BY <1>1, <1>2 DEF Statuses

------------------------------------------------------------------------------
(* The jobs: those of the table and the objects of the processor            *)

LEMMA IdsAreNumbers == JobIds \cup {0} \subseteq Nat
  BY ProcessorAssumption

LEMMA StatusesDiffer == PENDING # RESOLVED /\ RESOLVED # FAILED /\ RESOLVED # ABORTED
  BY DEF PENDING, RESOLVED, FAILED, ABORTED

JobAt(n, h) == \E i \in Ids(h) : h[i].node = n

\* Who has a job in a branch has one of the parallel node before it.
HasParent(n, h) == ParentOf[n] = NoNode \/ JobAt(ParentOf[n], h)
Rooted(h)       == \A j \in Ids(h) : HasParent(h[j].node, h)

\* The job of a parallel node that may go on, or has, knows the branches.
KnowsBranches(job) ==
  Branched /\ job.node \in Parallels /\ job.status \in {PENDING, RESOLVED} => job.result # <<>>

\* A set of jobs, of the ids handed out so far.
JobsOK(t, n) ==
  /\ Ids(t) \subseteq (1..n) \cap JobIds
  /\ \A j \in Ids(t) : t[j] \in Job /\ KnowsBranches(t[j])
  /\ Rooted(t)

\* The processor's objects h, as last loaded or saved in b, of which it has not
\* saved those of u, beside the table t.
Objects(t, h, b, u) ==
  /\ Ids(b) \subseteq Ids(h) /\ u \subseteq Ids(h)
  /\ Ids(h) \subseteq Ids(t) \cup u
  /\ \A j \in Ids(h) \cap Ids(t) : j \in Ids(b) /\ h[j].node = t[j].node

\* A parallel node's job is settled by the processor alone, and of those the
\* table has only the latest one may be about to be changed.
Settles(t, h, b, u) ==
  \A j \in Ids(h) \cap Ids(t) :
    h[j].node \in Parallels =>
      /\ (t[j].result = <<>>) <=> (h[j].result = <<>>)
      /\ j \notin u => /\ h[j].status = b[j].status
                       /\ (t[j].status = RESOLVED) <=> (h[j].status = RESOLVED)
      /\ j \in u => /\ b[j].status = PENDING /\ t[j].status # RESOLVED
                    /\ \A i \in Ids(h) \cap Ids(t) : h[i].node = h[j].node => i <= j

Data(t, n, h, b, u) == /\ JobsOK(t, n) /\ JobsOK(h, n)
                       /\ Objects(t, h, b, u) /\ Settles(t, h, b, u)

\* The jobs of a parallel node that may still be joined.
Joins(n, job)    == job.node = n /\ job.result # <<>> /\ job.status # RESOLVED
Open(n, t, u, h) == {j \in Ids(t) \cup u : Joins(n, IF j \in u THEN h[j] ELSE t[j])}

Grows(h, g) == \A j \in Ids(h) : j \in Ids(g) /\ g[j].node = h[j].node

\* Rows of the table are touched from elsewhere: those of waiting nodes are
\* resumed, the pending ones are aborted.
Touched(t, s) ==
  /\ Ids(s) = Ids(t)
  /\ \A j \in Ids(t) : /\ s[j] \in Job /\ s[j].node = t[j].node /\ s[j].result = t[j].result
                       /\ t[j].node \in Parallels =>
                            s[j].status = t[j].status \/ (t[j].status = PENDING /\ s[j].status = ABORTED)

LEMMA TouchedData ==
  ASSUME NEW n \in Nat, NEW t, NEW s, NEW h, NEW b, NEW u,
         Data(t, n, h, b, u), Touched(t, s)
  PROVE  /\ Data(s, n, h, b, u) /\ Grows(t, s)
         /\ \A m \in Parallels : Open(m, s, u, h) = Open(m, t, u, h)
  <1>1. JobsOK(s, n)
    <2>1. Rooted(s)
      BY DEF Data, Touched, JobsOK, Rooted, HasParent, JobAt, Ids
    <2>2. \A j \in Ids(s) : KnowsBranches(s[j])
      BY DEF Data, Touched, JobsOK, KnowsBranches, PENDING, RESOLVED, ABORTED
    <2> QED BY <2>1, <2>2 DEF Data, Touched, JobsOK
  <1>2. Objects(s, h, b, u)
    BY DEF Data, Touched, Objects
  <1>3. Settles(s, h, b, u)
    BY DEF Data, Touched, Settles, Objects, PENDING, RESOLVED, ABORTED
  <1>4. \A m \in Parallels : Open(m, s, u, h) = Open(m, t, u, h)
    BY DEF Data, Touched, Open, Joins, PENDING, RESOLVED, ABORTED
  <1>5. Grows(t, s)
    BY DEF Touched, Grows
  <1> QED BY <1>1, <1>2, <1>3, <1>4, <1>5 DEF Data

LEMMA AbortTouches ==
  ASSUME AbortRows, \A j \in Ids(jobs) : jobs[j] \in Job
  PROVE  Touched(jobs, jobs')
  BY DEF AbortRows, Touched, Ids, Job, Statuses

\* A new object, with a later id.
LEMMA BuiltData ==
  ASSUME NEW n \in Nat, NEW k \in JobIds, NEW t, NEW h, NEW b, NEW u, NEW job \in Job,
         Data(t, n, h, b, u), k > n, k \in Nat,
         NEW node, job.node = node, HasParent(node, h), KnowsBranches(job),
         NEW g, g = With(h, k, job), NEW v, v = u \cup {k}
  PROVE  /\ Data(t, k, g, b, v)
         /\ Grows(h, g) /\ k \in Ids(g) /\ g[k] = job
         /\ k \notin Ids(h) \cup Ids(t)
  <1>1. k \notin Ids(h) /\ k \notin Ids(t)
    BY DEF Data, JobsOK
  <1>2. Ids(g) = Ids(h) \cup {k} /\ g[k] = job /\ \A j \in Ids(h) : g[j] = h[j]
    BY <1>1 DEF With, Ids
  <1>3. JobsOK(t, k)
    <2>1. 1..n \subseteq 1..k
      OBVIOUS
    <2> QED BY <2>1 DEF Data, JobsOK
  <1>4. JobsOK(g, k)
    <2>1. Ids(g) \subseteq (1..k) \cap JobIds
      BY <1>2 DEF Data, JobsOK
    <2>2. \A j \in Ids(g) : g[j] \in Job /\ KnowsBranches(g[j])
      BY <1>2 DEF Data, JobsOK
    <2>3. Rooted(g)
      BY <1>2 DEF Data, JobsOK, Rooted, HasParent, JobAt
    <2> QED BY <2>1, <2>2, <2>3 DEF JobsOK
  <1>5. Objects(t, g, b, v)
    BY <1>1, <1>2 DEF Data, Objects
  <1>6. Settles(t, g, b, v)
    <2>1. Ids(g) \cap Ids(t) = Ids(h) \cap Ids(t)
      BY <1>1, <1>2
    <2>2. \A j \in Ids(h) \cap Ids(t) : g[j] = h[j] /\ ((j \in v) <=> (j \in u))
      BY <1>1, <1>2
    <2> QED BY <2>1, <2>2 DEF Data, Settles
  <1>7. Grows(h, g)
    BY <1>2 DEF Grows
  <1> QED BY <1>1, <1>2, <1>3, <1>4, <1>5, <1>6, <1>7 DEF Data

LEMMA BuiltOpen ==
  ASSUME NEW n, NEW t, NEW h, NEW b, NEW u, Data(t, n, h, b, u),
         NEW k, k \notin Ids(h) \cup Ids(t), NEW job,
         NEW g, g = With(h, k, job), NEW v, v = u \cup {k}, NEW m
  PROVE  /\ Joins(m, job) => Open(m, t, v, g) = Open(m, t, u, h) \cup {k}
         /\ ~ Joins(m, job) => Open(m, t, v, g) = Open(m, t, u, h)
  <1>1. g[k] = job /\ \A j \in Ids(h) : g[j] = h[j]
    BY DEF With, Ids
  <1>2. \A j \in Ids(t) \cup u : /\ j # k
                                 /\ (IF j \in v THEN g[j] ELSE t[j]) = (IF j \in u THEN h[j] ELSE t[j])
    BY <1>1 DEF Data, Objects
  <1>3. (IF k \in v THEN g[k] ELSE t[k]) = job
    BY <1>1
  <1>4. Ids(t) \cup v = (Ids(t) \cup u) \cup {k}
    OBVIOUS
  <1> QED BY <1>2, <1>3, <1>4 DEF Open

\* An object is changed; one of a parallel node only while it is pending, and
\* only the latest one, which then may still be joined.
LEMMA ChangedData ==
  ASSUME NEW n \in Nat, NEW t, NEW h, NEW b, NEW u, NEW j \in Ids(h), NEW job \in Job,
         Data(t, n, h, b, u), NEW node, job.node = node, h[j].node = node,
         node \in Parallels => /\ h[j].status = PENDING
                               /\ (job.result = <<>>) <=> (h[j].result = <<>>)
                               /\ \A i \in Ids(h) : h[i].node = node => i <= j,
         NEW g, g = With(h, j, job), NEW v, v = u \cup {j}
  PROVE  /\ Data(t, n, g, b, v)
         /\ Grows(h, g) /\ Ids(g) = Ids(h)
         /\ Branched /\ node \in Parallels => j \in Open(node, t, u, h)
  <1>1. Ids(g) = Ids(h) /\ g[j] = job /\ \A i \in Ids(h) \ {j} : g[i] = h[i]
    BY DEF With, Ids
  <1>2. \A i \in Ids(h) : g[i].node = h[i].node
    BY <1>1
  <1>3. JobsOK(g, n)
    <2>1. Rooted(g)
      BY <1>1, <1>2 DEF Data, JobsOK, Rooted, HasParent, JobAt
    <2>2. \A i \in Ids(g) : g[i] \in Job /\ KnowsBranches(g[i])
      BY <1>1 DEF Data, JobsOK, KnowsBranches
    <2> QED BY <1>1, <2>1, <2>2 DEF Data, JobsOK
  <1>4. Objects(t, g, b, v)
    BY <1>1, <1>2 DEF Data, Objects
  <1>5. ASSUME node \in Parallels, j \in Ids(t)
        PROVE  /\ b[j].status = PENDING /\ t[j].status # RESOLVED /\ t[j].node = node
               /\ (t[j].result = <<>>) <=> (h[j].result = <<>>)
    <2>1. h[j].status = PENDING
      BY <1>5
    <2> QED BY <1>5, <2>1 DEF Data, Objects, Settles, PENDING, RESOLVED
  <1>6. Settles(t, g, b, v)
    <2> SUFFICES ASSUME NEW i \in Ids(h) \cap Ids(t), h[i].node \in Parallels
                 PROVE  /\ (t[i].result = <<>>) <=> (g[i].result = <<>>)
                        /\ i \notin v => /\ g[i].status = b[i].status
                                         /\ (t[i].status = RESOLVED) <=> (g[i].status = RESOLVED)
                        /\ i \in v => /\ b[i].status = PENDING /\ t[i].status # RESOLVED
                                      /\ \A k \in Ids(h) \cap Ids(t) : h[k].node = h[i].node => k <= i
      BY <1>1, <1>2 DEF Settles
    <2>1. CASE i = j
      BY <1>1, <1>5, <2>1
    <2>2. CASE i # j
      BY <1>1, <2>2 DEF Data, Settles
    <2> QED BY <2>1, <2>2
  <1>7. ASSUME Branched, node \in Parallels PROVE j \in Open(node, t, u, h)
    <2>1. h[j].result # <<>> /\ h[j].status = PENDING
      BY <1>7 DEF Data, JobsOK, KnowsBranches
    <2>2. j \in Ids(t) \cup u
      BY DEF Data, Objects
    <2> QED BY <1>5, <1>7, <2>1, <2>2 DEF Open, Joins, PENDING, RESOLVED
  <1>8. Grows(h, g)
    BY <1>1, <1>2 DEF Grows
  <1> QED BY <1>1, <1>3, <1>4, <1>6, <1>7, <1>8 DEF Data

LEMMA ChangedOpen ==
  ASSUME NEW n, NEW t, NEW h, NEW b, NEW u, Data(t, n, h, b, u), NEW j \in Ids(h), NEW job,
         NEW node, job.node = node, h[j].node = node,
         NEW g, g = With(h, j, job), NEW v, v = u \cup {j}, NEW m
  PROVE  /\ m # node => Open(m, t, v, g) = Open(m, t, u, h)
         /\ m = node => Open(m, t, v, g) \ {j} = Open(m, t, u, h) \ {j}
         /\ job.status = RESOLVED => j \notin Open(m, t, v, g)
  <1>1. Ids(g) = Ids(h) /\ g[j] = job /\ \A i \in Ids(h) \ {j} : g[i] = h[i]
    BY DEF With, Ids
  <1>2. \A i \in (Ids(t) \cup u) \ {j} : (IF i \in v THEN g[i] ELSE t[i]) = (IF i \in u THEN h[i] ELSE t[i])
    BY <1>1 DEF Data, Objects
  <1>3. (IF j \in v THEN g[j] ELSE t[j]) = job /\ (IF j \in u THEN h[j] ELSE t[j]).node = node
    BY <1>1 DEF Data, Objects
  <1>4. Ids(t) \cup v = Ids(t) \cup u /\ j \in Ids(t) \cup u
    BY DEF Data, Objects
  <1>5. \A i : i # j => (i \in Open(m, t, v, g) <=> i \in Open(m, t, u, h))
    BY <1>2, <1>4 DEF Open
  <1>6. m # node => j \notin Open(m, t, v, g) /\ j \notin Open(m, t, u, h)
    BY <1>3 DEF Open, Joins
  <1>7. job.status = RESOLVED => j \notin Open(m, t, v, g)
    BY <1>3 DEF Open, Joins
  <1> QED BY <1>5, <1>6, <1>7

\* What exit writes: of an object known to the table the changed fields.
Saves(t, h, b, u, s, c) ==
  /\ Ids(s) = Ids(t) \cup u /\ Ids(c) = Ids(b) \cup u
  /\ \A j \in Ids(t) \ u : s[j] = t[j]
  /\ \A j \in u \ Ids(t) : s[j] = h[j]
  /\ \A j \in u \cap Ids(t) :
       s[j] = [t[j] EXCEPT !.status = IF h[j].status # b[j].status THEN h[j].status ELSE @,
                           !.result = IF h[j].result # b[j].result THEN h[j].result ELSE @]
  /\ \A j \in Ids(b) \ u : c[j] = b[j]
  /\ \A j \in u : c[j] = h[j]

LEMMA SavedData ==
  ASSUME NEW n \in Nat, NEW t, NEW h, NEW b, NEW u, NEW s, NEW c,
         Data(t, n, h, b, u), Saves(t, h, b, u, s, c)
  PROVE  /\ Data(s, n, h, c, {}) /\ Grows(t, s)
         /\ \A m \in Parallels : Open(m, s, {}, h) = Open(m, t, u, h)
  <1> USE DEF Saves
  <1>1. \A j \in u \cap Ids(t) :
          /\ s[j] \in Job /\ s[j].node = t[j].node
          /\ s[j].status = IF h[j].status # b[j].status THEN h[j].status ELSE t[j].status
          /\ s[j].result = IF h[j].result # b[j].result THEN h[j].result ELSE t[j].result
    <2> SUFFICES ASSUME NEW j \in u \cap Ids(t)
                 PROVE  /\ s[j] \in Job /\ s[j].node = t[j].node
                        /\ s[j].status = IF h[j].status # b[j].status THEN h[j].status ELSE t[j].status
                        /\ s[j].result = IF h[j].result # b[j].result THEN h[j].result ELSE t[j].result
      OBVIOUS
    <2>1. t[j] \in Job /\ h[j] \in Job
      BY DEF Data, JobsOK, Objects
    <2>2. s[j] = [t[j] EXCEPT !.status = IF h[j].status # b[j].status THEN h[j].status ELSE t[j].status,
                              !.result = IF h[j].result # b[j].result THEN h[j].result ELSE t[j].result]
      OBVIOUS
    <2> QED BY <2>1, <2>2 DEF Job
  <1>2. ASSUME NEW j \in u \cap Ids(t), h[j].node \in Parallels
        PROVE  /\ (s[j].status = RESOLVED) <=> (h[j].status = RESOLVED)
               /\ (s[j].result = <<>>) <=> (h[j].result = <<>>)
               /\ s[j].status = h[j].status \/ s[j].status = t[j].status
               /\ Branched /\ s[j].status \in {PENDING, RESOLVED} => s[j].result # <<>>
    <2>1. /\ (t[j].result = <<>>) <=> (h[j].result = <<>>)
          /\ b[j].status = PENDING /\ t[j].status # RESOLVED
      BY <1>2 DEF Data, Settles, Objects
    <2>2. (s[j].status = RESOLVED) <=> (h[j].status = RESOLVED)
      <3>1. s[j].status = IF h[j].status # PENDING THEN h[j].status ELSE t[j].status
        BY <1>1, <2>1
      <3>2. CASE h[j].status = PENDING
        BY <2>1, <3>1, <3>2, StatusesDiffer
      <3>3. CASE h[j].status # PENDING
        BY <3>1, <3>3
      <3> QED BY <3>2, <3>3
    <2>3. /\ KnowsBranches(h[j]) /\ KnowsBranches(t[j]) /\ t[j].node = h[j].node
      BY DEF Data, JobsOK, Objects
    <2> QED BY <1>1, <1>2, <2>1, <2>2, <2>3 DEF KnowsBranches
  <1>3. \A j \in Ids(t) : j \in Ids(s) /\ s[j].node = t[j].node
    BY <1>1
  <1>4. \A j \in u : s[j].node = h[j].node
    BY <1>1 DEF Data, Objects
  <1>5. JobsOK(s, n)
    <2>1. Ids(s) \subseteq (1..n) \cap JobIds
      BY DEF Data, JobsOK, Objects
    <2>2. \A j \in Ids(s) : s[j] \in Job
      BY <1>1 DEF Data, JobsOK, Objects
    <2>3. ASSUME NEW j \in Ids(s) PROVE KnowsBranches(s[j])
      <3>1. CASE j \in u \cap Ids(t)
        BY <1>2, <1>4, <3>1 DEF KnowsBranches
      <3>2. CASE j \notin u \cap Ids(t)
        BY <3>2 DEF Data, JobsOK, Objects
      <3> QED BY <3>1, <3>2
    <2>4. Rooted(s)
      <3>1. \A m : JobAt(m, t) => JobAt(m, s)
        BY <1>3 DEF JobAt
      <3>2. \A m : JobAt(m, h) => JobAt(m, s)
        BY <1>3, <1>4 DEF JobAt, Data, Objects
      <3>3. ASSUME NEW j \in Ids(s) PROVE HasParent(s[j].node, s)
        <4>1. CASE j \in Ids(t)
          <5>1. HasParent(t[j].node, t)
            BY <4>1 DEF Data, JobsOK, Rooted
          <5> QED BY <1>3, <3>1, <4>1, <5>1 DEF HasParent
        <4>2. CASE j \in u
          <5>1. HasParent(h[j].node, h)
            BY <4>2 DEF Data, JobsOK, Objects, Rooted
          <5> QED BY <1>4, <3>2, <4>2, <5>1 DEF HasParent
        <4> QED BY <4>1, <4>2
      <3> QED BY <3>3 DEF Rooted
    <2> QED BY <2>1, <2>2, <2>3, <2>4 DEF JobsOK
  <1>6. Objects(s, h, c, {})
    BY <1>3, <1>4 DEF Data, Objects
  <1>7. Settles(s, h, c, {})
    <2> SUFFICES ASSUME NEW j \in Ids(h) \cap Ids(s), h[j].node \in Parallels
                 PROVE  /\ (s[j].result = <<>>) <=> (h[j].result = <<>>)
                        /\ h[j].status = c[j].status
                        /\ (s[j].status = RESOLVED) <=> (h[j].status = RESOLVED)
      BY DEF Settles
    <2>1. CASE j \in u \cap Ids(t)
      BY <1>2, <2>1
    <2>2. CASE j \in u \ Ids(t)
      BY <2>2
    <2>3. CASE j \notin u
      BY <2>3 DEF Data, Objects, Settles
    <2> QED BY <2>1, <2>2, <2>3
  <1>8. ASSUME NEW m \in Parallels PROVE Open(m, s, {}, h) = Open(m, t, u, h)
    <2>1. ASSUME NEW j \in Ids(t) \cup u
          PROVE  Joins(m, s[j]) <=> Joins(m, IF j \in u THEN h[j] ELSE t[j])
      <3>1. CASE j \in u \cap Ids(t)
        <4>1. s[j].node = h[j].node
          BY <1>4, <3>1
        <4>2. h[j].node = m => /\ (s[j].status = RESOLVED) <=> (h[j].status = RESOLVED)
                               /\ (s[j].result = <<>>) <=> (h[j].result = <<>>)
          BY <1>2, <3>1
        <4> QED BY <3>1, <4>1, <4>2 DEF Joins
      <3>2. CASE j \notin u \cap Ids(t)
        BY <2>1, <3>2
      <3> QED BY <3>1, <3>2
    <2> QED BY <2>1 DEF Open
  <1>9. Grows(t, s)
    BY <1>3 DEF Grows
  <1> QED BY <1>5, <1>6, <1>7, <1>8, <1>9 DEF Data

\* What prepare loads: the latest job of every node, and the one to resume.
LEMMA LoadedData ==
  ASSUME NEW n \in Nat, NEW t, NEW h, NEW arg \in Nat,
         JobsOK(t, n), arg # 0 => arg \in Ids(t) /\ t[arg].node \in Waiting,
         Ids(h) = {j \in Ids(t) : j = Current(t, t[j].node)} \cup (IF arg = 0 THEN {} ELSE {arg}),
         \A j \in Ids(h) : /\ h[j] \in Job /\ h[j].node = t[j].node /\ h[j].result = t[j].result
                           /\ j # arg => h[j] = t[j]
  PROVE  /\ Data(t, n, h, h, {})
         /\ \A m \in Nodes : JobAt(m, t) => JobAt(m, h)
  <1>1. Ids(h) \subseteq Ids(t)
    OBVIOUS
  <1>2. ASSUME NEW m \in Nodes, JobAt(m, t) PROVE JobAt(m, h)
    <2> DEFINE ids == {j \in Ids(t) : t[j].node = m}
    <2>1. ids \in SUBSET (1..n) /\ ids # {}
      BY <1>2 DEF JobsOK, JobAt
    <2>2. \E j \in ids : \A i \in ids : i <= j
      <3> HIDE DEF ids
      <3> QED BY <2>1, Greatest
    <2>3. Current(t, m) \in ids
      BY <2>1, <2>2 DEF Current
    <2>4. Current(t, m) \in Ids(h) /\ h[Current(t, m)].node = m
      BY <2>3
    <2> QED BY <2>4 DEF JobAt
  <1>3. JobsOK(h, n)
    <2>1. \A j \in Ids(h) : KnowsBranches(h[j])
      <3>1. \A j \in Ids(h) : j = arg => h[j].node \notin Parallels
        BY <1>1, ProcessorAssumption DEF JobsOK
      <3> QED BY <1>1, <3>1 DEF JobsOK, KnowsBranches
    <2>2. Rooted(h)
      <3>1. ASSUME NEW j \in Ids(h) PROVE HasParent(h[j].node, h)
        <4>1. HasParent(t[j].node, t) /\ h[j].node = t[j].node /\ t[j].node \in Nodes
          BY <1>1 DEF JobsOK, Rooted, Job
        <4>2. ParentOf[t[j].node] \in Nodes \cup {NoNode}
          BY <4>1, Parents, ProcessorAssumption
        <4> QED BY <1>2, <4>1, <4>2 DEF HasParent
      <3> QED BY <3>1 DEF Rooted
    <2> QED BY <1>1, <2>1, <2>2 DEF JobsOK
  <1>4. Objects(t, h, h, {})
    BY <1>1 DEF Objects
  <1>5. Settles(t, h, h, {})
    <2>1. \A j \in Ids(h) : h[j].node \in Parallels => h[j] = t[j]
      BY <1>1, ProcessorAssumption DEF JobsOK
    <2> QED BY <2>1 DEF Settles
  <1> QED BY <1>2, <1>3, <1>4, <1>5 DEF Data

LEMMA FiniteOpen ==
  ASSUME NEW n \in Nat, NEW t, NEW h, NEW b, NEW u, Data(t, n, h, b, u), NEW m
  PROVE  IsFiniteSet(Open(m, t, u, h)) /\ Cardinality(Open(m, t, u, h)) \in Nat
  <1>1. Open(m, t, u, h) \in SUBSET (1..n)
    BY DEF Data, JobsOK, Objects, Open
  <1>2. IsFiniteSet(1..n)
    BY FS_Interval
  <1>3. IsFiniteSet(Open(m, t, u, h))
    BY <1>1, <1>2, FS_Subset
  <1> QED BY <1>3, FS_CardinalityType

\* Without objects there is nothing to save.
LEMMA DroppedData ==
  ASSUME NEW n \in Nat, NEW t, NEW h, NEW b, NEW u, NEW g, Data(t, n, h, b, u), Ids(g) = {}
  PROVE  /\ Data(t, n, g, g, {})
         /\ u = {} => \A m \in Parallels : Open(m, t, {}, g) = Open(m, t, u, h)
  <1>1. JobsOK(g, n)
    BY DEF JobsOK, Rooted
  <1>2. Objects(t, g, g, {}) /\ Settles(t, g, g, {})
    BY DEF Objects, Settles
  <1> QED BY <1>1, <1>2 DEF Data, Open

\* With the objects at most one join of a parallel node is lost: that of the
\* latest job the table has.
LEMMA LostData ==
  ASSUME NEW n \in Nat, NEW t, NEW h, NEW b, NEW u, NEW g, Data(t, n, h, b, u), Ids(g) = {}
  PROVE  \A m \in Parallels : Cardinality(Open(m, t, {}, g)) <= Cardinality(Open(m, t, u, h)) + 1
  <1>1. Data(t, n, g, g, {})
    BY DroppedData
  <1>3. ASSUME NEW m \in Parallels
        PROVE  Cardinality(Open(m, t, {}, g)) <= Cardinality(Open(m, t, u, h)) + 1
    <2> DEFINE X == Open(m, t, {}, g)
               Y == Open(m, t, u, h)
    <2>1. IsFiniteSet(X) /\ Cardinality(X) \in Nat /\ IsFiniteSet(Y) /\ Cardinality(Y) \in Nat
      BY <1>1, FiniteOpen
    <2>2. ASSUME NEW j \in X, j \notin Y
          PROVE  /\ j \in u \cap Ids(h) \cap Ids(t) /\ h[j].node = m
      <3>1. j \in Ids(t) /\ Joins(m, t[j])
        BY <2>2 DEF Open
      <3>2. j \in u
        BY <2>2, <3>1 DEF Open
      <3> QED BY <3>1, <3>2 DEF Data, Objects, Joins
    <2>3. ASSUME NEW i \in X, i \notin Y, NEW j \in X, j \notin Y PROVE i = j
      <3>1. i <= j /\ j <= i
        BY <2>2, <2>3 DEF Data, Settles
      <3>2. i \in Nat /\ j \in Nat
        BY <2>2, <2>3 DEF Data, JobsOK
      <3> QED BY <3>1, <3>2
    <2> HIDE DEF X, Y
    <2>4. CASE X \subseteq Y
      <3>1. Cardinality(X) <= Cardinality(Y)
        BY <2>1, <2>4, FS_Subset
      <3> QED BY <2>1, <3>1 DEF X, Y
    <2>5. CASE ~ (X \subseteq Y)
      <3>1. PICK j \in X : j \notin Y
        BY <2>5
      <3>2. X \subseteq Y \cup {j}
        BY <2>3, <3>1
      <3>3. IsFiniteSet(Y \cup {j}) /\ Cardinality(Y \cup {j}) = Cardinality(Y) + 1
        BY <2>1, <3>1, FS_AddElement
      <3>4. Cardinality(X) <= Cardinality(Y \cup {j})
        BY <3>2, <3>3, FS_Subset
      <3> QED BY <2>1, <3>3, <3>4 DEF X, Y
    <2> QED BY <2>4, <2>5
  <1> QED BY <1>3

------------------------------------------------------------------------------
(* The awaited calls                                                        *)

Frames == [op   : {"prepare", "run", "called", "resume", "branches", "exit", "update"},
           node : Nodes \cup {NoNode}, job : Nat, k : Int]

\* A call is about a node whose parent has a job, of objects the processor has.
FrameOK(f, h) ==
  /\ f.op \in {"run", "called"} => f.node \in Nodes /\ HasParent(f.node, h)
  /\ f.op = "branches" => /\ f.node \in Parallels /\ f.k > 0
                          /\ f.job \in Ids(h) /\ h[f.job].node = f.node
  /\ f.op = "resume" => /\ f.job \in Ids(h)
                        /\ \/ f.node \in Waiting /\ h[f.job].node = f.node
                           \/ f.node \in Parallels /\ JobAt(f.node, h)
  /\ f.op \in {"exit", "update"} => f.k \in Statuses \cup {Null}

\* Whoever waits for the innermost call is a parallel node with a branch run.
StackOK(s, h) ==
  /\ s \in Seq(Frames)
  /\ \A i \in 1..Len(s) : /\ FrameOK(s[i], h)
                          /\ i > 1 => s[i].op = "branches" /\ s[i].k > 1

LEMMA FramesGrow ==
  ASSUME NEW f, NEW h, NEW g, FrameOK(f, h), Grows(h, g)
  PROVE  FrameOK(f, g)
  <1>1. \A m : JobAt(m, h) => JobAt(m, g)
    BY DEF JobAt, Grows
  <1> QED BY <1>1 DEF FrameOK, HasParent, Grows

LEMMA TopFrame ==
  ASSUME NEW s, NEW h, StackOK(s, h), s # <<>>
  PROVE  Head(s) \in Frames /\ FrameOK(Head(s), h)
  BY DEF StackOK

LEMMA StackGrows ==
  ASSUME NEW s, NEW h, NEW g, StackOK(s, h), Grows(h, g)
  PROVE  StackOK(s, g)
  BY FramesGrow DEF StackOK

LEMMA StackReplaced ==
  ASSUME NEW s, NEW h, NEW g, StackOK(s, h), s # <<>>, Grows(h, g),
         NEW f \in Frames, FrameOK(f, g)
  PROVE  /\ StackOK(<<f>> \o Tail(s), g)
         /\ <<f>> \o Tail(s) # <<>> /\ Head(<<f>> \o Tail(s)) = f
  <1> DEFINE r == <<f>> \o Tail(s)
  <1>1. s \in Seq(Frames)
    BY DEF StackOK
  <1>2. /\ r \in Seq(Frames) /\ r # <<>> /\ Len(r) = Len(s) /\ r[1] = f /\ Head(r) = f
        /\ \A i \in 1..Len(s) : i > 1 => r[i] = s[i]
    BY <1>1
  <1> HIDE DEF r
  <1>3. StackOK(s, g)
    BY StackGrows
  <1>4. StackOK(r, g)
    BY <1>2, <1>3 DEF StackOK
  <1> QED BY <1>2, <1>4 DEF r

LEMMA StackPushed ==
  ASSUME NEW s, NEW h, StackOK(s, h), s # <<>>,
         NEW f \in Frames, FrameOK(f, h),
         NEW e \in Frames, FrameOK(e, h), e.op = "branches", e.k > 1
  PROVE  /\ StackOK(<<f, e>> \o Tail(s), h)
         /\ <<f, e>> \o Tail(s) # <<>> /\ Head(<<f, e>> \o Tail(s)) = f
  <1> DEFINE r == <<f, e>> \o Tail(s)
  <1>1. s \in Seq(Frames)
    BY DEF StackOK
  <1>2. /\ r \in Seq(Frames) /\ r # <<>> /\ Len(r) = Len(s) + 1 /\ r[1] = f /\ r[2] = e /\ Head(r) = f
        /\ \A i \in 3..Len(r) : r[i] = s[i - 1] /\ i - 1 \in 1..Len(s) /\ i - 1 > 1
    BY <1>1
  <1> HIDE DEF r
  <1>3. ASSUME NEW i \in 1..Len(r) PROVE FrameOK(r[i], h) /\ (i > 1 => r[i].op = "branches" /\ r[i].k > 1)
    <2>1. CASE i = 1
      BY <1>2, <2>1
    <2>2. CASE i = 2
      BY <1>2, <2>2
    <2>3. CASE i \in 3..Len(r)
      BY <1>2, <2>3 DEF StackOK
    <2> QED BY <2>1, <2>2, <2>3
  <1>4. StackOK(r, h)
    BY <1>2, <1>3 DEF StackOK
  <1> QED BY <1>2, <1>4 DEF r

LEMMA StackPopped ==
  ASSUME NEW s, NEW h, StackOK(s, h), s # <<>>
  PROVE  /\ StackOK(Tail(s), h)
         /\ Tail(s) # <<>> => Head(Tail(s)).op = "branches" /\ Head(Tail(s)).k > 1
  <1> DEFINE r == Tail(s)
  <1>1. s \in Seq(Frames)
    BY DEF StackOK
  <1>2. /\ r \in Seq(Frames) /\ Len(r) = Len(s) - 1
        /\ \A i \in 1..Len(r) : r[i] = s[i + 1] /\ i + 1 \in 1..Len(s) /\ i + 1 > 1
        /\ r # <<>> => Head(r) = s[2] /\ 2 \in 1..Len(s)
    BY <1>1
  <1> HIDE DEF r
  <1>3. StackOK(r, h)
    BY <1>2 DEF StackOK
  <1>4. r # <<>> => Head(r).op = "branches" /\ Head(r).k > 1
    BY <1>2 DEF StackOK
  <1> QED BY <1>3, <1>4 DEF r

------------------------------------------------------------------------------
(* The invariant                                                            *)

TypesInv ==
  /\ exec \in Statuses /\ nextId \in JobIds \cup {0}
  /\ holder \in Workers \cup {NoWorker} /\ copy \in Statuses
  /\ running \in BOOLEAN /\ signal \in BOOLEAN /\ expired \in BOOLEAN
  /\ runs \in [Nodes -> Nat] /\ crashes \in Nat

\* A task starts the execution, or it is about a waiting node's job.
Wakes(t, db) == t = 0 \/ (t \in Ids(db) /\ db[t].node \in Waiting)

TaskInv ==
  /\ tasks \in [JobIds \cup {0} -> Nat]
  /\ loaded \in [Workers -> [job : JobIds \cup {0}, status : Statuses \cup {Null}]]
  /\ \A t \in JobIds \cup {0} : tasks[t] > 0 => Wakes(t, jobs)
  /\ \A w \in Workers : loaded[w] # NoTask => Wakes(loaded[w].job, jobs) /\ loaded[w].status \in Statuses

DataInv  == Data(jobs, nextId, held, base, unsaved)
StackInv == StackOK(stack, held)

IdleInv    == holder = NoWorker => stack = <<>> /\ Ids(held) = {}
PrepareInv == At("prepare") => loaded[holder] # NoTask /\ Ids(held) = {}

\* Whoever has returned from exit, or from a branch, has saved all it had.
SavedInv ==
  Branched /\ (stack = <<>> \/ At("update") \/ (At("branches") /\ Top.k > 1)) => unsaved = {}

Is(op, n, s) == IF s # <<>> /\ Head(s).op = op /\ Head(s).node = n THEN 1 ELSE 0

\* What follows a parallel node was run, is about to be run, or waits for a
\* job that may still be joined, at most as often as the parallel node was run;
\* once more for every crash.
JoinsOK(r, c, s, t, u, h) ==
  \A n \in Parallels : Branched /\ Downstream(n) # NoNode =>
    r[Downstream(n)] + Is("run", Downstream(n), s) + Cardinality(Open(n, t, u, h)) + Is("called", n, s)
      <= r[n] + c

JoinInv == JoinsOK(runs, crashes, stack, jobs, unsaved, held)

ProcessorInv == /\ TypesInv /\ TaskInv /\ DataInv /\ StackInv
                /\ IdleInv /\ PrepareInv /\ SavedInv /\ JoinInv

LEMMA DownstreamDiffers ==
  ASSUME NEW n \in Nodes, NEW m \in Nodes, Downstream(n) # NoNode, Downstream(n) = Downstream(m)
  PROVE  n = m
  BY DownstreamTyped

\* A call that neither runs a parallel node nor what follows one.
Calm(s) == \/ s = <<>>
           \/ Head(s).op \notin {"run", "called"}
           \/ Head(s).op = "run" /\ \A n \in Parallels : Downstream(n) # Head(s).node
           \/ Head(s).op = "called" /\ Head(s).node \notin Parallels

LEMMA CalmJoins ==
  ASSUME NEW r \in [Nodes -> Nat], NEW c \in Nat, NEW n \in Nat,
         NEW s, NEW t, NEW h, NEW b, NEW u, Data(t, n, h, b, u), JoinsOK(r, c, s, t, u, h),
         NEW s2, NEW t2, NEW u2, NEW h2, Calm(s2),
         Branched => \A m \in Parallels : Open(m, t2, u2, h2) = Open(m, t, u, h)
  PROVE  JoinsOK(r, c, s2, t2, u2, h2)
  <1> SUFFICES ASSUME NEW m \in Parallels, Branched, Downstream(m) # NoNode
               PROVE  r[Downstream(m)] + Is("run", Downstream(m), s2) + Cardinality(Open(m, t2, u2, h2))
                        + Is("called", m, s2) <= r[m] + c
    BY DEF JoinsOK
  <1>1. Is("run", Downstream(m), s2) = 0 /\ Is("called", m, s2) = 0
    BY DEF Calm, Is
  <1>2. Is("run", Downstream(m), s) \in Nat /\ Is("called", m, s) \in Nat
    BY DEF Is
  <1>3. r[Downstream(m)] \in Nat /\ r[m] \in Nat
    BY DownstreamTyped, ProcessorAssumption
  <1>4. Cardinality(Open(m, t, u, h)) \in Nat
    BY FiniteOpen
  <1>5. r[Downstream(m)] + Is("run", Downstream(m), s) + Cardinality(Open(m, t, u, h)) + Is("called", m, s)
          <= r[m] + c
    BY DEF JoinsOK
  <1>6. Open(m, t2, u2, h2) = Open(m, t, u, h)
    OBVIOUS
  <1> QED BY <1>1, <1>2, <1>3, <1>4, <1>5, <1>6

LEMMA TasksGrow ==
  ASSUME TaskInv, Grows(jobs, jobs'), tasks' = tasks, loaded' = loaded
  PROVE  TaskInv'
  <1>1. \A t : Wakes(t, jobs) => Wakes(t, jobs')
    BY DEF Wakes, Grows
  <1> QED BY <1>1 DEF TaskInv

\* What happens outside the processor.
LEMMA OutsideStep ==
  ASSUME ProcessorInv, Touched(jobs, jobs'), TypesInv', TaskInv',
         UNCHANGED <<nextId, holder, stack, held, base, unsaved, runs, crashes>>,
         holder # NoWorker => loaded'[holder] = loaded[holder]
  PROVE  ProcessorInv'
  <1>1. nextId \in Nat
    BY ProcessorAssumption DEF ProcessorInv, TypesInv
  <1>2. /\ Data(jobs', nextId, held, base, unsaved)
        /\ \A m \in Parallels : Open(m, jobs', unsaved, held) = Open(m, jobs, unsaved, held)
    BY <1>1, TouchedData DEF ProcessorInv, DataInv
  <1>3. DataInv' /\ StackInv' /\ IdleInv'
    BY <1>2 DEF ProcessorInv, DataInv, StackInv, IdleInv
  <1>4. PrepareInv'
    BY DEF ProcessorInv, PrepareInv, IdleInv, At, Top
  <1>5. SavedInv'
    BY DEF ProcessorInv, SavedInv, At, Top
  <1>6. JoinInv'
    BY <1>2 DEF ProcessorInv, JoinInv, JoinsOK
  <1> QED BY <1>3, <1>4, <1>5, <1>6 DEF ProcessorInv

\* A step of the processor that goes on with another call.
LEMMA ReplacingStep ==
  ASSUME ProcessorInv, stack # <<>>, NEW f \in Frames, stack' = <<f>> \o Tail(stack),
         FrameOK(f, held'), f.op # "prepare",
         f.op = "update" \/ (f.op = "branches" /\ f.k > 1) => unsaved' = {},
         TypesInv', DataInv', JoinInv', Grows(jobs, jobs'), Grows(held, held'),
         UNCHANGED <<tasks, loaded, holder>>
  PROVE  ProcessorInv'
  <1>1. StackOK(stack', held') /\ stack' # <<>> /\ Head(stack') = f
    BY StackReplaced DEF ProcessorInv, StackInv
  <1>2. StackInv' /\ IdleInv'
    BY <1>1 DEF ProcessorInv, StackInv, IdleInv
  <1>3. PrepareInv' /\ SavedInv'
    BY <1>1 DEF PrepareInv, SavedInv, At, Top
  <1>4. TaskInv'
    BY TasksGrow DEF ProcessorInv
  <1> QED BY <1>2, <1>3, <1>4 DEF ProcessorInv

------------------------------------------------------------------------------
(* The steps outside the processor                                          *)

LEMMA NoTouch ==
  ASSUME JobsOK(jobs, nextId), jobs' = jobs
  PROVE  Touched(jobs, jobs')
  BY DEF JobsOK, Touched

LEMMA PokeStep == ASSUME ProcessorInv, NEW j \in Ids(jobs), Poke(j) PROVE ProcessorInv'
  <1>1. TypesInv' /\ UNCHANGED <<jobs, nextId, loaded, holder, stack, held, base, unsaved, runs, crashes>>
    BY DEF ProcessorInv, TypesInv, Poke, dbVars, procVars
  <1>2. Touched(jobs, jobs')
    BY <1>1, NoTouch DEF ProcessorInv, DataInv, Data
  <1>3. TaskInv'
    <2>1. j \in JobIds /\ Wakes(j, jobs)
      BY DEF Poke, ProcessorInv, DataInv, Data, JobsOK, Wakes
    <2>2. tasks' = [tasks EXCEPT ![j] = @ + 1]
      BY DEF Poke
    <2> QED BY <1>1, <2>1, <2>2 DEF ProcessorInv, TaskInv
  <1> QED BY <1>1, <1>2, <1>3, OutsideStep

LEMMA ResumeActionStep ==
  ASSUME ProcessorInv, NEW j \in Ids(jobs), NEW s \in {RESOLVED, FAILED}, ResumeAction(j, s)
  PROVE  ProcessorInv'
  <1>1. TypesInv' /\ UNCHANGED <<nextId, loaded, holder, stack, held, base, unsaved, runs, crashes>>
    BY DEF ProcessorInv, TypesInv, ResumeAction, procVars
  <1>2. Touched(jobs, jobs')
    <2>1. jobs' = [jobs EXCEPT ![j].status = s] /\ jobs[j].node \in Waiting
      BY DEF ResumeAction
    <2>2. \A i \in Ids(jobs) : jobs[i] \in Job
      BY DEF ProcessorInv, DataInv, Data, JobsOK
    <2>3. jobs[j].node \notin Parallels
      BY <2>1, ProcessorAssumption
    <2>4. s \in Statuses
      BY DEF Statuses
    <2>5. Ids(jobs') = Ids(jobs) /\ \A i \in Ids(jobs) \ {j} : jobs'[i] = jobs[i]
      BY <2>1 DEF Ids
    <2>6. jobs'[j] = [jobs[j] EXCEPT !.status = s]
      BY <2>1 DEF Ids
    <2>7. jobs'[j] \in Job /\ jobs'[j].node = jobs[j].node /\ jobs'[j].result = jobs[j].result
      BY <2>2, <2>4, <2>6 DEF Job
    <2> QED BY <2>2, <2>3, <2>5, <2>7 DEF Touched
  <1>3. TaskInv'
    <2>1. j \in JobIds /\ Wakes(j, jobs)
      BY DEF ResumeAction, ProcessorInv, DataInv, Data, JobsOK, Wakes
    <2>2. tasks' = [tasks EXCEPT ![j] = @ + 1]
      BY DEF ResumeAction
    <2>3. \A t : Wakes(t, jobs) => Wakes(t, jobs')
      BY <1>2 DEF Touched, Wakes
    <2> QED BY <1>1, <2>1, <2>2, <2>3 DEF ProcessorInv, TaskInv
  <1> QED BY <1>1, <1>2, <1>3, OutsideStep

LEMMA AbortingTouches ==
  ASSUME ProcessorInv, AbortRows
  PROVE  Touched(jobs, jobs') /\ Grows(jobs, jobs') /\ exec' \in Statuses
  <1>1. Touched(jobs, jobs')
    BY AbortTouches DEF ProcessorInv, DataInv, Data, JobsOK
  <1>2. exec' \in Statuses
    BY DEF AbortRows, Statuses, ProcessorInv, TypesInv
  <1> QED BY <1>1, <1>2 DEF Touched, Grows

LEMMA ResumeTooLateStep ==
  ASSUME ProcessorInv, NEW j \in Ids(jobs), NEW where \in {"here", "elsewhere"}, ResumeTooLate(j, where)
  PROVE  ProcessorInv'
  <1>1. Touched(jobs, jobs') /\ Grows(jobs, jobs') /\ exec' \in Statuses
    BY AbortingTouches DEF ResumeTooLate
  <1>2. UNCHANGED <<nextId, tasks, loaded, holder, stack, copy, running, held, base, unsaved,
                    expired, runs, crashes>>
    BY DEF ResumeTooLate, queueVars, ghostVars
  <1>3. signal' \in BOOLEAN
    BY DEF ResumeTooLate
  <1>4. TypesInv'
    BY <1>1, <1>2, <1>3 DEF ProcessorInv, TypesInv
  <1>5. TaskInv'
    BY <1>1, <1>2, TasksGrow DEF ProcessorInv
  <1> QED BY <1>1, <1>2, <1>4, <1>5, OutsideStep

LEMMA AbortStep ==
  ASSUME ProcessorInv, NEW where \in {"here", "elsewhere"}, Abort(where)
  PROVE  ProcessorInv'
  <1>1. Touched(jobs, jobs') /\ Grows(jobs, jobs') /\ exec' \in Statuses
    BY AbortingTouches DEF Abort
  <1>2. UNCHANGED <<nextId, tasks, loaded, holder, stack, copy, running, held, base, unsaved,
                    expired, runs, crashes>>
    BY DEF Abort, queueVars, ghostVars
  <1>3. signal' \in BOOLEAN
    BY DEF Abort
  <1>4. TypesInv'
    BY <1>1, <1>2, <1>3 DEF ProcessorInv, TypesInv
  <1>5. TaskInv'
    BY <1>1, <1>2, TasksGrow DEF ProcessorInv
  <1> QED BY <1>1, <1>2, <1>4, <1>5, OutsideStep

LEMMA TimeoutAbortStep == ASSUME ProcessorInv, TimeoutAbort PROVE ProcessorInv'
  <1>1. Touched(jobs, jobs') /\ Grows(jobs, jobs') /\ exec' \in Statuses
    BY AbortingTouches DEF TimeoutAbort
  <1>2. UNCHANGED <<nextId, tasks, loaded, holder, stack, copy, running, signal, held, base, unsaved,
                    expired, runs, crashes>>
    BY DEF TimeoutAbort, queueVars, procVars, ghostVars
  <1>3. TypesInv'
    BY <1>1, <1>2 DEF ProcessorInv, TypesInv
  <1>4. TaskInv'
    BY <1>1, <1>2, TasksGrow DEF ProcessorInv
  <1> QED BY <1>1, <1>2, <1>3, <1>4, OutsideStep

LEMMA ClockStep == ASSUME ProcessorInv, Expire \/ TimeoutGuard PROVE ProcessorInv'
  <1>1. UNCHANGED <<exec, jobs, nextId, tasks, loaded, holder, stack, copy, running, held, base, unsaved,
                    runs, crashes>>
    BY DEF Expire, TimeoutGuard, dbVars, queueVars, procVars, ghostVars
  <1>2. signal' \in BOOLEAN /\ expired' \in BOOLEAN
    BY DEF Expire, TimeoutGuard, procVars, ProcessorInv, TypesInv
  <1>3. TypesInv' /\ TaskInv'
    BY <1>1, <1>2 DEF ProcessorInv, TypesInv, TaskInv
  <1>4. Touched(jobs, jobs')
    BY <1>1, NoTouch DEF ProcessorInv, DataInv, Data
  <1> QED BY <1>1, <1>3, <1>4, OutsideStep

LEMMA LoadStep ==
  ASSUME ProcessorInv, NEW w \in Workers, NEW t \in JobIds \cup {0}, Load(w, t)
  PROVE  ProcessorInv'
  <1>1. UNCHANGED <<exec, jobs, nextId, holder, stack, copy, running, signal, held, base, unsaved,
                    expired, runs, crashes>>
    BY DEF Load, dbVars, procVars, ghostVars
  <1>2. TypesInv'
    BY <1>1 DEF ProcessorInv, TypesInv
  <1>3. Touched(jobs, jobs')
    BY <1>1, NoTouch DEF ProcessorInv, DataInv, Data
  <1>4. TaskInv'
    <2>1. Wakes(t, jobs)
      BY DEF Load, ProcessorInv, TaskInv
    <2>2. tasks' = [tasks EXCEPT ![t] = @ - 1] /\ tasks[t] > 0
      BY DEF Load
    <2>3. tasks' \in [JobIds \cup {0} -> Nat] /\ \A i \in JobIds \cup {0} : tasks'[i] > 0 => Wakes(i, jobs)
      BY <2>1, <2>2 DEF ProcessorInv, TaskInv
    <2>4. PICK task : task = [job |-> t, status |-> IF t = 0 THEN PENDING ELSE jobs[t].status]
      OBVIOUS
    <2>5. task.job = t /\ task.status \in Statuses /\ task \in [job : JobIds \cup {0}, status : Statuses \cup {Null}]
      <3>1. t # 0 => jobs[t].status \in Statuses
        BY <2>1 DEF Wakes, ProcessorInv, DataInv, Data, JobsOK, Job
      <3> QED BY <2>4, <3>1 DEF Statuses
    <2>6. loaded' = loaded \/ loaded' = [loaded EXCEPT ![w] = task]
      BY <2>4 DEF Load
    <2>7. loaded' \in [Workers -> [job : JobIds \cup {0}, status : Statuses \cup {Null}]]
      BY <2>5, <2>6 DEF ProcessorInv, TaskInv
    <2>8. \A v \in Workers : loaded'[v] # NoTask => Wakes(loaded'[v].job, jobs) /\ loaded'[v].status \in Statuses
      BY <2>1, <2>5, <2>6 DEF ProcessorInv, TaskInv
    <2> QED BY <1>1, <2>3, <2>7, <2>8 DEF TaskInv
  <1>5. holder # NoWorker => loaded'[holder] = loaded[holder]
    BY DEF Load, ProcessorInv, TypesInv, TaskInv
  <1> QED BY <1>1, <1>2, <1>3, <1>4, <1>5, OutsideStep

LEMMA InitInv == ASSUME Init PROVE ProcessorInv
  <1>1. TypesInv
    BY DEF Init, TypesInv, Statuses, STARTED, PENDING
  <1>2. TaskInv
    BY DEF Init, TaskInv, Wakes, NoTask, Null, Statuses
  <1>3. Ids(jobs) = {} /\ Ids(held) = {} /\ Ids(base) = {}
    BY DEF Init, NoJobs, Ids
  <1>4. DataInv
    BY <1>3 DEF Init, DataInv, Data, JobsOK, Rooted, Objects, Settles
  <1>5. <<>> \in Seq(Frames)
    OBVIOUS
  <1>6. StackInv /\ IdleInv /\ PrepareInv /\ SavedInv
    BY <1>3, <1>5 DEF Init, StackInv, StackOK, IdleInv, PrepareInv, SavedInv, At
  <1>7. JoinInv
    <2> SUFFICES ASSUME NEW n \in Parallels, Downstream(n) # NoNode
                 PROVE  runs[Downstream(n)] + Is("run", Downstream(n), stack)
                          + Cardinality(Open(n, jobs, unsaved, held)) + Is("called", n, stack)
                          <= runs[n] + crashes
      BY DEF JoinInv, JoinsOK
    <2>1. Open(n, jobs, unsaved, held) = {}
      BY <1>3 DEF Init, Open
    <2>2. Cardinality(Open(n, jobs, unsaved, held)) = 0
      BY <2>1, FS_EmptySet
    <2>3. Is("run", Downstream(n), stack) = 0 /\ Is("called", n, stack) = 0
      BY DEF Init, Is
    <2>4. runs[Downstream(n)] = 0 /\ runs[n] = 0 /\ crashes = 0
      BY DownstreamTyped, ProcessorAssumption DEF Init
    <2> QED BY <2>2, <2>3, <2>4
  <1> QED BY <1>1, <1>2, <1>4, <1>6, <1>7 DEF ProcessorInv

------------------------------------------------------------------------------
(* The steps of the processor                                               *)

LEMMA EnterStep == ASSUME ProcessorInv, NEW w \in Workers, Enter(w) PROVE ProcessorInv'
  <1>1. /\ holder = NoWorker /\ loaded[w] # NoTask /\ holder' = w /\ copy' = STARTED /\ signal' = FALSE
        /\ held' = NoJobs /\ base' = NoJobs /\ unsaved' = {}
        /\ UNCHANGED <<nextId, tasks, expired, runs, crashes>>
    BY DEF Enter, ghostVars
  <1>2. stack = <<>> /\ Ids(held) = {} /\ unsaved = {} /\ nextId \in Nat
    BY <1>1, ProcessorAssumption DEF ProcessorInv, IdleInv, TypesInv, DataInv, Data, Objects
  <1>3. Ids(NoJobs) = {} /\ w # NoWorker /\ STARTED \in Statuses
    BY ProcessorAssumption DEF NoJobs, Ids, Statuses, STARTED, PENDING
  <1>4. Data(jobs, nextId, held', base', unsaved')
        /\ \A m \in Parallels : Open(m, jobs, unsaved', held') = Open(m, jobs, unsaved, held)
    <2>1. Data(jobs, nextId, held, base, unsaved)
      BY DEF ProcessorInv, DataInv
    <2>2. /\ Data(jobs, nextId, NoJobs, NoJobs, {})
          /\ \A m \in Parallels : Open(m, jobs, {}, NoJobs) = Open(m, jobs, unsaved, held)
      <3>1. Ids(NoJobs) = {} /\ unsaved = {} /\ nextId \in Nat
        BY <1>2, <1>3
      <3> QED BY ONLY <2>1, <3>1, DroppedData
    <2> QED BY <1>1, <2>2
  <1>5. CASE expired /\ AbortRows /\ loaded' = [loaded EXCEPT ![w] = NoTask] /\ UNCHANGED <<stack, running>>
    <2>1. Touched(jobs, jobs') /\ Grows(jobs, jobs') /\ exec' \in Statuses
      BY <1>5, AbortingTouches
    <2>2. TypesInv'
      BY <1>1, <1>3, <1>5, <2>1 DEF ProcessorInv, TypesInv
    <2>3. TaskInv'
      <3>1. \A t : Wakes(t, jobs) => Wakes(t, jobs')
        BY <2>1 DEF Wakes, Grows
      <3>2. NoTask \in [job : JobIds \cup {0}, status : Statuses \cup {Null}]
        BY DEF NoTask
      <3> QED BY <1>1, <1>5, <3>1, <3>2 DEF ProcessorInv, TaskInv
    <2>4. /\ Data(jobs', nextId, held', base', unsaved')
          /\ \A m \in Parallels : Open(m, jobs', unsaved', held') = Open(m, jobs, unsaved, held)
      <3>1. /\ Data(jobs', nextId, held', base', unsaved')
            /\ \A m \in Parallels : Open(m, jobs', unsaved', held') = Open(m, jobs, unsaved', held')
        <4>1. Data(jobs, nextId, held', base', unsaved') /\ nextId \in Nat
          BY <1>2, <1>4
        <4>2. Touched(jobs, jobs')
          BY <2>1
        <4> QED BY ONLY <4>1, <4>2, TouchedData
      <3> QED BY <1>4, <3>1
    <2>5. stack' = <<>>
      BY <1>2, <1>5
    <2>6. JoinInv'
      <3>1. Calm(stack')
        BY <2>5 DEF Calm
      <3>2. JoinsOK(runs, crashes, stack', jobs', unsaved', held')
        BY <1>2, <2>4, <3>1, CalmJoins DEF ProcessorInv, TypesInv, DataInv, JoinInv
      <3> QED BY <1>1, <3>2 DEF JoinInv
    <2>7. StackInv'
      <3>1. <<>> \in Seq(Frames)
        OBVIOUS
      <3> QED BY <2>5, <3>1 DEF StackInv, StackOK
    <2>8. IdleInv' /\ PrepareInv' /\ SavedInv' /\ DataInv'
      BY <1>1, <1>3, <2>4, <2>5 DEF IdleInv, PrepareInv, SavedInv, DataInv, At
    <2> QED BY <2>2, <2>3, <2>6, <2>7, <2>8 DEF ProcessorInv
  <1>6. CASE ~expired /\ running' = TRUE /\ stack' = <<Frame("prepare", NoNode, loaded[w].job, Null)>>
             /\ UNCHANGED <<exec, jobs, loaded>>
    <2>1. TypesInv' /\ TaskInv'
      BY <1>1, <1>3, <1>6 DEF ProcessorInv, TypesInv, TaskInv
    <2>2. PICK f : f = Frame("prepare", NoNode, loaded[w].job, Null)
      OBVIOUS
    <2>3. loaded[w].job \in Nat
      <3>1. PICK task : task = loaded[w]
        OBVIOUS
      <3>2. task \in [job : JobIds \cup {0}, status : Statuses \cup {Null}]
        BY <3>1 DEF ProcessorInv, TaskInv
      <3>3. task.job \in Nat
        BY <3>2, IdsAreNumbers
      <3> QED BY <3>1, <3>3
    <2>4. f \in Frames /\ f.op = "prepare"
      BY <2>2, <2>3 DEF Frame, Frames, Null
    <2>5. stack' = <<f>> /\ stack' \in Seq(Frames) /\ Len(stack') = 1 /\ stack'[1] = f /\ Head(stack') = f
          /\ stack' # <<>>
      BY <1>6, <2>2, <2>4
    <2>6. StackInv'
      BY <2>4, <2>5 DEF StackInv, StackOK, FrameOK
    <2>7. IdleInv' /\ PrepareInv' /\ SavedInv' /\ DataInv'
      BY <1>1, <1>3, <1>4, <1>6, <2>4, <2>5 DEF IdleInv, PrepareInv, SavedInv, DataInv, At, Top
    <2>8. JoinInv'
      <3>1. Calm(stack')
        BY <2>4, <2>5 DEF Calm
      <3>2. JoinsOK(runs, crashes, stack', jobs, unsaved', held')
        BY <1>2, <1>4, <3>1, CalmJoins DEF ProcessorInv, TypesInv, DataInv, JoinInv
      <3> QED BY <1>1, <1>6, <3>2 DEF JoinInv
    <2> QED BY <2>1, <2>6, <2>7, <2>8 DEF ProcessorInv
  <1> QED BY <1>5, <1>6 DEF Enter

LEMMA LeaveStep == ASSUME ProcessorInv, Leave PROVE ProcessorInv'
  <1>1. /\ stack = <<>> /\ stack' = <<>> /\ running' = FALSE /\ signal' = FALSE /\ copy' = STARTED
        /\ holder' = NoWorker /\ held' = NoJobs /\ base' = NoJobs /\ unsaved' = {}
        /\ UNCHANGED <<exec, jobs, nextId, tasks, loaded, expired, runs, crashes>>
    BY DEF Leave, dbVars, queueVars, ghostVars
  <1>2. (Branched => unsaved = {}) /\ Ids(NoJobs) = {} /\ STARTED \in Statuses /\ nextId \in Nat
    BY <1>1, ProcessorAssumption
       DEF ProcessorInv, SavedInv, NoJobs, Ids, Statuses, STARTED, PENDING, TypesInv
  <1>3. Data(jobs, nextId, held', base', unsaved')
        /\ (Branched => \A m \in Parallels : Open(m, jobs, unsaved', held') = Open(m, jobs, unsaved, held))
    BY <1>1, <1>2, DroppedData DEF ProcessorInv, DataInv
  <1>4. TypesInv' /\ TaskInv'
    BY <1>1, <1>2 DEF ProcessorInv, TypesInv, TaskInv
  <1>5. StackInv'
    <2>1. <<>> \in Seq(Frames)
      OBVIOUS
    <2> QED BY <1>1, <2>1 DEF StackInv, StackOK
  <1>6. IdleInv' /\ PrepareInv' /\ SavedInv' /\ DataInv'
    BY <1>1, <1>2, <1>3 DEF IdleInv, PrepareInv, SavedInv, DataInv, At
  <1>7. JoinInv'
    <2>1. Calm(stack')
      BY <1>1 DEF Calm
    <2>2. JoinsOK(runs, crashes, stack', jobs, unsaved', held')
      BY <1>2, <1>3, <2>1, CalmJoins DEF ProcessorInv, TypesInv, DataInv, JoinInv
    <2> QED BY <1>1, <2>2 DEF JoinInv
  <1> QED BY <1>4, <1>5, <1>6, <1>7 DEF ProcessorInv

\* What is lost by a crash is one join of each parallel node at most.
LEMMA CrashStep == ASSUME ProcessorInv, Crash PROVE ProcessorInv'
  <1>1. /\ stack' = <<>> /\ running' = FALSE /\ signal' = FALSE /\ copy' = STARTED
        /\ holder' = NoWorker /\ held' = NoJobs /\ base' = NoJobs /\ unsaved' = {}
        /\ crashes' = crashes + 1 /\ loaded' = [loaded EXCEPT ![holder] = NoTask]
        /\ UNCHANGED <<exec, jobs, nextId, tasks, expired, runs>>
    BY DEF Crash, dbVars
  <1>2. Ids(NoJobs) = {} /\ STARTED \in Statuses /\ nextId \in Nat /\ crashes \in Nat
    BY ProcessorAssumption DEF NoJobs, Ids, Statuses, STARTED, PENDING, ProcessorInv, TypesInv
  <1>3. /\ Data(jobs, nextId, held', base', unsaved')
        /\ \A m \in Parallels :
             Cardinality(Open(m, jobs, unsaved', held')) <= Cardinality(Open(m, jobs, unsaved, held)) + 1
    <2>1. Data(jobs, nextId, held, base, unsaved)
      BY DEF ProcessorInv, DataInv
    <2>2. Data(jobs, nextId, NoJobs, NoJobs, {})
      BY <1>2, <2>1, DroppedData
    <2>3. \A m \in Parallels :
            Cardinality(Open(m, jobs, {}, NoJobs)) <= Cardinality(Open(m, jobs, unsaved, held)) + 1
      BY <1>2, <2>1, LostData
    <2> QED BY <1>1, <2>2, <2>3
  <1>4. TypesInv' /\ TaskInv'
    <2>1. NoTask \in [job : JobIds \cup {0}, status : Statuses \cup {Null}]
      BY DEF NoTask
    <2>2. TypesInv'
      <3>1. crashes' \in Nat
        BY <1>1, <1>2
      <3>2. running' \in BOOLEAN /\ signal' \in BOOLEAN
        BY <1>1
      <3> QED BY <1>1, <1>2, <3>1, <3>2 DEF ProcessorInv, TypesInv
    <2>3. TaskInv'
      BY <1>1, <2>1 DEF ProcessorInv, TaskInv
    <2> QED BY <2>2, <2>3
  <1>5. StackInv'
    <2>1. <<>> \in Seq(Frames)
      OBVIOUS
    <2> QED BY <1>1, <2>1 DEF StackInv, StackOK
  <1>6. IdleInv' /\ PrepareInv' /\ SavedInv' /\ DataInv'
    BY <1>1, <1>2, <1>3 DEF IdleInv, PrepareInv, SavedInv, DataInv, At
  <1>7. JoinInv'
    <2> SUFFICES ASSUME NEW n \in Parallels, Branched, Downstream(n) # NoNode
                 PROVE  runs[Downstream(n)] + Is("run", Downstream(n), stack')
                          + Cardinality(Open(n, jobs, unsaved', held')) + Is("called", n, stack')
                          <= runs[n] + (crashes + 1)
      BY <1>1 DEF JoinInv, JoinsOK
    <2>1. runs[Downstream(n)] + Is("run", Downstream(n), stack) + Cardinality(Open(n, jobs, unsaved, held))
            + Is("called", n, stack) <= runs[n] + crashes
      BY DEF ProcessorInv, JoinInv, JoinsOK
    <2>2. Is("run", Downstream(n), stack') = 0 /\ Is("called", n, stack') = 0
      BY <1>1 DEF Is
    <2>3. Is("run", Downstream(n), stack) \in Nat /\ Is("called", n, stack) \in Nat
      BY DEF Is
    <2>4. runs[Downstream(n)] \in Nat /\ runs[n] \in Nat
      BY DownstreamTyped, ProcessorAssumption DEF ProcessorInv, TypesInv
    <2>5. Cardinality(Open(n, jobs, unsaved, held)) \in Nat /\ Cardinality(Open(n, jobs, unsaved', held')) \in Nat
      BY <1>2, <1>3, FiniteOpen DEF ProcessorInv, DataInv
    <2>6. Cardinality(Open(n, jobs, unsaved', held')) <= Cardinality(Open(n, jobs, unsaved, held)) + 1
      BY <1>3
    <2> QED BY <1>2, <2>1, <2>2, <2>3, <2>4, <2>5, <2>6
  <1> QED BY <1>4, <1>5, <1>6, <1>7 DEF ProcessorInv

LEMMA TopKnown ==
  ASSUME ProcessorInv, stack # <<>>
  PROVE  Top \in Frames /\ FrameOK(Top, held) /\ nextId \in Nat
  BY TopFrame, IdsAreNumbers DEF ProcessorInv, StackInv, Top, TypesInv

\* The sum of JoinInv without the innermost call.
LEMMA JoinsWithoutTop ==
  ASSUME ProcessorInv, NEW m \in Parallels, Branched, Downstream(m) # NoNode
  PROVE  /\ runs[Downstream(m)] \in Nat /\ runs[m] \in Nat /\ crashes \in Nat
         /\ Cardinality(Open(m, jobs, unsaved, held)) \in Nat
         /\ runs[Downstream(m)] + Cardinality(Open(m, jobs, unsaved, held)) <= runs[m] + crashes
         /\ Is("called", m, stack) = 1 =>
              runs[Downstream(m)] + Cardinality(Open(m, jobs, unsaved, held)) + 1 <= runs[m] + crashes
  <1>1. runs[Downstream(m)] \in Nat /\ runs[m] \in Nat /\ crashes \in Nat
    BY DownstreamTyped, ProcessorAssumption DEF ProcessorInv, TypesInv
  <1>2. Cardinality(Open(m, jobs, unsaved, held)) \in Nat
    <2>1. nextId \in Nat
      BY IdsAreNumbers DEF ProcessorInv, TypesInv
    <2> QED BY <2>1, FiniteOpen DEF ProcessorInv, DataInv
  <1>3. Is("run", Downstream(m), stack) \in {0, 1} /\ Is("called", m, stack) \in {0, 1}
    BY DEF Is
  <1>4. runs[Downstream(m)] + Is("run", Downstream(m), stack) + Cardinality(Open(m, jobs, unsaved, held))
          + Is("called", m, stack) <= runs[m] + crashes
    BY DEF ProcessorInv, JoinInv, JoinsOK
  <1> QED BY <1>1, <1>2, <1>3, <1>4

\* A step after which nothing is run, and that leaves the open joins alone.
LEMMA CalmStep ==
  ASSUME ProcessorInv, Calm(stack'), UNCHANGED <<runs, crashes>>,
         \A m \in Parallels : Open(m, jobs', unsaved', held') = Open(m, jobs, unsaved, held)
  PROVE  JoinInv'
  <1>1. nextId \in Nat
    BY IdsAreNumbers DEF ProcessorInv, TypesInv
  <1>2. PICK s2, t2, u2, h2 : s2 = stack' /\ t2 = jobs' /\ u2 = unsaved' /\ h2 = held'
    OBVIOUS
  <1>3. JoinsOK(runs, crashes, s2, t2, u2, h2)
    <2>1. Calm(s2) /\ \A m \in Parallels : Open(m, t2, u2, h2) = Open(m, jobs, unsaved, held)
      BY <1>2
    <2>2. /\ runs \in [Nodes -> Nat] /\ crashes \in Nat
          /\ Data(jobs, nextId, held, base, unsaved)
          /\ JoinsOK(runs, crashes, stack, jobs, unsaved, held)
      BY DEF ProcessorInv, TypesInv, DataInv, JoinInv
    <2> QED BY ONLY <1>1, <2>1, <2>2, CalmJoins
  <1> QED BY <1>2, <1>3 DEF JoinInv

LEMMA PrepareStep == ASSUME ProcessorInv, Prepare PROVE ProcessorInv'
  <1> DEFINE latest == {j \in Ids(jobs) : j = Current(jobs, jobs[j].node)}
             arg    == loaded[holder]
             seen   == [j \in latest \cup (IF arg.job = 0 THEN {} ELSE {arg.job}) |->
                          IF j = arg.job THEN [jobs[j] EXCEPT !.status = arg.status] ELSE jobs[j]]
             call   == IF arg.job = 0 THEN Run(Head0, 0) ELSE Resume(jobs[arg.job].node, arg.job)
  <1>1. /\ At("prepare") /\ held' = seen /\ base' = seen
        /\ loaded' = [loaded EXCEPT ![holder] = NoTask]
        /\ stack' = <<call>> \o Tail(stack)
        /\ UNCHANGED <<exec, jobs, nextId, tasks, holder, copy, running, signal, unsaved, expired, runs, crashes>>
    BY DEF Prepare, Replace, dbVars, ghostVars
  <1>2. /\ arg # NoTask /\ Ids(held) = {} /\ holder \in Workers /\ stack # <<>> /\ nextId \in Nat
        /\ unsaved = {}
    BY <1>1, IdsAreNumbers
       DEF ProcessorInv, PrepareInv, IdleInv, TypesInv, At, DataInv, Data, Objects
  <1>3. PICK task : task = arg
    OBVIOUS
  <1>4. /\ task \in [job : JobIds \cup {0}, status : Statuses \cup {Null}]
        /\ Wakes(task.job, jobs) /\ task.status \in Statuses
    BY <1>2, <1>3 DEF ProcessorInv, TaskInv
  <1>5. /\ Ids(seen) = latest \cup (IF task.job = 0 THEN {} ELSE {task.job})
        /\ \A j \in Ids(seen) : seen[j] = IF j = task.job THEN [jobs[j] EXCEPT !.status = task.status] ELSE jobs[j]
    BY <1>3 DEF Ids
  <1>6. /\ task.job \in Nat
        /\ task.job # 0 => task.job \in Ids(jobs) /\ jobs[task.job].node \in Waiting
    BY <1>4, IdsAreNumbers DEF Wakes
  <1>7. PICK f : f = IF task.job = 0 THEN Run(Head0, 0) ELSE Resume(jobs[task.job].node, task.job)
    OBVIOUS
  <1>8. stack' = <<f>> \o Tail(stack)
    BY <1>1, <1>3, <1>7
  <1> HIDE DEF seen, call, arg, latest
  <1>9. \A j \in Ids(seen) : /\ j \in Ids(jobs) /\ seen[j] \in Job /\ seen[j].node = jobs[j].node
                             /\ seen[j].result = jobs[j].result /\ (j # task.job => seen[j] = jobs[j])
    <2> SUFFICES ASSUME NEW j \in Ids(seen)
                 PROVE  /\ j \in Ids(jobs) /\ seen[j] \in Job /\ seen[j].node = jobs[j].node
                        /\ seen[j].result = jobs[j].result /\ (j # task.job => seen[j] = jobs[j])
      OBVIOUS
    <2>1. j \in Ids(jobs)
      BY <1>5, <1>6 DEF latest
    <2>2. jobs[j] \in Job
      BY <2>1 DEF ProcessorInv, DataInv, Data, JobsOK
    <2>3. CASE j = task.job
      <3>1. seen[j] = [jobs[j] EXCEPT !.status = task.status]
        BY <1>5, <2>3
      <3> QED BY <1>4, <2>1, <2>2, <2>3, <3>1 DEF Job
    <2>4. CASE j # task.job
      BY <1>5, <2>1, <2>2, <2>4
    <2> QED BY <2>3, <2>4
  <1>10. /\ Data(jobs, nextId, seen, seen, {})
         /\ \A m \in Nodes : JobAt(m, jobs) => JobAt(m, seen)
    <2>1. JobsOK(jobs, nextId)
      BY DEF ProcessorInv, DataInv, Data
    <2>2. Ids(seen) = {j \in Ids(jobs) : j = Current(jobs, jobs[j].node)}
                      \cup (IF task.job = 0 THEN {} ELSE {task.job})
      BY <1>5 DEF latest
    <2>3. \A j \in Ids(seen) : /\ seen[j] \in Job /\ seen[j].node = jobs[j].node
                               /\ seen[j].result = jobs[j].result /\ (j # task.job => seen[j] = jobs[j])
      BY <1>9
    <2>4. PICK a : a = task.job
      OBVIOUS
    <2>5. a \in Nat /\ nextId \in Nat /\ (a # 0 => a \in Ids(jobs) /\ jobs[a].node \in Waiting)
      BY <1>2, <1>6, <2>4
    <2> QED BY ONLY <2>1, <2>2, <2>3, <2>4, <2>5, LoadedData
  <1>11. f \in Frames /\ FrameOK(f, seen) /\ f.op \in {"run", "resume"} /\ (f.op = "run" => f.node = Head0)
    <2>1. CASE task.job = 0
      <3>1. f = Run(Head0, 0)
        BY <1>7, <2>1
      <3>2. f.op = "run" /\ f.node = Head0 /\ f \in Frames
        BY <3>1, HeadTyped DEF Run, Frame, Frames, Null
      <3> QED BY <3>2, HeadTyped DEF FrameOK, HasParent
    <2>2. CASE task.job # 0
      <3>1. f = Resume(jobs[task.job].node, task.job)
        BY <1>7, <2>2
      <3>2. f.op = "resume" /\ f.node = jobs[task.job].node /\ f.job = task.job
        BY <3>1 DEF Resume, Frame
      <3>3. f \in Frames
        BY <1>6, <2>2, <3>1, ProcessorAssumption DEF Resume, Frame, Frames, Null
      <3>4. task.job \in Ids(seen) /\ seen[task.job].node = jobs[task.job].node
        BY <1>5, <1>9, <2>2
      <3> QED BY <1>6, <2>2, <3>2, <3>3, <3>4 DEF FrameOK
    <2> QED BY <2>1, <2>2
  <1>12. StackOK(stack', seen) /\ stack' # <<>> /\ Head(stack') = f
    <2>1. Grows(held, seen)
      BY <1>2 DEF Grows
    <2> QED BY <1>2, <1>8, <1>11, <2>1, StackReplaced DEF ProcessorInv, StackInv
  <1>13. TypesInv'
    BY <1>1 DEF ProcessorInv, TypesInv
  <1>14. TaskInv'
    <2>1. NoTask \in [job : JobIds \cup {0}, status : Statuses \cup {Null}]
      BY DEF NoTask
    <2> QED BY <1>1, <2>1 DEF ProcessorInv, TaskInv
  <1>15. DataInv' /\ StackInv' /\ IdleInv' /\ PrepareInv' /\ SavedInv'
    <2>1. holder # NoWorker
      BY <1>2, ProcessorAssumption
    <2> QED BY <1>1, <1>2, <1>10, <1>11, <1>12, <2>1
            DEF DataInv, StackInv, IdleInv, PrepareInv, SavedInv, At, Top
  <1>16. JoinInv'
    <2>1. Calm(stack')
      <3>1. \A n \in Parallels : Downstream(n) # Head0
        BY DownstreamTyped, HeadTyped, ProcessorAssumption
      <3> QED BY <1>11, <1>12, <3>1 DEF Calm
    <2>2. \A m \in Parallels : Open(m, jobs, {}, seen) = Open(m, jobs, unsaved, held)
      BY <1>2 DEF Open
    <2>3. JoinsOK(runs, crashes, stack', jobs, {}, seen)
      BY <1>2, <2>1, <2>2, CalmJoins DEF ProcessorInv, TypesInv, DataInv, JoinInv
    <2> QED BY <1>1, <1>2, <2>3 DEF JoinInv
  <1> QED BY <1>13, <1>14, <1>15, <1>16 DEF ProcessorInv

LEMMA ExitFrame ==
  ASSUME NEW s \in Statuses \cup {Null}, NEW h
  PROVE  Exit(s) \in Frames /\ FrameOK(Exit(s), h) /\ Exit(s).op = "exit" /\ Exit(s).k = s
  BY DEF Exit, Frame, Frames, FrameOK, Statuses, Null, PENDING, RESOLVED, FAILED, ABORTED

LEMMA StopStep == ASSUME ProcessorInv, Stop PROVE ProcessorInv'
  <1>1. /\ stack # <<>> /\ stack' = <<Exit(Null)>> \o Tail(stack)
        /\ UNCHANGED <<nextId, tasks, loaded, holder, running, held, base, unsaved, expired, runs, crashes>>
    BY DEF Stop, At, Replace, queueVars, ghostVars
  <1>2. PICK f : f = Exit(Null)
    OBVIOUS
  <1>3. f \in Frames /\ FrameOK(f, held) /\ f.op = "exit"
    BY <1>2, ExitFrame
  <1>4. /\ Touched(jobs, jobs') /\ Grows(jobs, jobs')
        /\ exec' \in Statuses /\ copy' \in Statuses /\ signal' \in BOOLEAN
    <2>1. CASE copy = STARTED
      <3>1. AbortRows /\ copy' = (IF exec = STARTED THEN ABORTED ELSE copy)
            /\ signal' = (signal \/ (running /\ exec = STARTED))
        BY <2>1 DEF Stop
      <3>2. signal' \in BOOLEAN
        BY <3>1
      <3>3. copy' \in Statuses
        BY <3>1 DEF ProcessorInv, TypesInv, Statuses
      <3> QED BY <3>1, <3>2, <3>3, AbortingTouches
    <2>2. CASE copy # STARTED
      <3>1. UNCHANGED <<exec, jobs, copy, signal>>
        BY <2>2 DEF Stop
      <3>2. Touched(jobs, jobs')
        BY <3>1, NoTouch DEF ProcessorInv, DataInv, Data
      <3> QED BY <3>1, <3>2 DEF ProcessorInv, TypesInv, Touched, Grows
    <2> QED BY <2>1, <2>2
  <1>5. TypesInv'
    BY <1>1, <1>4 DEF ProcessorInv, TypesInv
  <1>6. /\ Data(jobs', nextId, held, base, unsaved)
        /\ \A m \in Parallels : Open(m, jobs', unsaved, held) = Open(m, jobs, unsaved, held)
    BY <1>1, <1>4, TopKnown, TouchedData DEF ProcessorInv, DataInv
  <1>7. JoinInv'
    <2>1. Head(stack') = f
      BY <1>1, <1>2, <1>3, StackReplaced DEF ProcessorInv, StackInv, Grows
    <2>2. Calm(stack')
      BY <1>3, <2>1 DEF Calm
    <2>3. JoinsOK(runs, crashes, stack', jobs', unsaved, held)
      BY <1>1, <1>6, <2>2, TopKnown, CalmJoins DEF ProcessorInv, TypesInv, DataInv, JoinInv
    <2> QED BY <1>1, <2>3 DEF JoinInv
  <1>8. DataInv' /\ Grows(held, held')
    BY <1>1, <1>6 DEF DataInv, Grows
  <1> QED BY <1>1, <1>2, <1>3, <1>4, <1>5, <1>7, <1>8, ReplacingStep

LEMMA CallStep == ASSUME ProcessorInv, Call PROVE ProcessorInv'
  <1>1. /\ At("run") /\ stack # <<>>
        /\ runs' = [runs EXCEPT ![Top.node] = @ + 1]
        /\ stack' = <<[Top EXCEPT !.op = "called"]>> \o Tail(stack)
        /\ UNCHANGED <<exec, jobs, nextId, tasks, loaded, holder, copy, running, signal, held, base, unsaved,
                       expired, crashes>>
    BY DEF Call, At, Replace, dbVars, queueVars
  <1>2. PICK top : top = Top
    OBVIOUS
  <1>3. top \in Frames /\ FrameOK(top, held) /\ top.op = "run" /\ top = Head(stack) /\ nextId \in Nat
    BY <1>1, <1>2, TopKnown DEF At, Top
  <1>4. top.node \in Nodes /\ HasParent(top.node, held)
    BY <1>3 DEF FrameOK
  <1>5. PICK f : f = [top EXCEPT !.op = "called"]
    OBVIOUS
  <1>6. f \in Frames /\ f.op = "called" /\ f.node = top.node
    BY <1>3, <1>5 DEF Frames
  <1>7. FrameOK(f, held)
    BY <1>4, <1>6 DEF FrameOK
  <1>8. TypesInv'
    BY <1>1, <1>2, <1>4 DEF ProcessorInv, TypesInv
  <1>9. stack' = <<f>> \o Tail(stack)
    BY <1>1, <1>2, <1>5
  <1>10. JoinInv'
    <2> SUFFICES ASSUME NEW m \in Parallels, Branched, Downstream(m) # NoNode
                 PROVE  runs'[Downstream(m)] + Is("run", Downstream(m), stack')
                          + Cardinality(Open(m, jobs, unsaved, held)) + Is("called", m, stack')
                          <= runs'[m] + crashes
      BY <1>1 DEF JoinInv, JoinsOK
    <2>1. Head(stack') = f /\ stack' # <<>>
      BY <1>1, <1>6, <1>7, <1>9, StackReplaced DEF ProcessorInv, StackInv, Grows
    <2>2. /\ Is("run", Downstream(m), stack') = 0
          /\ Is("called", m, stack') = IF m = top.node THEN 1 ELSE 0
      BY <1>6, <2>1 DEF Is
    <2>3. /\ Is("run", Downstream(m), stack) = IF Downstream(m) = top.node THEN 1 ELSE 0
          /\ Is("called", m, stack) = 0
      BY <1>1, <1>3 DEF Is
    <2>4. runs[Downstream(m)] + Is("run", Downstream(m), stack) + Cardinality(Open(m, jobs, unsaved, held))
            + Is("called", m, stack) <= runs[m] + crashes
      BY DEF ProcessorInv, JoinInv, JoinsOK
    <2>5. Downstream(m) \in Nodes /\ m \in Nodes
      BY DownstreamTyped, ProcessorAssumption
    <2>6. /\ runs'[Downstream(m)] = runs[Downstream(m)] + (IF Downstream(m) = top.node THEN 1 ELSE 0)
          /\ runs'[m] = runs[m] + (IF m = top.node THEN 1 ELSE 0)
      BY <1>1, <1>2, <1>4, <2>5 DEF ProcessorInv, TypesInv
    <2>7. /\ runs[Downstream(m)] \in Nat /\ runs[m] \in Nat /\ crashes \in Nat
          /\ Cardinality(Open(m, jobs, unsaved, held)) \in Nat
      BY JoinsWithoutTop
    <2> HIDE DEF Is
    <2> QED BY <2>2, <2>3, <2>4, <2>6, <2>7
  <1>11. DataInv' /\ Grows(held, held') /\ Grows(jobs, jobs')
    BY <1>1 DEF ProcessorInv, DataInv, Grows
  <1> QED BY <1>1, <1>6, <1>7, <1>8, <1>9, <1>10, <1>11, ReplacingStep

\* What exec calls once it has a job of a node: what follows it, if it is
\* resolved, the parallel node before it, or exit; after the signal only exit.
LEMMA AfterJobFrame ==
  ASSUME NEW n \in Nodes, NEW j \in Nat, NEW s \in Statuses, NEW g,
         AfterJob(n, j, s), HasParent(n, g), j \in Ids(g)
  PROVE  \E f \in Frames :
           /\ stack' = <<f>> \o Tail(stack) /\ FrameOK(f, g) /\ f.op \in {"run", "resume", "exit"}
           /\ f.op = "run" => s = RESOLVED /\ Downstream(n) # NoNode /\ f.node = Downstream(n)
           /\ signal => f.op = "exit" /\ f.k = ABORTED
  <1>1. stack' = <<IF copy = ABORTED \/ signal THEN Exit(ABORTED)
                   ELSE IF s = RESOLVED /\ Downstream(n) # NoNode THEN Run(Downstream(n), j)
                   ELSE IF ParentOf[n] # NoNode THEN Resume(ParentOf[n], j)
                   ELSE Exit(s)>> \o Tail(stack)
    BY DEF AfterJob, Replace
  <1>2. CASE copy = ABORTED \/ signal
    <2>1. stack' = <<Exit(ABORTED)>> \o Tail(stack)
      BY <1>1, <1>2
    <2>2. ABORTED \in Statuses \cup {Null}
      BY DEF Statuses
    <2>3. Exit(ABORTED) \in Frames /\ FrameOK(Exit(ABORTED), g)
          /\ Exit(ABORTED).op = "exit" /\ Exit(ABORTED).k = ABORTED
      BY <2>2, ExitFrame
    <2> QED BY <2>1, <2>3
  <1>3. CASE ~ (copy = ABORTED \/ signal) /\ s = RESOLVED /\ Downstream(n) # NoNode
    <2> DEFINE f == Run(Downstream(n), j)
    <2>1. stack' = <<f>> \o Tail(stack)
      BY <1>1, <1>3
    <2>2. f.op = "run" /\ f.node = Downstream(n) /\ f \in Frames
      BY <1>3, DownstreamTyped DEF Run, Frame, Frames, Null
    <2>3. FrameOK(f, g)
      BY <1>3, <2>2, DownstreamTyped DEF FrameOK, HasParent
    <2> HIDE DEF f
    <2> QED BY <1>3, <2>1, <2>2, <2>3
  <1>4. CASE ~ (copy = ABORTED \/ signal) /\ ~ (s = RESOLVED /\ Downstream(n) # NoNode) /\ ParentOf[n] # NoNode
    <2> DEFINE f == Resume(ParentOf[n], j)
    <2>1. stack' = <<f>> \o Tail(stack)
      BY <1>1, <1>4
    <2>2. ParentOf[n] \in Parallels /\ ParentOf[n] \in Nodes /\ JobAt(ParentOf[n], g)
      BY <1>4, Parents, ProcessorAssumption DEF HasParent
    <2>3. f.op = "resume" /\ f.node = ParentOf[n] /\ f.job = j /\ f \in Frames
      BY <2>2 DEF Resume, Frame, Frames, Null
    <2>4. FrameOK(f, g)
      BY <2>2, <2>3 DEF FrameOK
    <2> HIDE DEF f
    <2> QED BY <1>4, <2>1, <2>3, <2>4
  <1>5. CASE ~ (copy = ABORTED \/ signal) /\ ~ (s = RESOLVED /\ Downstream(n) # NoNode) /\ ParentOf[n] = NoNode
    <2>1. stack' = <<Exit(s)>> \o Tail(stack)
      BY <1>1, <1>5
    <2>2. Exit(s) \in Frames /\ FrameOK(Exit(s), g) /\ Exit(s).op = "exit" /\ Exit(s).k = s
      BY ExitFrame
    <2> QED BY <1>5, <2>1, <2>2
  <1> QED BY <1>2, <1>3, <1>4, <1>5

\* An instruction has returned a job.
LEMMA AfterJobStep ==
  ASSUME ProcessorInv, stack # <<>>, NEW n \in Nodes, NEW j \in Nat, NEW s \in Statuses,
         AfterJob(n, j, s), HasParent(n, held'), j \in Ids(held'),
         TypesInv', DataInv', Grows(held, held'),
         UNCHANGED <<jobs, tasks, loaded, holder, runs, crashes>>,
         \A m \in Parallels : Branched /\ Downstream(m) # NoNode =>
           runs[Downstream(m)] + (IF m = n /\ s = RESOLVED THEN 1 ELSE 0)
             + Cardinality(Open(m, jobs, unsaved', held')) <= runs[m] + crashes
  PROVE  ProcessorInv'
  <1>1. PICK f \in Frames :
          /\ stack' = <<f>> \o Tail(stack) /\ FrameOK(f, held') /\ f.op \in {"run", "resume", "exit"}
          /\ f.op = "run" => s = RESOLVED /\ Downstream(n) # NoNode /\ f.node = Downstream(n)
    <2>1. PICK g : g = held'
      OBVIOUS
    <2> QED BY <2>1, AfterJobFrame
  <1>2. Head(stack') = f /\ stack' # <<>>
    BY <1>1, StackReplaced DEF ProcessorInv, StackInv
  <1>3. JoinInv'
    <2> SUFFICES ASSUME NEW m \in Parallels, Branched, Downstream(m) # NoNode
                 PROVE  runs[Downstream(m)] + Is("run", Downstream(m), stack')
                          + Cardinality(Open(m, jobs, unsaved', held')) + Is("called", m, stack')
                          <= runs[m] + crashes
      BY DEF JoinInv, JoinsOK
    <2>1. Is("called", m, stack') = 0
      BY <1>1, <1>2 DEF Is
    <2>2. Is("run", Downstream(m), stack') \in {0, 1}
      BY DEF Is
    <2>3. Is("run", Downstream(m), stack') = 1 => m = n /\ s = RESOLVED
      <3>1. m \in Nodes
        BY ProcessorAssumption
      <3> QED BY <1>1, <1>2, <3>1, DownstreamDiffers DEF Is
    <2>4. runs[Downstream(m)] \in Nat /\ runs[m] \in Nat /\ crashes \in Nat
      BY JoinsWithoutTop
    <2>5. Cardinality(Open(m, jobs, unsaved', held')) \in Nat
      <3>1. nextId' \in Nat
        BY IdsAreNumbers DEF TypesInv
      <3>2. Data(jobs, nextId', held', base', unsaved')
        BY DEF DataInv
      <3> QED BY <3>1, <3>2, FiniteOpen
    <2>6. runs[Downstream(m)] + (IF m = n /\ s = RESOLVED THEN 1 ELSE 0)
            + Cardinality(Open(m, jobs, unsaved', held')) <= runs[m] + crashes
      OBVIOUS
    <2> HIDE DEF Is
    <2> QED BY <2>1, <2>2, <2>3, <2>4, <2>5, <2>6
  <1>4. Grows(jobs, jobs') /\ f.op # "prepare" /\ ~ (f.op = "update" \/ (f.op = "branches" /\ f.k > 1))
    BY <1>1 DEF Grows
  <1> QED BY <1>1, <1>3, <1>4, ReplacingStep

LEMMA NewJobData ==
  ASSUME ProcessorInv, NEW n \in Nodes, NEW s \in Statuses, NEW result \in Seq(Statuses \cup {Null}),
         NewJob(n, s, result), HasParent(n, held), UNCHANGED <<jobs, base>>,
         Branched /\ n \in Parallels /\ s \in {PENDING, RESOLVED} => result # <<>>
  PROVE  /\ DataInv' /\ Grows(held, held') /\ nextId + 1 \in Ids(held') /\ nextId + 1 \in Nat
         /\ nextId' = nextId + 1 /\ nextId' \in JobIds /\ held'[nextId + 1].node = n
         /\ \A m \in Parallels :
              /\ m # n \/ result = <<>> \/ s = RESOLVED =>
                   Open(m, jobs, unsaved', held') = Open(m, jobs, unsaved, held)
              /\ Cardinality(Open(m, jobs, unsaved', held')) \in Nat
              /\ Cardinality(Open(m, jobs, unsaved', held')) <= Cardinality(Open(m, jobs, unsaved, held)) + 1
  <1>1. PICK job : job = [node |-> n, status |-> s, result |-> result]
    OBVIOUS
  <1>2. job \in Job /\ job.node = n /\ job.status = s /\ job.result = result
    BY <1>1 DEF Job
  <1>3. /\ nextId + 1 \in JobIds /\ nextId' = nextId + 1
        /\ held' = With(held, nextId + 1, job) /\ unsaved' = unsaved \cup {nextId + 1}
    BY <1>1 DEF NewJob, SaveJob
  <1>4. PICK i, k : i = nextId /\ k = nextId + 1
    OBVIOUS
  <1>5. i \in Nat /\ k \in JobIds /\ k \in Nat /\ k > i /\ KnowsBranches(job)
        /\ Data(jobs, i, held, base, unsaved)
    BY <1>2, <1>3, <1>4, IdsAreNumbers DEF ProcessorInv, TypesInv, DataInv, KnowsBranches
  <1>6. /\ Data(jobs, k, held', base, unsaved')
        /\ Grows(held, held') /\ k \in Ids(held') /\ held'[k] = job
        /\ k \notin Ids(held) \cup Ids(jobs)
        /\ \A m \in Parallels :
             /\ Joins(m, job) => Open(m, jobs, unsaved', held') = Open(m, jobs, unsaved, held) \cup {k}
             /\ ~ Joins(m, job) => Open(m, jobs, unsaved', held') = Open(m, jobs, unsaved, held)
    <2>1. PICK g, v : g = held' /\ v = unsaved'
      OBVIOUS
    <2>2. g = With(held, k, job) /\ v = unsaved \cup {k} /\ job \in Job
      BY <1>2, <1>3, <1>4, <2>1
    <2>3. HasParent(n, held) /\ job.node = n
      BY <1>2
    <2>4. /\ Data(jobs, k, g, base, v)
          /\ Grows(held, g) /\ k \in Ids(g) /\ g[k] = job
          /\ k \notin Ids(held) \cup Ids(jobs)
      BY ONLY <1>5, <2>2, <2>3, BuiltData
    <2>5. ASSUME NEW m \in Parallels
          PROVE  /\ Joins(m, job) => Open(m, jobs, v, g) = Open(m, jobs, unsaved, held) \cup {k}
                 /\ ~ Joins(m, job) => Open(m, jobs, v, g) = Open(m, jobs, unsaved, held)
      BY <1>5, <2>2, <2>4, BuiltOpen
    <2> QED BY <2>1, <2>4, <2>5
  <1>7. DataInv'
    BY <1>3, <1>4, <1>6 DEF DataInv
  <1>8. ASSUME NEW m \in Parallels
        PROVE  /\ m # n \/ result = <<>> \/ s = RESOLVED =>
                    Open(m, jobs, unsaved', held') = Open(m, jobs, unsaved, held)
               /\ Cardinality(Open(m, jobs, unsaved', held')) \in Nat
               /\ Cardinality(Open(m, jobs, unsaved', held')) <= Cardinality(Open(m, jobs, unsaved, held)) + 1
    <2>1. IsFiniteSet(Open(m, jobs, unsaved, held)) /\ Cardinality(Open(m, jobs, unsaved, held)) \in Nat
      BY <1>5, FiniteOpen
    <2>2. CASE Joins(m, job)
      <3>1. Open(m, jobs, unsaved', held') = Open(m, jobs, unsaved, held) \cup {k}
        BY <1>6, <2>2
      <3>2. k \notin Open(m, jobs, unsaved, held)
        BY <1>5, <1>6 DEF Open, Data, Objects
      <3>3. Cardinality(Open(m, jobs, unsaved', held')) = Cardinality(Open(m, jobs, unsaved, held)) + 1
        BY <2>1, <3>1, <3>2, FS_AddElement
      <3>4. m = n /\ result # <<>> /\ s # RESOLVED
        BY <1>2, <2>2 DEF Joins
      <3> QED BY <2>1, <3>3, <3>4
    <2>3. CASE ~ Joins(m, job)
      <3>1. Open(m, jobs, unsaved', held') = Open(m, jobs, unsaved, held)
        BY <1>6, <2>3
      <3> QED BY <2>1, <3>1
    <2> QED BY <2>2, <2>3
  <1>9. nextId + 1 \in Nat /\ nextId + 1 \in Ids(held') /\ held'[nextId + 1].node = n /\ nextId' \in JobIds
    BY <1>2, <1>3, <1>4, <1>5, <1>6
  <1> QED BY <1>3, <1>6, <1>7, <1>8, <1>9

LEMMA RunNodeStep == ASSUME ProcessorInv, RunNode PROVE ProcessorInv'
  <1>1. PICK s \in {RESOLVED, FAILED} \cup (IF signal THEN {ABORTED} ELSE {}) :
          NewJob(Top.node, s, <<>>) /\ AfterJob(Top.node, nextId + 1, s)
    BY DEF RunNode
  <1>2. /\ At("called") /\ stack # <<>> /\ Top.node \notin Parallels
        /\ UNCHANGED <<exec, jobs, tasks, loaded, holder, copy, running, signal, base, expired, runs, crashes>>
    BY DEF RunNode, Called, At, queueVars, ghostVars
  <1>3. PICK n : n = Top.node
    OBVIOUS
  <1>4. n \in Nodes /\ HasParent(n, held) /\ n \notin Parallels
    BY <1>2, <1>3, TopKnown DEF FrameOK, At
  <1>5. s \in Statuses /\ <<>> \in Seq(Statuses \cup {Null})
    <2>1. <<>> \in Seq(Statuses \cup {Null})
      OBVIOUS
    <2> QED BY <1>1, <2>1 DEF Statuses
  <1>6. NewJob(n, s, <<>>) /\ AfterJob(n, nextId + 1, s)
    BY <1>1, <1>3
  <1>7. /\ DataInv' /\ Grows(held, held') /\ nextId + 1 \in Ids(held') /\ nextId + 1 \in Nat
        /\ nextId' \in JobIds
        /\ \A m \in Parallels : Open(m, jobs, unsaved', held') = Open(m, jobs, unsaved, held)
    BY <1>2, <1>4, <1>5, <1>6, NewJobData
  <1>8. TypesInv'
    BY <1>2, <1>7 DEF ProcessorInv, TypesInv
  <1>9. HasParent(n, held')
    BY <1>4, <1>7 DEF HasParent, JobAt, Grows
  <1>10. \A m \in Parallels : Branched /\ Downstream(m) # NoNode =>
           runs[Downstream(m)] + (IF m = n /\ s = RESOLVED THEN 1 ELSE 0)
             + Cardinality(Open(m, jobs, unsaved', held')) <= runs[m] + crashes
    BY <1>4, <1>7, JoinsWithoutTop
  <1> QED BY <1>2, <1>4, <1>5, <1>6, <1>7, <1>8, <1>9, <1>10, AfterJobStep

LEMMA RunWaitingStep == ASSUME ProcessorInv, RunWaiting PROVE ProcessorInv'
  <1>1. /\ At("called") /\ stack # <<>> /\ Top.node \in Waiting
        /\ NewJob(Top.node, PENDING, <<>>)
        /\ \/ stack' = <<Exit(Null)>> \o Tail(stack)
           \/ AfterJob(Top.node, nextId + 1, PENDING)
        /\ UNCHANGED <<exec, jobs, tasks, loaded, holder, copy, running, signal, base, expired, runs, crashes>>
    BY DEF RunWaiting, Called, At, Replace, queueVars, ghostVars
  <1>2. PICK n : n = Top.node
    OBVIOUS
  <1>3. n \in Nodes /\ HasParent(n, held) /\ n \notin Parallels
    BY <1>1, <1>2, TopKnown, ProcessorAssumption DEF FrameOK, At
  <1>4. PENDING \in Statuses /\ <<>> \in Seq(Statuses \cup {Null})
    <2>1. <<>> \in Seq(Statuses \cup {Null})
      OBVIOUS
    <2> QED BY <2>1 DEF Statuses
  <1>5. NewJob(n, PENDING, <<>>)
    BY <1>1, <1>2
  <1>6. /\ DataInv' /\ Grows(held, held') /\ nextId + 1 \in Ids(held') /\ nextId + 1 \in Nat
        /\ nextId' \in JobIds
        /\ \A m \in Parallels : Open(m, jobs, unsaved', held') = Open(m, jobs, unsaved, held)
    BY <1>1, <1>3, <1>4, <1>5, NewJobData
  <1>7. TypesInv'
    BY <1>1, <1>6 DEF ProcessorInv, TypesInv
  <1>8. HasParent(n, held')
    BY <1>3, <1>6 DEF HasParent, JobAt, Grows
  <1>9. CASE stack' = <<Exit(Null)>> \o Tail(stack)
    <2>1. PICK f : f = Exit(Null)
      OBVIOUS
    <2>2. f \in Frames /\ FrameOK(f, held') /\ f.op = "exit" /\ stack' = <<f>> \o Tail(stack)
      BY <1>9, <2>1, ExitFrame
    <2>3. Head(stack') = f
      BY <1>1, <1>6, <2>2, StackReplaced DEF ProcessorInv, StackInv
    <2>4. Calm(stack')
      BY <2>2, <2>3 DEF Calm
    <2>5. JoinsOK(runs, crashes, stack', jobs, unsaved', held')
      BY <1>1, <1>6, <2>4, TopKnown, CalmJoins DEF ProcessorInv, TypesInv, DataInv, JoinInv
    <2>6. JoinInv' /\ Grows(jobs, jobs')
      BY <1>1, <2>5 DEF JoinInv, Grows
    <2> QED BY <1>1, <1>6, <1>7, <2>2, <2>6, ReplacingStep
  <1>10. CASE AfterJob(n, nextId + 1, PENDING)
    <2>1. \A m \in Parallels : Branched /\ Downstream(m) # NoNode =>
            runs[Downstream(m)] + (IF m = n /\ PENDING = RESOLVED THEN 1 ELSE 0)
              + Cardinality(Open(m, jobs, unsaved', held')) <= runs[m] + crashes
      BY <1>3, <1>6, JoinsWithoutTop
    <2> QED BY <1>1, <1>3, <1>4, <1>6, <1>7, <1>8, <1>10, <2>1, AfterJobStep
  <1> QED BY <1>1, <1>2, <1>9, <1>10

\* The only job that may be joined is made by a call of its parallel node.
LEMMA RunParallelStep == ASSUME ProcessorInv, RunParallel PROVE ProcessorInv'
  <1>1. PICK n, result : n = Top.node /\ result = [i \in 1..Cardinality(Branches(n)) |-> Null]
    OBVIOUS
  <1>2. /\ At("called") /\ stack # <<>> /\ n \in Parallels
        /\ NewJob(n, PENDING, result)
        /\ stack' = <<Frame("branches", n, nextId + 1, 1)>> \o Tail(stack)
        /\ UNCHANGED <<exec, jobs, tasks, loaded, holder, copy, running, signal, base, expired, runs, crashes>>
    BY <1>1 DEF RunParallel, Called, At, Replace, queueVars, ghostVars
  <1>3. n \in Nodes /\ HasParent(n, held) /\ Top.op = "called"
    BY <1>1, <1>2, TopKnown DEF FrameOK, At
  <1>4. result \in Seq(Statuses \cup {Null}) /\ (Branched => result # <<>>) /\ PENDING \in Statuses
    <2>1. Cardinality(Branches(n)) \in Nat /\ (Branched => Cardinality(Branches(n)) # 0)
      BY <1>2, BranchesCounted
    <2>2. result \in Seq(Statuses \cup {Null}) /\ Len(result) = Cardinality(Branches(n))
      BY <1>1, <2>1
    <2> QED BY <2>1, <2>2 DEF Statuses
  <1>5. /\ DataInv' /\ Grows(held, held') /\ nextId + 1 \in Ids(held') /\ nextId + 1 \in Nat
        /\ nextId' \in JobIds /\ held'[nextId + 1].node = n
    BY <1>2, <1>3, <1>4, NewJobData
  <1>6. \A m \in Parallels :
          /\ m # n => Open(m, jobs, unsaved', held') = Open(m, jobs, unsaved, held)
          /\ Cardinality(Open(m, jobs, unsaved', held')) \in Nat
          /\ Cardinality(Open(m, jobs, unsaved', held')) <= Cardinality(Open(m, jobs, unsaved, held)) + 1
    BY <1>2, <1>3, <1>4, NewJobData
  <1>7. TypesInv'
    BY <1>2, <1>5 DEF ProcessorInv, TypesInv
  <1>8. PICK f : f = Frame("branches", n, nextId + 1, 1)
    OBVIOUS
  <1>9. f \in Frames /\ f.op = "branches" /\ f.node = n /\ f.job = nextId + 1 /\ f.k = 1
    BY <1>3, <1>5, <1>8 DEF Frame, Frames
  <1>10. FrameOK(f, held')
    BY <1>2, <1>5, <1>9 DEF FrameOK
  <1>11. stack' = <<f>> \o Tail(stack) /\ Head(stack') = f
    BY <1>2, <1>5, <1>8, <1>9, <1>10, StackReplaced DEF ProcessorInv, StackInv
  <1>12. JoinInv'
    <2> SUFFICES ASSUME NEW m \in Parallels, Branched, Downstream(m) # NoNode
                 PROVE  runs[Downstream(m)] + Is("run", Downstream(m), stack')
                          + Cardinality(Open(m, jobs, unsaved', held')) + Is("called", m, stack')
                          <= runs[m] + crashes
      BY <1>2 DEF JoinInv, JoinsOK
    <2>1. Is("run", Downstream(m), stack') = 0 /\ Is("called", m, stack') = 0
      BY <1>9, <1>11 DEF Is
    <2>2. m = n => Is("called", m, stack) = 1
      BY <1>1, <1>2, <1>3 DEF Is, Top
    <2>3. /\ runs[Downstream(m)] \in Nat /\ runs[m] \in Nat /\ crashes \in Nat
          /\ Cardinality(Open(m, jobs, unsaved, held)) \in Nat
          /\ runs[Downstream(m)] + Cardinality(Open(m, jobs, unsaved, held)) <= runs[m] + crashes
          /\ Is("called", m, stack) = 1 =>
               runs[Downstream(m)] + Cardinality(Open(m, jobs, unsaved, held)) + 1 <= runs[m] + crashes
      BY JoinsWithoutTop
    <2>4. /\ m # n => Cardinality(Open(m, jobs, unsaved', held')) = Cardinality(Open(m, jobs, unsaved, held))
          /\ Cardinality(Open(m, jobs, unsaved', held')) \in Nat
          /\ Cardinality(Open(m, jobs, unsaved', held')) <= Cardinality(Open(m, jobs, unsaved, held)) + 1
      BY <1>6
    <2> QED BY <2>1, <2>2, <2>3, <2>4
  <1>13. Grows(jobs, jobs') /\ f.op # "prepare" /\ ~ (f.op = "update" \/ (f.op = "branches" /\ f.k > 1))
    BY <1>2, <1>9 DEF Grows
  <1> QED BY <1>2, <1>5, <1>7, <1>9, <1>10, <1>11, <1>12, <1>13, ReplacingStep

LEMMA TasksStay ==
  ASSUME ProcessorInv, UNCHANGED <<jobs, tasks, loaded>>
  PROVE  TaskInv'
  <1>1. Grows(jobs, jobs')
    BY DEF Grows
  <1> QED BY <1>1, TasksGrow DEF ProcessorInv

LEMMA RunBranchStep == ASSUME ProcessorInv, RunBranch PROVE ProcessorInv'
  <1>1. PICK n, i, b : n = Top.node /\ i = Top.k /\ b = BranchNo(n, i)
    OBVIOUS
  <1>2. /\ At("branches") /\ stack # <<>> /\ i <= Cardinality(Branches(n))
        /\ stack' = <<Run(b, Top.job), [Top EXCEPT !.k = i + 1]>> \o Tail(stack)
        /\ UNCHANGED <<exec, jobs, nextId, tasks, loaded, holder, copy, running, signal, held, base, unsaved,
                       expired, runs, crashes>>
    BY <1>1 DEF RunBranch, At, dbVars, queueVars, ghostVars
  <1>3. PICK top : top = Top
    OBVIOUS
  <1>4. /\ top \in Frames /\ FrameOK(top, held) /\ top.op = "branches"
        /\ n = top.node /\ i = top.k
    BY <1>1, <1>2, <1>3, TopKnown DEF At
  <1>5. /\ n \in Parallels /\ i \in Nat \ {0} /\ top.job \in Ids(held) /\ held[top.job].node = n
    BY <1>4 DEF FrameOK, Frames
  <1>6. b \in Nodes /\ b \in Starts /\ ParentOf[b] = n
    <2>1. Cardinality(Branches(n)) \in Nat /\ i \in 1..Cardinality(Branches(n))
      BY <1>2, <1>5, BranchesCounted
    <2> QED BY <1>1, <1>5, <2>1, BranchesCounted
  <1>7. PICK f, e : f = Run(b, top.job) /\ e = [top EXCEPT !.k = i + 1]
    OBVIOUS
  <1>8. stack' = <<f, e>> \o Tail(stack)
    BY <1>2, <1>3, <1>7
  <1>9. f \in Frames /\ f.op = "run" /\ f.node = b /\ FrameOK(f, held)
    <2>1. top.job \in Nat
      BY <1>4 DEF Frames
    <2>2. f \in Frames /\ f.op = "run" /\ f.node = b
      BY <1>6, <1>7, <2>1 DEF Run, Frame, Frames, Null
    <2>3. HasParent(b, held)
      BY <1>5, <1>6 DEF HasParent, JobAt
    <2> QED BY <1>6, <2>2, <2>3 DEF FrameOK
  <1>10. e \in Frames /\ e.op = "branches" /\ e.k > 1 /\ FrameOK(e, held)
    <2>1. e \in Frames /\ e.op = "branches" /\ e.k = i + 1 /\ e.node = n /\ e.job = top.job
      BY <1>4, <1>5, <1>7 DEF Frames
    <2> QED BY <1>5, <2>1 DEF FrameOK
  <1>11. StackOK(stack', held) /\ stack' # <<>> /\ Head(stack') = f
    BY <1>2, <1>8, <1>9, <1>10, StackPushed DEF ProcessorInv, StackInv
  <1>12. TypesInv' /\ TaskInv' /\ DataInv'
    BY <1>2, TasksStay DEF ProcessorInv, TypesInv, DataInv
  <1>13. StackInv' /\ IdleInv' /\ PrepareInv' /\ SavedInv'
    BY <1>2, <1>9, <1>11 DEF ProcessorInv, StackInv, IdleInv, PrepareInv, SavedInv, At, Top
  <1>14. JoinInv'
    <2>1. Calm(stack')
      <3>1. \A m \in Parallels : Downstream(m) # b
        <4>1. b # NoNode
          BY <1>6, ProcessorAssumption
        <4>2. Branch[b] # 0
          BY <1>6 DEF Starts
        <4> QED BY <4>1, <4>2, DownstreamTyped, ProcessorAssumption
      <3> QED BY <1>9, <1>11, <3>1 DEF Calm
    <2>2. \A m \in Parallels : Open(m, jobs', unsaved', held') = Open(m, jobs, unsaved, held)
      BY <1>2
    <2> QED BY <1>2, <2>1, <2>2, CalmStep
  <1> QED BY <1>12, <1>13, <1>14 DEF ProcessorInv

\* A call that returns: whoever waits for it has nothing unsaved.
LEMMA ReturningStep ==
  ASSUME ProcessorInv, stack # <<>>, stack' = Tail(stack), Branched => unsaved = {}, TypesInv',
         UNCHANGED <<jobs, nextId, tasks, loaded, holder, held, base, unsaved, runs, crashes>>
  PROVE  ProcessorInv'
  <1>1. /\ StackOK(stack', held)
        /\ stack' # <<>> => Head(stack').op = "branches" /\ Head(stack').k > 1
    BY StackPopped DEF ProcessorInv, StackInv
  <1>2. TaskInv' /\ DataInv'
    BY TasksStay DEF ProcessorInv, DataInv
  <1>3. StackInv' /\ IdleInv' /\ PrepareInv' /\ SavedInv'
    BY <1>1 DEF ProcessorInv, StackInv, IdleInv, PrepareInv, SavedInv, At, Top
  <1>4. JoinInv'
    <2>1. Calm(stack')
      BY <1>1 DEF Calm
    <2>2. JoinsOK(runs, crashes, stack', jobs, unsaved, held)
      BY <2>1, TopKnown, CalmJoins DEF ProcessorInv, TypesInv, DataInv, JoinInv
    <2> QED BY <2>2 DEF JoinInv
  <1> QED BY <1>2, <1>3, <1>4 DEF ProcessorInv

LEMMA BranchesEndStep == ASSUME ProcessorInv, BranchesEnd PROVE ProcessorInv'
  <1>1. /\ At("branches") /\ stack # <<>> /\ stack' = Tail(stack) /\ running' = FALSE
        /\ \/ Top.k > Cardinality(Branches(Top.node))
           \/ Top.k > 1
        /\ UNCHANGED <<exec, jobs, nextId, tasks, loaded, holder, copy, signal, held, base, unsaved,
                       expired, runs, crashes>>
    BY DEF BranchesEnd, At, Pop, dbVars, queueVars, ghostVars
  <1>2. Branched => unsaved = {}
    <2>1. PICK top : top = Top
      OBVIOUS
    <2>2. top.node \in Parallels /\ top.k \in Int
      BY <1>1, <2>1, TopKnown DEF FrameOK, Frames, At
    <2>3. Cardinality(Branches(top.node)) \in Nat /\ (Branched => Cardinality(Branches(top.node)) # 0)
      BY <2>2, BranchesCounted
    <2>4. Branched => Top.k > 1
      BY <1>1, <2>1, <2>2, <2>3
    <2> QED BY <1>1, <2>4 DEF ProcessorInv, SavedInv
  <1>3. TypesInv'
    <2>1. running' \in BOOLEAN
      BY <1>1
    <2> QED BY <1>1, <2>1 DEF ProcessorInv, TypesInv
  <1> QED BY <1>1, <1>2, <1>3, ReturningStep

LEMMA ExitUpdateStep == ASSUME ProcessorInv, ExitUpdate PROVE ProcessorInv'
  <1>1. /\ At("update") /\ stack # <<>> /\ stack' = Tail(stack)
        /\ UNCHANGED <<jobs, nextId, tasks, loaded, holder, running, signal, held, base, unsaved,
                       expired, runs, crashes>>
    BY DEF ExitUpdate, At, Pop, queueVars, ghostVars
  <1>2. Branched => unsaved = {}
    BY <1>1 DEF ProcessorInv, SavedInv
  <1>3. exec' \in Statuses /\ copy' \in Statuses
    <2>1. Top.k \in Statuses \cup {Null}
      BY <1>1, TopKnown DEF FrameOK, At
    <2>2. CASE Top.k = Null
      BY <2>2 DEF ExitUpdate, ProcessorInv, TypesInv
    <2>3. CASE Top.k # Null
      BY <2>1, <2>3 DEF ExitUpdate, ProcessorInv, TypesInv
    <2> QED BY <2>2, <2>3
  <1>4. TypesInv'
    BY <1>1, <1>3 DEF ProcessorInv, TypesInv
  <1> QED BY <1>1, <1>2, <1>4, ReturningStep

LEMMA ExitSaveStep == ASSUME ProcessorInv, ExitSave PROVE ProcessorInv'
  <1>1. /\ At("exit") /\ stack # <<>> /\ running' = FALSE /\ unsaved' = {}
        /\ jobs' = [j \in Ids(jobs) \cup unsaved |-> IF j \in unsaved THEN Merge(j) ELSE jobs[j]]
        /\ base' = [j \in Ids(base) \cup unsaved |-> IF j \in unsaved THEN held[j] ELSE base[j]]
        /\ stack' = <<[Top EXCEPT !.op = "update"]>> \o Tail(stack)
        /\ UNCHANGED <<exec, nextId, tasks, loaded, holder, copy, signal, held, expired, runs, crashes>>
    BY DEF ExitSave, At, Replace, queueVars, ghostVars
  <1>2. PICK s, c : s = jobs' /\ c = base'
    OBVIOUS
  <1>3. /\ Ids(s) = Ids(jobs) \cup unsaved /\ Ids(c) = Ids(base) \cup unsaved
        /\ \A j \in Ids(jobs) \ unsaved : s[j] = jobs[j]
        /\ \A j \in unsaved \ Ids(jobs) : s[j] = held[j]
        /\ \A j \in unsaved \cap Ids(jobs) :
             s[j] = [jobs[j] EXCEPT
                       !.status = IF held[j].status # base[j].status THEN held[j].status ELSE @,
                       !.result = IF held[j].result # base[j].result THEN held[j].result ELSE @]
        /\ \A j \in Ids(base) \ unsaved : c[j] = base[j]
        /\ \A j \in unsaved : c[j] = held[j]
    BY <1>1, <1>2 DEF Ids, Merge
  <1>4. /\ Data(s, nextId, held, c, {}) /\ Grows(jobs, s)
        /\ \A m \in Parallels : Open(m, s, {}, held) = Open(m, jobs, unsaved, held)
    <2>1. Data(jobs, nextId, held, base, unsaved) /\ nextId \in Nat
      BY <1>1, TopKnown DEF ProcessorInv, DataInv
    <2>2. Saves(jobs, held, base, unsaved, s, c)
      BY <1>3 DEF Saves
    <2> QED BY <2>1, <2>2, SavedData
  <1>5. PICK top, f : top = Top /\ f = [top EXCEPT !.op = "update"]
    OBVIOUS
  <1>6. top \in Frames /\ FrameOK(top, held) /\ top.op = "exit"
    BY <1>1, <1>5, TopKnown DEF At
  <1>7. f \in Frames /\ FrameOK(f, held) /\ f.op = "update"
    <2>1. f \in Frames /\ f.op = "update" /\ f.k = top.k
      BY <1>5, <1>6 DEF Frames
    <2> QED BY <1>6, <2>1 DEF FrameOK
  <1>8. stack' = <<f>> \o Tail(stack) /\ Head(stack') = f
    <2>1. stack' = <<f>> \o Tail(stack)
      BY <1>1, <1>5
    <2> QED BY <1>1, <1>7, <2>1, StackReplaced DEF ProcessorInv, StackInv, Grows
  <1>9. TypesInv'
    <2>1. running' \in BOOLEAN
      BY <1>1
    <2> QED BY <1>1, <2>1 DEF ProcessorInv, TypesInv
  <1>10. JoinInv'
    <2>1. Calm(stack')
      BY <1>7, <1>8 DEF Calm
    <2>2. JoinsOK(runs, crashes, stack', s, {}, held)
      BY <1>1, <1>4, <2>1, TopKnown, CalmJoins DEF ProcessorInv, TypesInv, DataInv, JoinInv
    <2> QED BY <1>1, <1>2, <2>2 DEF JoinInv
  <1>11. DataInv' /\ Grows(jobs, jobs') /\ Grows(held, held') /\ FrameOK(f, held') /\ f.op # "prepare"
    BY <1>1, <1>2, <1>4, <1>7 DEF DataInv, Grows
  <1> QED BY <1>1, <1>7, <1>8, <1>9, <1>10, <1>11, ReplacingStep

LEMMA BranchesThrowStep == ASSUME ProcessorInv, BranchesThrow PROVE ProcessorInv'
  <1>1. PICK n, s : n = Top.node /\ s = IF signal THEN ABORTED ELSE FAILED
    OBVIOUS
  <1>2. /\ At("branches") /\ stack # <<>>
        /\ NewJob(n, s, <<>>) /\ AfterJob(n, nextId + 1, s)
        /\ UNCHANGED <<exec, jobs, tasks, loaded, holder, copy, running, signal, base, expired, runs, crashes>>
    BY <1>1 DEF BranchesThrow, At, queueVars, ghostVars
  <1>3. s \in Statuses /\ s \notin {PENDING, RESOLVED} /\ <<>> \in Seq(Statuses \cup {Null})
    <2>1. <<>> \in Seq(Statuses \cup {Null})
      OBVIOUS
    <2> QED BY <1>1, <2>1 DEF Statuses, PENDING, RESOLVED, ABORTED, FAILED
  <1>4. n \in Nodes /\ HasParent(n, held)
    <2>1. PICK j \in Ids(held) : held[j].node = n
      BY <1>1, <1>2, TopKnown DEF FrameOK, At
    <2> QED BY <2>1 DEF ProcessorInv, DataInv, Data, JobsOK, Rooted, Job
  <1>5. /\ DataInv' /\ Grows(held, held') /\ nextId + 1 \in Ids(held') /\ nextId + 1 \in Nat
        /\ nextId' \in JobIds
        /\ \A m \in Parallels : Open(m, jobs, unsaved', held') = Open(m, jobs, unsaved, held)
    BY <1>2, <1>3, <1>4, NewJobData
  <1>6. TypesInv'
    BY <1>2, <1>5 DEF ProcessorInv, TypesInv
  <1>7. HasParent(n, held')
    BY <1>4, <1>5 DEF HasParent, JobAt, Grows
  <1>8. \A m \in Parallels : Branched /\ Downstream(m) # NoNode =>
          runs[Downstream(m)] + (IF m = n /\ s = RESOLVED THEN 1 ELSE 0)
            + Cardinality(Open(m, jobs, unsaved', held')) <= runs[m] + crashes
    BY <1>3, <1>5, JoinsWithoutTop
  <1> QED BY <1>2, <1>3, <1>4, <1>5, <1>6, <1>7, <1>8, AfterJobStep

\* A changed object: a parallel node's is one of its open joins, and no longer
\* once it is resolved.
LEMMA SaveJobData ==
  ASSUME ProcessorInv, NEW j \in Ids(held), NEW job \in Job, SaveJob(j, job), UNCHANGED <<jobs, nextId, base>>,
         NEW node, job.node = node, held[j].node = node,
         node \in Parallels => /\ held[j].status = PENDING
                               /\ (job.result = <<>>) <=> (held[j].result = <<>>)
                               /\ \A i \in Ids(held) : held[i].node = node => i <= j
  PROVE  /\ DataInv' /\ Grows(held, held') /\ j \in Ids(held') /\ HasParent(node, held')
         /\ \A m \in Parallels : Branched =>
              /\ Cardinality(Open(m, jobs, unsaved', held')) \in Nat
              /\ Cardinality(Open(m, jobs, unsaved', held')) + (IF m = node /\ job.status = RESOLVED THEN 1 ELSE 0)
                   <= Cardinality(Open(m, jobs, unsaved, held))
  <1>1. nextId \in Nat /\ Data(jobs, nextId, held, base, unsaved)
    BY IdsAreNumbers DEF ProcessorInv, TypesInv, DataInv
  <1>2. PICK g, v : g = held' /\ v = unsaved'
    OBVIOUS
  <1>3. g = With(held, j, job) /\ v = unsaved \cup {j}
    BY <1>2 DEF SaveJob
  <1>4. /\ Data(jobs, nextId, g, base, v) /\ Grows(held, g) /\ Ids(g) = Ids(held)
        /\ Branched /\ node \in Parallels => j \in Open(node, jobs, unsaved, held)
    BY <1>1, <1>3, ChangedData
  <1>5. HasParent(node, g)
    <2>1. HasParent(node, held)
      BY <1>1 DEF Data, JobsOK, Rooted
    <2> QED BY <1>4, <2>1 DEF HasParent, JobAt, Grows
  <1>6. ASSUME NEW m \in Parallels, Branched
        PROVE  /\ Cardinality(Open(m, jobs, v, g)) \in Nat
               /\ Cardinality(Open(m, jobs, v, g)) + (IF m = node /\ job.status = RESOLVED THEN 1 ELSE 0)
                    <= Cardinality(Open(m, jobs, unsaved, held))
    <2>1. PICK X, Y : X = Open(m, jobs, v, g) /\ Y = Open(m, jobs, unsaved, held)
      OBVIOUS
    <2>2. IsFiniteSet(X) /\ Cardinality(X) \in Nat /\ IsFiniteSet(Y) /\ Cardinality(Y) \in Nat
      BY <1>1, <1>4, <2>1, FiniteOpen
    <2>3. /\ m # node => X = Y
          /\ m = node => X \ {j} = Y \ {j} /\ j \in Y
          /\ job.status = RESOLVED => j \notin X
      <3>1. /\ m # node => Open(m, jobs, v, g) = Open(m, jobs, unsaved, held)
            /\ m = node => Open(m, jobs, v, g) \ {j} = Open(m, jobs, unsaved, held) \ {j}
            /\ job.status = RESOLVED => j \notin Open(m, jobs, v, g)
        <4>1. job.node = node /\ held[j].node = node /\ j \in Ids(held)
          OBVIOUS
        <4> QED BY ONLY <1>1, <1>3, <4>1, ChangedOpen
      <3> QED BY <1>4, <1>6, <2>1, <3>1
    <2>4. CASE m = node /\ job.status = RESOLVED
      <3>1. X = Y \ {j} /\ j \in Y
        BY <2>3, <2>4
      <3>2. Cardinality(X) = Cardinality(Y) - 1
        BY <2>2, <3>1, FS_RemoveElement
      <3> QED BY <2>1, <2>2, <2>4, <3>2
    <2>5. CASE ~ (m = node /\ job.status = RESOLVED)
      <3>1. X \subseteq Y
        BY <2>3
      <3>2. Cardinality(X) <= Cardinality(Y)
        BY <2>2, <3>1, FS_Subset
      <3> QED BY <2>1, <2>2, <2>5, <3>2
    <2> QED BY <2>4, <2>5
  <1>7. DataInv'
    <2>1. Data(jobs', nextId', g, base', v)
      BY <1>4
    <2> QED BY <1>2, <2>1 DEF DataInv
  <1> QED BY <1>2, <1>4, <1>5, <1>6, <1>7

LEMMA ResumeWaitingStep == ASSUME ProcessorInv, ResumeWaiting PROVE ProcessorInv'
  <1>1. PICK j, n : j = Top.job /\ n = Top.node
    OBVIOUS
  <1>2. PICK s \in IF held[j].status = PENDING THEN {RESOLVED, FAILED} ELSE {held[j].status} :
          SaveJob(j, [held[j] EXCEPT !.status = s]) /\ AfterJob(n, j, s)
    BY <1>1 DEF ResumeWaiting
  <1>3. /\ At("resume") /\ stack # <<>> /\ n \in Waiting
        /\ UNCHANGED <<exec, jobs, nextId, tasks, loaded, holder, copy, running, signal, base, expired, runs, crashes>>
    BY <1>1 DEF ResumeWaiting, At, dbVars, queueVars, ghostVars
  <1>4. j \in Ids(held) /\ held[j].node = n /\ j \in Nat /\ n \in Nodes /\ n \notin Parallels
    BY <1>1, <1>3, TopKnown, ProcessorAssumption DEF At, FrameOK, Frames
  <1>5. held[j] \in Job
    BY <1>4 DEF ProcessorInv, DataInv, Data, JobsOK
  <1>6. s \in Statuses
    BY <1>2, <1>5 DEF Job, Statuses
  <1>7. PICK job : job = [held[j] EXCEPT !.status = s]
    OBVIOUS
  <1>8. job \in Job /\ job.node = n
    BY <1>4, <1>5, <1>6, <1>7 DEF Job
  <1>9. SaveJob(j, job)
    BY <1>2, <1>7
  <1>10. /\ DataInv' /\ Grows(held, held') /\ j \in Ids(held') /\ HasParent(n, held')
         /\ \A m \in Parallels : Branched =>
              /\ Cardinality(Open(m, jobs, unsaved', held')) \in Nat
              /\ Cardinality(Open(m, jobs, unsaved', held')) + (IF m = n /\ job.status = RESOLVED THEN 1 ELSE 0)
                   <= Cardinality(Open(m, jobs, unsaved, held))
    BY <1>3, <1>4, <1>8, <1>9, SaveJobData
  <1>11. TypesInv'
    BY <1>3 DEF ProcessorInv, TypesInv
  <1>12. ASSUME NEW m \in Parallels, Branched, Downstream(m) # NoNode
         PROVE  runs[Downstream(m)] + (IF m = n /\ s = RESOLVED THEN 1 ELSE 0)
                  + Cardinality(Open(m, jobs, unsaved', held')) <= runs[m] + crashes
    <2>1. m # n
      BY <1>4
    <2> QED BY <1>10, <1>12, <2>1, JoinsWithoutTop
  <1> QED BY <1>2, <1>3, <1>4, <1>6, <1>10, <1>11, <1>12, AfterJobStep

\* The same where some joins are settled.
LEMMA SettlingStep ==
  ASSUME ProcessorInv, Calm(stack'), UNCHANGED <<runs, crashes>>,
         \A m \in Parallels : Branched =>
           /\ Cardinality(Open(m, jobs', unsaved', held')) \in Nat
           /\ Cardinality(Open(m, jobs', unsaved', held')) <= Cardinality(Open(m, jobs, unsaved, held))
  PROVE  JoinInv'
  <1> SUFFICES ASSUME NEW m \in Parallels, Branched, Downstream(m) # NoNode
               PROVE  runs[Downstream(m)] + Is("run", Downstream(m), stack')
                        + Cardinality(Open(m, jobs', unsaved', held')) + Is("called", m, stack')
                        <= runs[m] + crashes
    BY DEF JoinInv, JoinsOK
  <1>1. Is("run", Downstream(m), stack') = 0 /\ Is("called", m, stack') = 0
    BY DEF Calm, Is
  <1>2. /\ Cardinality(Open(m, jobs', unsaved', held')) \in Nat
        /\ Cardinality(Open(m, jobs', unsaved', held')) <= Cardinality(Open(m, jobs, unsaved, held))
    OBVIOUS
  <1>3. /\ runs[Downstream(m)] \in Nat /\ runs[m] \in Nat /\ crashes \in Nat
        /\ Cardinality(Open(m, jobs, unsaved, held)) \in Nat
        /\ runs[Downstream(m)] + Cardinality(Open(m, jobs, unsaved, held)) <= runs[m] + crashes
    BY JoinsWithoutTop
  <1> QED BY <1>1, <1>2, <1>3

\* The object of a parallel node that a branch comes back to is its latest.
LEMMA CurrentKnown ==
  ASSUME ProcessorInv, NEW n \in Nodes, JobAt(n, held)
  PROVE  /\ Current(held, n) \in Ids(held) /\ held[Current(held, n)].node = n
         /\ \A i \in Ids(held) : held[i].node = n => i <= Current(held, n)
  <1> DEFINE ids == {j \in Ids(held) : held[j].node = n}
  <1>1. nextId \in Nat
    BY IdsAreNumbers DEF ProcessorInv, TypesInv
  <1>2. ids \in SUBSET (1..nextId) /\ ids # {}
    BY DEF ProcessorInv, DataInv, Data, JobsOK, JobAt
  <1>3. \E j \in ids : \A i \in ids : i <= j
    <2> HIDE DEF ids
    <2> QED BY <1>1, <1>2, Greatest
  <1>4. Current(held, n) = CHOOSE j \in ids : \A i \in ids : i <= j
    BY <1>2 DEF Current
  <1> QED BY <1>3, <1>4

LEMMA ResumeParallelStep == ASSUME ProcessorInv, ResumeParallel PROVE ProcessorInv'
  <1>1. PICK n, j, result, s :
          /\ n = Top.node /\ j = Current(held, n)
          /\ result = [held[j].result EXCEPT ![IndexOf(n, StartIn(held[Top.job].node, n))] = held[Top.job].status]
          /\ s = JoinStatus(Mode[n], result)
    OBVIOUS
  <1>2. /\ At("resume") /\ stack # <<>> /\ n \in Parallels
        /\ UNCHANGED <<exec, jobs, nextId, tasks, loaded, holder, copy, running, signal, base, expired, runs, crashes>>
    BY <1>1 DEF ResumeParallel, At, dbVars, queueVars, ghostVars
  <1>3. \/ held[j].status # PENDING /\ Replace(Exit(Null)) /\ UNCHANGED <<held, unsaved>>
        \/ /\ held[j].status = PENDING
           /\ SaveJob(j, [held[j] EXCEPT !.status = s, !.result = result])
           /\ IF s = PENDING THEN Replace(Exit(Null)) ELSE AfterJob(n, j, s)
    BY <1>1 DEF ResumeParallel
  <1>4. n \in Nodes /\ n \notin Waiting /\ Top.job \in Ids(held) /\ JobAt(n, held)
    BY <1>1, <1>2, TopKnown, ProcessorAssumption DEF At, FrameOK
  <1>5. /\ j \in Ids(held) /\ held[j].node = n
        /\ \A i \in Ids(held) : held[i].node = n => i <= j
    BY <1>1, <1>4, CurrentKnown
  <1>6. held[j] \in Job /\ KnowsBranches(held[j]) /\ held[Top.job] \in Job /\ j \in Nat
    BY <1>4, <1>5 DEF ProcessorInv, DataInv, Data, JobsOK
  <1>7. result \in Seq(Statuses \cup {Null}) /\ ((result = <<>>) <=> (held[j].result = <<>>))
    <2>1. PICK old, i, new : /\ old = held[j].result /\ new = held[Top.job].status
                             /\ i = IndexOf(n, StartIn(held[Top.job].node, n))
      OBVIOUS
    <2>2. old \in Seq(Statuses \cup {Null}) /\ new \in Statuses \cup {Null}
      BY <1>6, <2>1 DEF Job
    <2>3. result = [old EXCEPT ![i] = new]
      BY <1>1, <2>1
    <2>4. result \in Seq(Statuses \cup {Null})
      <3>1. Len(old) \in Nat /\ result \in [1..Len(old) -> Statuses \cup {Null}]
        <4>1. Len(old) \in Nat /\ old \in [1..Len(old) -> Statuses \cup {Null}]
          BY <2>2
        <4>2. \A l \in 1..Len(old) : [old EXCEPT ![i] = new][l] = IF l = i THEN new ELSE old[l]
          BY <4>1
        <4>3. \A l \in 1..Len(old) : [old EXCEPT ![i] = new][l] \in Statuses \cup {Null}
          BY <2>2, <4>1, <4>2
        <4>4. [old EXCEPT ![i] = new] = [l \in 1..Len(old) |-> [old EXCEPT ![i] = new][l]]
          BY <4>1
        <4> QED BY <2>3, <4>1, <4>3, <4>4
      <3> QED BY <3>1, SeqDef
    <2>5. (result = <<>>) <=> (old = <<>>)
      <3>1. DOMAIN result = DOMAIN old
        BY <2>3
      <3>2. Len(result) = Len(old)
        BY <2>2, <2>4, <3>1
      <3> QED BY <2>2, <2>4, <3>2
    <2> QED BY <2>1, <2>4, <2>5
  <1>8. s \in Statuses
    <2>1. Mode[n] \in {"all", "any", "race", "allSettled"}
      BY <1>2, ProcessorAssumption
    <2> QED BY <1>1, <1>7, <2>1, JoinStatusTyped
  <1>9. TypesInv'
    BY <1>2 DEF ProcessorInv, TypesInv
  <1>10. ASSUME Replace(Exit(Null)), DataInv', Grows(held, held'),
                \A m \in Parallels : Branched =>
                  /\ Cardinality(Open(m, jobs, unsaved', held')) \in Nat
                  /\ Cardinality(Open(m, jobs, unsaved', held')) <= Cardinality(Open(m, jobs, unsaved, held))
         PROVE  ProcessorInv'
    <2>1. PICK f : f = Exit(Null)
      OBVIOUS
    <2>2. f \in Frames /\ FrameOK(f, held') /\ f.op = "exit"
      BY <2>1, ExitFrame
    <2>3. stack' = <<f>> \o Tail(stack)
      BY <1>10, <2>1 DEF Replace
    <2>4. Calm(stack')
      BY <1>2, <1>10, <2>2, <2>3, StackReplaced DEF ProcessorInv, StackInv, Calm
    <2>5. JoinInv'
      BY <1>2, <1>10, <2>4, SettlingStep
    <2>6. Grows(jobs, jobs')
      BY <1>2 DEF Grows
    <2> QED BY <1>2, <1>9, <1>10, <2>2, <2>3, <2>5, <2>6, ReplacingStep
  <1>11. CASE held[j].status # PENDING /\ Replace(Exit(Null)) /\ UNCHANGED <<held, unsaved>>
    <2>1. DataInv' /\ Grows(held, held')
      BY <1>2, <1>11 DEF ProcessorInv, DataInv, Grows
    <2>2. nextId \in Nat /\ Data(jobs, nextId, held, base, unsaved)
      BY <1>2, TopKnown DEF ProcessorInv, DataInv
    <2>3. \A m \in Parallels : Cardinality(Open(m, jobs, unsaved, held)) \in Nat
      BY <2>2, FiniteOpen
    <2>4. \A m \in Parallels : Branched =>
            /\ Cardinality(Open(m, jobs, unsaved', held')) \in Nat
            /\ Cardinality(Open(m, jobs, unsaved', held')) <= Cardinality(Open(m, jobs, unsaved, held))
      BY <1>11, <2>3
    <2> QED BY <1>10, <1>11, <2>1, <2>4
  <1>12. CASE /\ held[j].status = PENDING
              /\ SaveJob(j, [held[j] EXCEPT !.status = s, !.result = result])
              /\ IF s = PENDING THEN Replace(Exit(Null)) ELSE AfterJob(n, j, s)
    <2>1. PICK job : job = [held[j] EXCEPT !.status = s, !.result = result]
      OBVIOUS
    <2>2. job \in Job /\ job.node = n /\ job.status = s /\ ((job.result = <<>>) <=> (held[j].result = <<>>))
      BY <1>5, <1>6, <1>7, <1>8, <2>1 DEF Job
    <2>3. SaveJob(j, job)
      BY <1>12, <2>1
    <2>4. /\ DataInv' /\ Grows(held, held') /\ j \in Ids(held') /\ HasParent(n, held')
          /\ \A m \in Parallels : Branched =>
               /\ Cardinality(Open(m, jobs, unsaved', held')) \in Nat
               /\ Cardinality(Open(m, jobs, unsaved', held')) + (IF m = n /\ job.status = RESOLVED THEN 1 ELSE 0)
                    <= Cardinality(Open(m, jobs, unsaved, held))
      BY <1>2, <1>5, <1>12, <2>2, <2>3, SaveJobData
    <2>5. CASE s = PENDING
      <3>1. s # RESOLVED
        BY <2>5, StatusesDiffer
      <3>2. \A m \in Parallels : Branched =>
              /\ Cardinality(Open(m, jobs, unsaved', held')) \in Nat
              /\ Cardinality(Open(m, jobs, unsaved', held')) <= Cardinality(Open(m, jobs, unsaved, held))
        BY <2>2, <2>4, <3>1
      <3> QED BY <1>10, <1>12, <2>4, <2>5, <3>2
    <2>6. CASE s # PENDING
      <3>1. ASSUME NEW m \in Parallels, Branched, Downstream(m) # NoNode
            PROVE  runs[Downstream(m)] + (IF m = n /\ s = RESOLVED THEN 1 ELSE 0)
                     + Cardinality(Open(m, jobs, unsaved', held')) <= runs[m] + crashes
        BY <2>2, <2>4, <3>1, JoinsWithoutTop
      <3> QED BY <1>2, <1>4, <1>6, <1>8, <1>9, <1>12, <2>4, <2>6, <3>1, AfterJobStep
    <2> QED BY <2>5, <2>6
  <1> QED BY <1>3, <1>11, <1>12

LEMMA NextInv == ASSUME ProcessorInv, [Next]_vars PROVE ProcessorInv'
  <1>1. CASE \E w \in Workers : Enter(w) \/ \E t \in JobIds \cup {0} : Load(w, t)
    BY <1>1, EnterStep, LoadStep
  <1>2. CASE Processing
    BY <1>2, PrepareStep, StopStep, CallStep, RunNodeStep, RunWaitingStep, RunParallelStep, RunBranchStep,
       BranchesEndStep, BranchesThrowStep, ResumeWaitingStep, ResumeParallelStep, ExitSaveStep, ExitUpdateStep,
       LeaveStep DEF Processing
  <1>3. CASE \E j \in Ids(jobs) : \/ Poke(j)
                                  \/ \E s \in {RESOLVED, FAILED} : ResumeAction(j, s)
                                  \/ \E where \in {"here", "elsewhere"} : ResumeTooLate(j, where)
    BY <1>3, PokeStep, ResumeActionStep, ResumeTooLateStep
  <1>4. CASE \E where \in {"here", "elsewhere"} : Abort(where)
    BY <1>4, AbortStep
  <1>5. CASE Expire \/ TimeoutGuard \/ TimeoutAbort \/ Crash
    BY <1>5, ClockStep, TimeoutAbortStep, CrashStep
  <1>6. CASE UNCHANGED vars
    BY <1>6 DEF vars, dbVars, queueVars, procVars, ghostVars, ProcessorInv, TypesInv, TaskInv, DataInv, StackInv,
                IdleInv, PrepareInv, SavedInv, JoinInv, At, Top
  <1> QED BY <1>1, <1>2, <1>3, <1>4, <1>5, <1>6 DEF Next

------------------------------------------------------------------------------
(* The abort signal                                                         *)

\* The processor is at a call that does not come to another instruction: its copy
\* of the status says so, the ordinary node it was at is still running, or it
\* is on its way out.
Stopping == \/ copy # STARTED
            \/ At("called") /\ Top.node \notin Waiting \cup Parallels
            \/ (At("exit") \/ At("update")) /\ Top.k = ABORTED

Over == exec # STARTED \/ expired

\* The signal is given when the execution is over, and whoever has run a node
\* after it runs no other one.
SignalInv == /\ late \in {0, 1}
             /\ signal \/ late = 1 => Over
             /\ signal /\ late = 1 => expired \/ Stopping

\* What happens outside the processor, and its giving up.
LEMMA SignalOutside ==
  ASSUME SignalInv, late' = late, Over => Over', expired => expired',
         \/ signal' = FALSE
         \/ UNCHANGED <<stack, copy, signal>>
         \/ UNCHANGED <<stack, copy>> /\ Over' /\ (exec = STARTED \/ expired)
  PROVE  SignalInv'
  BY DEF SignalInv, Stopping, Over, At, Top

\* A step from where the processor is not stopping unless its copy says so.
LEMMA SignalInside ==
  ASSUME SignalInv, ~ At("exit"), ~ At("update"),
         At("called") => Top.node \in Waiting \cup Parallels,
         UNCHANGED <<exec, copy, signal, expired, late>>
  PROVE  SignalInv'
  BY DEF SignalInv, Stopping, Over

LEMMA AbortEnds == ASSUME AbortRows PROVE exec' # STARTED
  BY DEF AbortRows, STARTED, ABORTED

LEMMA SignalNext == ASSUME ProcessorInv, SignalInv, [Next]_vars PROVE SignalInv'
  <1>1. ASSUME NEW w \in Workers, Enter(w) PROVE SignalInv'
    <2>1. signal' = FALSE /\ late' = late /\ expired' = expired /\ (AbortRows \/ exec' = exec)
      BY <1>1 DEF Enter, ghostVars
    <2> QED BY <2>1, AbortEnds, SignalOutside DEF Over
  <1>2. ASSUME NEW w \in Workers, NEW t \in JobIds \cup {0}, Load(w, t) PROVE SignalInv'
    BY <1>2, SignalOutside DEF Load, dbVars, procVars, ghostVars, Over
  <1>3. ASSUME NEW j \in Ids(jobs), Poke(j) PROVE SignalInv'
    BY <1>3, SignalOutside DEF Poke, dbVars, procVars, Over
  <1>4. ASSUME NEW j \in Ids(jobs), NEW s \in {RESOLVED, FAILED}, ResumeAction(j, s) PROVE SignalInv'
    BY <1>4, SignalOutside DEF ResumeAction, procVars, Over
  <1>5. ASSUME NEW j \in Ids(jobs), NEW where, ResumeTooLate(j, where) PROVE SignalInv'
    <2>1. exec = STARTED /\ AbortRows /\ UNCHANGED <<stack, copy, expired, late>>
      BY <1>5 DEF ResumeTooLate, ghostVars
    <2> QED BY <2>1, AbortEnds, SignalOutside DEF Over
  <1>6. ASSUME NEW where, Abort(where) PROVE SignalInv'
    <2>1. exec = STARTED /\ AbortRows /\ UNCHANGED <<stack, copy, expired, late>>
      BY <1>6 DEF Abort, ghostVars
    <2> QED BY <2>1, AbortEnds, SignalOutside DEF Over
  <1>7. CASE Expire
    BY <1>7, SignalOutside DEF Expire, dbVars, procVars, ghostVars, Over
  <1>8. CASE TimeoutGuard
    BY <1>8, SignalOutside DEF TimeoutGuard, ghostVars, Over
  <1>9. CASE TimeoutAbort
    BY <1>9, AbortEnds, SignalOutside DEF TimeoutAbort, procVars, ghostVars, Over
  <1>10. CASE Leave \/ Crash
    <2>1. signal' = FALSE /\ UNCHANGED <<exec, expired, late>>
      BY <1>10 DEF Leave, Crash, dbVars, ghostVars
    <2> QED BY <2>1, SignalOutside DEF Over
  <1>11. CASE UNCHANGED vars
    BY <1>11, SignalOutside DEF vars, dbVars, procVars, ghostVars, Over
  <1>12. CASE Prepare \/ RunBranch \/ BranchesEnd \/ ResumeWaiting \/ ResumeParallel
    BY <1>12, SignalInside DEF Prepare, RunBranch, BranchesEnd, ResumeWaiting, ResumeParallel, At,
                               dbVars, ghostVars
  <1>13. CASE RunWaiting \/ RunParallel \/ BranchesThrow
    BY <1>13, SignalInside DEF RunWaiting, RunParallel, BranchesThrow, Called, At, ghostVars
  <1>14. CASE Stop
    <2>1. CASE copy = STARTED
      <3>1. expired /\ AbortRows /\ expired' = expired /\ late' = late
        BY <1>14, <2>1 DEF Stop, ghostVars
      <3> QED BY <3>1, AbortEnds DEF SignalInv, Over
    <2>2. CASE copy # STARTED
      BY <1>14, <2>2 DEF Stop, ghostVars, SignalInv, Over, Stopping
    <2> QED BY <2>1, <2>2
  <1>15. CASE Call
    <2>1. /\ At("run") /\ stack # <<>> /\ copy = STARTED /\ ~expired
          /\ late' = IF signal /\ Top.node \notin Waiting \cup Parallels THEN late + 1 ELSE late
          /\ stack' = <<[Top EXCEPT !.op = "called"]>> \o Tail(stack)
          /\ UNCHANGED <<exec, signal, expired, copy>>
      BY <1>15 DEF Call, At, Replace, dbVars
    <2>2. ~ (signal /\ late = 1)
      BY <2>1 DEF SignalInv, Stopping, At
    <2>3. ASSUME signal, Top.node \notin Waiting \cup Parallels PROVE SignalInv'
      <3>1. PICK top, f : top = Top /\ f = [top EXCEPT !.op = "called"]
        OBVIOUS
      <3>2. top \in Frames /\ FrameOK(top, held) /\ top.op = "run"
        BY <2>1, <3>1, TopKnown DEF At
      <3>3. f \in Frames /\ f.op = "called" /\ f.node = top.node /\ FrameOK(f, held)
        <4>1. f \in Frames /\ f.op = "called" /\ f.node = top.node
          BY <3>1, <3>2 DEF Frames
        <4> QED BY <3>2, <4>1 DEF FrameOK
      <3>4. stack' # <<>> /\ Head(stack') = f
        BY <2>1, <3>1, <3>3, StackReplaced DEF ProcessorInv, StackInv, Grows
      <3>5. Stopping'
        BY <2>3, <3>1, <3>3, <3>4 DEF Stopping, At, Top
      <3>6. late' = 1
        BY <2>1, <2>2, <2>3 DEF SignalInv
      <3> QED BY <2>1, <2>3, <3>5, <3>6 DEF SignalInv, Over
    <2> QED BY <2>1, <2>2, <2>3 DEF SignalInv, Over
  <1>16. CASE RunNode
    <2>1. PICK n, s : /\ At("called") /\ stack # <<>> /\ n = Top.node /\ s \in Statuses
                      /\ NewJob(n, s, <<>>) /\ AfterJob(n, nextId + 1, s) /\ n \notin Parallels
                      /\ UNCHANGED <<exec, jobs, base, signal, expired, late>>
      BY <1>16 DEF RunNode, Called, At, ghostVars, Statuses
    <2>2. n \in Nodes /\ HasParent(n, held) /\ <<>> \in Seq(Statuses \cup {Null})
      <3>1. FrameOK(Top, held) /\ Top.op = "called"
        BY <2>1, TopKnown DEF At
      <3>2. <<>> \in Seq(Statuses \cup {Null})
        OBVIOUS
      <3> QED BY <2>1, <3>1, <3>2 DEF FrameOK
    <2>3. /\ Grows(held, held') /\ nextId + 1 \in Ids(held') /\ nextId + 1 \in Nat
      BY <2>1, <2>2, NewJobData
    <2>4. HasParent(n, held')
      BY <2>2, <2>3 DEF HasParent, JobAt, Grows
    <2>5. PICK g : g = held'
      OBVIOUS
    <2>6. PICK f \in Frames : /\ stack' = <<f>> \o Tail(stack) /\ FrameOK(f, g)
                              /\ signal => f.op = "exit" /\ f.k = ABORTED
      <3>1. PICK j : j = nextId + 1
        OBVIOUS
      <3>2. /\ n \in Nodes /\ j \in Nat /\ s \in Statuses /\ AfterJob(n, j, s)
            /\ HasParent(n, g) /\ j \in Ids(g)
        BY <2>1, <2>2, <2>3, <2>4, <2>5, <3>1
      <3>3. \E f \in Frames :
              /\ stack' = <<f>> \o Tail(stack) /\ FrameOK(f, g) /\ f.op \in {"run", "resume", "exit"}
              /\ f.op = "run" => s = RESOLVED /\ Downstream(n) # NoNode /\ f.node = Downstream(n)
              /\ signal => f.op = "exit" /\ f.k = ABORTED
        BY ONLY <3>2, AfterJobFrame
      <3> QED BY <3>3
    <2>7. stack' # <<>> /\ Head(stack') = f
      BY <2>1, <2>3, <2>5, <2>6, StackReplaced DEF ProcessorInv, StackInv
    <2> QED BY <2>1, <2>6, <2>7 DEF SignalInv, Over, Stopping, At, Top
  <1>17. CASE ExitSave
    <2>1. /\ At("exit") /\ stack # <<>>
          /\ stack' = <<[Top EXCEPT !.op = "update"]>> \o Tail(stack)
          /\ UNCHANGED <<exec, copy, signal, expired, late, held>>
      BY <1>17 DEF ExitSave, At, Replace, ghostVars
    <2>2. PICK top, f : top = Top /\ f = [top EXCEPT !.op = "update"]
      OBVIOUS
    <2>3. top \in Frames /\ FrameOK(top, held) /\ top.op = "exit"
      BY <2>1, <2>2, TopKnown DEF At
    <2>4. f \in Frames /\ f.op = "update" /\ f.k = top.k /\ FrameOK(f, held)
      <3>1. f \in Frames /\ f.op = "update" /\ f.k = top.k
        BY <2>2, <2>3 DEF Frames
      <3> QED BY <2>3, <3>1 DEF FrameOK
    <2>5. stack' # <<>> /\ Head(stack') = f
      BY <2>1, <2>2, <2>4, StackReplaced DEF ProcessorInv, StackInv, Grows
    <2>6. Stopping => Stopping'
      BY <2>1, <2>2, <2>4, <2>5 DEF Stopping, At, Top
    <2> QED BY <2>1, <2>6 DEF SignalInv, Over
  <1>18. CASE ExitUpdate
    <2>1. /\ At("update") /\ UNCHANGED <<signal, expired, late>>
          /\ IF Top.k = Null THEN UNCHANGED <<exec, copy>>
             ELSE exec' = (IF exec = STARTED THEN Top.k ELSE exec) /\ copy' = exec'
      BY <1>18 DEF ExitUpdate, ghostVars
    <2>2. exec # STARTED => exec' # STARTED
      BY <2>1
    <2>3. exec # STARTED /\ Stopping => copy' # STARTED
      <3>1. ABORTED # Null
        BY DEF ABORTED, Null
      <3> QED BY <2>1, <3>1 DEF Stopping, At
    <2> QED BY <2>1, <2>2, <2>3 DEF SignalInv, Over, Stopping
  <1> QED BY <1>1, <1>2, <1>3, <1>4, <1>5, <1>6, <1>7, <1>8, <1>9, <1>10, <1>11, <1>12, <1>13, <1>14, <1>15,
             <1>16, <1>17, <1>18 DEF Next, Processing

------------------------------------------------------------------------------
(* The branches of a parallel node                                         *)

\* The way from a node up to the first node of its branch passes there only, and
\* passes there from wherever on it one begins.
LEMMA LineRises ==
  ASSUME NEW n \in Nodes, NEW b \in Starts, b \in Line[n]
  PROVE  /\ Line[n] \subseteq Nodes /\ Line[n] \cap Starts = {b} /\ ParentOf[n] = Upstream[b]
         /\ \A x \in Line[n] : b \in Line[x] /\ Upstream[x] \in Nodes
         /\ \A x \in Line[n] : x # b => Upstream[x] \in Line[n]
  <1>1. \A x \in Nodes : Line[x] = Up(x, Starts)
    BY DEF Line
  <1>2. b \in Nodes /\ Line[n] \subseteq Nodes /\ n \in Line[n]
    <2>1. Up(n, Starts) \subseteq Nodes /\ n \in Up(n, Starts)
      BY UpClosed
    <2> QED BY <1>1, <2>1 DEF Starts
  <1>3. ASSUME NEW x \in Nodes, x \notin Starts, Upstream[x] \in Nodes
        PROVE  Line[x] \subseteq {x} \cup Line[Upstream[x]]
    <2> DEFINE set == {x} \cup Line[Upstream[x]]
    <2>1. set \in SUBSET Nodes /\ x \in set
      BY <1>1, <1>3, UpClosed
    <2>2. \A y \in set \ Starts : Upstream[y] \in set \cup {NoNode}
      BY <1>1, <1>3, UpClosed
    <2> HIDE DEF set
    <2>3. Up(x, Starts) \subseteq set
      BY <2>1, <2>2, UpLeast
    <2> QED BY <1>1, <2>3 DEF set
  <1>4. \A x \in Line[n] : b \in Line[x]
    <2> DEFINE set == {x \in Line[n] : b \in Line[x]}
    <2>1. set \in SUBSET Nodes /\ n \in set
      BY <1>1, <1>2, UpClosed
    <2>2. ASSUME NEW x \in set \ Starts, Upstream[x] # NoNode PROVE Upstream[x] \in set
      <3>1. Upstream[x] \in Line[n] /\ Upstream[x] \in Nodes
        BY <1>1, <1>2, <2>2, UpClosed
      <3>2. b \in {x} \cup Line[Upstream[x]]
        BY <1>2, <1>3, <2>2, <3>1
      <3> QED BY <2>2, <3>1, <3>2
    <2> HIDE DEF set
    <2>3. Up(n, Starts) \subseteq set
      BY <2>1, <2>2, UpLeast
    <2> QED BY <1>1, <2>3 DEF set
  <1>5. ASSUME NEW c \in Starts PROVE Line[c] = {c}
    <2>1. c \in Nodes
      BY DEF Starts
    <2>2. Up(c, Starts) \subseteq {c}
      <3>1. {c} \in SUBSET Nodes /\ c \in {c} /\ {c} \ Starts = {}
        BY <2>1
      <3> QED BY <2>1, <3>1, UpLeast
    <2> QED BY <1>1, <2>1, <2>2, UpClosed
  <1>6. Line[n] \cap Starts = {b}
    BY <1>4, <1>5
  <1>7. ParentOf[n] = Upstream[b]
    <2>1. ParentOf[n] = LET start == Line[n] \cap Starts
                        IN  IF start = {} THEN NoNode
                            ELSE Upstream[CHOOSE m \in start : TRUE]
      BY DEF ParentOf
    <2> QED BY <1>6, <2>1
  <1>8. ASSUME NEW x \in Line[n] PROVE Upstream[x] \in Nodes
    <2>1. CASE x \in Starts
      BY <2>1, ShapeAssumption, ProcessorAssumption
    <2>2. CASE x \notin Starts
      <3>1. x \in Nodes /\ b \in Line[x] /\ b # x
        BY <1>2, <1>4, <2>2
      <3>2. ASSUME Upstream[x] = NoNode PROVE FALSE
        <4>1. Up(x, Starts) \subseteq {x}
          BY <3>1, <3>2, UpLeast
        <4> QED BY <1>1, <3>1, <4>1
      <3> QED BY <3>1, <3>2, ProcessorAssumption
    <2> QED BY <2>1, <2>2
  <1>9. ASSUME NEW x \in Line[n], x # b PROVE Upstream[x] \in Line[n]
    <2>1. x \notin Starts
      BY <1>6, <1>9
    <2>2. Upstream[x] \in Up(n, Starts) \cup {NoNode}
      BY <1>1, <2>1, UpClosed
    <2> QED BY <1>1, <1>8, <2>2, ProcessorAssumption
  <1> QED BY <1>2, <1>4, <1>6, <1>7, <1>8, <1>9

\* The nodes of a branch: it begins with its first node, goes on with what
\* follows a node of it, and is a branch of the parallel node before it.
LEMMA Chains ==
  /\ \A b \in Starts : b \in Chain(b)
  /\ \A b, n \in Nodes : n \in Chain(b) /\ Downstream(n) # NoNode => Downstream(n) \in Chain(b)
  /\ \A b \in Starts : \A n \in Chain(b) : n \in Nodes /\ ParentOf[n] = Upstream[b]
  /\ \A n \in Nodes : ParentOf[n] # NoNode =>
       \E b \in Starts : n \in Chain(b) /\ Upstream[b] = ParentOf[n]
  <1>1. \A x \in Nodes : Line[x] = Up(x, Starts)
    BY DEF Line
  <1>2. ASSUME NEW b \in Starts PROVE b \in Nodes /\ b \in Chain(b)
    <2>1. b \in Nodes
      BY DEF Starts
    <2>2. b \in Up(b, Starts)
      BY <2>1, UpClosed
    <2> QED BY <1>1, <2>1, <2>2 DEF Chain
  <1>3. ASSUME NEW b \in Nodes, NEW n \in Nodes, n \in Chain(b), Downstream(n) # NoNode
        PROVE  Downstream(n) \in Chain(b)
    <2>1. PICK d \in Nodes : d = Downstream(n) /\ Upstream[d] = n /\ d \notin Starts
      BY <1>3, DownstreamTyped DEF Starts
    <2>2. n \in Line[d]
      <3>1. n # NoNode
        BY ProcessorAssumption
      <3> QED BY <1>1, <2>1, <3>1, UpClosed
    <2>3. Up(n, Starts) \subseteq Up(d, Starts)
      <3>1. Up(d, Starts) \in SUBSET Nodes /\ \A x \in Up(d, Starts) \ Starts : Upstream[x] \in Up(d, Starts) \cup {NoNode}
        BY UpClosed
      <3> QED BY <1>1, <2>2, <3>1, UpLeast
    <2> QED BY <1>1, <1>3, <2>1, <2>3 DEF Chain
  <1>4. ASSUME NEW b \in Starts, NEW n \in Chain(b) PROVE n \in Nodes /\ ParentOf[n] = Upstream[b]
    BY LineRises DEF Chain
  <1>5. ASSUME NEW n \in Nodes, ParentOf[n] # NoNode
        PROVE  \E b \in Starts : n \in Chain(b) /\ Upstream[b] = ParentOf[n]
    <2>1. ParentOf[n] = LET start == Line[n] \cap Starts
                        IN  IF start = {} THEN NoNode
                            ELSE Upstream[CHOOSE m \in start : TRUE]
      BY DEF ParentOf
    <2>2. PICK b \in Line[n] \cap Starts : ParentOf[n] = Upstream[b]
      BY <1>5, <2>1
    <2> QED BY <2>2 DEF Chain
  <1> QED BY <1>2, <1>3, <1>4, <1>5

\* Who is in the i-th branch of a parallel node gets there by its loop upwards.
LEMMA BranchFound ==
  ASSUME NEW n \in Parallels, NEW i \in 1..Cardinality(Branches(n)), NEW m \in Chain(BranchNo(n, i))
  PROVE  m \in Nodes /\ ParentOf[m] = n /\ IndexOf(n, StartIn(m, n)) = i
  <1>1. PICK b \in Starts : b = BranchNo(n, i) /\ Upstream[b] = n /\ IndexOf(n, b) = i
    BY BranchesCounted
  <1>2. m \in Nodes /\ b \in Line[m] /\ n \in Nodes /\ ParentOf[m] = n
    BY <1>1, Chains, ProcessorAssumption DEF Chain
  <1> DEFINE after == {x \in Nodes : Upstream[x] = n}
  <1>3. WayTo[n][m] = Up(m, after) /\ Line[m] = Up(m, Starts)
    BY <1>2 DEF WayTo, Line
  <1>4. /\ \A x \in Line[m] : x # b => Upstream[x] \in Line[m]
        /\ \A x \in Line[m] : b \in Line[x] /\ Upstream[x] \in Nodes
        /\ Line[m] \subseteq Nodes
    BY <1>2, LineRises
  <1>5. Up(m, after) \subseteq Line[m]
    <2>1. b \in after
      BY <1>1 DEF Starts
    <2>2. \A x \in Line[m] \ after : Upstream[x] \in Line[m] \cup {NoNode}
      BY <1>4, <2>1
    <2>3. m \in Line[m]
      BY <1>2, <1>3, UpClosed
    <2> QED BY <1>2, <1>4, <2>2, <2>3, UpLeast
  <1>6. n \notin Line[m]
    <2> SUFFICES ASSUME n \in Line[m] PROVE FALSE
      OBVIOUS
    <2>1. b \in Line[n]
      BY <1>4
    <2>2. /\ Line[n] \in SUBSET Nodes /\ n \in Line[n]
          /\ \A x \in Line[n] : x # b => Upstream[x] \in Line[n]
      <3>1. n \in Up(n, Starts)
        BY <1>2, UpClosed
      <3> QED BY <1>2, <2>1, <3>1, LineRises DEF Line
    <2>3. \A x \in Line[n] : Upstream[x] \in Line[n]
      BY <1>1, <2>2
    <2> QED BY <2>2, <2>3, TreeAssumption
  <1>7. \A x \in Up(m, after) : Upstream[x] = n => x = b
    BY <1>4, <1>5, <1>6
  <1>8. \E x \in Up(m, after) : Upstream[x] = n
    <2> SUFFICES ASSUME \A x \in Up(m, after) : Upstream[x] # n PROVE FALSE
      OBVIOUS
    <2>1. \A x \in Up(m, after) : Upstream[x] \in Up(m, after) \cup {NoNode} /\ Upstream[x] \in Nodes
      BY <1>2, <1>4, <1>5, UpClosed
    <2>2. Up(m, after) \in SUBSET Nodes /\ Up(m, after) # {}
      BY <1>2, UpClosed
    <2> QED BY <2>1, <2>2, TreeAssumption, ProcessorAssumption
  <1>9. StartIn(m, n) = b
    BY <1>3, <1>7, <1>8 DEF StartIn
  <1> QED BY <1>1, <1>2, <1>9

\* Who has a parallel node before it is in one of its branches.
LEMMA BranchKnown ==
  ASSUME NEW m \in Nodes, ParentOf[m] # NoNode, NEW n, n = ParentOf[m]
  PROVE  /\ n \in Parallels
         /\ IndexOf(n, StartIn(m, n)) \in 1..Cardinality(Branches(n))
         /\ m \in Chain(BranchNo(n, IndexOf(n, StartIn(m, n))))
  <1>1. n \in Parallels
    BY Parents
  <1>2. PICK b \in Starts : m \in Chain(b) /\ Upstream[b] = n
    BY Chains
  <1>3. PICK i \in 1..Cardinality(Branches(n)) : BranchNo(n, i) = b
    BY <1>1, <1>2, BranchesCounted
  <1>4. IndexOf(n, StartIn(m, n)) = i
    BY <1>1, <1>2, <1>3, BranchFound
  <1> QED BY <1>1, <1>2, <1>3, <1>4

\* A join that is not finished has a branch without a final result, and a result
\* that keeps the next branch from being started finishes it.
LEMMA JoinPending ==
  ASSUME NEW mode \in {"all", "any", "race", "allSettled"},
         NEW result \in Seq(Statuses \cup {Null}), result # <<>>,
         JoinStatus(mode, result) = PENDING
  PROVE  /\ \E i \in DOMAIN result : result[i] \in {Null, PENDING}
         /\ \A i \in DOMAIN result : result[i] # Null => NextBranch(mode, result[i])
  <1> DEFINE broken == {i \in DOMAIN result : result[i] < PENDING}
             first  == result[CHOOSE i \in broken : \A j \in broken : i <= j]
             is(s)  == \E i \in DOMAIN result : result[i] = s
  <1>1. DOMAIN result = 1..Len(result) /\ Len(result) \in Nat /\ 1 \in DOMAIN result
        /\ \A i \in DOMAIN result : result[i] \in Statuses \cup {Null}
    OBVIOUS
  <1>2. ASSUME broken # {} PROVE first < PENDING
    <2>1. broken \in SUBSET (1..Len(result))
      BY <1>1
    <2>2. \E i \in broken : \A j \in broken : i <= j
      <3> HIDE DEF broken
      <3> QED BY <1>1, <1>2, <2>1, Least
    <2>3. PICK i \in broken : first = result[i]
      BY <2>2
    <2> QED BY <2>3
  <1>3. JoinStatus(mode, result) =
          CASE mode = "all"  -> IF broken # {} THEN first
                                ELSE IF is(PENDING) \/ is(Null) THEN PENDING ELSE RESOLVED
            [] mode = "any"  -> IF is(RESOLVED) THEN RESOLVED
                                ELSE IF is(PENDING) \/ is(Null) THEN PENDING ELSE FAILED
            [] mode = "race" -> IF is(RESOLVED) THEN RESOLVED
                                ELSE IF broken # {} THEN first ELSE PENDING
            [] mode = "allSettled" -> IF is(PENDING) \/ is(Null) THEN PENDING ELSE RESOLVED
    BY DEF JoinStatus
  <1>4. first # PENDING \/ broken = {}
    <2> HIDE DEF first
    <2> QED BY <1>2 DEF PENDING
  <1> HIDE DEF first
  <1>5. /\ mode = "all" => broken = {} /\ (is(PENDING) \/ is(Null))
        /\ mode = "any" => ~ is(RESOLVED) /\ (is(PENDING) \/ is(Null))
        /\ mode = "race" => ~ is(RESOLVED) /\ broken = {}
        /\ mode = "allSettled" => is(PENDING) \/ is(Null)
    <2> HIDE DEF broken, is
    <2> QED BY <1>3, <1>4 DEF PENDING, RESOLVED, FAILED
  <1>6. \A s \in Statuses \cup {Null} : s < PENDING \/ s \in {Null, PENDING} \/ s = RESOLVED
    BY DEF Statuses, PENDING, RESOLVED, FAILED, ABORTED, Null
  <1>7. \E i \in DOMAIN result : result[i] \in {Null, PENDING}
    BY <1>1, <1>5, <1>6
  <1>8. ASSUME NEW i \in DOMAIN result, result[i] # Null PROVE NextBranch(mode, result[i])
    <2>1. PICK s : s = result[i]
      OBVIOUS
    <2>2. s \in Statuses
      BY <1>1, <1>8, <2>1
    <2>3. mode \in {"all", "race"} => ~ (s < PENDING)
      BY <1>5, <2>1
    <2>4. mode \in {"any", "race"} => s # RESOLVED
      BY <1>5, <2>1
    <2>5. s \in {0, 1, -1, -3}
      BY <2>2 DEF Statuses, PENDING, RESOLVED, FAILED, ABORTED
    <2>6. /\ NextBranch("all", s) = (s >= PENDING)
          /\ NextBranch("any", s) = (s <= PENDING)
          /\ NextBranch("race", s) = (s = PENDING)
          /\ NextBranch("allSettled", s) = TRUE
      BY Zenon DEF NextBranch
    <2>7. /\ mode = "all" => s >= PENDING
          /\ mode = "any" => s <= PENDING
          /\ mode = "race" => s = PENDING
      BY <2>3, <2>4, <2>5 DEF PENDING, RESOLVED
    <2>8. NextBranch(mode, s)
      BY <2>6, <2>7, Zenon
    <2> QED BY <2>1, <2>8
  <1> QED BY <1>7, <1>8

------------------------------------------------------------------------------
(* What is still going on                                                  *)

\* A job as it is once it is saved: the object of the processor if that has changed it.
View(t, h, u) == [j \in Ids(t) \cup u |-> IF j \in u THEN h[j] ELSE t[j]]
Seen          == View(jobs, held, unsaved)

\* A pending job of a waiting node, and the pending job of a parallel node that
\* the results of its branches go to.
Latest(v, j)  == j \in Ids(v) /\ \A i \in Ids(v) : v[i].node = v[j].node => i <= j
Asks(v, j)    == j \in Ids(v) /\ v[j].node \in Waiting /\ v[j].status = PENDING
Joining(v, j) == Latest(v, j) /\ v[j].node \in Parallels /\ v[j].status = PENDING

\* What makes the nodes of C go on: such a job, a task for a job of theirs, or a
\* call that runs one of them or brings the result of one.
Waits(v, C)        == \E j \in Ids(v) : (Asks(v, j) \/ Joining(v, j)) /\ v[j].node \in C
Queued(t, q, l, C) == \E j \in Ids(t) : /\ t[j].node \in C
                                        /\ q[j] > 0 \/ \E w \in Workers : l[w].job = j
Acts(s, h, C)      == /\ s # <<>>
                      /\ \/ Head(s).op \in {"run", "called"} /\ Head(s).node \in C
                         \/ Head(s).op = "resume" /\ h[Head(s).job].node \in C
Source(C)          == Waits(Seen, C) \/ Queued(jobs, tasks, loaded, C) \/ Acts(stack, held, C)

\* The calls that are awaited, and those that come to the i-th branch of job j.
Calls(s)       == {s[p] : p \in 1..Len(s)}
Later(s, j, i) == \E f \in Calls(s) : f.op = "branches" /\ f.job = j /\ f.k <= i

MainLine == {n \in Nodes : ParentOf[n] = NoNode}
Starting == tasks[0] > 0 \/ \E w \in Workers : loaded[w] # NoTask /\ loaded[w].job = 0
Ending   == (At("exit") \/ At("update")) /\ Top.k \notin {Null, PENDING}
Goes     == exec = STARTED /\ crashes = 0 /\ ~ Ending

\* The main line goes on, and so does every branch without a result.
RootOK == Starting \/ Source(MainLine)
Owes(j) ==
  LET n == Seen[j].node
      r == Seen[j].result
  IN  /\ DOMAIN r = 1..Cardinality(Branches(n))
      /\ \E i \in DOMAIN r : r[i] \in {Null, PENDING}
      /\ \A i \in DOMAIN r : r[i] \in {Null, PENDING} =>
           Source(Chain(BranchNo(n, i))) \/ Later(stack, j, i)
BranchOK == \A j \in Ids(Seen) : Joining(Seen, j) => Owes(j)

\* While a parallel node that is not done awaits a branch, a result that keeps
\* it from starting the next one is on its way to it.
LastOf(h, C, l) == l \in Ids(h) /\ h[l].node \in C /\ \A i \in Ids(h) : h[i].node \in C => i <= l
Before(f)       == Chain(BranchNo(f.node, f.k - 1))
Answers(s, f, l) ==
  /\ s # <<>>
  /\ \/ Head(s).op \in {"run", "called"} /\ Head(s).node \in Before(f)
     \/ Head(s).op = "resume" /\ Head(s).node = f.node /\ Head(s).job = l
TurnOK ==
  \A f \in Calls(stack) : f.op = "branches" /\ f.k > 1 /\ Joining(Seen, f.job) =>
    \A l \in Ids(held) :
      LastOf(held, Before(f), l) /\ ~ NextBranch(Mode[f.node], held[l].status) => Answers(stack, f, l)

OwedInv == Goes => RootOK /\ BranchOK /\ TurnOK

\* What the processor believes of the execution, of its calls and of the jobs of
\* waiting nodes.
CopyInv == copy # STARTED => exec # STARTED
CallInv ==
  /\ \A f \in Calls(stack) : f.op = "branches" => f.k \in 1..(Cardinality(Branches(f.node)) + 1)
  /\ At("resume") /\ Top.node \in Parallels =>
       /\ ParentOf[held[Top.job].node] = Top.node
       /\ held[Top.job].status = PENDING => held[Top.job].node \in Waiting /\ Top.job \in unsaved
WaitInv == \A j \in unsaved \cap Ids(jobs) : held[j].node \in Waiting => held[j].status # PENDING

\* While the execution runs nobody else changes the jobs of parallel nodes: the
\* processor has the latest ones, and the table has them as it loaded or saved them.
MirrorInv ==
  exec = STARTED /\ holder # NoWorker /\ ~ At("prepare") =>
    \A j \in Ids(Seen) : Seen[j].node \in Parallels =>
      /\ Latest(Seen, j) => j \in Ids(held)
      /\ j \in Ids(held) => Seen[j] = held[j]
      /\ j \in Ids(held) \cap Ids(jobs) => jobs[j] = base[j]


RestInv == CopyInv /\ CallInv /\ WaitInv /\ MirrorInv /\ OwedInv

\* The calls that are awaited, when the innermost one has been replaced.
LEMMA CallsOf ==
  ASSUME NEW s, NEW h, StackOK(s, h), s # <<>>, NEW f, NEW e
  PROVE  /\ Calls(s) = {Head(s)} \cup Calls(Tail(s))
         /\ Calls(<<f>> \o Tail(s)) = {f} \cup Calls(Tail(s))
         /\ Calls(<<f, e>> \o Tail(s)) = {f, e} \cup Calls(Tail(s))
         /\ <<f>> \o Tail(s) # <<>> /\ Head(<<f>> \o Tail(s)) = f
         /\ <<f, e>> \o Tail(s) # <<>> /\ Head(<<f, e>> \o Tail(s)) = f
         /\ \A g \in Calls(Tail(s)) : g.op = "branches" /\ g.k > 1
         /\ \A g \in Calls(s) : g \in Frames /\ FrameOK(g, h)
  <1>1. s \in Seq(Frames) /\ Len(s) \in Nat /\ Len(s) > 0
    BY DEF StackOK
  <1> DEFINE r == Tail(s)
  <1>2. /\ Len(r) = Len(s) - 1 /\ \A p \in 1..Len(r) : r[p] = s[p + 1]
        /\ r \in Seq(Frames) /\ Head(s) = s[1]
    BY <1>1
  <1>3. /\ Len(<<f>> \o r) = Len(r) + 1 /\ (<<f>> \o r)[1] = f
        /\ \A p \in 1..Len(r) : (<<f>> \o r)[p + 1] = r[p]
        /\ <<f>> \o r # <<>> /\ Head(<<f>> \o r) = f
    BY <1>2
  <1>4. /\ Len(<<f, e>> \o r) = Len(r) + 2 /\ (<<f, e>> \o r)[1] = f /\ (<<f, e>> \o r)[2] = e
        /\ \A p \in 1..Len(r) : (<<f, e>> \o r)[p + 2] = r[p]
        /\ <<f, e>> \o r # <<>> /\ Head(<<f, e>> \o r) = f
    BY <1>2
  <1> HIDE DEF r
  <1>5. Calls(s) = {Head(s)} \cup Calls(r)
    <2>1. \A p \in 1..Len(s) : p = 1 \/ (p - 1 \in 1..Len(r) /\ s[p] = r[p - 1])
      BY <1>1, <1>2
    <2>2. \A p \in 1..Len(r) : p + 1 \in 1..Len(s)
      BY <1>1, <1>2
    <2>3. Head(s) = s[1] /\ 1 \in 1..Len(s) /\ \A p \in 1..Len(r) : r[p] = s[p + 1]
      BY <1>1, <1>2
    <2>4. Calls(s) \subseteq {Head(s)} \cup Calls(r)
      BY <2>1, <2>3 DEF Calls
    <2>5. {Head(s)} \cup Calls(r) \subseteq Calls(s)
      BY <2>2, <2>3 DEF Calls
    <2> QED BY <2>4, <2>5
  <1>6. Calls(<<f>> \o r) = {f} \cup Calls(r)
    <2> DEFINE q == <<f>> \o r
    <2>1. \A p \in 1..Len(q) : p = 1 \/ (p - 1 \in 1..Len(r) /\ q[p] = r[p - 1])
      BY <1>1, <1>2, <1>3
    <2>2. 1 \in 1..Len(q) /\ q[1] = f /\ \A p \in 1..Len(r) : p + 1 \in 1..Len(q) /\ q[p + 1] = r[p]
      BY <1>1, <1>2, <1>3
    <2> HIDE DEF q
    <2>3. Calls(q) \subseteq {f} \cup Calls(r)
      BY <2>1, <2>2 DEF Calls
    <2>4. {f} \cup Calls(r) \subseteq Calls(q)
      BY <2>2 DEF Calls
    <2> QED BY <2>3, <2>4 DEF q
  <1>7. Calls(<<f, e>> \o r) = {f, e} \cup Calls(r)
    <2> DEFINE q == <<f, e>> \o r
    <2>1. \A p \in 1..Len(q) : p = 1 \/ p = 2 \/ (p - 2 \in 1..Len(r) /\ q[p] = r[p - 2])
      BY <1>1, <1>2, <1>4
    <2>2. /\ 1 \in 1..Len(q) /\ q[1] = f /\ 2 \in 1..Len(q) /\ q[2] = e
          /\ \A p \in 1..Len(r) : p + 2 \in 1..Len(q) /\ q[p + 2] = r[p]
      BY <1>1, <1>2, <1>4
    <2> HIDE DEF q
    <2>3. Calls(q) \subseteq {f, e} \cup Calls(r)
      <3>1. \A p \in 1..Len(r) : r[p] \in Calls(r)
        BY DEF Calls
      <3>2. \A p \in 1..Len(q) : q[p] \in {f, e} \cup Calls(r)
        BY <2>1, <2>2, <3>1
      <3> QED BY <3>2 DEF Calls
    <2>4. \A p \in 1..Len(q) : q[p] \in Calls(q)
      BY DEF Calls
    <2>5. \A g \in Calls(r) : \E p \in 1..Len(r) : g = r[p]
      BY DEF Calls
    <2>6. {f, e} \cup Calls(r) \subseteq Calls(q)
      BY <2>2, <2>4, <2>5
    <2> QED BY <2>3, <2>6 DEF q
  <1>8. \A g \in Calls(r) : g.op = "branches" /\ g.k > 1
    <2>1. \A p \in 1..Len(r) : p + 1 \in 1..Len(s) /\ p + 1 > 1 /\ r[p] = s[p + 1]
      BY <1>1, <1>2
    <2> QED BY <2>1 DEF Calls, StackOK
  <1>9. \A g \in Calls(s) : g \in Frames /\ FrameOK(g, h)
    BY <1>1 DEF Calls, StackOK
  <1> QED BY <1>3, <1>4, <1>5, <1>6, <1>7, <1>8, <1>9 DEF r

\* The objects of the processor are among what is seen.
LEMMA ViewKnown ==
  ASSUME NEW n \in Nat, NEW t, NEW h, NEW b, NEW u, Data(t, n, h, b, u), NEW v, v = View(t, h, u)
  PROVE  /\ Ids(v) = Ids(t) \cup u /\ Ids(v) \subseteq 1..n
         /\ \A j \in Ids(v) : v[j] \in Job /\ (j \in u => v[j] = h[j]) /\ (j \notin u => v[j] = t[j])
         /\ \A j \in Ids(h) : j \in Ids(v) /\ v[j].node = h[j].node
  <1>1. Ids(v) = Ids(t) \cup u /\ \A j \in Ids(v) : v[j] = IF j \in u THEN h[j] ELSE t[j]
    BY DEF View, Ids
  <1>2. \A j \in Ids(v) : v[j] \in Job /\ j \in 1..n
    BY <1>1 DEF Data, JobsOK, Objects
  <1>3. \A j \in Ids(h) : j \in Ids(v) /\ v[j].node = h[j].node
    BY <1>1 DEF Data, Objects
  <1> QED BY <1>1, <1>2, <1>3

\* What is seen after a job was built or changed.
LEMMA SeenWith ==
  ASSUME ProcessorInv, NEW k, NEW job, held' = With(held, k, job), unsaved' = unsaved \cup {k}, jobs' = jobs,
         k \in Ids(held) => held[k].node = job.node,
         k \in Ids(jobs) => k \in Ids(held),
         NEW v, v = Seen, NEW w, w = Seen'
  PROVE  /\ Ids(w) = Ids(v) \cup {k} /\ w[k] = job /\ \A i \in Ids(v) \ {k} : w[i] = v[i]
         /\ Ids(held') = Ids(held) \cup {k} /\ held'[k] = job /\ \A i \in Ids(held) \ {k} : held'[i] = held[i]
         /\ \A i \in Ids(v) : w[i].node = v[i].node
         /\ \A i \in Ids(v) : Latest(w, i) => Latest(v, i)
         /\ \A i \in Ids(v) : v[i].node # job.node => (Latest(v, i) => Latest(w, i))
         /\ Ids(v) = Ids(jobs) \cup unsaved /\ \A i \in Ids(held) : i \in Ids(v) /\ v[i].node = held[i].node
         /\ \A i \in Ids(v) : v[i] \in Job /\ i \in Nat
         /\ \A i \in unsaved : v[i] = held[i]
  <1>1. PICK n : n = nextId /\ n \in Nat /\ Data(jobs, n, held, base, unsaved)
    BY IdsAreNumbers DEF ProcessorInv, TypesInv, DataInv
  <1>2. v = View(jobs, held, unsaved) /\ unsaved \subseteq Ids(held)
    BY <1>1 DEF Seen, Data, Objects
  <1>3. PICK g : g = held'
    OBVIOUS
  <1>4. g = With(held, k, job) /\ w = View(jobs, g, unsaved \cup {k})
    BY <1>3 DEF Seen
  <1>5. /\ Ids(w) = Ids(v) \cup {k} /\ w[k] = job /\ \A i \in Ids(v) \ {k} : w[i] = v[i]
        /\ Ids(g) = Ids(held) \cup {k} /\ g[k] = job /\ \A i \in Ids(held) \ {k} : g[i] = held[i]
    <2>1. Ids(g) = Ids(held) \cup {k} /\ g[k] = job /\ \A i \in Ids(held) \ {k} : g[i] = held[i]
      BY <1>4 DEF With, Ids
    <2>2. /\ Ids(w) = Ids(jobs) \cup (unsaved \cup {k})
          /\ \A i \in Ids(w) : w[i] = IF i \in unsaved \cup {k} THEN g[i] ELSE jobs[i]
      BY <1>4 DEF View, Ids
    <2>3. Ids(v) = Ids(jobs) \cup unsaved /\ \A i \in Ids(v) : v[i] = IF i \in unsaved THEN held[i] ELSE jobs[i]
      BY <1>2 DEF View, Ids
    <2> QED BY <1>2, <2>1, <2>2, <2>3
  <1>6. /\ Ids(v) = Ids(jobs) \cup unsaved /\ Ids(v) \subseteq 1..n
        /\ \A i \in Ids(v) : v[i] \in Job /\ (i \in unsaved => v[i] = held[i])
        /\ \A i \in Ids(held) : i \in Ids(v) /\ v[i].node = held[i].node
    BY ONLY <1>1, <1>2, ViewKnown
  <1>7. k \in Ids(v) => v[k].node = job.node
    BY <1>2, <1>6
  <1>8. \A i \in Ids(v) : w[i].node = v[i].node
    BY <1>5, <1>7
  <1>9. \A i \in Ids(v) : Latest(w, i) => Latest(v, i)
    BY <1>5, <1>8 DEF Latest
  <1>10. \A i \in Ids(v) : v[i].node # job.node => (Latest(v, i) => Latest(w, i))
    BY <1>5, <1>8 DEF Latest
  <1> QED BY <1>3, <1>5, <1>6, <1>8, <1>9, <1>10

\* A job is built or changed: the table stays as it was loaded.
LEMMA MirrorWith ==
  ASSUME ProcessorInv, MirrorInv, WaitInv, ~ At("prepare"), UNCHANGED <<exec, jobs, holder, base>>,
         NEW k, NEW job, held' = With(held, k, job), unsaved' = unsaved \cup {k},
         k \in Ids(held) => held[k].node = job.node,
         k \in Ids(jobs) => k \in Ids(held),
         k \in Ids(jobs) /\ job.node \in Waiting => job.status # PENDING
  PROVE  MirrorInv' /\ WaitInv'
  <1>1. PICK v, w, g : v = Seen /\ w = Seen' /\ g = held'
    OBVIOUS
  <1>2. /\ Ids(w) = Ids(v) \cup {k} /\ w[k] = job /\ \A i \in Ids(v) \ {k} : w[i] = v[i]
        /\ Ids(g) = Ids(held) \cup {k} /\ g[k] = job /\ \A i \in Ids(held) \ {k} : g[i] = held[i]
        /\ \A i \in Ids(v) : w[i].node = v[i].node
        /\ \A i \in Ids(v) : Latest(w, i) => Latest(v, i)
        /\ Ids(v) = Ids(jobs) \cup unsaved /\ \A i \in Ids(held) : i \in Ids(v) /\ v[i].node = held[i].node
    BY <1>1, SeenWith
  <1>3. WaitInv'
    <2> SUFFICES ASSUME NEW j \in (unsaved \cup {k}) \cap Ids(jobs), g[j].node \in Waiting
                 PROVE  g[j].status # PENDING
      BY <1>1 DEF WaitInv
    <2>1. CASE j = k
      BY <1>2, <2>1
    <2>2. CASE j # k
      <3>1. j \in Ids(held)
        BY <2>2 DEF ProcessorInv, DataInv, Data, Objects
      <3> QED BY <1>2, <2>2, <3>1 DEF WaitInv
    <2> QED BY <2>1, <2>2
  <1>4. MirrorInv'
    <2> SUFFICES ASSUME exec = STARTED, holder # NoWorker, NEW j \in Ids(w), w[j].node \in Parallels
                 PROVE  /\ Latest(w, j) => j \in Ids(g)
                        /\ j \in Ids(g) => w[j] = g[j]
                        /\ j \in Ids(g) \cap Ids(jobs) => jobs[j] = base[j]
      BY <1>1 DEF MirrorInv
    <2>1. ASSUME NEW i \in Ids(v), v[i].node \in Parallels
          PROVE  /\ Latest(v, i) => i \in Ids(held)
                 /\ i \in Ids(held) => v[i] = held[i]
                 /\ i \in Ids(held) \cap Ids(jobs) => jobs[i] = base[i]
      BY <1>1, <2>1 DEF MirrorInv
    <2>2. CASE j = k
      BY <1>2, <2>1, <2>2
    <2>3. CASE j # k
      BY <1>2, <2>1, <2>3
    <2> QED BY <2>2, <2>3
  <1> QED BY <1>3, <1>4

\* What is called next when a job is not pending and nobody ends the execution.
LEMMA AfterJobGoes ==
  ASSUME ProcessorInv, CopyInv, stack # <<>>, NEW n \in Nodes, NEW k, NEW s \in Statuses, s # PENDING,
         AfterJob(n, k, s), exec' = exec, Goes'
  PROVE  \E g : /\ stack' # <<>> /\ Head(stack') = g /\ Calls(stack') = {g} \cup Calls(Tail(stack))
                /\ \/ g.op = "run" /\ Downstream(n) # NoNode /\ g.node = Downstream(n)
                   \/ g.op = "resume" /\ ParentOf[n] # NoNode /\ g.node = ParentOf[n] /\ g.job = k
  <1>1. exec = STARTED /\ copy = STARTED /\ STARTED # ABORTED
    BY DEF Goes, CopyInv, STARTED, ABORTED
  <1>2. PICK g : /\ stack' = <<g>> \o Tail(stack)
                 /\ g = IF copy = ABORTED \/ signal THEN Exit(ABORTED)
                        ELSE IF s = RESOLVED /\ Downstream(n) # NoNode THEN Run(Downstream(n), k)
                        ELSE IF ParentOf[n] # NoNode THEN Resume(ParentOf[n], k)
                        ELSE Exit(s)
    BY DEF AfterJob, Replace
  <1>3. stack' # <<>> /\ Head(stack') = g /\ Calls(stack') = {g} \cup Calls(Tail(stack))
    <2>1. StackOK(stack, held)
      BY DEF ProcessorInv, StackInv
    <2> QED BY <1>2, <2>1, CallsOf
  <1>4. ASSUME NEW e \in Statuses, e # PENDING, g = Exit(e) PROVE FALSE
    <2>1. g.op = "exit" /\ g.k = e
      BY <1>4 DEF Exit, Frame
    <2>2. e # Null
      BY <1>4 DEF Statuses, Null, PENDING, RESOLVED, FAILED, ABORTED
    <2>3. Ending'
      BY <1>3, <1>4, <2>1, <2>2 DEF Ending, At, Top
    <2> QED BY <2>3 DEF Goes
  <1>5. ABORTED \in Statuses /\ ABORTED # PENDING
    BY DEF Statuses, ABORTED, PENDING
  <1>6. \/ g = Run(Downstream(n), k) /\ Downstream(n) # NoNode
        \/ g = Resume(ParentOf[n], k) /\ ParentOf[n] # NoNode
    BY <1>2, <1>4, <1>5
  <1>7. \/ g.op = "run" /\ Downstream(n) # NoNode /\ g.node = Downstream(n)
        \/ g.op = "resume" /\ ParentOf[n] # NoNode /\ g.node = ParentOf[n] /\ g.job = k
    BY <1>6 DEF Run, Resume, Frame
  <1> QED BY <1>3, <1>7

\* What a job of a parallel node owes goes on.
LEMMA OwesKept ==
  ASSUME NEW j, Owes(j), NEW n, NEW r, Seen[j].node = n, Seen[j].result = r, Seen'[j].node = n, Seen'[j].result = r,
         \A i \in 1..Cardinality(Branches(n)) :
           Source(Chain(BranchNo(n, i))) \/ Later(stack, j, i) =>
             Source(Chain(BranchNo(n, i)))' \/ Later(stack', j, i)
  PROVE  Owes(j)'
  BY DEF Owes

\* The nodes of a chain are left by calls within it or by its result.
Closed(C) == C \subseteq Nodes /\ \A n \in C : Downstream(n) # NoNode => Downstream(n) \in C

LEMMA ChainsClosed ==
  /\ Closed(MainLine)
  /\ \A n \in Parallels : \A i \in 1..Cardinality(Branches(n)) : Closed(Chain(BranchNo(n, i)))
  <1>1. Closed(MainLine)
    BY DownstreamTyped DEF Closed, MainLine
  <1>2. ASSUME NEW n \in Parallels, NEW i \in 1..Cardinality(Branches(n))
        PROVE  Closed(Chain(BranchNo(n, i)))
    <2>1. PICK b \in Nodes : b = BranchNo(n, i)
      BY BranchesCounted
    <2>2. Chain(b) \subseteq Nodes
      BY DEF Chain
    <2> QED BY <2>1, <2>2, Chains DEF Closed
  <1> QED BY <1>1, <1>2

\* A node has returned a job: what makes its chain go on is now the next call.
LEMMA SourceReturned ==
  ASSUME ProcessorInv, NEW n, NEW k, NEW job, held' = With(held, k, job), unsaved' = unsaved \cup {k},
         job.node = n, k \in Ids(held) => held[k].node = n, k \in Ids(jobs) => k \in Ids(held),
         UNCHANGED <<jobs, tasks, loaded>>,
         NEW g, stack' # <<>>, Head(stack') = g,
         \/ g.op = "run" /\ Downstream(n) # NoNode /\ g.node = Downstream(n)
         \/ g.op = "resume" /\ ParentOf[n] # NoNode /\ g.node = ParentOf[n] /\ g.job = k,
         NEW C, Closed(C), Acts(stack, held, C) => n \in C, Source(C)
  PROVE  Source(C)'
  <1>1. PICK v, w, h : v = Seen /\ w = Seen' /\ h = held'
    OBVIOUS
  <1>2. /\ Ids(w) = Ids(v) \cup {k} /\ w[k] = job /\ \A i \in Ids(v) \ {k} : w[i] = v[i]
        /\ h[k] = job
        /\ \A i \in Ids(v) : w[i].node = v[i].node
        /\ \A i \in Ids(v) : v[i].node # job.node => (Latest(v, i) => Latest(w, i))
    BY <1>1, SeenWith
  <1>3. CASE n \in C
    <2>1. Acts(stack', h, C)
      BY <1>2, <1>3 DEF Closed, Acts
    <2> QED BY <1>1, <2>1 DEF Source
  <1>4. CASE n \notin C
    <2>1. Waits(v, C) => Waits(w, C)
      <3> SUFFICES ASSUME NEW i \in Ids(v), Asks(v, i) \/ Joining(v, i), v[i].node \in C
                   PROVE  Waits(w, C)
        BY DEF Waits
      <3>1. i # k /\ w[i] = v[i] /\ i \in Ids(w) /\ v[i].node # job.node
        BY <1>2, <1>4
      <3>2. Asks(v, i) => Asks(w, i)
        BY <3>1 DEF Asks
      <3>3. Joining(v, i) => Joining(w, i)
        BY <1>2, <3>1 DEF Joining
      <3> QED BY <3>1, <3>2, <3>3 DEF Waits
    <2>2. ~ Acts(stack, held, C)
      BY <1>4
    <2>3. Waits(v, C) \/ Queued(jobs, tasks, loaded, C)
      BY <1>1, <2>2 DEF Source
    <2> QED BY <1>1, <2>1, <2>3 DEF Source
  <1> QED BY <1>3, <1>4

\* A job that is not pending is returned, of the node the innermost call is about.
LEMMA Returned ==
  ASSUME ProcessorInv, CopyInv, CallInv, OwedInv, Goes', stack # <<>>,
         NEW n \in Nodes, Top.node = n, Top.op \in {"called", "branches", "resume"},
         NEW k \in Nat, NEW job, held' = With(held, k, job), unsaved' = unsaved \cup {k},
         job.node = n, job.status \in Statuses, job.status # PENDING,
         k \in Ids(held) => held[k].node = n, k \in Ids(jobs) => k \in Ids(held),
         Top.op = "resume" \/ \A i \in Ids(Seen) : i < k,
         n \in Parallels => \A i \in Ids(Seen) : Seen[i].node = n => i <= k,
         AfterJob(n, k, job.status), UNCHANGED <<exec, jobs, tasks, loaded, crashes>>
  PROVE  OwedInv' /\ CallInv'
  <1>1. PICK v, w, h : v = Seen /\ w = Seen' /\ h = held'
    OBVIOUS
  <1>2. /\ Ids(w) = Ids(v) \cup {k} /\ w[k] = job /\ \A i \in Ids(v) \ {k} : w[i] = v[i]
        /\ Ids(h) = Ids(held) \cup {k} /\ h[k] = job /\ \A i \in Ids(held) \ {k} : h[i] = held[i]
        /\ \A i \in Ids(v) : w[i].node = v[i].node
        /\ \A i \in Ids(v) : Latest(w, i) => Latest(v, i)
        /\ \A i \in Ids(held) : i \in Ids(v) /\ v[i].node = held[i].node
        /\ \A i \in Ids(v) : i \in Nat
    BY <1>1, SeenWith
  <1>3. PICK g : /\ stack' # <<>> /\ Head(stack') = g /\ Calls(stack') = {g} \cup Calls(Tail(stack))
                 /\ \/ g.op = "run" /\ Downstream(n) # NoNode /\ g.node = Downstream(n)
                    \/ g.op = "resume" /\ ParentOf[n] # NoNode /\ g.node = ParentOf[n] /\ g.job = k
    BY AfterJobGoes
  <1>4. PICK top : top = Top /\ top = Head(stack) /\ FrameOK(top, held)
    BY TopKnown DEF Top
  <1>5. /\ Calls(stack) = {top} \cup Calls(Tail(stack))
        /\ \A f \in Calls(Tail(stack)) : f.op = "branches" /\ f.k > 1
        /\ \A f \in Calls(stack) : f \in Frames /\ FrameOK(f, held)
    <2>1. StackOK(stack, held)
      BY DEF ProcessorInv, StackInv
    <2> QED BY <1>4, <2>1, CallsOf
  <1>6. Goes
    <2>1. crashes' = crashes /\ exec' = exec
      OBVIOUS
    <2>2. ~ Ending
      BY DEF Ending, At
    <2> QED BY <2>1, <2>2 DEF Goes
  <1>7. RootOK /\ BranchOK /\ TurnOK
    BY <1>6 DEF OwedInv
  <1>8. top.op = "resume" => \/ n \in Waiting /\ held[top.job].node = n
                             \/ n \in Parallels /\ ParentOf[held[top.job].node] = n
    BY <1>4 DEF FrameOK, CallInv, At
  \* The call to end is about n, or brings a result to n.
  <1>9. ASSUME NEW C, Closed(C), n \in Parallels => \A m \in C : ParentOf[m] # n, Source(C)
        PROVE  Source(C)'
    <2>1. Acts(stack, held, C) => n \in C
      BY <1>4, <1>8, <1>9 DEF Acts
    <2> QED BY <1>3, <1>9, <2>1, SourceReturned
  <1>10. RootOK'
    <2>1. Starting => Starting'
      BY DEF Starting
    <2>2. n \in Parallels => n # NoNode
      BY ProcessorAssumption
    <2>3. Source(MainLine) => Source(MainLine)'
      BY <1>9, <2>2, ChainsClosed DEF MainLine
    <2> QED BY <1>7, <2>1, <2>3 DEF RootOK
  <1>11. ASSUME NEW j \in Ids(w), Joining(w, j)
         PROVE  j \in Ids(v) /\ j # k /\ w[j] = v[j] /\ Joining(v, j) /\ v[j].node # n /\ v[j].node \in Parallels
    <2>1. j # k
      BY <1>2, <1>11 DEF Joining
    <2>2. j \in Ids(v) /\ w[j] = v[j] /\ Joining(v, j) /\ v[j].node \in Parallels
      BY <1>2, <1>11, <2>1 DEF Joining
    <2>3. v[j].node # n
      <3> SUFFICES ASSUME v[j].node = n PROVE FALSE
        OBVIOUS
      <3>1. j <= k
        BY <1>1, <2>2
      <3>2. k <= j
        BY <1>2, <1>11, <2>2 DEF Joining, Latest
      <3> QED BY <1>2, <2>1, <2>2, <3>1, <3>2
    <2> QED BY <2>1, <2>2, <2>3
  <1>12. BranchOK'
    <2> SUFFICES ASSUME NEW j \in Ids(w), Joining(w, j) PROVE Owes(j)'
      BY <1>1 DEF BranchOK
    <2>1. PICK m : m = v[j].node
      OBVIOUS
    <2>2. j \in Ids(v) /\ w[j] = v[j] /\ Joining(v, j) /\ m # n /\ m \in Parallels
      BY <1>11, <2>1
    <2>3. Owes(j)
      BY <1>1, <1>7, <2>2 DEF BranchOK
    <2>4. ASSUME NEW i \in 1..Cardinality(Branches(m)), Source(Chain(BranchNo(m, i)))
          PROVE  Source(Chain(BranchNo(m, i)))'
      <3>1. Closed(Chain(BranchNo(m, i)))
        BY <2>2, ChainsClosed
      <3>2. \A x \in Chain(BranchNo(m, i)) : ParentOf[x] # n
        BY <2>2, BranchFound
      <3> QED BY <1>9, <2>4, <3>1, <3>2
    <2>5. ASSUME NEW i, Later(stack, j, i) PROVE Later(stack', j, i)
      <3>1. PICK f \in Calls(stack) : f.op = "branches" /\ f.job = j /\ f.k <= i
        BY <2>5 DEF Later
      <3>2. f.node = m
        BY <1>2, <1>5, <2>1, <3>1 DEF FrameOK
      <3>3. f # top
        BY <1>4, <2>2, <3>2
      <3> QED BY <1>3, <1>5, <3>1, <3>3 DEF Later
    <2> QED BY <1>1, <2>1, <2>2, <2>3, <2>4, <2>5, OwesKept
  <1>13. TurnOK'
    <2> SUFFICES ASSUME NEW f \in Calls(stack'), f.op = "branches", f.k > 1, Joining(w, f.job),
                        NEW l \in Ids(h), LastOf(h, Before(f), l), ~ NextBranch(Mode[f.node], h[l].status)
                 PROVE  Answers(stack', f, l)
      BY <1>1 DEF TurnOK
    <2>1. f \in Calls(Tail(stack)) /\ f \in Calls(stack) /\ FrameOK(f, held)
      BY <1>3, <1>5
    <2>2. f.node \in Parallels /\ f.job \in Ids(held) /\ held[f.job].node = f.node
      BY <2>1 DEF FrameOK
    <2>3. f.job \in Ids(w) /\ Joining(v, f.job) /\ f.node # n
      BY <1>2, <1>11, <2>2
    <2>4. f.k - 1 \in 1..Cardinality(Branches(f.node))
      <3>1. f.k \in 1..(Cardinality(Branches(f.node)) + 1) /\ Cardinality(Branches(f.node)) \in Nat
        BY <2>1, <2>2, BranchesCounted DEF CallInv
      <3> QED BY <3>1
    <2>5. Closed(Before(f)) /\ \A x \in Before(f) : ParentOf[x] = f.node
      BY <2>2, <2>4, ChainsClosed, BranchFound DEF Before
    <2>6. CASE l = k
      <3>1. n \in Before(f)
        BY <1>2, <2>6 DEF LastOf
      <3> QED BY <1>3, <2>5, <2>6, <3>1 DEF Closed, Answers
    <2>7. CASE l # k
      <3>1. l \in Ids(held) /\ h[l] = held[l]
        BY <1>2, <2>7
      <3>2. LastOf(held, Before(f), l)
        BY <1>2, <3>1 DEF LastOf
      <3>3. Answers(stack, f, l)
        BY <1>1, <1>7, <2>1, <2>3, <3>1, <3>2 DEF TurnOK
      <3>4. top.op = "called" /\ n \in Before(f)
        BY <1>4, <2>3, <3>3 DEF Answers
      <3>5. l < k /\ k <= l
        BY <1>1, <1>2, <1>4, <3>1, <3>4 DEF LastOf
      <3>6. l \in Nat
        BY <1>2, <3>1
      <3> QED BY <3>5, <3>6
    <2> QED BY <2>6, <2>7
  <1>14. CallInv'
    <2>1. ASSUME NEW f \in Calls(stack'), f.op = "branches"
          PROVE  f.k \in 1..(Cardinality(Branches(f.node)) + 1)
      <3>1. f \in Calls(stack)
        BY <1>3, <1>5, <2>1
      <3> QED BY <2>1, <3>1 DEF CallInv
    <2>2. g.op = "resume" => ParentOf[h[g.job].node] = g.node /\ h[g.job].status # PENDING
      BY <1>2, <1>3
    <2> QED BY <1>1, <1>3, <2>1, <2>2 DEF CallInv, At, Top
  <1> QED BY <1>10, <1>12, <1>13, <1>14 DEF OwedInv

------------------------------------------------------------------------------
(* Nothing is lost: what others do                                         *)

\* Two views of the same jobs.
LEMMA SameViews ==
  ASSUME NEW v, NEW w, Ids(v) = Ids(w), \A j \in Ids(v) : v[j] = w[j]
  PROVE  /\ \A j : Latest(v, j) <=> Latest(w, j)
         /\ \A j : Joining(v, j) <=> Joining(w, j)
         /\ \A C : Waits(v, C) <=> Waits(w, C)
  <1>1. \A j : Latest(v, j) <=> Latest(w, j)
    BY DEF Latest
  <1>2. \A j : (Joining(v, j) <=> Joining(w, j)) /\ (Asks(v, j) <=> Asks(w, j))
    BY <1>1 DEF Joining, Asks, Latest
  <1>3. \A C : Waits(v, C) <=> Waits(w, C)
    BY <1>2 DEF Waits
  <1> QED BY <1>1, <1>2, <1>3

\* What is seen is the table when everything is saved.
LEMMA SavedView ==
  ASSUME NEW t, NEW h, NEW u, u = {}, NEW v, v = View(t, h, u)
  PROVE  Ids(v) = Ids(t) /\ \A j \in Ids(v) : v[j] = t[j]
  BY DEF View, Ids

\* Between two processors the table is all there is.
LEMMA IdleView ==
  ASSUME ProcessorInv, holder = NoWorker
  PROVE  /\ stack = <<>> /\ Ids(held) = {} /\ unsaved = {}
         /\ Ids(Seen) = Ids(jobs) /\ \A j \in Ids(Seen) : Seen[j] = jobs[j]
  <1>1. stack = <<>> /\ Ids(held) = {} /\ unsaved = {}
    BY DEF ProcessorInv, IdleInv, DataInv, Data, Objects
  <1> QED BY <1>1, SavedView DEF Seen

\* Nothing that goes on is lost.
LEMMA OwedKept ==
  ASSUME OwedInv, Goes' => Goes, NEW v, v = Seen, NEW w, w = Seen',
         Goes' /\ Goes /\ Starting => Starting' \/ Source(MainLine)',
         Goes' /\ Goes => \A C : Source(C) => Source(C)',
         Goes' /\ Goes => \A j : Joining(w, j) => /\ Joining(v, j) /\ w[j] = v[j]
                                                  /\ \A i : Later(stack, j, i) => Later(stack', j, i),
         Goes' /\ Goes /\ TurnOK => TurnOK'
  PROVE  OwedInv'
  <1> SUFFICES ASSUME Goes' PROVE RootOK' /\ BranchOK' /\ TurnOK'
    BY DEF OwedInv
  <1>1. Goes /\ RootOK /\ BranchOK /\ TurnOK
    BY DEF OwedInv
  <1>2. RootOK'
    BY <1>1 DEF RootOK
  <1>3. BranchOK'
    <2> SUFFICES ASSUME NEW j \in Ids(w), Joining(w, j) PROVE Owes(j)'
      BY DEF BranchOK
    <2>1. Joining(v, j) /\ w[j] = v[j] /\ j \in Ids(v)
      BY <1>1 DEF Joining, Latest
    <2>2. Owes(j)
      BY <1>1, <2>1 DEF BranchOK
    <2>3. \A C : Source(C) => Source(C)'
      BY <1>1
    <2>4. \A i : Later(stack, j, i) => Later(stack', j, i)
      BY <1>1
    <2>5. PICK n, r : n = v[j].node /\ r = v[j].result
      OBVIOUS
    <2>6. \A i \in 1..Cardinality(Branches(n)) :
             Source(Chain(BranchNo(n, i))) \/ Later(stack, j, i) =>
               Source(Chain(BranchNo(n, i)))' \/ Later(stack', j, i)
      BY <2>3, <2>4
    <2> QED BY <2>1, <2>2, <2>5, <2>6, OwesKept
  <1> QED BY <1>1, <1>2, <1>3

\* The calls of the branches and what is on its way to them stay.
LEMMA TurnStays ==
  ASSUME NEW v, v = Seen, NEW w, w = Seen', held' = held,
         \A f \in Calls(stack') : f.op = "branches" /\ f.k > 1 =>
           f \in Calls(stack) /\ (Joining(w, f.job) => Joining(v, f.job)),
         \A f \in Calls(stack) : \A l : Answers(stack, f, l) => Answers(stack', f, l)
  PROVE  TurnOK => TurnOK'
  BY DEF TurnOK

\* The execution has ended.
LEMMA EndedStep ==
  ASSUME WaitInv, CallInv, exec' # STARTED,
         UNCHANGED <<stack, held, unsaved>>, Ids(jobs') = Ids(jobs)
  PROVE  RestInv'
  <1>1. CallInv' /\ WaitInv'
    BY DEF CallInv, At, Top, WaitInv
  <1> QED BY <1>1 DEF RestInv, CopyInv, MirrorInv, OwedInv, Goes

LEMMA AbortedStep ==
  ASSUME ProcessorInv, RestInv, AbortRows, UNCHANGED <<stack, held, unsaved>>
  PROVE  RestInv'
  <1>1. Ids(jobs') = Ids(jobs)
    BY DEF AbortRows, Ids
  <1>2. exec' # STARTED
    BY AbortEnds
  <1> QED BY <1>1, <1>2, EndedStep DEF RestInv

\* Outside the processor: more tasks, or other rows of waiting nodes.
LEMMA OutsideRest ==
  ASSUME ProcessorInv, RestInv, UNCHANGED <<exec, stack, held, base, unsaved, copy, holder, crashes>>,
         jobs' = jobs \/ holder = NoWorker, Ids(jobs') = Ids(jobs),
         Starting => Starting', \A C : Source(C) => Source(C)',
         \A j : Joining(Seen', j) => Joining(Seen, j) /\ Seen'[j] = Seen[j]
  PROVE  RestInv'
  <1>1. CallInv' /\ WaitInv' /\ CopyInv'
    BY DEF RestInv, CallInv, At, Top, WaitInv, CopyInv
  <1>2. MirrorInv'
    <2>1. CASE holder = NoWorker
      BY <2>1 DEF MirrorInv
    <2>2. CASE jobs' = jobs
      BY <2>2 DEF RestInv, MirrorInv, Seen, At, Top
    <2> QED BY <2>1, <2>2
  <1>3. OwedInv'
    <2>1. PICK v, w : v = Seen /\ w = Seen'
      OBVIOUS
    <2>2. Goes' => Goes
      BY DEF Goes, Ending, At, Top
    <2>3. TurnOK => TurnOK'
      BY <2>1, TurnStays
    <2>4. \A j : Joining(w, j) => /\ Joining(v, j) /\ w[j] = v[j]
                                  /\ \A i : Later(stack, j, i) => Later(stack', j, i)
      BY <2>1
    <2> QED BY <2>1, <2>2, <2>3, <2>4, OwedKept DEF RestInv
  <1> QED BY <1>1, <1>2, <1>3 DEF RestInv

\* The steps, one by one: those of others first.
LEMMA PokeRest == ASSUME ProcessorInv, RestInv, NEW j \in Ids(jobs), Poke(j) PROVE RestInv'
  <1>1. /\ tasks' = [tasks EXCEPT ![j] = @ + 1]
        /\ UNCHANGED <<exec, jobs, loaded, stack, held, base, unsaved, copy, holder, crashes>>
    BY DEF Poke, dbVars, procVars
  <1>2. j \in JobIds /\ j # 0 /\ tasks \in [JobIds \cup {0} -> Nat]
    BY ProcessorAssumption DEF ProcessorInv, TaskInv, DataInv, Data, JobsOK
  <1>3. \A t \in JobIds \cup {0} : tasks[t] > 0 => tasks'[t] > 0
    BY <1>1, <1>2
  <1>4. Starting => Starting'
    BY <1>1, <1>3 DEF Starting
  <1>5. Ids(jobs) \subseteq JobIds
    BY DEF ProcessorInv, DataInv, Data, JobsOK
  <1>6. Seen' = Seen
    BY <1>1 DEF Seen
  <1>7. ASSUME NEW C, Source(C) PROVE Source(C)'
    BY <1>1, <1>3, <1>5, <1>6, <1>7 DEF Source, Queued
  <1> QED BY <1>1, <1>4, <1>6, <1>7, OutsideRest

LEMMA ResumeActionRest ==
  ASSUME ProcessorInv, RestInv, NEW j \in Ids(jobs), NEW s \in {RESOLVED, FAILED}, ResumeAction(j, s)
  PROVE  RestInv'
  <1>1. /\ tasks' = [tasks EXCEPT ![j] = @ + 1] /\ jobs' = [jobs EXCEPT ![j].status = s]
        /\ jobs[j].node \in Waiting /\ holder = NoWorker
        /\ UNCHANGED <<exec, loaded, stack, held, base, unsaved, copy, holder, crashes>>
    BY DEF ResumeAction, procVars
  <1>2. j \in JobIds /\ j # 0 /\ tasks \in [JobIds \cup {0} -> Nat] /\ Ids(jobs) \subseteq JobIds
    BY ProcessorAssumption DEF ProcessorInv, TaskInv, DataInv, Data, JobsOK
  <1>3. (\A t \in JobIds \cup {0} : tasks[t] > 0 => tasks'[t] > 0) /\ tasks'[j] > 0
    BY <1>1, <1>2
  <1>4. Starting => Starting'
    BY <1>1, <1>3 DEF Starting
  <1>5. /\ Ids(jobs') = Ids(jobs) /\ \A i \in Ids(jobs) \ {j} : jobs'[i] = jobs[i]
        /\ \A i \in Ids(jobs) : jobs'[i].node = jobs[i].node
    <2>1. jobs[j] \in Job
      BY DEF ProcessorInv, DataInv, Data, JobsOK
    <2> QED BY <1>1, <2>1 DEF Ids, Job
  <1>6. stack = <<>> /\ unsaved = {} /\ Ids(Seen) = Ids(jobs) /\ \A i \in Ids(Seen) : Seen[i] = jobs[i]
    BY <1>1, IdleView
  <1>7. Ids(Seen') = Ids(jobs') /\ \A i \in Ids(Seen') : Seen'[i] = jobs'[i]
    <2>1. PICK t, h, u : t = jobs' /\ h = held' /\ u = unsaved'
      OBVIOUS
    <2>2. u = {}
      BY <1>1, <1>6, <2>1
    <2>3. Ids(View(t, h, u)) = Ids(t) /\ \A i \in Ids(View(t, h, u)) : View(t, h, u)[i] = t[i]
      BY <2>2, SavedView
    <2> QED BY <2>1, <2>3 DEF Seen
  <1>8. PICK v, w : v = Seen /\ w = Seen'
    OBVIOUS
  <1>9. /\ Ids(w) = Ids(v) /\ Ids(v) = Ids(jobs) /\ \A i \in Ids(v) \ {j} : w[i] = v[i]
        /\ \A i \in Ids(v) : w[i].node = v[i].node
        /\ v[j].node \in Waiting /\ v[j].node = jobs'[j].node
    BY <1>1, <1>5, <1>6, <1>7, <1>8
  <1>10. ASSUME NEW i PROVE Latest(w, i) <=> Latest(v, i)
    BY <1>9 DEF Latest
  <1>11. ASSUME NEW i, Joining(w, i) PROVE Joining(v, i) /\ w[i] = v[i]
    <2>1. i # j
      BY <1>9, <1>11, ProcessorAssumption DEF Joining
    <2> QED BY <1>9, <1>10, <1>11, <2>1 DEF Joining, Latest
  <1>12. ASSUME NEW C, Source(C) PROVE Source(C)'
    <2>1. CASE Waits(v, C)
      <3>1. PICK i \in Ids(v) : (Asks(v, i) \/ Joining(v, i)) /\ v[i].node \in C
        BY <2>1 DEF Waits
      <3>2. CASE i = j
        <4>1. Queued(jobs', tasks', loaded', C)
          BY <1>3, <1>5, <1>9, <3>1, <3>2 DEF Queued
        <4> QED BY <4>1 DEF Source
      <3>3. CASE i # j
        <4>1. Asks(v, i) => Asks(w, i)
          BY <1>9, <3>3 DEF Asks
        <4>2. Joining(v, i) => Joining(w, i)
          BY <1>9, <1>10, <3>1, <3>3 DEF Joining
        <4>3. Waits(w, C)
          BY <1>9, <3>1, <3>3, <4>1, <4>2 DEF Waits
        <4> QED BY <1>8, <4>3 DEF Source
      <3> QED BY <3>2, <3>3
    <2>2. CASE Queued(jobs, tasks, loaded, C)
      <3>1. Queued(jobs', tasks', loaded', C)
        BY <1>1, <1>2, <1>3, <1>5, <2>2 DEF Queued
      <3> QED BY <3>1 DEF Source
    <2>3. ~ Acts(stack, held, C)
      BY <1>6 DEF Acts
    <2> QED BY <1>8, <1>12, <2>1, <2>2, <2>3 DEF Source
  <1>13. \A i : Joining(Seen', i) => Joining(Seen, i) /\ Seen'[i] = Seen[i]
    BY <1>8, <1>11
  <1> QED BY <1>1, <1>4, <1>5, <1>12, <1>13, OutsideRest

LEMMA LoadRest ==
  ASSUME ProcessorInv, RestInv, NEW w \in Workers, NEW t \in JobIds \cup {0}, Load(w, t)
  PROVE  RestInv'
  <1>1. /\ loaded[w] = NoTask /\ tasks' = [tasks EXCEPT ![t] = @ - 1]
        /\ loaded' = IF exec # STARTED THEN loaded
                     ELSE [loaded EXCEPT ![w] =
                             [job |-> t, status |-> IF t = 0 THEN PENDING ELSE jobs[t].status]]
        /\ UNCHANGED <<exec, jobs, stack, held, base, unsaved, copy, holder, crashes>>
    BY DEF Load, dbVars, procVars, ghostVars
  <1>2. CASE exec # STARTED
    <2>1. exec' # STARTED /\ Ids(jobs') = Ids(jobs) /\ UNCHANGED <<stack, held, unsaved>>
      BY <1>1, <1>2
    <2> QED BY <2>1, EndedStep DEF RestInv
  <1>3. CASE exec = STARTED
    <2>1. PICK task : task = [job |-> t, status |-> IF t = 0 THEN PENDING ELSE jobs[t].status]
      OBVIOUS
    <2>2. task.job = t /\ (t = 0 => task # NoTask)
      <3>1. t = 0 => task.status = PENDING
        BY <2>1
      <3>2. NoTask.status = Null /\ Null # PENDING
        BY DEF NoTask, Null, PENDING
      <3> QED BY <2>1, <3>1, <3>2
    <2>3. loaded'[w] = task /\ (\A x \in Workers \ {w} : loaded'[x] = loaded[x])
          /\ tasks \in [JobIds \cup {0} -> Nat]
      BY <1>1, <1>3, <2>1 DEF ProcessorInv, TaskInv
    <2>4. \A x \in JobIds \cup {0} : x # t => tasks'[x] = tasks[x]
      BY <1>1, <2>3
    <2>5. Starting => Starting'
      <3>1. CASE t = 0
        BY <2>2, <2>3, <3>1 DEF Starting
      <3>2. CASE t # 0
        BY <1>1, <2>3, <2>4, <3>2 DEF Starting
      <3> QED BY <3>1, <3>2
    <2>6. NoTask.job = 0 /\ 0 \notin Ids(jobs) /\ Ids(jobs) \subseteq JobIds
      BY ProcessorAssumption DEF NoTask, ProcessorInv, DataInv, Data, JobsOK
    <2>7. Seen' = Seen
      BY <1>1 DEF Seen
    <2>8. ASSUME NEW C, Queued(jobs, tasks, loaded, C) PROVE Queued(jobs, tasks', loaded', C)
      <3>1. PICK j \in Ids(jobs) : jobs[j].node \in C /\ (tasks[j] > 0 \/ \E x \in Workers : loaded[x].job = j)
        BY <2>8 DEF Queued
      <3>2. CASE j = t
        BY <2>2, <2>3, <3>1, <3>2 DEF Queued
      <3>3. CASE j # t
        BY <1>1, <2>3, <2>4, <2>6, <3>1, <3>3 DEF Queued
      <3> QED BY <3>2, <3>3
    <2>9. ASSUME NEW C, Source(C) PROVE Source(C)'
      BY <1>1, <2>7, <2>8, <2>9 DEF Source
    <2> QED BY <1>1, <2>5, <2>7, <2>9, OutsideRest
  <1> QED BY <1>2, <1>3

LEMMA ClockRest == ASSUME ProcessorInv, RestInv, Expire \/ TimeoutGuard PROVE RestInv'
  <1>1. UNCHANGED <<exec, jobs, tasks, loaded, stack, held, base, unsaved, copy, holder, crashes>>
    BY DEF Expire, TimeoutGuard, dbVars, queueVars, procVars, ghostVars
  <1>2. Starting => Starting'
    BY <1>1 DEF Starting
  <1>3. Seen' = Seen
    BY <1>1 DEF Seen
  <1>4. ASSUME NEW C, Source(C) PROVE Source(C)'
    BY <1>1, <1>3, <1>4 DEF Source
  <1> QED BY <1>1, <1>2, <1>3, <1>4, OutsideRest

LEMMA AbortingRest ==
  ASSUME ProcessorInv, RestInv, \/ \E j, where : ResumeTooLate(j, where)
                                \/ \E where : Abort(where)
                                \/ TimeoutAbort
  PROVE  RestInv'
  <1>1. AbortRows /\ UNCHANGED <<stack, held, unsaved>>
    BY DEF ResumeTooLate, Abort, TimeoutAbort, procVars
  <1> QED BY <1>1, AbortedStep

LEMMA CrashRest == ASSUME ProcessorInv, RestInv, Crash PROVE RestInv'
  <1>1. /\ crashes' = crashes + 1 /\ crashes \in Nat /\ stack' = <<>> /\ unsaved' = {} /\ copy' = STARTED
        /\ holder' = NoWorker
    BY DEF Crash, ProcessorInv, TypesInv
  <1>2. CallInv' /\ WaitInv' /\ CopyInv'
    BY <1>1 DEF CallInv, Calls, At, WaitInv, CopyInv
  <1>3. MirrorInv'
    BY <1>1 DEF MirrorInv
  <1>4. ~ Goes'
    BY <1>1 DEF Goes
  <1> QED BY <1>2, <1>3, <1>4 DEF RestInv, OwedInv

------------------------------------------------------------------------------
(* Nothing is lost: the steps of the processor                             *)

\* All is saved, before and after.
LEMMA SavedStep ==
  ASSUME unsaved = {}, unsaved' = {}, jobs' = jobs
  PROVE  /\ \A j : Joining(Seen', j) => Joining(Seen, j) /\ Seen'[j] = Seen[j]
         /\ \A C : Waits(Seen, C) => Waits(Seen', C)
         /\ Ids(Seen') = Ids(jobs) /\ \A j \in Ids(jobs) : Seen'[j] = jobs[j]
  <1>1. Ids(Seen) = Ids(jobs) /\ \A j \in Ids(Seen) : Seen[j] = jobs[j]
    BY SavedView DEF Seen
  <1>2. Ids(Seen') = Ids(jobs) /\ \A j \in Ids(Seen') : Seen'[j] = jobs[j]
    <2>1. PICK t, h, u : t = jobs' /\ h = held' /\ u = unsaved'
      OBVIOUS
    <2>2. u = {} /\ t = jobs
      BY <2>1
    <2>3. Ids(View(t, h, u)) = Ids(t) /\ \A i \in Ids(View(t, h, u)) : View(t, h, u)[i] = t[i]
      BY <2>2, SavedView
    <2> QED BY <2>1, <2>2, <2>3 DEF Seen
  <1>3. PICK v, w : v = Seen /\ w = Seen'
    OBVIOUS
  <1>4. Ids(v) = Ids(w) /\ \A j \in Ids(v) : v[j] = w[j]
    BY <1>1, <1>2, <1>3
  <1>5. (\A j : Joining(v, j) <=> Joining(w, j)) /\ \A C : Waits(v, C) <=> Waits(w, C)
    BY <1>4, SameViews
  <1>6. \A j : Joining(w, j) => j \in Ids(w)
    BY DEF Joining, Latest
  <1> QED BY <1>2, <1>3, <1>4, <1>5, <1>6

LEMMA EnterRest == ASSUME ProcessorInv, RestInv, NEW w \in Workers, Enter(w) PROVE RestInv'
  <1>1. /\ holder = NoWorker /\ copy' = STARTED /\ unsaved' = {} /\ held' = NoJobs
        /\ UNCHANGED <<tasks, crashes>>
    BY DEF Enter, ghostVars
  <1>2. stack = <<>> /\ unsaved = {}
    BY <1>1, IdleView
  <1>3. CopyInv' /\ WaitInv'
    BY <1>1 DEF CopyInv, WaitInv
  <1>4. CASE expired /\ AbortRows /\ UNCHANGED <<stack, running>>
    <2>1. exec' # STARTED /\ stack' = <<>>
      BY <1>2, <1>4, AbortEnds
    <2>2. CallInv'
      BY <2>1 DEF CallInv, Calls, At
    <2> QED BY <1>3, <2>1, <2>2 DEF RestInv, MirrorInv, OwedInv, Goes
  <1>5. CASE ~ expired /\ stack' = <<Frame("prepare", NoNode, loaded[w].job, Null)>>
             /\ UNCHANGED <<exec, jobs, loaded>>
    <2>1. PICK f : f = Frame("prepare", NoNode, loaded[w].job, Null)
      OBVIOUS
    <2>2. f.op = "prepare"
      BY <2>1 DEF Frame
    <2>3. stack' # <<>> /\ Head(stack') = f /\ \A g \in Calls(stack') : g = f
      BY <1>5, <2>1 DEF Calls
    <2>4. CallInv' /\ MirrorInv'
      BY <2>2, <2>3 DEF CallInv, MirrorInv, At, Top
    <2>5. OwedInv'
      <3>1. PICK v, x : v = Seen /\ x = Seen'
        OBVIOUS
      <3>2. /\ \A j : Joining(x, j) => Joining(v, j) /\ x[j] = v[j]
            /\ \A C : Waits(v, C) => Waits(x, C)
        BY <1>1, <1>2, <1>5, <3>1, SavedStep
      <3>3. \A j, i : ~ Later(stack, j, i)
        BY <1>2 DEF Later, Calls
      <3>4. ASSUME NEW C, Source(C) PROVE Source(C)'
        BY <1>1, <1>2, <1>5, <3>1, <3>2, <3>4 DEF Source, Acts
      <3>5. Starting => Starting'
        BY <1>1, <1>5 DEF Starting
      <3>6. TurnOK'
        BY <2>2, <2>3 DEF TurnOK
      <3>7. Goes' => Goes
        BY <1>1, <1>2, <1>5 DEF Goes, Ending, At
      <3> QED BY <3>1, <3>2, <3>3, <3>4, <3>5, <3>6, <3>7, OwedKept DEF RestInv
    <2> QED BY <1>3, <2>4, <2>5 DEF RestInv
  <1> QED BY <1>4, <1>5 DEF Enter

LEMMA LeaveRest == ASSUME ProcessorInv, RestInv, Branched, Leave PROVE RestInv'
  <1>1. /\ stack = <<>> /\ stack' = <<>> /\ copy' = STARTED /\ holder' = NoWorker /\ unsaved' = {}
        /\ UNCHANGED <<exec, jobs, tasks, loaded, crashes>>
    BY DEF Leave, dbVars, queueVars, ghostVars
  <1>2. unsaved = {}
    BY <1>1 DEF ProcessorInv, SavedInv
  <1>3. CopyInv' /\ WaitInv' /\ MirrorInv' /\ CallInv'
    BY <1>1 DEF CopyInv, WaitInv, MirrorInv, CallInv, Calls, At
  <1>4. OwedInv'
    <2>1. PICK v, w : v = Seen /\ w = Seen'
      OBVIOUS
    <2>2. /\ \A j : Joining(w, j) => Joining(v, j) /\ w[j] = v[j]
          /\ \A C : Waits(v, C) => Waits(w, C)
      BY <1>1, <1>2, <2>1, SavedStep
    <2>3. \A j, i : ~ Later(stack, j, i)
      BY <1>1 DEF Later, Calls
    <2>4. ASSUME NEW C, Source(C) PROVE Source(C)'
      BY <1>1, <2>1, <2>2, <2>4 DEF Source, Acts
    <2>5. Starting => Starting'
      BY <1>1 DEF Starting
    <2>6. TurnOK' /\ (Goes' => Goes)
      BY <1>1 DEF TurnOK, Calls, Goes, Ending, At
    <2> QED BY <2>1, <2>2, <2>3, <2>4, <2>5, <2>6, OwedKept DEF RestInv
  <1> QED BY <1>3, <1>4 DEF RestInv

\* What prepare loads: the latest job of every node and the one to resume.
Loads(task, f, h) ==
  /\ task \in [job : JobIds \cup {0}, status : Statuses \cup {Null}]
  /\ task = loaded[holder] /\ h = held' /\ base' = h
  /\ unsaved = {} /\ unsaved' = {} /\ holder # NoWorker
  /\ task.job # 0 => task.job \in Ids(jobs) /\ jobs[task.job].node \in Waiting
  /\ f = IF task.job = 0 THEN Run(Head0, 0) ELSE Resume(jobs[task.job].node, task.job)
  /\ stack' = <<f>> \o Tail(stack)
  /\ Ids(h) = {j \in Ids(jobs) : j = Current(jobs, jobs[j].node)}
              \cup (IF task.job = 0 THEN {} ELSE {task.job})
  /\ \A j \in Ids(h) : /\ j \in Ids(jobs) /\ h[j] \in Job /\ h[j].node = jobs[j].node
                       /\ h[j].result = jobs[j].result /\ (j # task.job => h[j] = jobs[j])
  /\ loaded' = [loaded EXCEPT ![holder] = NoTask] /\ Calls(Tail(stack)) = {}

LEMMA PrepareLoads == ASSUME ProcessorInv, Prepare PROVE \E task, f, h : Loads(task, f, h)
  <1> DEFINE latest == {j \in Ids(jobs) : j = Current(jobs, jobs[j].node)}
             arg    == loaded[holder]
             seen   == [j \in latest \cup (IF arg.job = 0 THEN {} ELSE {arg.job}) |->
                          IF j = arg.job THEN [jobs[j] EXCEPT !.status = arg.status] ELSE jobs[j]]
             call   == IF arg.job = 0 THEN Run(Head0, 0) ELSE Resume(jobs[arg.job].node, arg.job)
  <1>1. /\ At("prepare") /\ held' = seen /\ base' = seen
        /\ loaded' = [loaded EXCEPT ![holder] = NoTask]
        /\ stack' = <<call>> \o Tail(stack) /\ unsaved' = unsaved
    BY DEF Prepare, Replace
  <1>2. /\ arg # NoTask /\ Ids(held) = {} /\ holder \in Workers /\ stack # <<>>
        /\ unsaved = {}
    BY <1>1 DEF ProcessorInv, PrepareInv, IdleInv, TypesInv, At, DataInv, Data, Objects
  <1>3. PICK task : task = arg
    OBVIOUS
  <1>4. /\ task \in [job : JobIds \cup {0}, status : Statuses \cup {Null}]
        /\ Wakes(task.job, jobs) /\ task.status \in Statuses
    BY <1>2, <1>3 DEF ProcessorInv, TaskInv
  <1>5. /\ Ids(seen) = latest \cup (IF task.job = 0 THEN {} ELSE {task.job})
        /\ \A j \in Ids(seen) : seen[j] = IF j = task.job THEN [jobs[j] EXCEPT !.status = task.status] ELSE jobs[j]
    BY <1>3 DEF Ids
  <1>6. task.job # 0 => task.job \in Ids(jobs) /\ jobs[task.job].node \in Waiting
    BY <1>4 DEF Wakes
  <1>7. PICK f : f = IF task.job = 0 THEN Run(Head0, 0) ELSE Resume(jobs[task.job].node, task.job)
    OBVIOUS
  <1>8. stack' = <<f>> \o Tail(stack)
    BY <1>1, <1>3, <1>7
  <1>9. PICK h : h = seen
    OBVIOUS
  <1> HIDE DEF seen, call, arg, latest
  <1>10. \A j \in Ids(h) : /\ j \in Ids(jobs) /\ h[j] \in Job /\ h[j].node = jobs[j].node
                           /\ h[j].result = jobs[j].result /\ (j # task.job => h[j] = jobs[j])
    <2> SUFFICES ASSUME NEW j \in Ids(h)
                 PROVE  /\ j \in Ids(jobs) /\ h[j] \in Job /\ h[j].node = jobs[j].node
                        /\ h[j].result = jobs[j].result /\ (j # task.job => h[j] = jobs[j])
      OBVIOUS
    <2>1. j \in Ids(jobs)
      BY <1>5, <1>6, <1>9 DEF latest
    <2>2. jobs[j] \in Job
      BY <2>1 DEF ProcessorInv, DataInv, Data, JobsOK
    <2>3. CASE j = task.job
      <3>1. h[j] = [jobs[j] EXCEPT !.status = task.status]
        BY <1>5, <1>9, <2>3
      <3> QED BY <1>4, <2>1, <2>2, <2>3, <3>1 DEF Job
    <2>4. CASE j # task.job
      BY <1>5, <1>9, <2>1, <2>2, <2>4
    <2> QED BY <2>3, <2>4
  <1>11. Calls(Tail(stack)) = {}
    <2>1. StackOK(stack, held) /\ stack # <<>>
      BY <1>2 DEF ProcessorInv, StackInv
    <2>2. ASSUME NEW g \in Calls(Tail(stack)) PROVE g.op = "branches" /\ FrameOK(g, held)
      BY <2>1, <2>2, CallsOf
    <2> QED BY <1>2, <2>2 DEF FrameOK
  <1>12. holder # NoWorker
    BY <1>2, ProcessorAssumption
  <1>13. /\ held' = h /\ base' = h /\ task = loaded[holder] /\ unsaved' = {}
         /\ Ids(h) = {j \in Ids(jobs) : j = Current(jobs, jobs[j].node)}
                     \cup (IF task.job = 0 THEN {} ELSE {task.job})
    BY <1>1, <1>2, <1>3, <1>5, <1>9 DEF arg, latest
  <1>14. loaded' = [loaded EXCEPT ![holder] = NoTask] /\ unsaved = {}
    BY <1>1, <1>2
  <1>15. Loads(task, f, h)
    BY ONLY <1>4, <1>6, <1>7, <1>8, <1>10, <1>11, <1>12, <1>13, <1>14 DEF Loads
  <1> QED BY <1>15

\* The latest job of a node is the one the processor knows for it.
LEMMA LatestIsCurrent ==
  ASSUME NEW t, NEW j, Latest(t, j), \A i \in Ids(t) : i \in Nat
  PROVE  j = Current(t, t[j].node)
  <1> DEFINE ids == {i \in Ids(t) : t[i].node = t[j].node}
  <1>1. j \in ids /\ (\A i \in ids : i <= j) /\ \A i \in ids : i \in Nat
    BY DEF Latest
  <1>2. Current(t, t[j].node) = CHOOSE c \in ids : \A i \in ids : i <= c
    BY <1>1 DEF Current
  <1>3. \A c \in ids : (\A i \in ids : i <= c) => c = j
    <2> HIDE DEF ids
    <2>1. ASSUME NEW c \in ids, \A i \in ids : i <= c PROVE c = j
      <3>1. c <= j /\ j <= c /\ c \in Nat /\ j \in Nat
        BY <1>1, <2>1
      <3> QED BY <3>1
    <2> QED BY <2>1
  <1> HIDE DEF ids
  <1> QED BY <1>1, <1>2, <1>3

LEMMA PrepareRest == ASSUME ProcessorInv, RestInv, Prepare PROVE RestInv'
  <1>0. PICK task, f, h : Loads(task, f, h)
    BY PrepareLoads
  <1>1. /\ task \in [job : JobIds \cup {0}, status : Statuses \cup {Null}]
        /\ task = loaded[holder] /\ h = held' /\ base' = h
        /\ unsaved = {} /\ unsaved' = {} /\ holder # NoWorker
        /\ task.job # 0 => task.job \in Ids(jobs) /\ jobs[task.job].node \in Waiting
        /\ f = IF task.job = 0 THEN Run(Head0, 0) ELSE Resume(jobs[task.job].node, task.job)
        /\ stack' = <<f>> \o Tail(stack)
        /\ Ids(h) = {j \in Ids(jobs) : j = Current(jobs, jobs[j].node)}
                    \cup (IF task.job = 0 THEN {} ELSE {task.job})
        /\ \A j \in Ids(h) : /\ j \in Ids(jobs) /\ h[j] \in Job /\ h[j].node = jobs[j].node
                             /\ h[j].result = jobs[j].result /\ (j # task.job => h[j] = jobs[j])
        /\ loaded' = [loaded EXCEPT ![holder] = NoTask] /\ Calls(Tail(stack)) = {}
    BY <1>0 DEF Loads
  <1>2. At("prepare") /\ UNCHANGED <<exec, jobs, tasks, copy, crashes>>
    BY DEF Prepare, dbVars, ghostVars
  <1>3. stack # <<>> /\ stack' # <<>> /\ Head(stack') = f /\ Calls(stack') = {f}
    <2>1. StackOK(stack, held) /\ stack # <<>>
      BY <1>2 DEF ProcessorInv, StackInv, At
    <2>2. stack' = <<f>> \o Tail(stack) /\ Calls(Tail(stack)) = {}
      BY <1>1
    <2>3. /\ Calls(<<f>> \o Tail(stack)) = {f} \cup Calls(Tail(stack))
          /\ <<f>> \o Tail(stack) # <<>> /\ Head(<<f>> \o Tail(stack)) = f
      BY ONLY <2>1, CallsOf
    <2> QED BY <2>1, <2>2, <2>3
  <1>4. /\ task.job = 0 => f.op = "run" /\ f.node = Head0
        /\ task.job # 0 => f.op = "resume" /\ f.job = task.job /\ f.node \in Waiting /\ h[task.job].node = f.node
    <2>1. task.job = 0 => f.op = "run" /\ f.node = Head0
      BY <1>1 DEF Run, Frame
    <2>2. task.job # 0 => f.op = "resume" /\ f.job = task.job /\ f.node = jobs[task.job].node /\ task.job \in Ids(h)
      BY <1>1 DEF Resume, Frame
    <2> QED BY <1>1, <2>1, <2>2
  <1>5. CallInv' /\ WaitInv' /\ CopyInv'
    <2>1. CallInv'
      BY <1>3, <1>4, ProcessorAssumption DEF CallInv, At, Top
    <2> QED BY <1>1, <1>2, <2>1 DEF RestInv, WaitInv, CopyInv
  <1>6. PICK v, w : v = Seen /\ w = Seen'
    OBVIOUS
  <1>7. /\ \A j : Joining(w, j) => Joining(v, j) /\ w[j] = v[j]
        /\ \A C : Waits(v, C) => Waits(w, C)
        /\ Ids(w) = Ids(jobs) /\ \A j \in Ids(jobs) : w[j] = jobs[j]
    BY <1>1, <1>2, <1>6, SavedStep
  <1>8. MirrorInv'
    <2> SUFFICES ASSUME NEW j \in Ids(w), w[j].node \in Parallels
                 PROVE  /\ Latest(w, j) => j \in Ids(h)
                        /\ j \in Ids(h) => w[j] = h[j]
                        /\ j \in Ids(h) \cap Ids(jobs) => jobs[j] = h[j]
      BY <1>1, <1>2, <1>6 DEF MirrorInv
    <2>1. Latest(w, j) => Latest(jobs, j)
      BY <1>7 DEF Latest
    <2>2. \A i \in Ids(jobs) : i \in Nat
      BY DEF ProcessorInv, DataInv, Data, JobsOK
    <2>3. Latest(w, j) => j \in Ids(h)
      BY <1>1, <1>7, <2>1, <2>2, LatestIsCurrent
    <2>4. j = task.job => j = 0
      BY <1>1, <1>7, ProcessorAssumption
    <2>5. j # 0
      BY <1>7, ProcessorAssumption DEF ProcessorInv, DataInv, Data, JobsOK
    <2> QED BY <1>1, <1>7, <2>3, <2>4, <2>5
  <1>9. OwedInv'
    <2>1. \A j, i : ~ Later(stack, j, i)
      <3>1. Calls(stack) = {Top}
        <4>1. StackOK(stack, held)
          BY DEF ProcessorInv, StackInv
        <4>2. Calls(stack) = {Head(stack)} \cup Calls(Tail(stack))
          BY ONLY <1>3, <4>1, CallsOf
        <4> QED BY <1>1, <4>2 DEF Top
      <3> QED BY <1>2, <3>1 DEF Later, At
    <2>2. loaded'[holder] = NoTask /\ \A x \in Workers \ {holder} : loaded'[x] = loaded[x]
      <3>1. holder \in Workers
        BY <1>1 DEF ProcessorInv, TypesInv
      <3> QED BY <1>1, <3>1 DEF ProcessorInv, TaskInv
    <2>3. Starting => Starting' \/ Source(MainLine)'
      <3>1. CASE task.job = 0
        <4>1. Acts(stack', h, MainLine)
          BY <1>3, <1>4, <3>1, HeadTyped DEF Acts, MainLine
        <4> QED BY <1>1, <4>1 DEF Source
      <3>2. CASE task.job # 0
        BY <1>1, <1>2, <2>2, <3>2 DEF Starting
      <3> QED BY <3>1, <3>2
    <2>4. ASSUME NEW C, Source(C) PROVE Source(C)'
      <3>1. CASE Waits(v, C)
        BY <1>6, <1>7, <3>1 DEF Source
      <3>2. CASE Queued(jobs, tasks, loaded, C)
        <4>1. PICK j \in Ids(jobs) : jobs[j].node \in C /\ (tasks[j] > 0 \/ \E x \in Workers : loaded[x].job = j)
          BY <3>2 DEF Queued
        <4>2. j # 0
          BY ProcessorAssumption DEF ProcessorInv, DataInv, Data, JobsOK
        <4>3. CASE task.job = j
          <5>1. Acts(stack', h, C)
            BY <1>1, <1>3, <1>4, <4>1, <4>2, <4>3 DEF Acts
          <5> QED BY <1>1, <5>1 DEF Source
        <4>4. CASE task.job # j
          <5>1. Queued(jobs, tasks, loaded', C)
            BY <1>1, <2>2, <4>1, <4>4 DEF Queued
          <5> QED BY <1>2, <5>1 DEF Source
        <4> QED BY <4>3, <4>4
      <3>3. ~ Acts(stack, held, C)
        BY <1>2 DEF Acts, At, Top
      <3> QED BY <1>6, <2>4, <3>1, <3>2, <3>3 DEF Source
    <2>5. TurnOK'
      BY <1>3, <1>4 DEF TurnOK
    <2>6. Goes' => Goes
      BY <1>2 DEF Goes, Ending, At
    <2> QED BY <1>6, <1>7, <2>1, <2>3, <2>4, <2>5, <2>6, OwedKept DEF RestInv
  <1> QED BY <1>5, <1>8, <1>9 DEF RestInv

LEMMA StopRest == ASSUME ProcessorInv, RestInv, Stop PROVE RestInv'
  <1>1. /\ stack # <<>> /\ (At("run") \/ At("resume"))
        /\ stack' = <<Exit(Null)>> \o Tail(stack)
        /\ UNCHANGED <<held, unsaved, crashes>>
    BY DEF Stop, At, Replace, ghostVars
  <1>2. PICK f : f = Exit(Null)
    OBVIOUS
  <1>7. f.op = "exit" /\ f.k = Null
    BY <1>2 DEF Exit, Frame
  <1>3. /\ stack' # <<>> /\ Head(stack') = f /\ Calls(stack') = {f} \cup Calls(Tail(stack))
        /\ Calls(Tail(stack)) \subseteq Calls(stack)
    <2>1. StackOK(stack, held)
      BY DEF ProcessorInv, StackInv
    <2>2. /\ Calls(<<f>> \o Tail(stack)) = {f} \cup Calls(Tail(stack))
          /\ <<f>> \o Tail(stack) # <<>> /\ Head(<<f>> \o Tail(stack)) = f
          /\ Calls(stack) = {Head(stack)} \cup Calls(Tail(stack))
      BY ONLY <1>1, <2>1, CallsOf
    <2> QED BY <1>1, <1>2, <2>2
  <1>4. exec' # STARTED /\ Ids(jobs') = Ids(jobs)
    <2>1. CASE copy = STARTED
      <3>1. AbortRows
        BY <2>1 DEF Stop
      <3>2. Ids(jobs') = Ids(jobs)
        BY <3>1 DEF AbortRows, Ids
      <3> QED BY <3>1, <3>2, AbortEnds
    <2>2. CASE copy # STARTED
      BY <2>2 DEF Stop, RestInv, CopyInv
    <2> QED BY <2>1, <2>2
  <1>5. CallInv'
    BY <1>7, <1>3 DEF RestInv, CallInv, At, Top
  <1>6. WaitInv'
    BY <1>1, <1>4 DEF RestInv, WaitInv
  <1> QED BY <1>4, <1>5, <1>6 DEF RestInv, CopyInv, MirrorInv, OwedInv, Goes

LEMMA CallRest == ASSUME ProcessorInv, RestInv, Call PROVE RestInv'
  <1>1. /\ At("run") /\ stack # <<>> /\ stack' = <<[Top EXCEPT !.op = "called"]>> \o Tail(stack)
        /\ UNCHANGED <<exec, jobs, tasks, loaded, holder, copy, held, base, unsaved, crashes>>
    BY DEF Call, At, Replace, dbVars, queueVars
  <1>2. PICK top : top = Top /\ top = Head(stack) /\ top \in Frames /\ top.op = "run"
    BY <1>1, TopKnown DEF Top, At
  <1>3. PICK f : f = [top EXCEPT !.op = "called"]
    OBVIOUS
  <1>4. f.op = "called" /\ f.node = top.node
    BY <1>2, <1>3 DEF Frames
  <1>5. /\ stack' # <<>> /\ Head(stack') = f /\ Calls(stack') = {f} \cup Calls(Tail(stack))
        /\ Calls(stack) = {top} \cup Calls(Tail(stack))
    <2>1. StackOK(stack, held)
      BY DEF ProcessorInv, StackInv
    <2>2. /\ Calls(<<f>> \o Tail(stack)) = {f} \cup Calls(Tail(stack))
          /\ <<f>> \o Tail(stack) # <<>> /\ Head(<<f>> \o Tail(stack)) = f
          /\ Calls(stack) = {Head(stack)} \cup Calls(Tail(stack))
      BY ONLY <1>1, <2>1, CallsOf
    <2>3. stack' = <<f>> \o Tail(stack)
      BY <1>1, <1>2, <1>3
    <2> QED BY <1>2, <2>2, <2>3
  <1>6. CopyInv' /\ CallInv' /\ WaitInv'
    BY <1>1, <1>4, <1>5 DEF RestInv, CopyInv, CallInv, WaitInv, At, Top
  <1>7. MirrorInv'
    <2>1. Seen' = Seen /\ ~ At("prepare")
      BY <1>1 DEF Seen, At
    <2> QED BY <1>1, <2>1 DEF RestInv, MirrorInv
  <1>8. OwedInv'
    <2>1. PICK v, w : v = Seen /\ w = Seen' /\ v = w
      BY <1>1 DEF Seen
    <2>2. Goes' => Goes
      BY <1>1 DEF Goes, Ending, At
    <2>3. Starting => Starting'
      BY <1>1 DEF Starting
    <2>4. ASSUME NEW C, Source(C) PROVE Source(C)'
      <3>1. Acts(stack, held, C) => Acts(stack', held, C)
        BY <1>1, <1>2, <1>4, <1>5 DEF Acts
      <3> QED BY <1>1, <2>1, <2>4, <3>1 DEF Source
    <2>5. \A j, i : Later(stack, j, i) => Later(stack', j, i)
      BY <1>2, <1>5 DEF Later
    <2>6. TurnOK => TurnOK'
      <3>1. \A e \in Calls(stack) : \A l : Answers(stack, e, l) => Answers(stack', e, l)
        BY <1>1, <1>2, <1>4, <1>5 DEF Answers
      <3>2. \A e \in Calls(stack') : e.op = "branches" => e \in Calls(stack)
        BY <1>4, <1>5
      <3> QED BY <1>1, <2>1, <3>1, <3>2, TurnStays
    <2> QED BY <2>1, <2>2, <2>3, <2>4, <2>5, <2>6, OwedKept DEF RestInv
  <1> QED BY <1>6, <1>7, <1>8 DEF RestInv

\* The call that a job leads to.
LEMMA AfterJobCalls ==
  ASSUME ProcessorInv, CallInv, stack # <<>>, NEW n, NEW k, NEW s, AfterJob(n, k, s),
         NEW h, h = held', h[k].node = n, h[k].status = PENDING => n \in Waiting /\ k \in unsaved'
  PROVE  /\ CallInv' /\ stack' # <<>> /\ Calls(stack') = {Head(stack')} \cup Calls(Tail(stack))
         /\ Calls(stack) = {Top} \cup Calls(Tail(stack)) /\ Head(stack').op \in {"run", "resume", "exit"}
  <1>1. PICK g : /\ stack' = <<g>> \o Tail(stack)
                 /\ g = IF copy = ABORTED \/ signal THEN Exit(ABORTED)
                        ELSE IF s = RESOLVED /\ Downstream(n) # NoNode THEN Run(Downstream(n), k)
                        ELSE IF ParentOf[n] # NoNode THEN Resume(ParentOf[n], k)
                        ELSE Exit(s)
    BY DEF AfterJob, Replace
  <1>2. \/ g = Exit(ABORTED) \/ g = Exit(s) \/ g = Run(Downstream(n), k) \/ g = Resume(ParentOf[n], k)
    BY <1>1
  <1>3. /\ g.op \in {"run", "resume", "exit"}
        /\ g.op = "resume" => g.job = k /\ g.node = ParentOf[n]
    BY <1>2 DEF Exit, Run, Resume, Frame
  <1>4. StackOK(stack, held)
    BY DEF ProcessorInv, StackInv
  <1>5. /\ Calls(<<g>> \o Tail(stack)) = {g} \cup Calls(Tail(stack))
        /\ <<g>> \o Tail(stack) # <<>> /\ Head(<<g>> \o Tail(stack)) = g
        /\ Calls(stack) = {Head(stack)} \cup Calls(Tail(stack))
    BY ONLY <1>4, CallsOf, stack # <<>>
  <1>6. stack' # <<>> /\ Head(stack') = g /\ Calls(stack') = {g} \cup Calls(Tail(stack))
    BY <1>1, <1>5
  <1>7. CallInv'
    BY <1>3, <1>5, <1>6 DEF CallInv, At, Top
  <1> QED BY <1>3, <1>5, <1>6, <1>7 DEF Top

\* A node has returned a job that is not pending: what follows is called, or its parent.
LEMMA ReturnedRest ==
  ASSUME ProcessorInv, RestInv, stack # <<>>,
         NEW n \in Nodes, Top.node = n, Top.op \in {"called", "branches", "resume"},
         NEW k \in Nat, NEW job, held' = With(held, k, job), unsaved' = unsaved \cup {k},
         job.node = n, job.status \in Statuses, job.status # PENDING,
         k \in Ids(held) => held[k].node = n, k \in Ids(jobs) => k \in Ids(held),
         Top.op = "resume" \/ \A i \in Ids(Seen) : i < k,
         exec = STARTED /\ n \in Parallels => \A i \in Ids(Seen) : Seen[i].node = n => i <= k,
         AfterJob(n, k, job.status), UNCHANGED <<exec, jobs, tasks, loaded, crashes, copy, holder, base>>
  PROVE  RestInv'
  <1>1. CopyInv /\ CallInv /\ WaitInv /\ MirrorInv /\ OwedInv
    BY DEF RestInv
  <1>2. MirrorInv' /\ WaitInv'
    <2>1. ~ At("prepare")
      BY DEF At
    <2> QED BY <1>1, <2>1, MirrorWith
  <1>3. CallInv'
    <2>1. PICK h : h = held'
      OBVIOUS
    <2>2. h[k] = job
      BY <2>1 DEF With
    <2> QED BY <1>1, <2>1, <2>2, AfterJobCalls
  <1>4. CopyInv'
    BY <1>1 DEF CopyInv
  <1>5. OwedInv'
    <2>1. CASE Goes'
      <3>1. exec = STARTED
        BY <2>1 DEF Goes
      <3> QED BY <1>1, <2>1, <3>1, Returned
    <2>2. CASE ~ Goes'
      BY <2>2 DEF OwedInv
    <2> QED BY <2>1, <2>2
  <1> QED BY <1>2, <1>3, <1>4, <1>5 DEF RestInv

\* A new job is later than what is seen.
LEMMA NewestId ==
  ASSUME ProcessorInv
  PROVE  /\ nextId \in Nat /\ \A i \in Ids(Seen) : i \in Nat /\ i < nextId + 1
         /\ nextId + 1 \notin Ids(held) /\ nextId + 1 \notin Ids(jobs)
  <1>1. PICK n : n = nextId /\ n \in Nat /\ Data(jobs, n, held, base, unsaved)
    BY IdsAreNumbers DEF ProcessorInv, TypesInv, DataInv
  <1>2. PICK v : v = Seen /\ v = View(jobs, held, unsaved)
    BY DEF Seen
  <1>3. Ids(v) = Ids(jobs) \cup unsaved /\ Ids(v) \subseteq 1..n /\ \A j \in Ids(held) : j \in Ids(v)
    BY ONLY <1>1, <1>2, ViewKnown
  <1> QED BY <1>1, <1>2, <1>3

LEMMA RunNodeRest == ASSUME ProcessorInv, RestInv, RunNode PROVE RestInv'
  <1>1. PICK s \in {RESOLVED, FAILED} \cup (IF signal THEN {ABORTED} ELSE {}) :
          NewJob(Top.node, s, <<>>) /\ AfterJob(Top.node, nextId + 1, s)
    BY DEF RunNode
  <1>2. /\ At("called") /\ stack # <<>> /\ Top.node \notin Parallels
        /\ UNCHANGED <<exec, jobs, tasks, loaded, crashes, copy, holder, base>>
    BY DEF RunNode, Called, At, queueVars, ghostVars
  <1>3. PICK n, k, job : n = Top.node /\ k = nextId + 1 /\ job = [node |-> n, status |-> s, result |-> <<>>]
    OBVIOUS
  <1>4. n \in Nodes /\ n \notin Parallels /\ Top.op = "called"
    BY <1>2, <1>3, TopKnown DEF FrameOK, At
  <1>5. job.node = n /\ job.status = s /\ s \in Statuses /\ s # PENDING
    BY <1>1, <1>3 DEF Statuses, PENDING, RESOLVED, FAILED, ABORTED
  <1>6. held' = With(held, k, job) /\ unsaved' = unsaved \cup {k} /\ AfterJob(n, k, job.status)
    BY <1>1, <1>3, <1>5 DEF NewJob, SaveJob
  <1>7. k \in Nat /\ (\A i \in Ids(Seen) : i < k) /\ k \notin Ids(held) /\ k \notin Ids(jobs)
    BY <1>3, NewestId
  <1> QED BY <1>2, <1>3, <1>4, <1>5, <1>6, <1>7, ReturnedRest

LEMMA BranchesThrowRest == ASSUME ProcessorInv, RestInv, BranchesThrow PROVE RestInv'
  <1>1. PICK n, s : n = Top.node /\ s = IF signal THEN ABORTED ELSE FAILED
    OBVIOUS
  <1>2. /\ At("branches") /\ stack # <<>>
        /\ NewJob(n, s, <<>>) /\ AfterJob(n, nextId + 1, s)
        /\ UNCHANGED <<exec, jobs, tasks, loaded, crashes, copy, holder, base>>
    BY <1>1 DEF BranchesThrow, At, queueVars, ghostVars
  <1>3. PICK k, job : k = nextId + 1 /\ job = [node |-> n, status |-> s, result |-> <<>>]
    OBVIOUS
  <1>4. n \in Nodes /\ n \in Parallels /\ Top.op = "branches"
    BY <1>1, <1>2, TopKnown, ProcessorAssumption DEF FrameOK, At
  <1>5. job.node = n /\ job.status = s /\ s \in Statuses /\ s # PENDING
    BY <1>1, <1>3 DEF Statuses, PENDING, RESOLVED, FAILED, ABORTED
  <1>6. held' = With(held, k, job) /\ unsaved' = unsaved \cup {k} /\ AfterJob(n, k, job.status)
    BY <1>2, <1>3, <1>5 DEF NewJob, SaveJob
  <1>7. k \in Nat /\ (\A i \in Ids(Seen) : i < k /\ i <= k) /\ k \notin Ids(held) /\ k \notin Ids(jobs)
    BY <1>3, NewestId
  <1> QED BY <1>1, <1>2, <1>4, <1>5, <1>6, <1>7, ReturnedRest

LEMMA ResumeWaitingRest == ASSUME ProcessorInv, RestInv, ResumeWaiting PROVE RestInv'
  <1>1. PICK k, n : k = Top.job /\ n = Top.node
    OBVIOUS
  <1>2. PICK s \in IF held[k].status = PENDING THEN {RESOLVED, FAILED} ELSE {held[k].status} :
          SaveJob(k, [held[k] EXCEPT !.status = s]) /\ AfterJob(n, k, s)
    BY <1>1 DEF ResumeWaiting
  <1>3. /\ At("resume") /\ stack # <<>> /\ n \in Waiting
        /\ UNCHANGED <<exec, jobs, tasks, loaded, crashes, copy, holder, base>>
    BY <1>1 DEF ResumeWaiting, At, dbVars, queueVars, ghostVars
  <1>4. k \in Ids(held) /\ held[k].node = n /\ k \in Nat /\ n \in Nodes /\ n \notin Parallels /\ Top.op = "resume"
    BY <1>1, <1>3, TopKnown, ProcessorAssumption DEF At, FrameOK, Frames
  <1>5. held[k] \in Job
    BY <1>4 DEF ProcessorInv, DataInv, Data, JobsOK
  <1>6. s \in Statuses /\ s # PENDING
    BY <1>2, <1>5 DEF Job, Statuses, PENDING, RESOLVED, FAILED
  <1>7. PICK job : job = [held[k] EXCEPT !.status = s]
    OBVIOUS
  <1>8. job.node = n /\ job.status = s
    BY <1>4, <1>5, <1>7 DEF Job
  <1>9. held' = With(held, k, job) /\ unsaved' = unsaved \cup {k} /\ AfterJob(n, k, job.status)
    BY <1>2, <1>7, <1>8 DEF SaveJob
  <1> QED BY <1>1, <1>3, <1>4, <1>6, <1>8, <1>9, ReturnedRest

\* Nothing that goes on is lost, and the branches of job k are looked at one by one.
LEMMA OwedChanged ==
  ASSUME OwedInv, Goes' => Goes, NEW v, v = Seen, NEW w, w = Seen', NEW k,
         Starting => Starting', \A C : Source(C) => Source(C)',
         \A j : Joining(w, j) /\ j # k =>
           /\ Joining(v, j) /\ w[j] = v[j]
           /\ \A i : Later(stack, j, i) => Later(stack', j, i),
         Goes' /\ Goes /\ BranchOK /\ TurnOK /\ Joining(w, k) => Owes(k)',
         Goes' /\ Goes /\ TurnOK => TurnOK'
  PROVE  OwedInv'
  <1> SUFFICES ASSUME Goes' PROVE RootOK' /\ BranchOK' /\ TurnOK'
    BY DEF OwedInv
  <1>1. Goes /\ RootOK /\ BranchOK /\ TurnOK
    BY DEF OwedInv
  <1>2. RootOK'
    BY <1>1 DEF RootOK
  <1>3. BranchOK'
    <2> SUFFICES ASSUME NEW j \in Ids(w), Joining(w, j) PROVE Owes(j)'
      BY DEF BranchOK
    <2>1. CASE j = k
      BY <1>1, <2>1
    <2>2. CASE j # k
      <3>1. Joining(v, j) /\ w[j] = v[j] /\ j \in Ids(v)
        BY <2>2 DEF Joining, Latest
      <3>2. Owes(j)
        BY <1>1, <3>1 DEF BranchOK
      <3>3. (\A C : Source(C) => Source(C)') /\ \A i : Later(stack, j, i) => Later(stack', j, i)
        BY <2>2
      <3>4. PICK n, r : n = v[j].node /\ r = v[j].result
        OBVIOUS
      <3>5. \A i \in 1..Cardinality(Branches(n)) :
               Source(Chain(BranchNo(n, i))) \/ Later(stack, j, i) =>
                 Source(Chain(BranchNo(n, i)))' \/ Later(stack', j, i)
        BY <3>3
      <3> QED BY <3>1, <3>2, <3>4, <3>5, OwesKept
    <2> QED BY <2>1, <2>2
  <1> QED BY <1>1, <1>2, <1>3

\* The call of a node ends with a new job of it that is pending.
LEMMA TurnBuilt ==
  ASSUME ProcessorInv, TurnOK, stack # <<>>, NEW n, Top.op = "called", Top.node = n,
         NEW k \in Nat, NEW job, held' = With(held, k, job), unsaved' = unsaved \cup {k}, jobs' = jobs,
         job.node = n, job.status = PENDING,
         k \notin Ids(held), k \notin Ids(jobs), \A i \in Ids(Seen) : i < k,
         NEW v, v = Seen, NEW w, w = Seen',
         \A f \in Calls(stack') : f.op = "branches" /\ f.k > 1 =>
           f \in Calls(stack) /\ f.node \in Parallels /\ (Joining(w, f.job) => Joining(v, f.job))
  PROVE  TurnOK'
  <1>1. PICK h : h = held'
    OBVIOUS
  <1>2. /\ Ids(h) = Ids(held) \cup {k} /\ h[k] = job /\ \A i \in Ids(held) \ {k} : h[i] = held[i]
        /\ \A i \in Ids(held) : i \in Ids(v) /\ i < k
        /\ \A i \in Ids(v) : i \in Nat
    BY <1>1, SeenWith
  <1> SUFFICES ASSUME NEW f \in Calls(stack'), f.op = "branches", f.k > 1, Joining(w, f.job),
                      NEW l \in Ids(h), LastOf(h, Before(f), l), ~ NextBranch(Mode[f.node], h[l].status)
               PROVE  FALSE
    BY <1>1 DEF TurnOK
  <1>3. f \in Calls(stack) /\ f.node \in Parallels /\ Joining(v, f.job)
    OBVIOUS
  <1>4. l # k
    <2> SUFFICES ASSUME l = k PROVE FALSE
      OBVIOUS
    <2>1. ~ NextBranch(Mode[f.node], PENDING)
      BY <1>2
    <2>2. Mode[f.node] \in {"all", "any", "race", "allSettled"}
      BY <1>3, ProcessorAssumption
    <2>3. /\ NextBranch("all", PENDING) = (PENDING >= PENDING)
          /\ NextBranch("any", PENDING) = (PENDING <= PENDING)
          /\ NextBranch("race", PENDING) = (PENDING = PENDING)
          /\ NextBranch("allSettled", PENDING) = TRUE
      BY Zenon DEF NextBranch
    <2>4. PENDING >= PENDING /\ PENDING <= PENDING
      BY DEF PENDING
    <2> QED BY <2>1, <2>2, <2>3, <2>4, Zenon
  <1>5. l \in Ids(held) /\ h[l] = held[l]
    BY <1>2, <1>4
  <1>6. LastOf(held, Before(f), l)
    BY <1>2, <1>5 DEF LastOf
  <1>7. Answers(stack, f, l)
    BY <1>3, <1>5, <1>6 DEF TurnOK
  <1>8. n \in Before(f)
    BY <1>7 DEF Answers, Top
  <1>9. k <= l
    BY <1>2, <1>8 DEF LastOf
  <1> QED BY <1>2, <1>5, <1>9

LEMMA RunWaitingRest == ASSUME ProcessorInv, RestInv, RunWaiting PROVE RestInv'
  <1>1. /\ At("called") /\ stack # <<>> /\ Top.node \in Waiting
        /\ NewJob(Top.node, PENDING, <<>>)
        /\ \/ stack' = <<Exit(Null)>> \o Tail(stack)
           \/ AfterJob(Top.node, nextId + 1, PENDING)
        /\ UNCHANGED <<exec, jobs, tasks, loaded, holder, copy, base, crashes>>
    BY DEF RunWaiting, Called, At, Replace, queueVars, ghostVars
  <1>2. PICK n, k, job : n = Top.node /\ k = nextId + 1 /\ job = [node |-> n, status |-> PENDING, result |-> <<>>]
    OBVIOUS
  <1>3. PICK top : top = Top /\ top = Head(stack) /\ top.op = "called" /\ top.node = n
    BY <1>1, <1>2 DEF Top, At
  <1>4. n \in Nodes /\ n \notin Parallels /\ n \in Waiting /\ job.node = n /\ job.status = PENDING
    BY <1>1, <1>2, ProcessorAssumption
  <1>5. held' = With(held, k, job) /\ unsaved' = unsaved \cup {k}
    BY <1>1, <1>2 DEF NewJob, SaveJob
  <1>6. k \in Nat /\ (\A i \in Ids(Seen) : i < k) /\ k \notin Ids(held) /\ k \notin Ids(jobs)
    BY <1>2, NewestId
  <1>7. PICK v, w, h : v = Seen /\ w = Seen' /\ h = held'
    OBVIOUS
  <1>8. /\ Ids(w) = Ids(v) \cup {k} /\ w[k] = job /\ \A i \in Ids(v) \ {k} : w[i] = v[i]
        /\ h[k] = job
        /\ \A i \in Ids(v) : Latest(w, i) => Latest(v, i)
        /\ \A i \in Ids(v) : v[i].node # job.node => (Latest(v, i) => Latest(w, i))
    BY <1>1, <1>4, <1>5, <1>6, <1>7, SeenWith
  <1>9. MirrorInv' /\ WaitInv'
    <2>1. ~ At("prepare")
      BY <1>1 DEF At
    <2> QED BY <1>1, <1>4, <1>5, <1>6, <2>1, MirrorWith DEF RestInv
  <1>10. CallInv' /\ \E g : Calls(stack') = {g} \cup Calls(Tail(stack)) /\ g.op # "branches"
    <2>1. CASE stack' = <<Exit(Null)>> \o Tail(stack)
      <3>1. PICK g : g = Exit(Null)
        OBVIOUS
      <3>2. g.op = "exit"
        BY <3>1 DEF Exit, Frame
      <3>3. StackOK(stack, held)
        BY DEF ProcessorInv, StackInv
      <3>4. /\ Calls(<<g>> \o Tail(stack)) = {g} \cup Calls(Tail(stack))
            /\ <<g>> \o Tail(stack) # <<>> /\ Head(<<g>> \o Tail(stack)) = g
            /\ Calls(stack) = {Head(stack)} \cup Calls(Tail(stack))
        BY ONLY <1>1, <3>3, CallsOf
      <3>5. stack' # <<>> /\ Head(stack') = g /\ Calls(stack') = {g} \cup Calls(Tail(stack))
        BY <2>1, <3>1, <3>4
      <3>6. CallInv'
        BY <3>2, <3>4, <3>5 DEF RestInv, CallInv, At, Top
      <3> QED BY <3>2, <3>5, <3>6
    <2>2. CASE AfterJob(Top.node, nextId + 1, PENDING)
      <3>1. AfterJob(n, k, PENDING) /\ h[k].node = n /\ k \in unsaved'
        BY <1>2, <1>4, <1>5, <1>8, <2>2
      <3>2. /\ CallInv' /\ Calls(stack') = {Head(stack')} \cup Calls(Tail(stack))
            /\ Head(stack').op \in {"run", "resume", "exit"}
        BY <1>1, <1>4, <1>7, <3>1, AfterJobCalls DEF RestInv
      <3> QED BY <3>2
    <2> QED BY <1>1, <2>1, <2>2
  <1>11. PICK g : Calls(stack') = {g} \cup Calls(Tail(stack)) /\ g.op # "branches"
    BY <1>10
  <1>12. /\ Calls(stack) = {top} \cup Calls(Tail(stack))
         /\ \A f \in Calls(stack) : FrameOK(f, held)
    <2>1. StackOK(stack, held)
      BY DEF ProcessorInv, StackInv
    <2> QED BY <1>1, <1>3, <2>1, CallsOf
  <1>13. OwedInv'
    <2>1. Goes' => Goes
      BY <1>1 DEF Goes, Ending, At
    <2>2. Starting => Starting'
      BY <1>1 DEF Starting
    <2>3. ASSUME NEW C, Source(C) PROVE Source(C)'
      <3>1. CASE n \in C
        <4>1. Asks(w, k)
          BY <1>4, <1>8 DEF Asks
        <4>2. Waits(w, C)
          BY <1>4, <1>8, <3>1, <4>1 DEF Waits
        <4> QED BY <1>7, <4>2 DEF Source
      <3>2. CASE n \notin C
        <4>1. ~ Acts(stack, held, C)
          BY <1>3, <3>2 DEF Acts
        <4>2. Waits(v, C) => Waits(w, C)
          <5> SUFFICES ASSUME NEW i \in Ids(v), Asks(v, i) \/ Joining(v, i), v[i].node \in C PROVE Waits(w, C)
            BY DEF Waits
          <5>1. i # k /\ w[i] = v[i] /\ i \in Ids(w) /\ v[i].node # job.node
            BY <1>4, <1>6, <1>7, <1>8, <3>2
          <5>2. (Asks(v, i) => Asks(w, i)) /\ (Joining(v, i) => Joining(w, i))
            BY <1>8, <5>1 DEF Asks, Joining
          <5> QED BY <5>1, <5>2 DEF Waits
        <4> QED BY <1>1, <1>7, <2>3, <4>1, <4>2 DEF Source
      <3> QED BY <3>1, <3>2
    <2>4. ASSUME NEW j, Joining(w, j)
          PROVE  Joining(v, j) /\ w[j] = v[j] /\ \A i : Later(stack, j, i) => Later(stack', j, i)
      <3>1. j # k /\ j \in Ids(v)
        BY <1>4, <1>8, <2>4 DEF Joining, Latest
      <3>2. \A i : Later(stack, j, i) => Later(stack', j, i)
        BY <1>3, <1>11, <1>12 DEF Later
      <3> QED BY <1>8, <2>4, <3>1, <3>2 DEF Joining
    <2>5. TurnOK => TurnOK'
      <3>1. \A f \in Calls(stack') : f.op = "branches" /\ f.k > 1 =>
              f \in Calls(stack) /\ f.node \in Parallels /\ (Joining(w, f.job) => Joining(v, f.job))
        BY <1>11, <1>12, <2>4 DEF FrameOK
      <3> QED BY <1>1, <1>3, <1>4, <1>5, <1>6, <1>7, <3>1, TurnBuilt
    <2> QED BY <1>7, <2>1, <2>2, <2>3, <2>4, <2>5, OwedKept DEF RestInv
  <1> QED BY <1>1, <1>9, <1>10, <1>13 DEF RestInv, CopyInv

LEMMA RunParallelRest == ASSUME ProcessorInv, RestInv, Branched, RunParallel PROVE RestInv'
  <1>1. PICK n, k, result : n = Top.node /\ k = nextId + 1 /\ result = [i \in 1..Cardinality(Branches(n)) |-> Null]
    OBVIOUS
  <1>2. PICK f, job : f = Frame("branches", n, k, 1) /\ job = [node |-> n, status |-> PENDING, result |-> result]
    OBVIOUS
  <1>3. /\ At("called") /\ stack # <<>> /\ n \in Parallels
        /\ held' = With(held, k, job) /\ unsaved' = unsaved \cup {k}
        /\ stack' = <<f>> \o Tail(stack)
        /\ UNCHANGED <<exec, jobs, tasks, loaded, holder, copy, base, crashes>>
    BY <1>1, <1>2 DEF RunParallel, Called, At, Replace, NewJob, SaveJob, queueVars, ghostVars
  <1>4. PICK top : top = Top /\ top = Head(stack) /\ top.op = "called" /\ top.node = n
    BY <1>1, <1>3 DEF Top, At
  <1>5. /\ n \in Nodes /\ n \notin Waiting /\ job.node = n /\ job.status = PENDING /\ job.result = result
        /\ f.op = "branches" /\ f.node = n /\ f.job = k /\ f.k = 1
    BY <1>2, <1>3, ProcessorAssumption DEF Frame
  <1>6. k \in Nat /\ (\A i \in Ids(Seen) : i < k) /\ k \notin Ids(held) /\ k \notin Ids(jobs)
    BY <1>1, NewestId
  <1>7. PICK v, w, h : v = Seen /\ w = Seen' /\ h = held'
    OBVIOUS
  <1>8. /\ Ids(w) = Ids(v) \cup {k} /\ w[k] = job /\ \A i \in Ids(v) \ {k} : w[i] = v[i]
        /\ h[k] = job
        /\ \A i \in Ids(v) : w[i].node = v[i].node
        /\ \A i \in Ids(v) : Latest(w, i) => Latest(v, i)
        /\ \A i \in Ids(v) : v[i].node # job.node => (Latest(v, i) => Latest(w, i))
        /\ \A i \in Ids(v) : i \in Nat
    BY <1>3, <1>5, <1>6, <1>7, SeenWith
  <1>9. MirrorInv' /\ WaitInv'
    <2>1. ~ At("prepare")
      BY <1>3 DEF At
    <2> QED BY <1>3, <1>5, <1>6, <2>1, MirrorWith DEF RestInv
  <1>10. /\ stack' # <<>> /\ Head(stack') = f /\ Calls(stack') = {f} \cup Calls(Tail(stack))
         /\ Calls(stack) = {top} \cup Calls(Tail(stack))
         /\ \A g \in Calls(stack) : FrameOK(g, held)
    <2>1. StackOK(stack, held)
      BY DEF ProcessorInv, StackInv
    <2>2. /\ Calls(<<f>> \o Tail(stack)) = {f} \cup Calls(Tail(stack))
          /\ <<f>> \o Tail(stack) # <<>> /\ Head(<<f>> \o Tail(stack)) = f
          /\ Calls(stack) = {Head(stack)} \cup Calls(Tail(stack))
          /\ \A g \in Calls(stack) : FrameOK(g, held)
      BY ONLY <1>3, <2>1, CallsOf
    <2> QED BY <1>3, <1>4, <2>2
  <1>11. CallInv'
    <2>1. Cardinality(Branches(n)) \in Nat
      BY <1>3, BranchesCounted
    <2>2. f.k \in 1..(Cardinality(Branches(f.node)) + 1)
      BY <1>5, <2>1
    <2> QED BY <1>5, <1>10, <2>2 DEF RestInv, CallInv, At, Top
  <1>12. Joining(w, k)
    <2>1. Latest(w, k)
      BY <1>6, <1>7, <1>8 DEF Latest
    <2> QED BY <1>3, <1>5, <1>8, <2>1 DEF Joining
  <1>13. OwedInv'
    <2>1. Goes' => Goes
      BY <1>3 DEF Goes, Ending, At
    <2>2. Starting => Starting'
      BY <1>3 DEF Starting
    <2>3. ASSUME NEW C, Source(C) PROVE Source(C)'
      <3>1. CASE n \in C
        <4>1. Waits(w, C)
          BY <1>5, <1>8, <1>12, <3>1 DEF Waits
        <4> QED BY <1>7, <4>1 DEF Source
      <3>2. CASE n \notin C
        <4>1. ~ Acts(stack, held, C)
          BY <1>4, <3>2 DEF Acts
        <4>2. Waits(v, C) => Waits(w, C)
          <5> SUFFICES ASSUME NEW i \in Ids(v), Asks(v, i) \/ Joining(v, i), v[i].node \in C PROVE Waits(w, C)
            BY DEF Waits
          <5>1. i # k /\ w[i] = v[i] /\ i \in Ids(w) /\ v[i].node # job.node
            BY <1>5, <1>6, <1>7, <1>8, <3>2
          <5>2. (Asks(v, i) => Asks(w, i)) /\ (Joining(v, i) => Joining(w, i))
            BY <1>8, <5>1 DEF Asks, Joining
          <5> QED BY <5>1, <5>2 DEF Waits
        <4> QED BY <1>3, <1>7, <2>3, <4>1, <4>2 DEF Source
      <3> QED BY <3>1, <3>2
    <2>4. ASSUME NEW j, Joining(w, j), j # k
          PROVE  Joining(v, j) /\ w[j] = v[j] /\ \A i : Later(stack, j, i) => Later(stack', j, i)
      <3>1. j \in Ids(v)
        BY <1>8, <2>4 DEF Joining, Latest
      <3>2. \A i : Later(stack, j, i) => Later(stack', j, i)
        BY <1>4, <1>10 DEF Later
      <3> QED BY <1>8, <2>4, <3>1, <3>2 DEF Joining
    <2>5. Owes(k)'
      <3>1. Cardinality(Branches(n)) \in Nat /\ Cardinality(Branches(n)) # 0
        BY <1>3, BranchesCounted
      <3>2. ASSUME NEW i \in 1..Cardinality(Branches(n)) PROVE Later(stack', k, i)
        BY <1>5, <1>10, <3>1 DEF Later
      <3>3. DOMAIN result = 1..Cardinality(Branches(n)) /\ \A i \in DOMAIN result : result[i] = Null
        BY <1>1
      <3>4. 1 \in DOMAIN result
        BY <3>1, <3>3
      <3>5. Seen'[k].node = n /\ Seen'[k].result = result
        BY <1>5, <1>7, <1>8
      <3> QED BY <3>2, <3>3, <3>4, <3>5 DEF Owes
    <2>6. TurnOK => TurnOK'
      <3>1. \A e \in Calls(stack') : e.op = "branches" /\ e.k > 1 =>
              e \in Calls(stack) /\ e.node \in Parallels /\ (Joining(w, e.job) => Joining(v, e.job))
        <4> SUFFICES ASSUME NEW e \in Calls(stack'), e.op = "branches", e.k > 1
                     PROVE  e \in Calls(stack) /\ e.node \in Parallels /\ (Joining(w, e.job) => Joining(v, e.job))
          OBVIOUS
        <4>1. e \in Calls(stack) /\ FrameOK(e, held)
          BY <1>5, <1>10
        <4>2. e.job # k /\ e.node \in Parallels
          BY <1>6, <4>1 DEF FrameOK
        <4> QED BY <2>4, <4>1, <4>2
      <3> QED BY <1>3, <1>4, <1>5, <1>6, <1>7, <3>1, TurnBuilt
    <2> QED BY <1>7, <2>1, <2>2, <2>3, <2>4, <2>5, <2>6, OwedChanged DEF RestInv
  <1> QED BY <1>3, <1>9, <1>11, <1>13 DEF RestInv, CopyInv

\* Two calls take the place of one.
LEMMA CallsPushed ==
  ASSUME NEW s, NEW h, StackOK(s, h), s # <<>>, NEW f, NEW e, NEW r, r = <<f, e>> \o Tail(s)
  PROVE  r # <<>> /\ Head(r) = f /\ Calls(r) = {f, e} \cup Calls(Tail(s))
  <1>1. /\ Calls(s) = {Head(s)} \cup Calls(Tail(s))
        /\ Calls(<<f>> \o Tail(s)) = {f} \cup Calls(Tail(s))
        /\ Calls(<<f, e>> \o Tail(s)) = {f, e} \cup Calls(Tail(s))
        /\ <<f>> \o Tail(s) # <<>> /\ Head(<<f>> \o Tail(s)) = f
        /\ <<f, e>> \o Tail(s) # <<>> /\ Head(<<f, e>> \o Tail(s)) = f
        /\ \A g \in Calls(Tail(s)) : g.op = "branches" /\ g.k > 1
        /\ \A g \in Calls(s) : g \in Frames /\ FrameOK(g, h)
    BY CallsOf
  <1> QED BY <1>1

LEMMA RunBranchRest == ASSUME ProcessorInv, RestInv, RunBranch PROVE RestInv'
  <1>1. PICK top, n, i, k : top = Top /\ n = top.node /\ i = top.k /\ k = top.job
    OBVIOUS
  <1>2. PICK f, e : f = Run(BranchNo(n, i), k) /\ e = [top EXCEPT !.k = i + 1]
    OBVIOUS
  <1>3. /\ At("branches") /\ stack # <<>> /\ i <= Cardinality(Branches(n))
        /\ stack' = <<f, e>> \o Tail(stack)
        /\ UNCHANGED <<exec, jobs, tasks, loaded, holder, copy, held, base, unsaved, crashes>>
    BY <1>1, <1>2 DEF RunBranch, At, dbVars, queueVars, ghostVars
  <1>4. /\ top = Head(stack) /\ top.op = "branches" /\ top \in Frames
        /\ n \in Parallels /\ i > 0 /\ i \in Int /\ k \in Ids(held) /\ held[k].node = n
    BY <1>1, <1>3, TopKnown DEF Top, At, FrameOK, Frames
  <1>5. /\ f.op = "run" /\ f.node = BranchNo(n, i)
        /\ e.op = "branches" /\ e.node = n /\ e.job = k /\ e.k = i + 1
    BY <1>1, <1>2, <1>4 DEF Run, Frame, Frames
  <1>6. /\ stack' # <<>> /\ Head(stack') = f /\ Calls(stack') = {f, e} \cup Calls(Tail(stack))
        /\ Calls(stack) = {top} \cup Calls(Tail(stack))
        /\ \A g \in Calls(stack) : g \in Frames /\ FrameOK(g, held)
    <2>1. StackOK(stack, held)
      BY DEF ProcessorInv, StackInv
    <2>2. PICK s : s = stack /\ s # <<>> /\ StackOK(s, held)
      BY <1>3, <2>1
    <2>3. stack' # <<>> /\ Head(stack') = f /\ Calls(stack') = {f, e} \cup Calls(Tail(s))
      BY <1>3, <2>2, CallsPushed
    <2>4. /\ Calls(s) = {Head(s)} \cup Calls(Tail(s))
          /\ \A g \in Calls(s) : g \in Frames /\ FrameOK(g, held)
      BY ONLY <2>2, CallsOf
    <2> QED BY <1>3, <1>4, <2>2, <2>3, <2>4
  <1>7. Cardinality(Branches(n)) \in Nat /\ i \in 1..Cardinality(Branches(n))
    BY <1>3, <1>4, BranchesCounted
  <1>8. CopyInv' /\ WaitInv' /\ MirrorInv'
    <2>1. Seen' = Seen /\ ~ At("prepare")
      BY <1>3 DEF Seen, At
    <2> QED BY <1>3, <2>1 DEF RestInv, CopyInv, WaitInv, MirrorInv
  <1>9. CallInv'
    <2>1. e.k \in 1..(Cardinality(Branches(e.node)) + 1)
      BY <1>5, <1>7
    <2> QED BY <1>5, <1>6, <2>1 DEF RestInv, CallInv, At, Top
  <1>10. BranchNo(n, i) \in Chain(BranchNo(n, i))
    BY <1>4, <1>7, BranchesCounted, Chains
  <1>11. OwedInv'
    <2>1. PICK v, w : v = Seen /\ w = Seen' /\ v = w
      BY <1>3 DEF Seen
    <2>2. Goes' => Goes
      BY <1>3 DEF Goes, Ending, At
    <2>3. Starting => Starting'
      BY <1>3 DEF Starting
    <2>4. ASSUME NEW C, Source(C) PROVE Source(C)'
      <3>1. ~ Acts(stack, held, C)
        BY <1>4 DEF Acts
      <3> QED BY <1>3, <2>1, <2>4, <3>1 DEF Source
    <2>5. \A j, b : j # k /\ Later(stack, j, b) => Later(stack', j, b)
      BY <1>1, <1>6 DEF Later
    <2>6. ASSUME BranchOK, Joining(w, k) PROVE Owes(k)'
      <3>1. k \in Ids(v) /\ Owes(k)
        BY <2>1, <2>6 DEF BranchOK, Joining, Latest
      <3>2. v[k].node = n
        <4>1. PICK m : m = nextId /\ m \in Nat /\ Data(jobs, m, held, base, unsaved)
          BY IdsAreNumbers DEF ProcessorInv, TypesInv, DataInv
        <4>2. v = View(jobs, held, unsaved)
          BY <2>1 DEF Seen
        <4>3. \A j \in Ids(held) : j \in Ids(v) /\ v[j].node = held[j].node
          BY ONLY <4>1, <4>2, ViewKnown
        <4> QED BY <1>4, <4>3
      <3>3. ASSUME NEW b \in 1..Cardinality(Branches(n)), Later(stack, k, b)
            PROVE  Source(Chain(BranchNo(n, b)))' \/ Later(stack', k, b)
        <4>1. PICK g \in Calls(stack) : g.op = "branches" /\ g.job = k /\ g.k <= b
          BY <3>3 DEF Later
        <4>2. CASE g \in Calls(Tail(stack))
          BY <1>6, <4>1, <4>2 DEF Later
        <4>3. CASE g = top /\ b = i
          <5>1. Acts(stack', held', Chain(BranchNo(n, b)))
            BY <1>5, <1>6, <1>10, <4>3 DEF Acts
          <5> QED BY <5>1 DEF Source
        <4>4. CASE g = top /\ b # i
          <5>1. i + 1 <= b
            BY <1>1, <1>4, <4>1, <4>4
          <5> QED BY <1>5, <1>6, <5>1 DEF Later
        <4> QED BY <1>6, <4>2, <4>3, <4>4
      <3>4. PICK r : r = v[k].result
        OBVIOUS
      <3>5. \A b \in 1..Cardinality(Branches(n)) :
              Source(Chain(BranchNo(n, b))) \/ Later(stack, k, b) =>
                Source(Chain(BranchNo(n, b)))' \/ Later(stack', k, b)
        BY <2>4, <3>3
      <3> QED BY <2>1, <3>1, <3>2, <3>4, <3>5, OwesKept
    <2>7. TurnOK => TurnOK'
      <3> SUFFICES ASSUME TurnOK, NEW g \in Calls(stack'), g.op = "branches", g.k > 1, Joining(w, g.job),
                          NEW l \in Ids(held), LastOf(held, Before(g), l), ~ NextBranch(Mode[g.node], held[l].status)
                   PROVE  Answers(stack', g, l)
        BY <1>3, <2>1 DEF TurnOK
      <3>1. CASE g = e
        <4>1. Before(g) = Chain(BranchNo(n, i))
          BY <1>4, <1>5, <3>1 DEF Before
        <4> QED BY <1>5, <1>6, <1>10, <3>1, <4>1 DEF Answers
      <3>2. CASE g \in Calls(Tail(stack))
        <4>1. Answers(stack, g, l)
          BY <1>6, <2>1, <3>2 DEF TurnOK
        <4> QED BY <1>4, <4>1 DEF Answers
      <3> QED BY <1>5, <1>6, <3>1, <3>2
    <2>8. \A j : Joining(w, j) /\ j # k =>
            /\ Joining(v, j) /\ w[j] = v[j]
            /\ \A b : Later(stack, j, b) => Later(stack', j, b)
      BY <2>1, <2>5
    <2> QED BY <2>1, <2>2, <2>3, <2>4, <2>6, <2>7, <2>8, OwedChanged DEF RestInv
  <1> QED BY <1>8, <1>9, <1>11 DEF RestInv

\* The last job of a branch has its last status.
LEMMA LastKnown ==
  ASSUME ProcessorInv, NEW b, LastStatus(b) # Null
  PROVE  \E l \in Ids(held) : LastOf(held, Chain(b), l) /\ held[l].status = LastStatus(b)
  <1> DEFINE ids == {j \in Ids(held) : held[j].node \in Chain(b)}
  <1>1. nextId \in Nat
    BY IdsAreNumbers DEF ProcessorInv, TypesInv
  <1>2. ids \in SUBSET (1..nextId) /\ ids # {}
    BY DEF ProcessorInv, DataInv, Data, JobsOK, LastStatus
  <1>3. \E j \in ids : \A i \in ids : i <= j
    <2> HIDE DEF ids
    <2> QED BY <1>1, <1>2, Greatest
  <1>4. LastStatus(b) = held[CHOOSE j \in ids : \A i \in ids : i <= j].status
    BY <1>2 DEF LastStatus
  <1>5. PICK l \in ids : (\A i \in ids : i <= l) /\ LastStatus(b) = held[l].status
    BY <1>3, <1>4
  <1> QED BY <1>5 DEF LastOf

LEMMA BranchesEndRest == ASSUME ProcessorInv, RestInv, BranchesEnd PROVE RestInv'
  <1>1. PICK top, n, i, k : top = Top /\ n = top.node /\ i = top.k /\ k = top.job
    OBVIOUS
  <1>2. /\ At("branches") /\ stack # <<>>
        /\ \/ i > Cardinality(Branches(n))
           \/ /\ i > 1 /\ LastStatus(BranchNo(n, i - 1)) # Null
              /\ ~ NextBranch(Mode[n], LastStatus(BranchNo(n, i - 1)))
        /\ stack' = Tail(stack)
        /\ UNCHANGED <<exec, jobs, tasks, loaded, holder, copy, held, base, unsaved, crashes>>
    BY <1>1 DEF BranchesEnd, At, Pop, dbVars, queueVars, ghostVars
  <1>3. /\ top = Head(stack) /\ top.op = "branches" /\ top \in Frames
        /\ n \in Parallels /\ i > 0 /\ i \in Int /\ k \in Ids(held) /\ held[k].node = n
    BY <1>1, <1>2, TopKnown DEF Top, At, FrameOK, Frames
  <1>4. /\ Calls(stack) = {top} \cup Calls(Tail(stack))
        /\ \A g \in Calls(stack) : g \in Frames /\ FrameOK(g, held)
        /\ Tail(stack) # <<>> => Head(Tail(stack)).op = "branches"
    <2>1. StackOK(stack, held)
      BY DEF ProcessorInv, StackInv
    <2> QED BY <1>2, <1>3, <2>1, CallsOf, StackPopped
  <1>5. Cardinality(Branches(n)) \in Nat
    BY <1>3, BranchesCounted
  <1>6. CopyInv' /\ WaitInv' /\ MirrorInv'
    <2>1. Seen' = Seen /\ ~ At("prepare")
      BY <1>2 DEF Seen, At
    <2> QED BY <1>2, <2>1 DEF RestInv, CopyInv, WaitInv, MirrorInv
  <1>7. CallInv'
    BY <1>2, <1>4 DEF RestInv, CallInv, At, Top
  <1>8. OwedInv'
    <2>1. PICK v, w : v = Seen /\ w = Seen' /\ v = w
      BY <1>2 DEF Seen
    <2>2. Goes' => Goes
      BY <1>2 DEF Goes, Ending, At
    <2>3. Starting => Starting'
      BY <1>2 DEF Starting
    <2>4. \A C, s, h : s # <<>> /\ Head(s).op = "branches" => ~ Acts(s, h, C)
      BY DEF Acts
    <2>5. ASSUME NEW C, Source(C) PROVE Source(C)'
      <3>1. ~ Acts(stack, held, C)
        BY <1>2, <1>3, <2>4
      <3> QED BY <1>2, <2>1, <2>5, <3>1 DEF Source
    <2>6. \A j, b : j # k /\ Later(stack, j, b) => Later(stack', j, b)
      BY <1>1, <1>2, <1>4 DEF Later
    <2>7. ASSUME BranchOK, TurnOK, Joining(w, k) PROVE Owes(k)'
      <3>1. k \in Ids(v) /\ Owes(k) /\ Joining(v, k)
        BY <2>1, <2>7 DEF BranchOK, Joining, Latest
      <3>2. v[k].node = n
        <4>1. PICK m : m = nextId /\ m \in Nat /\ Data(jobs, m, held, base, unsaved)
          BY IdsAreNumbers DEF ProcessorInv, TypesInv, DataInv
        <4>2. v = View(jobs, held, unsaved)
          BY <2>1 DEF Seen
        <4>3. \A j \in Ids(held) : j \in Ids(v) /\ v[j].node = held[j].node
          BY ONLY <4>1, <4>2, ViewKnown
        <4> QED BY <1>3, <4>3
      <3>3. i > Cardinality(Branches(n))
        <4> SUFFICES ASSUME i > 1, LastStatus(BranchNo(n, i - 1)) # Null,
                            ~ NextBranch(Mode[n], LastStatus(BranchNo(n, i - 1)))
                     PROVE  FALSE
          BY <1>2
        <4>1. PICK l \in Ids(held) : /\ LastOf(held, Chain(BranchNo(n, i - 1)), l)
                                     /\ held[l].status = LastStatus(BranchNo(n, i - 1))
          BY LastKnown
        <4>2. LastOf(held, Before(top), l)
          BY <1>1, <4>1 DEF Before
        <4>3. Answers(stack, top, l)
          BY <1>1, <1>3, <1>4, <2>1, <2>7, <3>1, <4>1, <4>2 DEF TurnOK
        <4> QED BY <1>3, <4>3 DEF Answers
      <3>4. ASSUME NEW b \in 1..Cardinality(Branches(n)), Later(stack, k, b) PROVE Later(stack', k, b)
        <4>1. PICK g \in Calls(stack) : g.op = "branches" /\ g.job = k /\ g.k <= b
          BY <3>4 DEF Later
        <4>2. g # top
          BY <1>1, <1>3, <1>5, <3>3, <4>1
        <4> QED BY <1>2, <1>4, <4>1, <4>2 DEF Later
      <3>5. PICK r : r = v[k].result
        OBVIOUS
      <3>6. \A b \in 1..Cardinality(Branches(n)) :
              Source(Chain(BranchNo(n, b))) \/ Later(stack, k, b) =>
                Source(Chain(BranchNo(n, b)))' \/ Later(stack', k, b)
        BY <2>5, <3>4
      <3> QED BY <2>1, <3>1, <3>2, <3>5, <3>6, OwesKept
    <2>8. TurnOK => TurnOK'
      <3>1. \A g \in Calls(stack) : \A l : ~ Answers(stack, g, l)
        BY <1>3 DEF Answers
      <3>2. \A g \in Calls(stack') : g \in Calls(stack)
        BY <1>2, <1>4
      <3> QED BY <1>2, <2>1, <3>1, <3>2, TurnStays
    <2>9. \A j : Joining(w, j) /\ j # k =>
            /\ Joining(v, j) /\ w[j] = v[j]
            /\ \A b : Later(stack, j, b) => Later(stack', j, b)
      BY <2>1, <2>6
    <2> QED BY <2>1, <2>2, <2>3, <2>5, <2>7, <2>8, <2>9, OwedChanged DEF RestInv
  <1> QED BY <1>6, <1>7, <1>8 DEF RestInv

\* What is seen of the jobs, with their numbers.
LEMMA SeenKnown ==
  ASSUME ProcessorInv, NEW v, v = Seen
  PROVE  /\ nextId \in Nat /\ Ids(v) = Ids(jobs) \cup unsaved /\ Ids(v) \subseteq 1..nextId
         /\ \A j \in Ids(v) : v[j] \in Job /\ (j \in unsaved => v[j] = held[j]) /\ (j \notin unsaved => v[j] = jobs[j])
         /\ \A j \in Ids(held) : j \in Ids(v) /\ v[j].node = held[j].node
  <1>1. PICK m : m = nextId /\ m \in Nat /\ Data(jobs, m, held, base, unsaved)
    BY IdsAreNumbers DEF ProcessorInv, TypesInv, DataInv
  <1>2. v = View(jobs, held, unsaved)
    BY DEF Seen
  <1>3. /\ Ids(v) = Ids(jobs) \cup unsaved /\ Ids(v) \subseteq 1..m
        /\ \A j \in Ids(v) : v[j] \in Job /\ (j \in unsaved => v[j] = held[j]) /\ (j \notin unsaved => v[j] = jobs[j])
        /\ \A j \in Ids(held) : j \in Ids(v) /\ v[j].node = held[j].node
    BY ONLY <1>1, <1>2, ViewKnown
  <1> QED BY <1>1, <1>3

\* The job the processor knows for a parallel node is the latest there is.
LEMMA CurrentLatest ==
  ASSUME ProcessorInv, MirrorInv, exec = STARTED, stack # <<>>, ~ At("prepare"),
         NEW n \in Parallels, JobAt(n, held), NEW v, v = Seen, NEW j, j = Current(held, n)
  PROVE  /\ j \in Ids(held) /\ j \in Ids(v) /\ v[j] = held[j] /\ v[j].node = n /\ Latest(v, j)
         /\ \A i \in Ids(v) : Latest(v, i) /\ v[i].node = n => i = j
  <1>1. n \in Nodes /\ holder # NoWorker
    BY ProcessorAssumption DEF ProcessorInv, IdleInv
  <1>2. j \in Ids(held) /\ held[j].node = n /\ \A i \in Ids(held) : held[i].node = n => i <= j
    BY <1>1, CurrentKnown
  <1>3. /\ nextId \in Nat /\ Ids(v) \subseteq 1..nextId
        /\ \A i \in Ids(held) : i \in Ids(v) /\ v[i].node = held[i].node
    BY SeenKnown
  <1> DEFINE ids == {i \in Ids(v) : v[i].node = n}
  <1>4. PICK g \in ids : \A i \in ids : i <= g
    <2>1. ids \in SUBSET (1..nextId) /\ j \in ids
      BY <1>2, <1>3
    <2> HIDE DEF ids
    <2> QED BY <1>3, <2>1, Greatest
  <1>5. Latest(v, g)
    BY <1>4 DEF Latest
  <1>6. \A i \in Ids(v) : v[i].node = n => (Latest(v, i) => i \in Ids(held)) /\ (i \in Ids(held) => v[i] = held[i])
    BY <1>1 DEF MirrorInv
  <1>7. g \in Ids(held) /\ v[g] = held[g]
    BY <1>4, <1>5, <1>6
  <1>8. \A i \in Ids(v) : i \in Nat
    BY <1>3
  <1>9. g = j
    <2>1. g <= j /\ j <= g
      BY <1>2, <1>3, <1>4, <1>7
    <2> QED BY <1>2, <1>3, <1>4, <1>8, <2>1
  <1>10. \A i \in Ids(v) : Latest(v, i) /\ v[i].node = n => i = j
    <2> SUFFICES ASSUME NEW i \in Ids(v), Latest(v, i), v[i].node = n PROVE i = j
      OBVIOUS
    <2>1. i <= j /\ j <= i
      BY <1>2, <1>3, <1>4, <1>9 DEF Latest
    <2> QED BY <1>2, <1>3, <1>8, <2>1
  <1> QED BY <1>2, <1>5, <1>6, <1>9, <1>10, <1>4

\* A branch's result is brought to a parallel node and nothing more comes of it:
\* the way of the other branches, and of all others, is not the one it came.
LEMMA BroughtRest ==
  ASSUME ProcessorInv, RestInv, At("resume"), stack # <<>>, stack' = <<Exit(Null)>> \o Tail(stack),
         NEW n \in Parallels, Top.node = n, NEW c, Top.job = c, NEW j, j = Current(held, n),
         UNCHANGED <<exec, jobs, tasks, loaded, crashes>>,
         NEW v, v = Seen, NEW w, w = Seen',
         exec = STARTED => \A C : Waits(v, C) => Waits(w, C), \A i \in Ids(v) : w[i].node = v[i].node,
         exec = STARTED => \A i : Joining(w, i) => Joining(v, i) /\ (i # j => w[i] = v[i]),
         exec = STARTED /\ Joining(w, j) /\ Owes(j) =>
           /\ DOMAIN w[j].result = 1..Cardinality(Branches(n))
           /\ \E i \in DOMAIN w[j].result : w[j].result[i] \in {Null, PENDING}
           /\ \A i \in DOMAIN w[j].result : w[j].result[i] \in {Null, PENDING} =>
                \/ Waits(w, Chain(BranchNo(n, i)))
                \/ v[j].result[i] \in {Null, PENDING} /\ held[c].node \notin Chain(BranchNo(n, i)),
         \A i : i \in Ids(held') => i \in Ids(held) /\ held'[i].node = held[i].node
                  /\ (i # j => held'[i].status = held[i].status),
         held'[j].status = held[j].status, Ids(held) \subseteq Ids(held'),
         exec = STARTED /\ Joining(w, j) /\ Owes(j) => NextBranch(Mode[n], held[c].status)
  PROVE  OwedInv' /\ CallInv'
  <1>1. PICK f, g, x : f = Exit(Null) /\ g = Top /\ g = Head(stack) /\ x = held[c].node
    BY DEF Top
  <1>2. f.op = "exit" /\ f.k = Null
    BY <1>1 DEF Exit, Frame
  <1>3. g.op = "resume" /\ g.node = n /\ g.job = c
    BY <1>1 DEF At
  <1>4. /\ stack' # <<>> /\ Head(stack') = f /\ Calls(stack') = {f} \cup Calls(Tail(stack))
        /\ Calls(stack) = {g} \cup Calls(Tail(stack))
        /\ \A e \in Calls(stack) : FrameOK(e, held)
    <2>1. StackOK(stack, held)
      BY DEF ProcessorInv, StackInv
    <2>2. /\ Calls(<<f>> \o Tail(stack)) = {f} \cup Calls(Tail(stack))
          /\ <<f>> \o Tail(stack) # <<>> /\ Head(<<f>> \o Tail(stack)) = f
          /\ Calls(stack) = {Head(stack)} \cup Calls(Tail(stack))
          /\ \A e \in Calls(stack) : FrameOK(e, held)
      BY <2>1, CallsOf
    <2> QED BY <1>1, <2>2
  <1>5. CallInv'
    BY <1>2, <1>4 DEF RestInv, CallInv, At, Top
  <1>6. ParentOf[x] = n /\ c \in Ids(held)
    BY <1>1, <1>3, <1>4 DEF RestInv, CallInv, FrameOK
  <1>7. OwedInv'
    <2> SUFFICES ASSUME Goes' PROVE RootOK' /\ BranchOK' /\ TurnOK'
      BY DEF OwedInv
    <2>1. exec = STARTED /\ Goes
      BY DEF Goes, Ending, At
    <2>2. RootOK /\ BranchOK /\ TurnOK
      BY <2>1 DEF RestInv, OwedInv
    <2>3. /\ j \in Ids(v) /\ v[j].node = n
          /\ \A i \in Ids(v) : Latest(v, i) /\ v[i].node = n => i = j
      <3>1. JobAt(n, held)
        BY <1>3, <1>4, ProcessorAssumption DEF FrameOK
      <3>2. ~ At("prepare")
        BY DEF At
      <3> QED BY <2>1, <3>1, <3>2, CurrentLatest DEF RestInv
    <2>4. ASSUME NEW C, Source(C), x \notin C PROVE Source(C)'
      <3>1. ~ Acts(stack, held, C)
        BY <1>1, <1>3, <2>4 DEF Acts
      <3> QED BY <2>1, <2>4, <3>1 DEF Source
    <2>5. RootOK'
      <3>1. x \notin MainLine
        BY <1>6, ProcessorAssumption DEF MainLine
      <3>2. Starting => Starting'
        BY DEF Starting
      <3> QED BY <2>2, <2>4, <3>1, <3>2 DEF RootOK
    <2>6. \A i, b : Later(stack, i, b) => Later(stack', i, b)
      BY <1>3, <1>4 DEF Later
    <2>7. ASSUME NEW i, Joining(w, i), i # j PROVE Owes(i)'
      <3>1. i \in Ids(v) /\ Joining(v, i) /\ w[i] = v[i] /\ v[i].node # n /\ v[i].node \in Parallels
        BY <2>1, <2>3, <2>7 DEF Joining, Latest
      <3>2. Owes(i)
        BY <2>2, <3>1 DEF BranchOK
      <3>3. PICK m, r : m = v[i].node /\ r = v[i].result
        OBVIOUS
      <3>4. \A b \in 1..Cardinality(Branches(m)) : x \notin Chain(BranchNo(m, b))
        BY <1>6, <3>1, <3>3, BranchFound
      <3>5. \A b \in 1..Cardinality(Branches(m)) :
              Source(Chain(BranchNo(m, b))) \/ Later(stack, i, b) =>
                Source(Chain(BranchNo(m, b)))' \/ Later(stack', i, b)
        BY <2>4, <2>6, <3>4
      <3> QED BY <3>1, <3>2, <3>3, <3>5, OwesKept
    <2>8. ASSUME Joining(w, j) PROVE Owes(j)'
      <3>1. Joining(v, j) /\ Owes(j)
        BY <2>1, <2>2, <2>3, <2>8 DEF BranchOK
      <3>2. w[j].node = n
        BY <2>3, <2>8, <3>1
      <3>3. /\ DOMAIN w[j].result = 1..Cardinality(Branches(n))
            /\ \E i \in DOMAIN w[j].result : w[j].result[i] \in {Null, PENDING}
            /\ \A i \in DOMAIN w[j].result : w[j].result[i] \in {Null, PENDING} =>
                 \/ Waits(w, Chain(BranchNo(n, i)))
                 \/ v[j].result[i] \in {Null, PENDING} /\ x \notin Chain(BranchNo(n, i))
        BY <1>1, <2>1, <2>8, <3>1
      <3>4. /\ DOMAIN v[j].result = 1..Cardinality(Branches(n))
            /\ \A i \in DOMAIN v[j].result : v[j].result[i] \in {Null, PENDING} =>
                 Source(Chain(BranchNo(n, i))) \/ Later(stack, j, i)
        BY <2>3, <3>1 DEF Owes
      <3>5. ASSUME NEW i \in DOMAIN w[j].result, w[j].result[i] \in {Null, PENDING}
            PROVE  Source(Chain(BranchNo(n, i)))' \/ Later(stack', j, i)
        <4>1. CASE Waits(w, Chain(BranchNo(n, i)))
          BY <4>1 DEF Source
        <4>2. CASE v[j].result[i] \in {Null, PENDING} /\ x \notin Chain(BranchNo(n, i))
          BY <2>4, <2>6, <3>3, <3>4, <4>2
        <4> QED BY <3>3, <3>5, <4>1, <4>2
      <3> QED BY <3>2, <3>3, <3>5 DEF Owes
    <2>9. BranchOK'
      BY <2>7, <2>8 DEF BranchOK
    <2>10. TurnOK'
      <3> SUFFICES ASSUME NEW e \in Calls(stack'), e.op = "branches", e.k > 1, Joining(w, e.job),
                          NEW l \in Ids(held'), LastOf(held', Before(e), l),
                          ~ NextBranch(Mode[e.node], held'[l].status)
                   PROVE  FALSE
        BY DEF TurnOK
      <3>1. e \in Calls(stack) /\ Joining(v, e.job) /\ e.job \in Ids(held) /\ held[e.job].node = e.node
        BY <1>2, <1>4, <2>1 DEF FrameOK
      <3>2. l \in Ids(held) /\ held'[l].status = held[l].status /\ LastOf(held, Before(e), l)
        BY DEF LastOf
      <3>3. Answers(stack, e, l)
        BY <2>2, <3>1, <3>2 DEF TurnOK
      <3>4. e.node = n /\ l = c
        BY <1>1, <1>3, <3>3 DEF Answers
      <3>5. e.job = j
        <4>1. v[e.job].node = n /\ e.job \in Ids(v)
          BY <3>1, <3>4, SeenKnown
        <4> QED BY <2>3, <3>1, <4>1 DEF Joining
      <3>6. Owes(j)
        BY <2>1, <2>2, <2>3, <3>1, <3>5 DEF BranchOK
      <3> QED BY <2>1, <3>2, <3>4, <3>5, <3>6
    <2> QED BY <2>5, <2>9, <2>10
  <1> QED BY <1>5, <1>7

\* A sequence with one element changed.
LEMMA SeqChanged ==
  ASSUME NEW S, NEW old \in Seq(S), NEW b, NEW new \in S, NEW r, r = [old EXCEPT ![b] = new]
  PROVE  /\ r \in Seq(S) /\ DOMAIN r = DOMAIN old
         /\ \A i \in DOMAIN r : r[i] = IF i = b THEN new ELSE old[i]
  <1>1. Len(old) \in Nat /\ old \in [1..Len(old) -> S]
    OBVIOUS
  <1>2. DOMAIN r = 1..Len(old) /\ \A i \in 1..Len(old) : r[i] = IF i = b THEN new ELSE old[i]
    BY <1>1
  <1>3. \A i \in 1..Len(old) : r[i] \in S
    BY <1>1, <1>2
  <1>4. PICK n \in Nat : n = Len(old)
    BY <1>1
  <1>5. r \in Seq(S)
    <2>1. r \in [1..n -> S]
      BY <1>1, <1>4
    <2> QED BY ONLY <1>4, <2>1, SeqDef
  <1> QED BY <1>1, <1>2, <1>5

LEMMA ResumeParallelRest == ASSUME ProcessorInv, RestInv, ResumeParallel PROVE RestInv'
  <1>1. PICK n, c, j, b, result, s :
          /\ n = Top.node /\ c = Top.job /\ j = Current(held, n) /\ b = IndexOf(n, StartIn(held[c].node, n))
          /\ result = [held[j].result EXCEPT ![b] = held[c].status] /\ s = JoinStatus(Mode[n], result)
    OBVIOUS
  <1>2. PICK job : job = [held[j] EXCEPT !.status = s, !.result = result]
    OBVIOUS
  <1>3. /\ At("resume") /\ stack # <<>> /\ n \in Parallels
        /\ UNCHANGED <<exec, jobs, nextId, tasks, loaded, holder, copy, base, crashes>>
    BY <1>1 DEF ResumeParallel, At, dbVars, queueVars, ghostVars
  <1>4. \/ held[j].status # PENDING /\ Replace(Exit(Null)) /\ UNCHANGED <<held, unsaved>>
        \/ /\ held[j].status = PENDING
           /\ SaveJob(j, job)
           /\ IF s = PENDING THEN Replace(Exit(Null)) ELSE AfterJob(n, j, s)
    BY <1>1, <1>2 DEF ResumeParallel
  <1>5. n \in Nodes /\ n \notin Waiting /\ c \in Ids(held) /\ JobAt(n, held) /\ ~ At("prepare") /\ Top.op = "resume"
    BY <1>1, <1>3, TopKnown, ProcessorAssumption DEF At, FrameOK
  <1>6. /\ j \in Ids(held) /\ held[j].node = n /\ held[j] \in Job /\ KnowsBranches(held[j]) /\ held[c] \in Job
        /\ j \in Nat /\ \A i \in Ids(held) : held[i].node = n => i <= j
    BY <1>1, <1>5, CurrentKnown DEF ProcessorInv, DataInv, Data, JobsOK
  <1>7. /\ ParentOf[held[c].node] = n
        /\ held[c].status = PENDING => held[c].node \in Waiting /\ c \in unsaved
    BY <1>1, <1>3 DEF RestInv, CallInv
  <1>8. /\ b \in 1..Cardinality(Branches(n))
        /\ \A i \in 1..Cardinality(Branches(n)) : i # b => held[c].node \notin Chain(BranchNo(n, i))
        /\ held[c].node \in Chain(BranchNo(n, b))
    <2>1. PICK x : x = held[c].node /\ x \in Nodes
      BY <1>6 DEF Job
    <2>2. ParentOf[x] # NoNode /\ b = IndexOf(n, StartIn(x, n))
      BY <1>1, <1>5, <1>7, <2>1, ProcessorAssumption
    <2> QED BY <1>3, <1>7, <2>1, <2>2, BranchKnown, BranchFound
  <1>9. PICK v, w, h : v = Seen /\ w = Seen' /\ h = held'
    OBVIOUS
  <1>10. /\ \A i \in Ids(held) : i \in Ids(v) /\ v[i].node = held[i].node
         /\ \A i \in Ids(v) : i \in unsaved => v[i] = held[i]
         /\ unsaved \subseteq Ids(v)
    BY <1>9, SeenKnown
  <1>11. exec = STARTED =>
           /\ j \in Ids(v) /\ v[j] = held[j] /\ v[j].node = n /\ Latest(v, j)
           /\ \A i \in Ids(v) : Latest(v, i) /\ v[i].node = n => i = j
    BY <1>1, <1>3, <1>5, <1>9, CurrentLatest DEF RestInv
  <1>12. CASE held[j].status # PENDING /\ Replace(Exit(Null)) /\ UNCHANGED <<held, unsaved>>
    <2>1. w = v /\ h = held
      BY <1>3, <1>9, <1>12 DEF Seen
    <2>2. ~ (exec = STARTED /\ Joining(v, j))
      BY <1>11, <1>12 DEF Joining
    <2>3. stack' = <<Exit(Null)>> \o Tail(stack)
      BY <1>12 DEF Replace
    <2>4. OwedInv' /\ CallInv'
      BY <1>1, <1>3, <1>9, <1>12, <2>1, <2>2, <2>3, BroughtRest
    <2>5. MirrorInv' /\ WaitInv' /\ CopyInv'
      BY <1>3, <1>5, <1>9, <1>12, <2>1 DEF RestInv, MirrorInv, WaitInv, CopyInv
    <2> QED BY <2>4, <2>5 DEF RestInv
  <1>13. CASE /\ held[j].status = PENDING
              /\ SaveJob(j, job)
              /\ IF s = PENDING THEN Replace(Exit(Null)) ELSE AfterJob(n, j, s)
    <2>1. job.node = n /\ job.status = s /\ job.result = result
      BY <1>2, <1>6 DEF Job
    <2>2. h = With(held, j, job) /\ unsaved' = unsaved \cup {j}
      BY <1>9, <1>13 DEF SaveJob
    <2>3. /\ result \in Seq(Statuses \cup {Null}) /\ DOMAIN result = DOMAIN held[j].result
          /\ \A i \in DOMAIN result : result[i] = IF i = b THEN held[c].status ELSE held[j].result[i]
          /\ held[c].status \in Statuses
      <3>1. PICK old, new : old = held[j].result /\ new = held[c].status
        OBVIOUS
      <3>2. old \in Seq(Statuses \cup {Null}) /\ new \in Statuses \cup {Null} /\ result = [old EXCEPT ![b] = new]
            /\ new \in Statuses
        BY <1>1, <1>6, <3>1 DEF Job
      <3>3. /\ result \in Seq(Statuses \cup {Null}) /\ DOMAIN result = DOMAIN old
            /\ \A i \in DOMAIN result : result[i] = IF i = b THEN new ELSE old[i]
        BY ONLY <3>2, SeqChanged
      <3> QED BY <3>1, <3>2, <3>3
    <2>4. Mode[n] \in {"all", "any", "race", "allSettled"}
      BY <1>3, ProcessorAssumption
    <2>5. s \in Statuses
      BY <1>1, <2>3, <2>4, JoinStatusTyped
    <2>6. CASE s # PENDING
      <3>1. AfterJob(n, j, job.status)
        BY <1>13, <2>1, <2>6
      <3>2. exec = STARTED => \A i \in Ids(Seen) : Seen[i].node = n => i <= j
        BY <1>9, <1>11 DEF Latest
      <3> QED BY <1>1, <1>3, <1>5, <1>6, <1>9, <2>1, <2>2, <2>5, <2>6, <3>1, <3>2, ReturnedRest
    <2>7. CASE s = PENDING
      <3>1. stack' = <<Exit(Null)>> \o Tail(stack)
        BY <1>13, <2>7 DEF Replace
      <3>2. /\ Ids(w) = Ids(v) \cup {j} /\ w[j] = job /\ \A i \in Ids(v) \ {j} : w[i] = v[i]
            /\ Ids(h) = Ids(held) \cup {j} /\ h[j] = job /\ \A i \in Ids(held) \ {j} : h[i] = held[i]
            /\ \A i \in Ids(v) : w[i].node = v[i].node
            /\ \A i \in Ids(v) : Latest(w, i) => Latest(v, i)
        BY <1>3, <1>6, <1>9, <2>1, <2>2, SeenWith
      <3>3. MirrorInv' /\ WaitInv'
        BY <1>3, <1>5, <1>6, <1>9, <2>1, <2>2, MirrorWith DEF RestInv
      <3>4. Ids(w) = Ids(v) /\ j \in Ids(v)
        BY <1>6, <1>10, <3>2
      <3>5. \A i : Latest(v, i) <=> Latest(w, i)
        BY <3>2, <3>4 DEF Latest
      <3>6. Latest(v, j) => Latest(w, j) /\ w[j].node = n /\ w[j].status = PENDING
        BY <2>1, <2>7, <3>2, <3>5
      <3>7. ASSUME exec = STARTED, NEW i, Joining(w, i) PROVE Joining(v, i) /\ (i # j => w[i] = v[i])
        <4>1. i \in Ids(v) /\ Latest(v, i)
          BY <3>4, <3>5, <3>7 DEF Joining, Latest
        <4>2. CASE i # j
          BY <3>2, <3>7, <4>1, <4>2 DEF Joining
        <4>3. CASE i = j
          BY <1>3, <1>11, <1>13, <3>7, <4>1, <4>3 DEF Joining
        <4> QED BY <4>2, <4>3
      <3>8. ASSUME exec = STARTED, NEW C, Waits(v, C) PROVE Waits(w, C)
        <4>1. PICK i \in Ids(v) : (Asks(v, i) \/ Joining(v, i)) /\ v[i].node \in C
          BY <3>8 DEF Waits
        <4>2. CASE i # j
          <5>1. w[i] = v[i] /\ i \in Ids(w) /\ (Latest(v, i) => Latest(w, i))
            BY <3>2, <3>4, <3>5, <4>2
          <5> QED BY <4>1, <5>1 DEF Waits, Asks, Joining
        <4>3. CASE i = j
          <5>1. Joining(w, j)
            BY <1>3, <1>11, <3>6, <3>8 DEF Joining
          <5> QED BY <1>6, <2>1, <3>2, <4>1, <4>3, <5>1, <1>10 DEF Waits
        <4> QED BY <4>2, <4>3
      <3>9. ASSUME exec = STARTED, Joining(w, j), Owes(j)
            PROVE  /\ DOMAIN result = 1..Cardinality(Branches(n))
                   /\ \E i \in DOMAIN result : result[i] \in {Null, PENDING}
                   /\ \A i \in DOMAIN result : result[i] \in {Null, PENDING} =>
                        \/ Waits(w, Chain(BranchNo(n, i)))
                        \/ v[j].result[i] \in {Null, PENDING} /\ held[c].node \notin Chain(BranchNo(n, i))
                   /\ NextBranch(Mode[n], held[c].status)
        <4>1. v[j] = held[j] /\ v[j].node = n
          BY <1>11, <3>9
        <4>2. DOMAIN result = 1..Cardinality(Branches(n))
          BY <1>9, <2>3, <3>9, <4>1 DEF Owes
        <4>3. result # <<>> /\ b \in DOMAIN result
          <5>1. b \in DOMAIN result
            BY <1>8, <4>2
          <5>2. DOMAIN << >> = {}
            OBVIOUS
          <5> QED BY <5>1, <5>2
        <4>4. /\ \E i \in DOMAIN result : result[i] \in {Null, PENDING}
              /\ \A i \in DOMAIN result : result[i] # Null => NextBranch(Mode[n], result[i])
          <5>1. PICK mode, r : mode = Mode[n] /\ r = result
            OBVIOUS
          <5>2. /\ mode \in {"all", "any", "race", "allSettled"} /\ r \in Seq(Statuses \cup {Null}) /\ r # <<>>
                /\ JoinStatus(mode, r) = PENDING
            BY <1>1, <2>3, <2>4, <2>7, <4>3, <5>1
          <5>3. /\ \E i \in DOMAIN r : r[i] \in {Null, PENDING}
                /\ \A i \in DOMAIN r : r[i] # Null => NextBranch(mode, r[i])
            BY ONLY <5>2, JoinPending
          <5> QED BY <5>1, <5>3
        <4>5. held[c].status # Null
          BY <2>3 DEF Statuses, Null, PENDING, RESOLVED, FAILED, ABORTED
        <4>6. NextBranch(Mode[n], held[c].status)
          BY <2>3, <4>3, <4>4, <4>5
        <4>7. ASSUME NEW i \in DOMAIN result, result[i] \in {Null, PENDING}
              PROVE  \/ Waits(w, Chain(BranchNo(n, i)))
                     \/ v[j].result[i] \in {Null, PENDING} /\ held[c].node \notin Chain(BranchNo(n, i))
          <5>1. CASE i # b
            BY <1>8, <2>3, <4>1, <4>2, <4>7, <5>1
          <5>2. CASE i = b
            <6>1. held[c].status = PENDING
              BY <2>3, <4>5, <4>7, <5>2
            <6>2. c \in Ids(v) /\ v[c] = held[c] /\ held[c].node \in Waiting
              BY <1>7, <1>10, <6>1
            <6>3. Waits(v, Chain(BranchNo(n, i)))
              BY <1>8, <5>2, <6>1, <6>2 DEF Waits, Asks
            <6> QED BY <3>8, <3>9, <6>3
          <5> QED BY <5>1, <5>2
        <4> QED BY <4>2, <4>4, <4>6, <4>7
      <3>10. OwedInv' /\ CallInv'
        <4>1. \A i : i \in Ids(held') => i \in Ids(held) /\ held'[i].node = held[i].node
                        /\ (i # j => held'[i].status = held[i].status)
          BY <1>6, <1>9, <2>1, <3>2
        <4>2. held'[j].status = held[j].status /\ Ids(held) \subseteq Ids(held')
          BY <1>9, <1>13, <2>1, <2>7, <3>2
        <4>3. w[j].result = result
          BY <2>1, <3>2
        <4>4. exec = STARTED /\ Joining(w, j) /\ Owes(j) =>
                /\ DOMAIN w[j].result = 1..Cardinality(Branches(n))
                /\ \E i \in DOMAIN w[j].result : w[j].result[i] \in {Null, PENDING}
                /\ \A i \in DOMAIN w[j].result : w[j].result[i] \in {Null, PENDING} =>
                     \/ Waits(w, Chain(BranchNo(n, i)))
                     \/ v[j].result[i] \in {Null, PENDING} /\ held[c].node \notin Chain(BranchNo(n, i))
          BY <3>9, <4>3
        <4>5. exec = STARTED /\ Joining(w, j) /\ Owes(j) => NextBranch(Mode[n], held[c].status)
          BY <3>9
        <4>6. At("resume") /\ stack # <<>> /\ UNCHANGED <<exec, jobs, tasks, loaded, crashes>>
          BY <1>3
        <4> QED BY <1>1, <1>3, <1>9, <3>1, <3>2, <3>7, <3>8, <4>1, <4>2, <4>4, <4>5, <4>6, BroughtRest
      <3> QED BY <1>3, <3>3, <3>10 DEF RestInv, CopyInv
    <2> QED BY <2>6, <2>7
  <1> QED BY <1>4, <1>12, <1>13

\* The innermost call makes way for another one.
LEMMA CallReplaced ==
  ASSUME ProcessorInv, stack # <<>>, NEW f, NEW r, r = <<f>> \o Tail(stack)
  PROVE  /\ r # <<>> /\ Head(r) = f /\ Calls(r) = {f} \cup Calls(Tail(stack))
         /\ Calls(stack) = {Top} \cup Calls(Tail(stack))
  <1>1. StackOK(stack, held)
    BY DEF ProcessorInv, StackInv
  <1>2. /\ Calls(<<f>> \o Tail(stack)) = {f} \cup Calls(Tail(stack))
        /\ <<f>> \o Tail(stack) # <<>> /\ Head(<<f>> \o Tail(stack)) = f
        /\ Calls(stack) = {Head(stack)} \cup Calls(Tail(stack))
    BY <1>1, CallsOf
  <1> QED BY <1>2 DEF Top

\* What exit saves is what the processor has, but for jobs of waiting nodes that
\* somebody has changed meanwhile.
LEMMA SavedSeen ==
  ASSUME ProcessorInv, WaitInv, MirrorInv, ExitSave, NEW v, v = Seen, NEW w, w = Seen'
  PROVE  /\ Ids(w) = Ids(v) /\ Ids(jobs') = Ids(w) /\ \A j \in Ids(w) : jobs'[j] = w[j] /\ w[j].node = v[j].node
         /\ \A j \in Ids(v) : j \notin unsaved \/ j \notin Ids(jobs) => w[j] = v[j]
         /\ \A j \in Ids(v) : Asks(v, j) => w[j] = v[j]
         /\ exec = STARTED => \A j \in Ids(v) : v[j].node \in Parallels => w[j] = v[j]
  <1>1. PICK t : t = jobs'
    OBVIOUS
  <1>2. /\ t = [j \in Ids(jobs) \cup unsaved |-> IF j \in unsaved THEN Merge(j) ELSE jobs[j]]
        /\ unsaved' = {}
    BY <1>1 DEF ExitSave
  <1>3. Ids(w) = Ids(t) /\ \A j \in Ids(w) : w[j] = t[j]
    <2>1. PICK h, u : h = held' /\ u = unsaved'
      OBVIOUS
    <2>2. Ids(View(t, h, u)) = Ids(t) /\ \A i \in Ids(View(t, h, u)) : View(t, h, u)[i] = t[i]
      BY <1>2, <2>1, SavedView
    <2> QED BY <1>1, <2>1, <2>2 DEF Seen
  <1>4. /\ Ids(v) = Ids(jobs) \cup unsaved
        /\ \A j \in Ids(v) : v[j] \in Job /\ (j \in unsaved => v[j] = held[j]) /\ (j \notin unsaved => v[j] = jobs[j])
        /\ \A j \in Ids(held) : j \in Ids(v) /\ v[j].node = held[j].node
    BY SeenKnown
  <1>5. Ids(t) = Ids(v) /\ \A j \in Ids(v) : t[j] = IF j \in unsaved THEN Merge(j) ELSE jobs[j]
    BY <1>2, <1>4 DEF Ids
  <1>6. \A j \in Ids(v) : j \notin unsaved \/ j \notin Ids(jobs) => w[j] = v[j]
    BY <1>3, <1>4, <1>5 DEF Merge
  <1>7. /\ unsaved \subseteq Ids(held) /\ \A j \in Ids(jobs) : jobs[j] \in Job
        /\ \A j \in Ids(held) : held[j] \in Job
        /\ \A j \in Ids(held) \cap Ids(jobs) : j \in Ids(base) /\ held[j].node = jobs[j].node
    BY DEF ProcessorInv, DataInv, Data, Objects, JobsOK
  <1>8. \A j \in Ids(v) : w[j].node = v[j].node
    <2> SUFFICES ASSUME NEW j \in unsaved \cap Ids(jobs) PROVE w[j].node = v[j].node
      BY <1>4, <1>6
    <2>1. w[j] = Merge(j) /\ v[j] = held[j] /\ jobs[j] \in Job /\ held[j].node = jobs[j].node
      BY <1>3, <1>4, <1>5, <1>7
    <2>2. Merge(j).node = jobs[j].node
      BY <2>1 DEF Merge, Job
    <2> QED BY <2>1, <2>2
  <1>9. ASSUME NEW j \in Ids(v), Asks(v, j) PROVE w[j] = v[j]
    BY <1>4, <1>6, <1>9 DEF Asks, WaitInv
  <1>10. ASSUME exec = STARTED, NEW j \in Ids(v), v[j].node \in Parallels PROVE w[j] = v[j]
    <2>1. CASE j \in unsaved \cap Ids(jobs)
      <3>1. holder # NoWorker /\ ~ At("prepare")
        BY DEF ExitSave, At, ProcessorInv, IdleInv
      <3>2. jobs[j] = base[j] /\ v[j] = held[j] /\ jobs[j] \in Job /\ held[j] \in Job /\ held[j].node = jobs[j].node
        BY <1>4, <1>7, <1>10, <2>1, <3>1 DEF MirrorInv
      <3>3. w[j] = [jobs[j] EXCEPT
                       !.status = IF held[j].status # jobs[j].status THEN held[j].status ELSE @,
                       !.result = IF held[j].result # jobs[j].result THEN held[j].result ELSE @]
        BY <1>3, <1>5, <2>1, <3>2 DEF Merge
      <3>4. PICK a, b, c : a = jobs[j] /\ b = held[j] /\ c = w[j]
        OBVIOUS
      <3>5. /\ a \in Job /\ b \in Job /\ a.node = b.node
            /\ c = [a EXCEPT !.status = IF b.status # a.status THEN b.status ELSE @,
                             !.result = IF b.result # a.result THEN b.result ELSE @]
        BY <3>2, <3>3, <3>4
      <3>6. c = b
        BY ONLY <3>5 DEF Job
      <3> QED BY <3>2, <3>4, <3>6
    <2> QED BY <1>4, <1>6, <2>1
  <1> QED BY <1>1, <1>3, <1>5, <1>6, <1>8, <1>9, <1>10

LEMMA ExitSaveRest == ASSUME ProcessorInv, RestInv, ExitSave PROVE RestInv'
  <1>1. PICK top, f : top = Top /\ f = [top EXCEPT !.op = "update"]
    OBVIOUS
  <1>2. /\ At("exit") /\ stack # <<>> /\ unsaved' = {} /\ stack' = <<f>> \o Tail(stack)
        /\ base' = [j \in Ids(base) \cup unsaved |-> IF j \in unsaved THEN held[j] ELSE base[j]]
        /\ UNCHANGED <<exec, tasks, loaded, holder, copy, held, crashes>>
    BY <1>1 DEF ExitSave, At, Replace, queueVars, ghostVars
  <1>3. f.op = "update" /\ f.k = top.k /\ top.op = "exit"
    BY <1>1, <1>2, TopKnown DEF At, Frames
  <1>4. /\ stack' # <<>> /\ Head(stack') = f /\ Calls(stack') = {f} \cup Calls(Tail(stack))
        /\ Calls(stack) = {top} \cup Calls(Tail(stack))
    BY <1>1, <1>2, CallReplaced
  <1>5. PICK v, w : v = Seen /\ w = Seen'
    OBVIOUS
  <1>6. /\ Ids(w) = Ids(v) /\ Ids(jobs') = Ids(w) /\ \A j \in Ids(w) : jobs'[j] = w[j] /\ w[j].node = v[j].node
        /\ \A j \in Ids(v) : j \notin unsaved \/ j \notin Ids(jobs) => w[j] = v[j]
        /\ \A j \in Ids(v) : Asks(v, j) => w[j] = v[j]
        /\ exec = STARTED => \A j \in Ids(v) : v[j].node \in Parallels => w[j] = v[j]
    BY <1>5, SavedSeen DEF RestInv
  <1>7. \A j : Latest(v, j) <=> Latest(w, j)
    BY <1>6 DEF Latest
  <1>8. exec = STARTED => \A j : Joining(w, j) => Joining(v, j) /\ w[j] = v[j]
    BY <1>6, <1>7 DEF Joining, Latest
  <1>9. ASSUME exec = STARTED, NEW C, Waits(v, C) PROVE Waits(w, C)
    <2>1. PICK j \in Ids(v) : (Asks(v, j) \/ Joining(v, j)) /\ v[j].node \in C
      BY <1>9 DEF Waits
    <2>2. w[j] = v[j] /\ j \in Ids(w)
      BY <1>6, <1>9, <2>1 DEF Joining
    <2>3. Asks(w, j) \/ Joining(w, j)
      BY <1>7, <2>1, <2>2 DEF Asks, Joining
    <2> QED BY <2>1, <2>2, <2>3 DEF Waits
  <1>10. CopyInv' /\ WaitInv' /\ CallInv'
    <2>1. CallInv'
      BY <1>3, <1>4 DEF RestInv, CallInv, At, Top
    <2> QED BY <1>2, <2>1 DEF RestInv, CopyInv, WaitInv
  <1>11. MirrorInv'
    <2> SUFFICES ASSUME exec = STARTED, holder # NoWorker, NEW j \in Ids(w), w[j].node \in Parallels
                 PROVE  /\ Latest(w, j) => j \in Ids(held)
                        /\ j \in Ids(held) => w[j] = held[j]
                        /\ j \in Ids(held) \cap Ids(jobs') => jobs'[j] = base'[j]
      BY <1>2, <1>5 DEF MirrorInv
    <2>1. /\ j \in Ids(v) /\ w[j] = v[j] /\ v[j].node \in Parallels /\ jobs'[j] = w[j]
      BY <1>6
    <2>2. /\ Latest(v, j) => j \in Ids(held)
          /\ j \in Ids(held) => v[j] = held[j]
          /\ j \in Ids(held) \cap Ids(jobs) => jobs[j] = base[j]
      BY <1>2, <1>5, <2>1 DEF RestInv, MirrorInv, At
    <2>3. ASSUME j \in Ids(held) PROVE base'[j] = held[j]
      <3>1. CASE j \in unsaved
        BY <1>2, <3>1
      <3>2. CASE j \notin unsaved
        <4>1. j \in Ids(jobs) /\ v[j] = jobs[j]
          BY <1>5, <2>1, <3>2, SeenKnown
        <4>2. j \in Ids(base)
          BY <2>3, <4>1 DEF ProcessorInv, DataInv, Data, Objects
        <4>3. base'[j] = base[j]
          BY <1>2, <3>2, <4>2
        <4> QED BY <2>2, <2>3, <4>1, <4>3
      <3> QED BY <3>1, <3>2
    <2> QED BY <1>7, <2>1, <2>2, <2>3
  <1>12. OwedInv'
    <2>1. Goes' => Goes
      BY <1>1, <1>2, <1>3, <1>4 DEF Goes, Ending, At, Top
    <2>2. Starting => Starting'
      BY <1>2 DEF Starting
    <2>3. ASSUME exec = STARTED, NEW C, Source(C) PROVE Source(C)'
      <3>1. ~ Acts(stack, held, C)
        BY <1>1, <1>3 DEF Acts, Top
      <3>2. ASSUME Queued(jobs, tasks, loaded, C) PROVE Queued(jobs', tasks, loaded, C)
        <4>1. \A j \in Ids(jobs) : j \in Ids(jobs') /\ jobs'[j].node = jobs[j].node
          <5>1. \A j \in Ids(jobs) : j \in Ids(v) /\ (j \in unsaved => v[j] = held[j])
                                   /\ (j \notin unsaved => v[j] = jobs[j])
            BY <1>5, SeenKnown
          <5>2. \A j \in unsaved \cap Ids(jobs) : held[j].node = jobs[j].node
            BY DEF ProcessorInv, DataInv, Data, Objects
          <5> QED BY <1>6, <5>1, <5>2
        <4> QED BY <3>2, <4>1 DEF Queued
      <3> QED BY <1>2, <1>5, <1>9, <2>3, <3>1, <3>2 DEF Source
    <2>4. \A j, i : Later(stack, j, i) => Later(stack', j, i)
      BY <1>3, <1>4 DEF Later
    <2>5. Goes' /\ Goes /\ TurnOK => TurnOK'
      <3> SUFFICES ASSUME Goes PROVE TurnOK => TurnOK'
        OBVIOUS
      <3>1. exec = STARTED
        BY DEF Goes
      <3>2. \A g \in Calls(stack') : g.op = "branches" /\ g.k > 1 =>
              g \in Calls(stack) /\ (Joining(w, g.job) => Joining(v, g.job))
        BY <1>3, <1>4, <1>8, <3>1
      <3>3. \A g \in Calls(stack) : \A l : Answers(stack, g, l) => Answers(stack', g, l)
        BY <1>1, <1>3 DEF Answers, Top
      <3> QED BY <1>2, <1>5, <3>2, <3>3, TurnStays
    <2>6. Goes => exec = STARTED
      BY DEF Goes
    <2>7. Goes' /\ Goes => \A j : Joining(w, j) => /\ Joining(v, j) /\ w[j] = v[j]
                                                   /\ \A i : Later(stack, j, i) => Later(stack', j, i)
      BY <1>8, <2>4, <2>6
    <2> QED BY <1>5, <2>1, <2>2, <2>3, <2>5, <2>6, <2>7, OwedKept DEF RestInv
  <1> QED BY <1>10, <1>11, <1>12 DEF RestInv

LEMMA ExitUpdateRest == ASSUME ProcessorInv, RestInv, ExitUpdate PROVE RestInv'
  <1>1. PICK top : top = Top
    OBVIOUS
  <1>2. /\ top.op = "update" /\ top = Head(stack) /\ stack # <<>> /\ stack' = Tail(stack) /\ At("update")
        /\ UNCHANGED <<jobs, tasks, loaded, holder, held, base, unsaved, crashes>>
        /\ IF top.k = Null THEN UNCHANGED <<exec, copy>>
           ELSE exec' = (IF exec = STARTED THEN top.k ELSE exec) /\ copy' = exec'
    BY <1>1 DEF ExitUpdate, At, Top, Pop, queueVars, ghostVars
  <1>3. /\ Calls(stack) = {top} \cup Calls(Tail(stack))
        /\ Tail(stack) # <<>> => Head(Tail(stack)).op = "branches"
    <2>1. StackOK(stack, held)
      BY DEF ProcessorInv, StackInv
    <2> QED BY <1>2, <2>1, CallsOf, StackPopped
  <1>4. PICK v, w : v = Seen /\ w = Seen' /\ v = w
    BY <1>2 DEF Seen
  <1>5. exec' = STARTED => exec = STARTED /\ top.k \in {Null, PENDING}
    BY <1>2 DEF PENDING, STARTED
  <1>6. CopyInv' /\ WaitInv' /\ MirrorInv'
    <2>1. CopyInv'
      BY <1>2 DEF RestInv, CopyInv
    <2>2. MirrorInv' /\ WaitInv'
      BY <1>2, <1>4, <1>5 DEF RestInv, MirrorInv, WaitInv, At
    <2> QED BY <2>1, <2>2
  <1>7. CallInv'
    BY <1>2, <1>3 DEF RestInv, CallInv, At, Top
  <1>8. OwedInv'
    <2>1. Goes' => Goes
      BY <1>1, <1>2, <1>5 DEF Goes, Ending, At
    <2>2. Starting => Starting'
      BY <1>2 DEF Starting
    <2>3. ASSUME NEW C, Source(C) PROVE Source(C)'
      <3>1. ~ Acts(stack, held, C)
        BY <1>2 DEF Acts
      <3> QED BY <1>2, <1>4, <2>3, <3>1 DEF Source
    <2>4. \A j, i : Later(stack, j, i) => Later(stack', j, i)
      BY <1>2, <1>3 DEF Later
    <2>5. TurnOK => TurnOK'
      <3>1. \A g \in Calls(stack') : g.op = "branches" /\ g.k > 1 =>
              g \in Calls(stack) /\ (Joining(w, g.job) => Joining(v, g.job))
        BY <1>2, <1>3, <1>4
      <3>2. \A g \in Calls(stack) : \A l : ~ Answers(stack, g, l)
        BY <1>2 DEF Answers
      <3> QED BY <1>2, <1>4, <3>1, <3>2, TurnStays
    <2>6. \A j : Joining(w, j) => /\ Joining(v, j) /\ w[j] = v[j]
                                  /\ \A i : Later(stack, j, i) => Later(stack', j, i)
      BY <1>4, <2>4
    <2> QED BY <1>4, <2>1, <2>2, <2>3, <2>5, <2>6, OwedKept DEF RestInv
  <1> QED BY <1>6, <1>7, <1>8 DEF RestInv

LEMMA InitRest == ASSUME Init PROVE RestInv
  <1>1. Ids(Seen) = {} /\ stack = <<>> /\ tasks[0] > 0 /\ copy = STARTED /\ holder = NoWorker /\ unsaved = {}
    BY SavedView DEF Init, Seen, NoJobs, Ids
  <1>2. Calls(stack) = {}
    BY <1>1 DEF Calls
  <1> QED BY <1>1, <1>2 DEF RestInv, CopyInv, CallInv, WaitInv, MirrorInv, OwedInv, RootOK, BranchOK, TurnOK, Starting, At

LEMMA NextRest == ASSUME Branched, ProcessorInv, RestInv, [Next]_vars PROVE RestInv'
  <1>1. CASE UNCHANGED vars
    <2>1. UNCHANGED <<exec, jobs, tasks, loaded, holder, stack, copy, held, base, unsaved, crashes>>
      BY <1>1 DEF vars, dbVars, queueVars, procVars, ghostVars
    <2>2. Seen' = Seen
      BY <2>1 DEF Seen
    <2>3. Starting => Starting'
      BY <2>1 DEF Starting
    <2>4. Goes' => Goes
      BY <2>1 DEF Goes, Ending, At, Top
    <2>5. \A C : Source(C) => Source(C)'
      BY <2>1, <2>2 DEF Source
    <2>6. CopyInv' /\ CallInv' /\ WaitInv' /\ MirrorInv'
      <3>1. CopyInv' /\ WaitInv'
        BY <2>1 DEF RestInv, CopyInv, WaitInv
      <3>2. CallInv'
        BY <2>1 DEF RestInv, CallInv, At, Top
      <3>3. MirrorInv'
        BY <2>1, <2>2 DEF RestInv, MirrorInv, At, Top
      <3> QED BY <3>1, <3>2, <3>3
    <2>7. OwedInv'
      <3>1. PICK v, w : v = Seen /\ w = Seen' /\ v = w
        BY <2>2
      <3>2. TurnOK => TurnOK'
        BY <2>1, <3>1, TurnStays
      <3> QED BY <2>1, <2>3, <2>4, <2>5, <3>1, <3>2, OwedKept DEF RestInv
    <2> QED BY <2>6, <2>7 DEF RestInv
  <1>2. CASE Processing
    BY <1>2, PrepareRest, StopRest, CallRest, RunNodeRest, RunWaitingRest, RunParallelRest, RunBranchRest,
       BranchesEndRest, BranchesThrowRest, ResumeWaitingRest, ResumeParallelRest, ExitSaveRest, ExitUpdateRest,
       LeaveRest DEF Processing
  <1> QED BY <1>1, <1>2, EnterRest, LoadRest, PokeRest, ResumeActionRest, AbortingRest, ClockRest, CrashRest DEF Next


\* Between two processors nothing but jobs makes a branch go on.
LEMMA QuietWaits ==
  ASSUME ProcessorInv, Quiet
  PROVE  /\ ~ Starting /\ \A C : Source(C) => Waits(jobs, C)
         /\ \A j : Joining(Seen, j) <=> Joining(jobs, j)
         /\ \A j \in Ids(jobs) : Seen[j] = jobs[j]
         /\ stack = <<>> /\ \A j, i : ~ Later(stack, j, i)
  <1>1. /\ stack = <<>> /\ Ids(Seen) = Ids(jobs) /\ \A j \in Ids(Seen) : Seen[j] = jobs[j]
    BY IdleView DEF Quiet
  <1>2. /\ \A j : Joining(Seen, j) <=> Joining(jobs, j)
        /\ \A C : Waits(Seen, C) <=> Waits(jobs, C)
    <2>1. PICK v : v = Seen
      OBVIOUS
    <2> QED BY <1>1, <2>1, SameViews
  <1>3. /\ \A t \in JobIds \cup {0} : tasks[t] = 0
        /\ \A w \in Workers : loaded[w] = NoTask
        /\ \A j \in Ids(jobs) : j \in JobIds /\ j # 0
    BY ProcessorAssumption DEF Quiet, ProcessorInv, TaskInv, DataInv, Data, JobsOK
  <1>4. ~ Starting
    BY <1>3 DEF Starting
  <1>5. \A C : ~ Queued(jobs, tasks, loaded, C)
    BY <1>3 DEF Queued, NoTask
  <1>6. \A C : ~ Acts(stack, held, C)
    BY <1>1 DEF Acts
  <1>7. \A j, i : ~ Later(stack, j, i)
    BY <1>1 DEF Later, Calls
  <1> QED BY <1>1, <1>2, <1>4, <1>5, <1>6, <1>7 DEF Source

\* Whoever owes a branch has somebody in it who owes one, and so on; as the nodes
\* are finitely many, somebody in the end waits for a timer or a user.
LEMMA SomebodyAsks ==
  ASSUME Branched, ProcessorInv, RestInv, Quiet, exec = STARTED, crashes = 0
  PROVE  \E j \in Ids(jobs) : jobs[j].node \in Waiting /\ jobs[j].status = PENDING
  <1> SUFFICES ASSUME \A j \in Ids(jobs) : ~ (jobs[j].node \in Waiting /\ jobs[j].status = PENDING)
               PROVE  FALSE
    OBVIOUS
  <1> DEFINE P == {n \in Parallels : \E j \in Ids(jobs) : Joining(jobs, j) /\ jobs[j].node = n}
  <1>1. ASSUME NEW C, Source(C) PROVE \E n \in P : n \in C
    BY <1>1, QuietWaits DEF Waits, Asks, Joining
  <1>2. RootOK /\ BranchOK
    <2>1. Goes
      BY QuietWaits DEF Goes, Ending, At
    <2> QED BY <2>1 DEF RestInv, OwedInv
  <1>3. PICK r \in P : ParentOf[r] = NoNode
    BY <1>1, <1>2, QuietWaits DEF RootOK, MainLine
  <1>4. ASSUME NEW n \in P PROVE \E m \in P : ParentOf[m] = n
    <2>1. PICK j \in Ids(jobs) : Joining(jobs, j) /\ jobs[j].node = n
      OBVIOUS
    <2>2. Joining(Seen, j) /\ j \in Ids(Seen) /\ Seen[j].node = n
      BY <2>1, QuietWaits DEF Joining, Latest
    <2>3. Owes(j)
      BY <1>2, <2>2 DEF BranchOK
    <2>4. PICK i \in 1..Cardinality(Branches(n)) : Source(Chain(BranchNo(n, i))) \/ Later(stack, j, i)
      BY <2>2, <2>3 DEF Owes
    <2>5. PICK m \in P : m \in Chain(BranchNo(n, i))
      BY <1>1, <2>4, QuietWaits
    <2> QED BY <2>5, BranchFound
  <1>5. P \subseteq Nodes /\ IsFiniteSet(P)
    BY ProcessorAssumption, ShapeAssumption, FS_Subset
  <1> DEFINE f == [n \in P |-> CHOOSE m \in P : ParentOf[m] = n]
  <1>6. \A n \in P : f[n] \in P /\ ParentOf[f[n]] = n
    BY <1>4
  <1> HIDE DEF P
  <1>7. f \in Injection(P, P)
    <2>1. f \in [P -> P]
      BY <1>6
    <2> HIDE DEF f
    <2> QED BY <1>6, <2>1 DEF Injection, IsInjective
  <1>8. f \in Surjection(P, P)
    BY <1>5, <1>7, FS_Injection
  <1>9. PICK n \in P : f[n] = r
    BY <1>8 DEF Surjection
  <1> QED BY <1>3, <1>5, <1>6, <1>9, ProcessorAssumption

------------------------------------------------------------------------------
(* What a parallel node is told: one job after the other                   *)

\* Nodes of one branch, or of the main line, have the same lane.
Lane(n) == Line[n] \cap Starts

\* A job that the next node of its branch was run after, and one that ends it.
Passed(job) == job.status = RESOLVED /\ Downstream(job.node) # NoNode
Closes(job) == job.status < PENDING \/ (job.status = RESOLVED /\ Downstream(job.node) = NoNode)

\* The job is done with, and its node comes before n.
Precedes(job, n) == Passed(job) /\ job.node \in Line[n] \ {n}

\* In each branch the jobs v come one after the other, of which only the last one
\* is about to be looked at (a), and whoever runs (r) comes after all of them.
Ordered(v, a) ==
  \A i, j \in Ids(v) : i < j /\ Lane(v[i].node) = Lane(v[j].node) =>
    Precedes(v[i], v[j].node) /\ i \notin a
InFront(v, a, r) ==
  \A i \in Ids(v), n \in r : Lane(v[i].node) = Lane(n) => Precedes(v[i], n) /\ i \notin a

\* The result of job j knows which branches have ended, but for those of a, of
\* whose end the parallel node is still to be told.
Told(v, a, j) ==
  LET n == v[j].node
      r == v[j].result
  IN  /\ DOMAIN r = 1..Cardinality(Branches(n))
      /\ \A i \in DOMAIN r :
           r[i] \notin {Null, PENDING} <=>
             \E c \in Ids(v) : v[c].node \in Chain(BranchNo(n, i)) /\ Closes(v[c]) /\ c \notin a
Accurate(v, a) == \A j \in Ids(v) : v[j].node \in Parallels /\ v[j].status = PENDING => Told(v, a, j)

LEMMA PassedOpen ==
  ASSUME NEW job, Passed(job)
  PROVE  ~ Closes(job) /\ job.status # PENDING
  BY DEF Passed, Closes, PENDING, RESOLVED

\* The nodes of a branch have one lane, its first node.
LEMMA LaneOf ==
  ASSUME NEW p \in Parallels, NEW i \in 1..Cardinality(Branches(p)), NEW m \in Nodes
  PROVE  m \in Chain(BranchNo(p, i)) <=> Lane(m) = {BranchNo(p, i)}
  <1>1. PICK b : b = BranchNo(p, i) /\ b \in Starts
    BY BranchesCounted
  <1>2. m \in Chain(b) => Lane(m) = {b}
    BY <1>1, LineRises DEF Chain, Lane
  <1>3. Lane(m) = {b} => m \in Chain(b)
    BY DEF Chain, Lane
  <1> QED BY <1>1, <1>2, <1>3

\* What follows a node is in its lane, and after it.
LEMMA LaneGoesOn ==
  ASSUME NEW n \in Nodes, NEW d, d = Downstream(n), d # NoNode
  PROVE  /\ d \in Nodes /\ Lane(d) = Lane(n)
         /\ n \in Line[d] \ {d} /\ Line[n] \ {n} \subseteq Line[d] \ {d}
  <1>1. d \in Nodes /\ Upstream[d] = n /\ d \notin Starts
    BY DownstreamTyped DEF Starts
  <1>2. \A x \in Nodes : Line[x] = Up(x, Starts)
    BY DEF Line
  <1>3. /\ n \in Line[n] /\ d \in Line[d] /\ Line[n] \subseteq Nodes /\ Line[d] \subseteq Nodes
        /\ \A x \in Line[n] \ Starts : Upstream[x] \in Line[n] \cup {NoNode}
        /\ \A x \in Line[d] \ Starts : Upstream[x] \in Line[d] \cup {NoNode}
    BY <1>1, <1>2, UpClosed
  <1>4. n \in Line[d]
    BY <1>1, <1>3, ProcessorAssumption
  <1>5. Line[d] \subseteq {d} \cup Line[n]
    <2> DEFINE set == {d} \cup Line[n]
    <2>1. set \in SUBSET Nodes /\ d \in set /\ \A x \in set \ Starts : Upstream[x] \in set \cup {NoNode}
      BY <1>1, <1>3
    <2> HIDE DEF set
    <2>2. Up(d, Starts) \subseteq set
      BY <1>1, <2>1, UpLeast
    <2> QED BY <1>1, <1>2, <2>2 DEF set
  <1>6. Line[n] \subseteq Line[d]
    <2>1. Line[d] \in SUBSET Nodes
      BY <1>3
    <2>2. Up(n, Starts) \subseteq Line[d]
      BY <1>3, <1>4, <2>1, UpLeast
    <2> QED BY <1>2, <2>2
  <1>7. d \notin Line[n]
    <2> SUFFICES ASSUME d \in Line[n] PROVE FALSE
      OBVIOUS
    <2> DEFINE S == {x \in Line[n] : d \in Line[x]}
    <2>1. S \in SUBSET Nodes /\ n \in S
      BY <1>3
    <2>2. PICK x \in S : Upstream[x] \notin S
      <3> HIDE DEF S
      <3> QED BY <2>1, TreeAssumption
    <2>3. x \in Nodes /\ x \in Line[n] /\ d \in Line[x] /\ x # d
      BY <1>1, <1>3, <2>1, <2>2
    <2>4. /\ Line[x] = Up(x, Starts)
          /\ x \in Starts \/ Upstream[x] = NoNode => {x} \in SUBSET Nodes /\ Up(x, Starts) \subseteq {x}
      <3>1. {x} \in SUBSET Nodes
        BY <2>3
      <3>2. ASSUME x \in Starts \/ Upstream[x] = NoNode PROVE Up(x, Starts) \subseteq {x}
        <4>1. \A y \in {x} \ Starts : Upstream[y] \in {x} \cup {NoNode}
          BY <3>2
        <4> QED BY <2>3, <3>1, <4>1, UpLeast
      <3> QED BY <1>2, <2>3, <3>1, <3>2
    <2>5. x \notin Starts /\ Upstream[x] # NoNode
      BY <2>3, <2>4
    <2>6. PICK y : y = Upstream[x] /\ y \in Line[n] /\ y \in Nodes
      BY <1>3, <2>3, <2>5
    <2>7. Line[x] \subseteq {x} \cup Line[y]
      <3> DEFINE set == {x} \cup Line[y]
      <3>1. set \in SUBSET Nodes /\ x \in set
        BY <1>2, <2>3, <2>6, UpClosed
      <3>2. \A z \in set \ Starts : Upstream[z] \in set \cup {NoNode}
        BY <1>2, <2>6, UpClosed
      <3> HIDE DEF set
      <3>3. Up(x, Starts) \subseteq set
        BY <2>3, <3>1, <3>2, UpLeast
      <3> QED BY <2>4, <3>3 DEF set
    <2> QED BY <2>2, <2>3, <2>6, <2>7
  <1> QED BY <1>1, <1>3, <1>4, <1>5, <1>6, <1>7 DEF Lane

\* Job x is written, as the last one of its branch: what follows it is run, or
\* its parallel node will be told, or it has not ended the branch.
Writes(v, w, x, job, n, a, b, r) ==
  /\ job.node = n
  /\ Ids(w) = Ids(v) \cup {x} /\ w[x] = job /\ \A i \in Ids(v) \ {x} : w[i] = v[i]
  /\ \A i \in Ids(v) : i \in Nat /\ v[i].node \in Nodes
  /\ Ordered(v, a)
  /\ \A j \in Ids(v) \ {x} : v[j].node \in Parallels /\ v[j].status = PENDING => Told(v, a, j)
  /\ x \in Ids(v) => v[x].node = n /\ (x \in a \/ ~ Closes(v[x]))
  /\ \A i \in Ids(v) \ {x} : Lane(v[i].node) = Lane(n) => i < x /\ Precedes(v[i], n) /\ i \notin a
  /\ \A i \in Ids(v) \ {x} : i \in b <=> i \in a
  /\ \/ r = {} /\ (x \in b \/ ~ Closes(job))
     \/ Passed(job) /\ r = {Downstream(n)} /\ x \notin b
  /\ n \in Parallels /\ job.status = PENDING => Told(w, b, x)

LEMMA MovesOn ==
  ASSUME NEW v, NEW w, NEW x \in Nat, NEW job, NEW n \in Nodes, NEW a, NEW b, NEW r,
         Writes(v, w, x, job, n, a, b, r)
  PROVE  Ordered(w, b) /\ InFront(w, b, r) /\ Accurate(w, b)
  <1> USE DEF Writes
  <1>1. Ordered(w, b)
    <2> SUFFICES ASSUME NEW i \in Ids(w), NEW j \in Ids(w), i < j, Lane(w[i].node) = Lane(w[j].node)
                 PROVE  Precedes(w[i], w[j].node) /\ i \notin b
      BY DEF Ordered
    <2>1. CASE i # x /\ j # x
      BY <2>1 DEF Ordered
    <2>2. CASE j = x
      BY <2>2
    <2>3. CASE i = x /\ j # x
      BY <2>3
    <2> QED BY <2>1, <2>2, <2>3
  <1>2. InFront(w, b, r)
    <2> SUFFICES ASSUME NEW i \in Ids(w), Passed(job), x \notin b, Downstream(n) # NoNode,
                        Lane(w[i].node) = Lane(Downstream(n))
                 PROVE  Precedes(w[i], Downstream(n)) /\ i \notin b
      BY DEF InFront, Passed
    <2>1. PICK d : d = Downstream(n)
      OBVIOUS
    <2>2. Lane(d) = Lane(n) /\ n \in Line[d] \ {d} /\ Line[n] \ {n} \subseteq Line[d] \ {d}
      BY <2>1, LaneGoesOn
    <2>3. CASE i = x
      BY <2>1, <2>2, <2>3 DEF Precedes
    <2>4. CASE i # x
      <3>1. i \in Ids(v) \ {x} /\ w[i] = v[i] /\ Lane(v[i].node) = Lane(n)
        BY <2>1, <2>2, <2>4
      <3> QED BY <2>1, <2>2, <3>1 DEF Precedes
    <2> QED BY <2>3, <2>4
  <1>3. ASSUME NEW j \in Ids(v) \ {x}, v[j].node \in Parallels, v[j].status = PENDING
        PROVE  Told(w, b, j)
    <2>1. PICK p, q : p = v[j].node /\ q = v[j].result
      OBVIOUS
    <2>2. Told(v, a, j) /\ w[j] = v[j]
      BY <1>3
    <2>3. DOMAIN q = 1..Cardinality(Branches(p))
      BY <2>1, <2>2 DEF Told
    <2>4. ASSUME NEW i \in DOMAIN q, NEW C, C = Chain(BranchNo(p, i))
          PROVE  (\E c \in Ids(v) : v[c].node \in C /\ Closes(v[c]) /\ c \notin a)
                   <=> \E c \in Ids(w) : w[c].node \in C /\ Closes(w[c]) /\ c \notin b
      <3>1. CASE n \notin C
        BY <2>4, <3>1
      <3>2. CASE n \in C
        <4>1. \A m \in Nodes : m \in C => Lane(m) = Lane(n)
          <5>1. p \in Parallels /\ i \in 1..Cardinality(Branches(p))
            BY <1>3, <2>1, <2>3
          <5>2. \A m \in Nodes : m \in C <=> Lane(m) = {BranchNo(p, i)}
            BY <2>4, <5>1, LaneOf
          <5> QED BY <3>2, <5>2
        <4>2. \A c \in Ids(v) \ {x} : v[c].node \in C => ~ Closes(v[c])
          BY <4>1, PassedOpen DEF Precedes
        <4>3. x \in b \/ ~ Closes(job)
          BY PassedOpen
        <4> QED BY <4>2, <4>3
      <3> QED BY <3>1, <3>2
    <2> HIDE DEF Closes
    <2> QED BY <2>1, <2>2, <2>3, <2>4 DEF Told
  <1>4. Accurate(w, b)
    BY <1>3 DEF Accurate
  <1> QED BY <1>1, <1>2, <1>4

------------------------------------------------------------------------------
(* Who is about to look at a job                                           *)

\* The tasks that are queued or loaded, the job that is resumed, the node that runs.
Has(w, t) == loaded[w] # NoTask /\ loaded[w].job = t
Tasked    == {t \in JobIds \cup {0} : tasks[t] > 0 \/ \E w \in Workers : Has(w, t)}
Resumed   == IF At("resume") THEN {Top.job} ELSE {}
Running   == IF At("run") \/ At("called") THEN {Top.node} ELSE {}
Active    == Tasked \cup Resumed

ChainsOK == Ordered(Seen, Active) /\ InFront(Seen, Active, Running) /\ Accurate(Seen, Active)

\* No job was resumed twice.
Once == \A j \in JobIds : poked[j] <= 1

\* So there is one task for a job at most, with the job's status, and none for
\* those the processor works on; and a waiting job without one is pending.
TasksOK ==
  /\ \A t \in JobIds \cup {0} :
       /\ tasks[t] <= 1
       /\ \A w \in Workers : Has(w, t) => tasks[t] = 0 /\ \A u \in Workers : Has(u, t) => u = w
  /\ \A w \in Workers : \A j \in JobIds : Has(w, j) => loaded[w].status = jobs[j].status
  /\ Tasked \cap (Resumed \cup unsaved) = {}
  /\ 0 \in Tasked => Ids(Seen) = {} /\ (stack = <<>> \/ At("prepare"))
WokenOK ==
  \A j \in Ids(Seen) : Seen[j].node \in Waiting =>
    \/ poked[j] >= 1
    \/ Seen[j].status = PENDING /\ j \notin Tasked /\ ~ (At("resume") /\ Top.job = j /\ Top.node \in Waiting)

\* The awaited calls of parallel nodes: each is about a job of its own, the
\* branch before the next one has begun, and nobody is in those to come.
Distinct(s) ==
  \A p, q \in 1..Len(s) : s[p].op = "branches" /\ s[q].op = "branches" /\ s[p].job = s[q].job => p = q
Begun(s, h, r) ==
  \A f \in Calls(s) : f.op = "branches" /\ f.k > 1 =>
    (\E l \in Ids(h) : h[l].node \in Before(f)) \/ r \cap Before(f) # {}
Reached(v, r) == r \cup {v[c].node : c \in Ids(v)}
Untouched(s, v, r) ==
  \A f \in Calls(s) : f.op = "branches" =>
    \A i \in 1..Cardinality(Branches(f.node)) : f.k <= i =>
      Reached(v, r) \cap Chain(BranchNo(f.node, i)) = {}
CallsOK == Distinct(stack) /\ Begun(stack, held, Running) /\ Untouched(stack, Seen, Running)

\* A parallel node is told of a job that ends a branch, or waits, and is not
\* saved yet; the rows of the jobs that the processor has are as it read them.
ReturnOK == At("resume") /\ Top.node \in Parallels =>
              /\ Top.job \in unsaved
              /\ held[Top.job].status = RESOLVED => Downstream(held[Top.job].node) = NoNode
TableOK  == holder # NoWorker /\ ~ At("prepare") => \A j \in Ids(held) \cap Ids(jobs) : jobs[j] = base[j]

ThreadOK  == ChainsOK /\ TasksOK /\ WokenOK /\ CallsOK /\ ReturnOK /\ TableOK
ThreadInv == poked \in [JobIds -> Nat] /\ (Goes /\ Once => ThreadOK)

------------------------------------------------------------------------------
(* The awaited branches: each of a parallel job of its own                  *)

LEMMA DistinctReplaced ==
  ASSUME NEW s, NEW h, StackOK(s, h), s # <<>>, Distinct(s), NEW f,
         f.op = "branches" => \A g \in Calls(Tail(s)) : g.job # f.job
  PROVE  Distinct(<<f>> \o Tail(s))
  <1> DEFINE r == <<f>> \o Tail(s)
             u == Tail(s)
  <1>1. s \in Seq(Frames) /\ Len(s) \in Nat /\ Len(s) > 0
    BY DEF StackOK
  <1>2. /\ Len(r) = Len(s) /\ r[1] = f /\ \A p \in 2..Len(s) : r[p] = s[p]
        /\ Len(u) = Len(s) - 1 /\ \A p \in 2..Len(s) : s[p] = u[p - 1] /\ p - 1 \in 1..Len(u)
    BY <1>1
  <1> HIDE DEF r, u
  <1>3. \A p \in 2..Len(s) : r[p] \in Calls(u)
    BY <1>2 DEF Calls
  <1>4. f.op = "branches" => \A p \in 2..Len(s) : r[p].job # f.job
    BY <1>3 DEF u
  <1>5. ASSUME NEW p \in 1..Len(s), NEW q \in 1..Len(s),
               r[p].op = "branches" /\ r[q].op = "branches" /\ r[p].job = r[q].job
        PROVE  p = q
    <2>1. CASE p = 1 \/ q = 1
      BY <1>1, <1>2, <1>4, <1>5, <2>1
    <2>2. CASE p \in 2..Len(s) /\ q \in 2..Len(s)
      BY <1>2, <1>5, <2>2 DEF Distinct
    <2> QED BY <1>1, <2>1, <2>2
  <1>6. Distinct(r)
    BY <1>2, <1>5 DEF Distinct
  <1> QED BY <1>6 DEF r

LEMMA DistinctPopped ==
  ASSUME NEW s, NEW h, StackOK(s, h), s # <<>>, Distinct(s)
  PROVE  /\ Distinct(Tail(s))
         /\ Head(s).op = "branches" => \A g \in Calls(Tail(s)) : g.op = "branches" => g.job # Head(s).job
  <1> DEFINE u == Tail(s)
  <1>1. s \in Seq(Frames) /\ Len(s) \in Nat /\ Len(s) > 0
    BY DEF StackOK
  <1>2. Len(u) = Len(s) - 1 /\ Head(s) = s[1] /\ \A p \in 1..Len(u) : u[p] = s[p + 1] /\ p + 1 \in 1..Len(s)
    BY <1>1
  <1> HIDE DEF u
  <1>3. Distinct(u)
    <2> SUFFICES ASSUME NEW p \in 1..Len(u), NEW q \in 1..Len(u),
                        u[p].op = "branches" /\ u[q].op = "branches" /\ u[p].job = u[q].job
                 PROVE  p = q
      BY DEF Distinct
    <2>1. p + 1 = q + 1
      BY <1>2 DEF Distinct
    <2> QED BY <1>1, <1>2, <2>1
  <1>4. Head(s).op = "branches" => \A p \in 1..Len(u) : u[p].op = "branches" => u[p].job # Head(s).job
    <2> SUFFICES ASSUME Head(s).op = "branches", NEW p \in 1..Len(u), u[p].op = "branches", u[p].job = Head(s).job
                 PROVE  FALSE
      OBVIOUS
    <2>1. p + 1 = 1
      BY <1>1, <1>2 DEF Distinct
    <2> QED BY <1>1, <1>2, <2>1
  <1>5. \A g \in Calls(u) : \E p \in 1..Len(u) : g = u[p]
    BY DEF Calls
  <1> QED BY <1>3, <1>4, <1>5 DEF u

LEMMA DistinctPushed ==
  ASSUME NEW s, NEW h, StackOK(s, h), s # <<>>, Distinct(s), Head(s).op = "branches",
         NEW f, f.op # "branches", NEW e, e.job = Head(s).job
  PROVE  Distinct(<<f, e>> \o Tail(s))
  <1> DEFINE r == <<f, e>> \o Tail(s)
  <1>1. s \in Seq(Frames) /\ Len(s) \in Nat /\ Len(s) > 0
    BY DEF StackOK
  <1>2. /\ Len(r) = Len(s) + 1 /\ r[1] = f /\ r[2] = e /\ Head(s) = s[1]
        /\ \A p \in 3..Len(r) : r[p] = s[p - 1] /\ p - 1 \in 1..Len(s)
    BY <1>1
  <1> HIDE DEF r
  <1>3. \A p \in 2..Len(r) : p - 1 \in 1..Len(s) /\ r[p].job = s[p - 1].job /\ (r[p].op = "branches" => s[p - 1].op = "branches")
    <2> TAKE p \in 2..Len(r)
    <2>1. CASE p = 2
      BY <1>1, <1>2, <2>1
    <2>2. CASE p \in 3..Len(r)
      BY <1>2, <2>2
    <2> QED BY <1>1, <1>2, <2>1, <2>2
  <1>4. ASSUME NEW p \in 1..Len(r), NEW q \in 1..Len(r),
               r[p].op = "branches" /\ r[q].op = "branches" /\ r[p].job = r[q].job
        PROVE  p = q
    <2>1. p # 1 /\ q # 1
      BY <1>2, <1>4
    <2>2. p \in 2..Len(r) /\ q \in 2..Len(r)
      BY <1>1, <1>2, <2>1
    <2>3. p - 1 = q - 1
      BY <1>3, <1>4, <2>2 DEF Distinct
    <2> QED BY <1>1, <1>2, <2>2, <2>3
  <1>5. Distinct(r)
    BY <1>4 DEF Distinct
  <1> QED BY <1>5 DEF r

------------------------------------------------------------------------------
(* The result is accurate: the processor goes through a branch              *)

LEMMA TopActs ==
  ASSUME NEW f, stack' # <<>>, Head(stack') = f
  PROVE  /\ Running' = IF f.op \in {"run", "called"} THEN {f.node} ELSE {}
         /\ Resumed' = IF f.op = "resume" THEN {f.job} ELSE {}
         /\ \A op : At(op)' <=> f.op = op
  BY DEF Running, Resumed, At, Top

LEMMA SameTasks ==
  ASSUME UNCHANGED <<tasks, loaded>>
  PROVE  Tasked' = Tasked /\ \A w, t : Has(w, t)' <=> Has(w, t)
  BY DEF Tasked, Has

\* The call at the top has to do with job x of node n; it goes on with what
\* follows n, or leaves the node.
LEMMA MovedCalls ==
  ASSUME ProcessorInv, stack # <<>>, CallsOK, NEW n \in Nodes, NEW x, NEW f, stack' = <<f>> \o Tail(stack),
         NEW v, v = Seen, NEW w, w = Seen', NEW g, g = held',
         Ids(w) = Ids(v) \cup {x}, w[x].node = n, \A i \in Ids(v) : w[i].node = v[i].node,
         Ids(g) = Ids(held) \cup {x}, g[x].node = n, \A i \in Ids(held) : g[i].node = held[i].node,
         n \in Reached(v, Running), Running \subseteq {n},
         f.op \in {"run", "called"} => f.node = Downstream(n) /\ f.node # NoNode,
         f.op = "branches" => /\ f.k = 1 /\ f.job = x /\ x \notin Ids(held) /\ f.node = n
                              /\ \A i \in 1..Cardinality(Branches(n)) : \A c \in Ids(w) :
                                   w[c].node \notin Chain(BranchNo(n, i))
  PROVE  CallsOK'
  <1>1. PICK s, r : s = stack' /\ r = Running'
    OBVIOUS
  <1>2. /\ s # <<>> /\ Head(s) = f /\ Calls(s) = {f} \cup Calls(Tail(stack))
        /\ Calls(stack) = {Top} \cup Calls(Tail(stack))
    BY <1>1, CallReplaced
  <1>3. r = IF f.op \in {"run", "called"} THEN {f.node} ELSE {}
    BY <1>1, <1>2, TopActs
  <1>4. StackOK(stack, held) /\ \A e \in Calls(stack) : e.op = "branches" => e.node \in Parallels /\ e.job \in Ids(held)
    <2>1. StackOK(stack, held)
      BY DEF ProcessorInv, StackInv
    <2> QED BY <2>1, CallsOf DEF FrameOK
  <1>5. \A e \in Calls(Tail(stack)) : e \in Calls(stack) /\ e.op = "branches"
    <2>1. \A e \in Calls(Tail(stack)) : e.op = "branches"
      BY <1>4, CallsOf
    <2> QED BY <1>2, <2>1
  <1>6. Distinct(s)
    <2>1. f.op = "branches" => \A e \in Calls(Tail(stack)) : e.job # f.job
      BY <1>4, <1>5
    <2> QED BY <1>1, <1>4, <2>1, DistinctReplaced DEF CallsOK
  <1>7. Begun(s, g, r)
    <2> SUFFICES ASSUME NEW e \in Calls(s), e.op = "branches", e.k > 1
                 PROVE  (\E l \in Ids(g) : g[l].node \in Before(e))
      BY DEF Begun
    <2>1. e \in Calls(stack)
      BY <1>2, <1>5
    <2>2. PICK B : B = Before(e)
      OBVIOUS
    <2>3. (\E l \in Ids(held) : held[l].node \in B) \/ Running \cap B # {}
      BY <2>1, <2>2 DEF CallsOK, Begun
    <2> QED BY <2>2, <2>3
  <1>8. Untouched(s, w, r)
    <2> SUFFICES ASSUME NEW e \in Calls(s), e.op = "branches",
                        NEW i \in 1..Cardinality(Branches(e.node)), e.k <= i,
                        NEW C, C = Chain(BranchNo(e.node, i))
                 PROVE  Reached(w, r) \cap C = {}
      BY DEF Untouched
    <2>1. CASE e = f
      BY <1>3, <2>1 DEF Reached
    <2>2. CASE e \in Calls(Tail(stack))
      <3>1. Reached(v, Running) \cap C = {} /\ e.node \in Parallels
        BY <1>4, <1>5, <2>2 DEF CallsOK, Untouched
      <3>2. n \notin C /\ \A c \in Ids(w) : w[c].node \notin C
        BY <3>1 DEF Reached
      <3>3. ASSUME NEW d \in r PROVE d \notin C
        <4>1. d = Downstream(n) /\ d # NoNode
          BY <1>3, <3>3
        <4>2. d \in Nodes /\ Lane(d) = Lane(n)
          BY <4>1, LaneGoesOn
        <4> QED BY <3>1, <3>2, <4>2, LaneOf
      <3> QED BY <3>2, <3>3 DEF Reached
    <2> QED BY <1>2, <2>1, <2>2
  <1> QED BY <1>1, <1>6, <1>7, <1>8 DEF CallsOK

\* Where a step leaves job x and its node n: it goes on with the next node, tells
\* the parallel node, calls the branches, or does not end the branch.
Leads(f, n, x, job) ==
  \/ f.op = "run" /\ f.node = Downstream(n) /\ Passed(job)
  \/ f.op = "resume" /\ f.job = x /\ f.node \in Parallels /\ (job.status = RESOLVED => Downstream(n) = NoNode)
     /\ (n \in Parallels => job.status # PENDING)
  \/ f.op \in {"exit", "branches"} /\ ~ Closes(job)

\* Job x is the last one of its branch, and its end was not told yet.
LastOne(v, w, a, x, job, n) ==
  /\ a \subseteq Active
  /\ \A j \in Ids(v) \ {x} : v[j].node \in Parallels /\ v[j].status = PENDING => Told(v, a, j)
  /\ x \in Ids(v) => x \in a \/ ~ Closes(v[x])
  /\ \A i \in Ids(v) \ {x} : i \in a <=> i \in Tasked
  /\ \A i \in Ids(v) \ {x} : Lane(v[i].node) = Lane(n) => i < x /\ Precedes(v[i], n) /\ i \notin a
  /\ n \in Parallels /\ job.status = PENDING => Told(w, Tasked, x)
  /\ n \in Waiting /\ job.status # PENDING => poked[x] >= 1
  /\ n \in Reached(v, Running) /\ Running \subseteq {n}

\* The call of the branches is about a job that is new, as are the branches.
Calling(w, x, n, f) ==
  f.op = "branches" => /\ f.k = 1 /\ f.job = x /\ x \notin Ids(held) /\ f.node = n
                       /\ \A i \in 1..Cardinality(Branches(n)) : \A c \in Ids(w) :
                            w[c].node \notin Chain(BranchNo(n, i))

LEMMA Moved ==
  ASSUME ProcessorInv, ThreadOK, stack # <<>>, ~ At("prepare"),
         NEW x \in Nat, NEW job, NEW n \in Nodes, job.node = n,
         held' = With(held, x, job), unsaved' = unsaved \cup {x},
         UNCHANGED <<jobs, tasks, loaded, poked, holder, base>>,
         x \in Ids(held) => held[x].node = n, x \in Ids(jobs) => x \in Ids(held), x \notin Tasked,
         NEW f, stack' = <<f>> \o Tail(stack), Leads(f, n, x, job),
         NEW v, v = Seen, NEW w, w = Seen', NEW a, LastOne(v, w, a, x, job, n), Calling(w, x, n, f)
  PROVE  ThreadOK'
  <1> USE DEF LastOne, Calling
  <1>1. /\ Ids(w) = Ids(v) \cup {x} /\ w[x] = job /\ \A i \in Ids(v) \ {x} : w[i] = v[i]
        /\ Ids(held') = Ids(held) \cup {x} /\ held'[x] = job /\ \A i \in Ids(held) \ {x} : held'[i] = held[i]
        /\ \A i \in Ids(v) : w[i].node = v[i].node
        /\ \A i \in Ids(held) : i \in Ids(v) /\ v[i].node = held[i].node
        /\ \A i \in Ids(v) : v[i] \in Job /\ i \in Nat
        /\ Ids(v) = Ids(jobs) \cup unsaved
    BY SeenWith
  <1>2. stack' # <<>> /\ Head(stack') = f
    BY CallReplaced
  <1>3. /\ Running' = IF f.op \in {"run", "called"} THEN {f.node} ELSE {}
        /\ Resumed' = IF f.op = "resume" THEN {f.job} ELSE {}
        /\ \A op : At(op)' <=> f.op = op
    BY <1>2, TopActs
  <1>4. Tasked' = Tasked /\ \A u, t : Has(u, t)' <=> Has(u, t)
    BY SameTasks
  <1>5. unsaved \subseteq Ids(held)
    BY DEF ProcessorInv, DataInv, Data, Objects
  <1>6. x \in Ids(v) => v[x].node = n
    BY <1>1, <1>5
  <1>7. PICK b, r, g : b = Active' /\ r = Running' /\ g = held'
    OBVIOUS
  <1>8. b = Tasked \cup (IF f.op = "resume" THEN {f.job} ELSE {})
    BY <1>3, <1>4, <1>7 DEF Active
  <1>9. ChainsOK'
    <2>1. Ordered(v, a)
      BY DEF ThreadOK, ChainsOK, Ordered
    <2>2. \A i \in Ids(v) : i \in Nat /\ v[i].node \in Nodes
      BY <1>1 DEF Job
    <2>3. \A i \in Ids(v) \ {x} : i \in b <=> i \in a
      BY <1>8 DEF Leads
    <2>4. \/ r = {} /\ (x \in b \/ ~ Closes(job))
          \/ Passed(job) /\ r = {Downstream(n)} /\ x \notin b
      BY <1>3, <1>7, <1>8 DEF Leads
    <2>5. n \in Parallels /\ job.status = PENDING => Told(w, b, x)
      <3> SUFFICES ASSUME n \in Parallels, job.status = PENDING PROVE Told(w, b, x)
        OBVIOUS
      <3>1. f.op # "resume"
        BY DEF Leads
      <3>2. b = Tasked
        BY <1>8, <3>1
      <3> QED BY <3>2
    <2>6. x \in Ids(v) => v[x].node = n /\ (x \in a \/ ~ Closes(v[x]))
      BY <1>6
    <2>7. Ids(w) = Ids(v) \cup {x} /\ w[x] = job /\ \A i \in Ids(v) \ {x} : w[i] = v[i]
      BY <1>1
    <2>8. Writes(v, w, x, job, n, a, b, r)
      BY <2>1, <2>2, <2>3, <2>4, <2>5, <2>6, <2>7 DEF Writes
    <2>9. Ordered(w, b) /\ InFront(w, b, r) /\ Accurate(w, b)
      BY <2>8, MovesOn
    <2> QED BY <1>7, <2>9 DEF ChainsOK
  <1>10. TasksOK'
    <2>1. 0 \notin Tasked
      BY DEF ThreadOK, TasksOK
    <2>2. Tasked \cap (Resumed' \cup unsaved') = {}
      BY <1>3 DEF ThreadOK, TasksOK, Leads
    <2> QED BY <1>4, <2>1, <2>2 DEF ThreadOK, TasksOK
  <1>11. WokenOK'
    <2> SUFFICES ASSUME NEW j \in Ids(w), w[j].node \in Waiting
                 PROVE  \/ poked[j] >= 1
                        \/ w[j].status = PENDING /\ j \notin Tasked
                           /\ ~ (At("resume")' /\ Head(stack').job = j /\ Head(stack').node \in Waiting)
      BY <1>4 DEF WokenOK, Top
    <2>1. At("resume")' => Head(stack').job = x /\ Head(stack').node \notin Waiting
      BY <1>2, <1>3, ProcessorAssumption DEF Leads
    <2>2. CASE j = x
      BY <1>1, <2>1, <2>2
    <2>3. CASE j # x
      <3>1. j \in Ids(v) /\ w[j] = v[j]
        BY <1>1, <2>3
      <3> QED BY <2>1, <3>1 DEF ThreadOK, WokenOK
    <2> QED BY <2>2, <2>3
  <1>12. CallsOK'
    <2>1. f.op \in {"run", "called"} => f.node = Downstream(n) /\ f.node # NoNode
      BY DEF Leads, Passed
    <2>2. CallsOK
      BY DEF ThreadOK
    <2>3. /\ Ids(w) = Ids(v) \cup {x} /\ w[x].node = n /\ \A i \in Ids(v) : w[i].node = v[i].node
          /\ Ids(g) = Ids(held) \cup {x} /\ g[x].node = n /\ \A i \in Ids(held) : g[i].node = held[i].node
      BY <1>1, <1>7
    <2> QED BY <1>7, <2>1, <2>2, <2>3, MovedCalls
  <1>13. ReturnOK'
    <2> SUFFICES ASSUME f.op = "resume"
                 PROVE  x \in unsaved' /\ (held'[x].status = RESOLVED => Downstream(held'[x].node) = NoNode)
                        /\ f.job = x
      BY <1>2, <1>3 DEF ReturnOK, Top
    <2> QED BY <1>1 DEF Leads
  <1>14. TableOK'
    <2>1. \A j \in Ids(held) \cap Ids(jobs) : holder # NoWorker => jobs[j] = base[j]
      BY DEF ThreadOK, TableOK
    <2> QED BY <1>1, <2>1 DEF TableOK
  <1> QED BY <1>9, <1>10, <1>11, <1>12, <1>13, <1>14 DEF ThreadOK

LEMMA AfterJobLeads ==
  ASSUME ProcessorInv, stack # <<>>, NEW n \in Nodes, NEW k, NEW job, job.node = n, job.status \in Statuses,
         AfterJob(n, k, job.status), Goes', n \in Parallels => job.status # PENDING
  PROVE  \E f : stack' = <<f>> \o Tail(stack) /\ Leads(f, n, k, job) /\ f.op \in {"run", "resume", "exit"}
  <1> DEFINE s == job.status
  <1>1. PICK f : /\ stack' = <<f>> \o Tail(stack)
                 /\ f = IF copy = ABORTED \/ signal THEN Exit(ABORTED)
                        ELSE IF s = RESOLVED /\ Downstream(n) # NoNode THEN Run(Downstream(n), k)
                        ELSE IF ParentOf[n] # NoNode THEN Resume(ParentOf[n], k)
                        ELSE Exit(s)
    BY DEF AfterJob, Replace
  <1>2. stack' # <<>> /\ Head(stack') = f
    BY <1>1, CallReplaced
  <1>3. \A t : f = Exit(t) => t \in {Null, PENDING}
    BY <1>2 DEF Goes, Ending, At, Top, Exit, Frame
  <1>4. ABORTED \notin {Null, PENDING} /\ RESOLVED \notin {Null, PENDING} /\ Null \notin Statuses
    BY DEF ABORTED, Null, PENDING, Statuses, RESOLVED, FAILED
  <1>5. /\ \A m, j : Run(m, j).op = "run" /\ Run(m, j).node = m
        /\ \A m, j : Resume(m, j).op = "resume" /\ Resume(m, j).node = m /\ Resume(m, j).job = j
        /\ \A t : Exit(t).op = "exit"
    BY DEF Run, Resume, Exit, Frame
  <1>6. CASE s = RESOLVED /\ Downstream(n) # NoNode
    <2>1. f = Run(Downstream(n), k)
      BY <1>1, <1>3, <1>4, <1>6
    <2>2. f.op = "run" /\ f.node = Downstream(n)
      BY <1>5, <2>1
    <2>3. Passed(job)
      BY <1>6 DEF Passed
    <2> QED BY <1>1, <2>2, <2>3 DEF Leads
  <1>7. CASE ~ (s = RESOLVED /\ Downstream(n) # NoNode) /\ ParentOf[n] # NoNode
    <2>1. f = Resume(ParentOf[n], k) /\ ParentOf[n] \in Parallels
      BY <1>1, <1>3, <1>4, <1>7, Parents
    <2>2. f.op = "resume" /\ f.node \in Parallels /\ f.job = k
      BY <1>5, <2>1
    <2>3. job.status = RESOLVED => Downstream(n) = NoNode
      BY <1>7
    <2> QED BY <1>1, <2>2, <2>3 DEF Leads
  <1>8. CASE ~ (s = RESOLVED /\ Downstream(n) # NoNode) /\ ParentOf[n] = NoNode
    <2>1. f = Exit(s) /\ s = PENDING
      BY <1>1, <1>3, <1>4, <1>8
    <2>2. ~ Closes(job)
      BY <2>1 DEF Closes, PENDING, RESOLVED
    <2> QED BY <1>1, <1>5, <2>1, <2>2 DEF Leads
  <1> QED BY <1>6, <1>7, <1>8

\* Tasks are about jobs of the table.
LEMMA TaskedKnown ==
  ASSUME ProcessorInv
  PROVE  \A t \in Tasked : t = 0 \/ (t \in Ids(jobs) /\ jobs[t].node \in Waiting)
  BY DEF ProcessorInv, TaskInv, Tasked, Has, Wakes

\* A node has run: its job is new.
LEMMA Ran ==
  ASSUME ProcessorInv, ThreadOK, At("called"),
         NEW n, n = Top.node, NEW k, k = nextId + 1, NEW job, job.node = n,
         held' = With(held, k, job), unsaved' = unsaved \cup {k},
         UNCHANGED <<jobs, tasks, loaded, poked, holder, base>>,
         NEW f, stack' = <<f>> \o Tail(stack), Leads(f, n, k, job), NEW w, w = Seen',
         n \in Waiting => job.status = PENDING,
         n \in Parallels /\ job.status = PENDING => Told(w, Tasked, k),
         Calling(w, k, n, f)
  PROVE  ThreadOK'
  <1>1. stack # <<>> /\ n \in Nodes /\ ~ At("prepare")
    BY TopKnown DEF FrameOK, At
  <1>2. PICK v, a : v = Seen /\ a = Tasked
    OBVIOUS
  <1>3. Running = {n} /\ Active = a
    BY <1>2 DEF Running, Active, Resumed, At
  <1>4. k \in Nat /\ (\A i \in Ids(v) : i < k) /\ k \notin Ids(held) /\ k \notin Ids(jobs)
    BY <1>2, NewestId
  <1>5. k \notin Tasked
    <2>1. k # 0
      BY NewestId
    <2> QED BY <1>4, <2>1, TaskedKnown
  <1>6. k \notin Ids(v)
    BY <1>4
  <1>7. /\ \A j \in Ids(v) \ {k} : v[j].node \in Parallels /\ v[j].status = PENDING => Told(v, a, j)
        /\ \A i \in Ids(v) \ {k} : Lane(v[i].node) = Lane(n) => i < k /\ Precedes(v[i], n) /\ i \notin a
    BY <1>2, <1>3, <1>4 DEF ThreadOK, ChainsOK, Accurate, InFront
  <1>8. LastOne(v, w, a, k, job, n)
    BY <1>2, <1>3, <1>6, <1>7 DEF LastOne, Reached
  <1> QED BY <1>1, <1>2, <1>4, <1>5, <1>8, Moved

LEMMA RunNodeThread == ASSUME ProcessorInv, ThreadOK, Goes', RunNode PROVE ThreadOK'
  <1>1. PICK s \in {RESOLVED, FAILED} \cup (IF signal THEN {ABORTED} ELSE {}) :
          NewJob(Top.node, s, <<>>) /\ AfterJob(Top.node, nextId + 1, s)
    BY DEF RunNode
  <1>2. /\ At("called") /\ stack # <<>> /\ Top.node \notin Parallels /\ Top.node \notin Waiting
        /\ UNCHANGED <<jobs, tasks, loaded, poked, holder, base>>
    BY DEF RunNode, Called, At, queueVars, ghostVars
  <1>3. PICK n, k, job : n = Top.node /\ k = nextId + 1 /\ job = [node |-> n, status |-> s, result |-> <<>>]
    OBVIOUS
  <1>4. n \in Nodes /\ n \notin Parallels /\ n \notin Waiting
    BY <1>2, <1>3, TopKnown DEF FrameOK, At
  <1>5. job.node = n /\ job.status = s /\ s \in Statuses
    BY <1>1, <1>3 DEF Statuses, PENDING, RESOLVED, FAILED, ABORTED
  <1>6. held' = With(held, k, job) /\ unsaved' = unsaved \cup {k} /\ AfterJob(n, k, job.status)
    BY <1>1, <1>3, <1>5 DEF NewJob, SaveJob
  <1>7. PICK f : stack' = <<f>> \o Tail(stack) /\ Leads(f, n, k, job) /\ f.op \in {"run", "resume", "exit"}
    BY <1>2, <1>4, <1>5, <1>6, AfterJobLeads
  <1>8. PICK w : w = Seen'
    OBVIOUS
  <1>9. Calling(w, k, n, f)
    BY <1>7 DEF Calling
  <1> QED BY <1>2, <1>3, <1>4, <1>5, <1>6, <1>7, <1>8, <1>9, Ran

LEMMA RunWaitingThread == ASSUME ProcessorInv, ThreadOK, Goes', RunWaiting PROVE ThreadOK'
  <1>1. PICK n, k, job : n = Top.node /\ k = nextId + 1 /\ job = [node |-> n, status |-> PENDING, result |-> <<>>]
    OBVIOUS
  <1>2. /\ At("called") /\ stack # <<>> /\ n \in Waiting /\ n \in Nodes /\ n \notin Parallels
        /\ UNCHANGED <<jobs, tasks, loaded, poked, holder, base>>
    BY <1>1, ProcessorAssumption DEF RunWaiting, Called, At, queueVars, ghostVars
  <1>3. job.node = n /\ job.status = PENDING /\ PENDING \in Statuses
    BY <1>1 DEF Statuses, PENDING
  <1>4. held' = With(held, k, job) /\ unsaved' = unsaved \cup {k}
    BY <1>1 DEF RunWaiting, NewJob, SaveJob
  <1>5. PICK f : stack' = <<f>> \o Tail(stack) /\ Leads(f, n, k, job) /\ f.op \in {"run", "resume", "exit"}
    <2>1. CASE Replace(Exit(Null))
      <3>1. ~ Closes(job)
        BY <1>3 DEF Closes, PENDING, RESOLVED
      <3>2. Exit(Null).op = "exit" /\ stack' = <<Exit(Null)>> \o Tail(stack)
        BY <2>1 DEF Exit, Frame, Replace
      <3> QED BY <3>1, <3>2 DEF Leads
    <2>2. CASE AfterJob(n, k, PENDING)
      <3>1. AfterJob(n, k, job.status) /\ job.status \in Statuses
        BY <1>3, <2>2
      <3> QED BY <1>2, <1>3, <3>1, AfterJobLeads
    <2> QED BY <1>1, <2>1, <2>2 DEF RunWaiting
  <1>6. PICK w : w = Seen'
    OBVIOUS
  <1>7. Calling(w, k, n, f)
    BY <1>5 DEF Calling
  <1> QED BY <1>1, <1>2, <1>3, <1>4, <1>5, <1>6, <1>7, Ran

\* A parallel node is not in its own branches.
LEMMA NotInside ==
  ASSUME NEW n \in Parallels, NEW i \in 1..Cardinality(Branches(n))
  PROVE  n \notin Chain(BranchNo(n, i))
  <1> SUFFICES ASSUME n \in Chain(BranchNo(n, i)) PROVE FALSE
    OBVIOUS
  <1>1. PICK b \in Starts : b = BranchNo(n, i) /\ Upstream[b] = n
    BY BranchesCounted
  <1>2. n \in Nodes /\ b \in Line[n]
    BY <1>1, ProcessorAssumption DEF Chain
  <1>3. Line[n] \in SUBSET Nodes /\ n \in Line[n]
    <2>1. Line[n] = Up(n, Starts)
      BY <1>2 DEF Line
    <2> QED BY <1>2, <2>1, UpClosed
  <1>4. \A x \in Line[n] : Upstream[x] \in Line[n]
    BY <1>1, <1>2, <1>3, LineRises
  <1> QED BY <1>3, <1>4, TreeAssumption

\* A node has one job at most.
LEMMA OneJob ==
  ASSUME NEW v, NEW a, Ordered(v, a), NEW i \in Ids(v), NEW j \in Ids(v), i \in Nat, j \in Nat,
         v[i].node = v[j].node
  PROVE  i = j
  <1>1. ~ (i < j)
    BY DEF Ordered, Precedes
  <1>2. ~ (j < i)
    BY DEF Ordered, Precedes
  <1> QED BY <1>1, <1>2

\* The branches of a node that is about to run have no jobs.
LEMMA NotBegun ==
  ASSUME ProcessorInv, ThreadOK, At("called"), NEW n \in Parallels, n = Top.node, NEW v, v = Seen,
         NEW i \in 1..Cardinality(Branches(n)), NEW c \in Ids(v)
  PROVE  v[c].node \notin Chain(BranchNo(n, i))
  <1> SUFFICES ASSUME v[c].node \in Chain(BranchNo(n, i)) PROVE FALSE
    OBVIOUS
  <1>1. ParentOf[v[c].node] = n /\ n # NoNode
    BY BranchFound, ProcessorAssumption
  <1>2. /\ Ids(v) = Ids(jobs) \cup unsaved /\ (c \in unsaved => v[c] = held[c]) /\ (c \notin unsaved => v[c] = jobs[c])
        /\ \A j \in Ids(held) : j \in Ids(v) /\ v[j].node = held[j].node
        /\ \A j \in Ids(jobs) : j \in Ids(v) /\ v[j].node = jobs[j].node
    <2>1. /\ Ids(v) = Ids(jobs) \cup unsaved
          /\ \A j \in Ids(v) : (j \in unsaved => v[j] = held[j]) /\ (j \notin unsaved => v[j] = jobs[j])
          /\ \A j \in Ids(held) : j \in Ids(v) /\ v[j].node = held[j].node
      BY SeenKnown
    <2>2. \A j \in Ids(held) \cap Ids(jobs) : held[j].node = jobs[j].node
      BY DEF ProcessorInv, DataInv, Data, Objects
    <2>3. unsaved \subseteq Ids(held)
      BY DEF ProcessorInv, DataInv, Data, Objects
    <2> QED BY <2>1, <2>2, <2>3
  <1>3. Rooted(held) /\ Rooted(jobs) /\ unsaved \subseteq Ids(held)
    BY DEF ProcessorInv, DataInv, Data, JobsOK, Objects
  <1>4. JobAt(n, held) \/ JobAt(n, jobs)
    BY <1>1, <1>2, <1>3 DEF Rooted, HasParent
  <1>5. PICK j \in Ids(v) : v[j].node = n
    BY <1>2, <1>4 DEF JobAt
  <1>6. n \in Running
    BY DEF Running
  <1>7. Precedes(v[j], n)
    BY <1>5, <1>6 DEF ThreadOK, ChainsOK, InFront
  <1> QED BY <1>5, <1>7 DEF Precedes

LEMMA RunParallelThread == ASSUME ProcessorInv, ThreadOK, RunParallel PROVE ThreadOK'
  <1>1. PICK n, k, result, job, f :
          /\ n = Top.node /\ k = nextId + 1
          /\ result = [i \in 1..Cardinality(Branches(n)) |-> Null]
          /\ job = [node |-> n, status |-> PENDING, result |-> result]
          /\ f = Frame("branches", n, k, 1)
    OBVIOUS
  <1>2. /\ At("called") /\ stack # <<>> /\ n \in Parallels /\ n \in Nodes /\ n \notin Waiting
        /\ UNCHANGED <<jobs, tasks, loaded, poked, holder, base>>
    BY <1>1, ProcessorAssumption DEF RunParallel, Called, At, queueVars, ghostVars
  <1>3. job.node = n /\ job.status = PENDING /\ job.result = result
    BY <1>1
  <1>4. held' = With(held, k, job) /\ unsaved' = unsaved \cup {k} /\ stack' = <<f>> \o Tail(stack)
    BY <1>1 DEF RunParallel, NewJob, SaveJob, Replace
  <1>5. f.op = "branches" /\ f.k = 1 /\ f.job = k /\ f.node = n
    BY <1>1 DEF Frame
  <1>6. Leads(f, n, k, job)
    <2>1. ~ Closes(job)
      BY <1>3 DEF Closes, PENDING, RESOLVED
    <2> QED BY <1>5, <2>1 DEF Leads
  <1>7. PICK v, w : v = Seen /\ w = Seen'
    OBVIOUS
  <1>8. k \notin Ids(held) /\ k \notin Ids(jobs)
    BY <1>1, NewestId
  <1>9. Ids(w) = Ids(v) \cup {k} /\ w[k] = job /\ \A i \in Ids(v) \ {k} : w[i] = v[i]
    <2>1. jobs' = jobs
      BY <1>2
    <2> QED BY <1>4, <1>7, <1>8, <2>1, SeenWith
  <1>10. \A i \in 1..Cardinality(Branches(n)) : \A c \in Ids(w) : w[c].node \notin Chain(BranchNo(n, i))
    <2> TAKE i \in 1..Cardinality(Branches(n))
    <2> TAKE c \in Ids(w)
    <2>1. CASE c = k
      BY <1>2, <1>3, <1>9, <2>1, NotInside
    <2>2. CASE c # k
      <3>1. c \in Ids(v) /\ w[c] = v[c]
        BY <1>9, <2>2
      <3>2. v[c].node \notin Chain(BranchNo(n, i))
        BY <1>1, <1>2, <1>7, <3>1, NotBegun
      <3> QED BY <3>1, <3>2
    <2> QED BY <2>1, <2>2
  <1>11. Calling(w, k, n, f)
    BY <1>5, <1>8, <1>10 DEF Calling
  <1>12. Told(w, Tasked, k)
    <2>1. DOMAIN result = 1..Cardinality(Branches(n)) /\ \A i \in DOMAIN result : result[i] = Null
      BY <1>1
    <2> QED BY <1>3, <1>9, <1>10, <2>1 DEF Told
  <1> QED BY <1>1, <1>2, <1>3, <1>4, <1>6, <1>7, <1>11, <1>12, Ran

LEMMA ResumeWaitingThread == ASSUME ProcessorInv, ThreadOK, Goes', ResumeWaiting PROVE ThreadOK'
  <1>1. PICK k, n : k = Top.job /\ n = Top.node
    OBVIOUS
  <1>2. PICK s \in IF held[k].status = PENDING THEN {RESOLVED, FAILED} ELSE {held[k].status} :
          SaveJob(k, [held[k] EXCEPT !.status = s]) /\ AfterJob(n, k, s)
    BY <1>1 DEF ResumeWaiting
  <1>3. /\ At("resume") /\ stack # <<>> /\ n \in Waiting
        /\ UNCHANGED <<jobs, tasks, loaded, poked, holder, base>>
    BY <1>1 DEF ResumeWaiting, At, dbVars, queueVars, ghostVars
  <1>4. k \in Ids(held) /\ held[k].node = n /\ k \in Nat /\ n \in Nodes /\ n \notin Parallels
    BY <1>1, <1>3, TopKnown, ProcessorAssumption DEF At, FrameOK, Frames
  <1>5. held[k] \in Job
    BY <1>4 DEF ProcessorInv, DataInv, Data, JobsOK
  <1>6. s \in Statuses
    BY <1>2, <1>5 DEF Job, Statuses, PENDING, RESOLVED, FAILED
  <1>7. PICK job : job = [held[k] EXCEPT !.status = s]
    OBVIOUS
  <1>8. job.node = n /\ job.status = s
    BY <1>4, <1>5, <1>7 DEF Job
  <1>9. held' = With(held, k, job) /\ unsaved' = unsaved \cup {k} /\ AfterJob(n, k, job.status)
    BY <1>2, <1>7, <1>8 DEF SaveJob
  <1>10. PICK f : stack' = <<f>> \o Tail(stack) /\ Leads(f, n, k, job) /\ f.op \in {"run", "resume", "exit"}
    BY <1>3, <1>4, <1>6, <1>8, <1>9, AfterJobLeads
  <1>11. PICK v, w, a : v = Seen /\ w = Seen' /\ a = Active
    OBVIOUS
  <1>12. Resumed = {k} /\ Running = {} /\ a = Tasked \cup {k} /\ k \notin Tasked /\ ~ At("prepare")
    <2>1. Resumed = {k} /\ Running = {} /\ ~ At("prepare")
      BY <1>1, <1>3 DEF Resumed, Running, At
    <2> QED BY <1>11, <2>1 DEF Active, ThreadOK, TasksOK
  <1>13. k \in Ids(v) /\ v[k].node = n /\ \A i \in Ids(v) : i \in Nat
    <2>1. nextId \in Nat /\ Ids(v) \subseteq 1..nextId
      BY <1>11, SeenKnown
    <2> QED BY <1>4, <1>11, <2>1, SeenKnown
  <1>14. \A i \in Ids(v) \ {k} : Lane(v[i].node) = Lane(n) => i < k /\ Precedes(v[i], n) /\ i \notin a
    <2>1. Ordered(v, a)
      BY <1>11 DEF ThreadOK, ChainsOK
    <2> QED BY <1>4, <1>12, <1>13, <2>1 DEF Ordered
  <1>15. \A j \in Ids(v) : v[j].node \in Parallels /\ v[j].status = PENDING => Told(v, a, j)
    BY <1>11 DEF ThreadOK, ChainsOK, Accurate
  <1>16. poked[k] >= 1
    BY <1>1, <1>3, <1>11, <1>13 DEF ThreadOK, WokenOK
  <1>17. LastOne(v, w, a, k, job, n)
    BY <1>4, <1>11, <1>12, <1>13, <1>14, <1>15, <1>16 DEF LastOne, Reached
  <1>18. Calling(w, k, n, f)
    BY <1>10 DEF Calling
  <1> QED BY <1>3, <1>4, <1>8, <1>9, <1>10, <1>11, <1>12, <1>17, <1>18, Moved

\* No call of branches is new, and nobody is anywhere else.
LEMMA CallsStay ==
  ASSUME CallsOK, NEW s, s = stack', Distinct(s),
         \A e \in Calls(s) : e.op = "branches" => e \in Calls(stack),
         Running' = Running, held' = held,
         NEW v, v = Seen, NEW w, w = Seen', Ids(w) = Ids(v), \A i \in Ids(v) : w[i].node = v[i].node
  PROVE  CallsOK'
  <1>1. PICK r : r = Running /\ r = Running'
    OBVIOUS
  <1>2. Begun(s, held, r)
    BY <1>1 DEF CallsOK, Begun
  <1>3. Reached(w, r) = Reached(v, r)
    BY DEF Reached
  <1>4. Untouched(s, w, r)
    BY <1>1, <1>3 DEF CallsOK, Untouched
  <1> QED BY <1>1, <1>2, <1>4 DEF CallsOK

\* The result of a branch, of job c, is written into the result of job j.
Tells(v, w, t, c, j, n, b, result) ==
  /\ c \in Ids(v) /\ j \in Ids(v) /\ c \notin t
  /\ Ordered(v, t \cup {c}) /\ Told(v, t \cup {c}, j)
  /\ v[j].node = n /\ v[c].node \in Chain(BranchNo(n, b))
  /\ Ids(w) = Ids(v) /\ w[j].node = n /\ w[j].result = result /\ \A i \in Ids(v) \ {j} : w[i] = v[i]
  /\ DOMAIN result = DOMAIN v[j].result
  /\ \A i \in DOMAIN result : result[i] = IF i = b THEN v[c].status ELSE v[j].result[i]
  /\ v[c].status \in Statuses
  /\ v[c].status = RESOLVED => Downstream(v[c].node) = NoNode
  /\ \A i \in Ids(v) : i \in Nat /\ v[i].node \in Nodes

LEMMA ToldAgain ==
  ASSUME NEW v, NEW w, NEW t, NEW c, NEW j, NEW n \in Parallels, NEW b \in 1..Cardinality(Branches(n)), NEW result,
         Tells(v, w, t, c, j, n, b, result)
  PROVE  Told(w, t, j)
  <1> USE DEF Tells
  <1>1. DOMAIN result = 1..Cardinality(Branches(n))
    BY DEF Told
  <1>2. ASSUME NEW i \in DOMAIN result, NEW C, C = Chain(BranchNo(n, i))
        PROVE  result[i] \notin {Null, PENDING} <=> \E k \in Ids(w) : w[k].node \in C /\ Closes(w[k]) /\ k \notin t
    <2>1. i \in 1..Cardinality(Branches(n)) /\ n \notin C
      BY <1>1, <1>2, NotInside
    <2>2. \A k \in Ids(w) : w[k].node \in C => k # j /\ w[k] = v[k]
      BY <2>1
    <2>3. CASE i # b
      <3>1. v[c].node \notin C
        BY <1>2, <2>1, <2>3, BranchFound
      <3>2. result[i] \notin {Null, PENDING} <=>
              \E k \in Ids(v) : v[k].node \in C /\ Closes(v[k]) /\ k \notin t \cup {c}
        <4> HIDE DEF Closes
        <4>1. \A l \in DOMAIN v[j].result :
                v[j].result[l] \notin {Null, PENDING} <=>
                  \E k \in Ids(v) : v[k].node \in Chain(BranchNo(v[j].node, l)) /\ Closes(v[k]) /\ k \notin t \cup {c}
          BY DEF Told
        <4> QED BY <1>2, <2>3, <4>1
      <3>3. \A k \in Ids(v) : v[k].node \in C => k # j /\ w[k] = v[k] /\ k # c
        BY <2>1, <3>1
      <3> HIDE DEF Tells
      <3>4. Ids(w) = Ids(v)
        BY DEF Tells
      <3> QED BY <2>2, <3>2, <3>3, <3>4
    <2>4. CASE i = b
      <3>1. result[i] = v[c].status /\ v[c].node \in C /\ w[c] = v[c] /\ c \in Ids(w)
        BY <1>2, <2>1, <2>4
      <3>2. v[c].status \notin {Null, PENDING} <=> Closes(v[c])
        <4>1. PICK x : x = v[c].status
          OBVIOUS
        <4>2. x \in {0, 1, -1, -3}
          BY <4>1 DEF Statuses, PENDING, RESOLVED, FAILED, ABORTED
        <4>3. Closes(v[c]) <=> x < 0 \/ x = 1
          BY <4>1 DEF Closes, PENDING, RESOLVED
        <4> QED BY <4>1, <4>2, <4>3 DEF Null, PENDING
      <3>3. ASSUME NEW k \in Ids(w), w[k].node \in C, Closes(w[k]), k \notin t PROVE k = c
        <4>1. k \in Ids(v) /\ w[k] = v[k] /\ k \in Nat /\ c \in Nat
          BY <2>2, <3>3
        <4>2. Lane(v[k].node) = Lane(v[c].node)
          <5>1. \A m \in Nodes : m \in C <=> Lane(m) = {BranchNo(n, i)}
            BY <1>2, <2>1, LaneOf
          <5>2. v[k].node \in Nodes /\ v[c].node \in Nodes /\ v[k].node \in C /\ v[c].node \in C
            BY <3>1, <3>3, <4>1
          <5> QED BY <5>1, <5>2
        <4>3. ~ (k < c)
          <5>1. k < c => Passed(v[k])
            BY <4>1, <4>2 DEF Ordered, Precedes
          <5> QED BY <3>3, <4>1, <5>1, PassedOpen
        <4>4. ~ (c < k)
          BY <4>1, <4>2 DEF Ordered
        <4> QED BY <4>1, <4>3, <4>4
      <3> QED BY <3>1, <3>2, <3>3
    <2> QED BY <2>3, <2>4
  <1> HIDE DEF Closes
  <1>3. w[j].node = n /\ w[j].result = result
    OBVIOUS
  <1> HIDE DEF Tells
  <1> QED BY <1>1, <1>2, <1>3 DEF Told

\* Whose branch c ended is told, all others were.
LEMMA OthersTold ==
  ASSUME NEW v, NEW t, NEW c, NEW n, NEW j, c \notin t,
         Ordered(v, t \cup {c}), Accurate(v, t \cup {c}), c \in Ids(v), j \in Ids(v), v[j].node = n,
         ParentOf[v[c].node] = n, \A i \in Ids(v) : i \in Nat /\ v[i].node \in Nodes
  PROVE  \A i \in Ids(v) \ {j} : v[i].node \in Parallels /\ v[i].status = PENDING => Told(v, t, i)
  <1> SUFFICES ASSUME NEW i \in Ids(v) \ {j}, v[i].node \in Parallels, v[i].status = PENDING PROVE Told(v, t, i)
    OBVIOUS
  <1>1. v[i].node # n
    BY OneJob
  <1>2. PICK m, r : m = v[i].node /\ r = v[i].result
    OBVIOUS
  <1>3. Told(v, t \cup {c}, i)
    BY DEF Accurate
  <1>4. DOMAIN r = 1..Cardinality(Branches(m))
    BY <1>2, <1>3 DEF Told
  <1>5. ASSUME NEW l \in DOMAIN r PROVE v[c].node \notin Chain(BranchNo(m, l))
    BY <1>1, <1>2, <1>4, <1>5, BranchFound
  <1> HIDE DEF Closes
  <1> QED BY <1>2, <1>3, <1>5 DEF Told

LEMMA ResumeParallelThread == ASSUME ProcessorInv, RestInv, ThreadOK, Goes, Goes', ResumeParallel PROVE ThreadOK'
  <1>1. PICK n, c, j, b, result, s :
          /\ n = Top.node /\ c = Top.job /\ j = Current(held, n) /\ b = IndexOf(n, StartIn(held[c].node, n))
          /\ result = [held[j].result EXCEPT ![b] = held[c].status] /\ s = JoinStatus(Mode[n], result)
    OBVIOUS
  <1>2. PICK job : job = [held[j] EXCEPT !.status = s, !.result = result]
    OBVIOUS
  <1>3. /\ At("resume") /\ stack # <<>> /\ n \in Parallels /\ exec = STARTED
        /\ UNCHANGED <<jobs, tasks, loaded, poked, holder, base>>
    BY <1>1 DEF ResumeParallel, At, dbVars, queueVars, ghostVars, Goes
  <1>4. \/ held[j].status # PENDING /\ Replace(Exit(Null)) /\ UNCHANGED <<held, unsaved>>
        \/ /\ held[j].status = PENDING
           /\ SaveJob(j, job)
           /\ IF s = PENDING THEN Replace(Exit(Null)) ELSE AfterJob(n, j, s)
    BY <1>1, <1>2 DEF ResumeParallel
  <1>5. n \in Nodes /\ n \notin Waiting /\ c \in Ids(held) /\ JobAt(n, held) /\ ~ At("prepare") /\ Top.op = "resume"
    BY <1>1, <1>3, TopKnown, ProcessorAssumption DEF At, FrameOK
  <1>6. /\ j \in Ids(held) /\ held[j].node = n /\ held[j] \in Job /\ held[c] \in Job
        /\ j \in Nat /\ j # 0
    <2>1. j \in Ids(held) /\ held[j].node = n
      BY <1>1, <1>5, CurrentKnown
    <2>2. held[j] \in Job /\ held[c] \in Job /\ j \in JobIds
      BY <1>5, <2>1 DEF ProcessorInv, DataInv, Data, JobsOK
    <2> QED BY <2>1, <2>2, ProcessorAssumption
  <1>7. ParentOf[held[c].node] = n
    BY <1>1, <1>3 DEF RestInv, CallInv
  <1>8. b \in 1..Cardinality(Branches(n)) /\ held[c].node \in Chain(BranchNo(n, b))
    <2>1. PICK x : x = held[c].node /\ x \in Nodes
      BY <1>6 DEF Job
    <2>2. ParentOf[x] # NoNode /\ b = IndexOf(n, StartIn(x, n))
      BY <1>1, <1>5, <1>7, <2>1, ProcessorAssumption
    <2> QED BY <1>3, <1>7, <2>1, <2>2, BranchKnown
  <1>9. PICK v, w, t : v = Seen /\ w = Seen' /\ t = Tasked
    OBVIOUS
  <1>10. /\ c \in Ids(v) /\ v[c] = held[c] /\ j \in Ids(v) /\ v[j] = held[j]
         /\ \A i \in Ids(v) : i \in Nat /\ v[i].node \in Nodes
         /\ held[c].status = RESOLVED => Downstream(held[c].node) = NoNode
    <2>1. /\ nextId \in Nat /\ Ids(v) \subseteq 1..nextId
          /\ \A i \in Ids(v) : v[i] \in Job /\ (i \in unsaved => v[i] = held[i])
          /\ \A i \in Ids(held) : i \in Ids(v)
      BY <1>9, SeenKnown
    <2>2. c \in unsaved /\ (held[c].status = RESOLVED => Downstream(held[c].node) = NoNode)
      BY <1>1, <1>3 DEF ThreadOK, ReturnOK
    <2>3. j \in Ids(v) /\ v[j] = held[j]
      BY <1>1, <1>3, <1>5, <1>9, CurrentLatest DEF RestInv
    <2> QED BY <1>5, <2>1, <2>2, <2>3 DEF Job
  <1>11. Resumed = {c} /\ Running = {} /\ Active = t \cup {c} /\ c \notin t
    <2>1. Resumed = {c} /\ Running = {}
      BY <1>1, <1>3 DEF Resumed, Running, At
    <2> QED BY <1>9, <2>1 DEF Active, ThreadOK, TasksOK
  <1>12. Ordered(v, t \cup {c}) /\ Accurate(v, t \cup {c})
    BY <1>9, <1>11 DEF ThreadOK, ChainsOK
  <1>13. \A i \in Ids(v) \ {j} : v[i].node \in Parallels /\ v[i].status = PENDING => Told(v, t, i)
    BY <1>6, <1>7, <1>10, <1>11, <1>12, OthersTold
  <1>14. CASE held[j].status # PENDING /\ Replace(Exit(Null)) /\ UNCHANGED <<held, unsaved>>
    <2>1. PICK f : f = Exit(Null) /\ f.op = "exit"
      <3>1. Exit(Null).op = "exit"
        BY DEF Exit, Frame
      <3> QED BY <3>1
    <2>2. w = v /\ stack' = <<f>> \o Tail(stack) /\ stack' # <<>> /\ Head(stack') = f
      <3>1. stack' = <<f>> \o Tail(stack)
        BY <1>14, <2>1 DEF Replace
      <3> QED BY <1>3, <1>9, <1>14, <3>1, CallReplaced DEF Seen
    <2>3. Running' = {} /\ Resumed' = {} /\ ~ At("resume")' /\ ~ At("prepare")'
      BY <2>1, <2>2, TopActs
    <2>4. Tasked' = t /\ (\A u, x : Has(u, x)' <=> Has(u, x)) /\ Active' = t
      BY <1>3, <1>9, <2>3, SameTasks DEF Active
    <2>5. ChainsOK'
      <3>1. Ordered(v, t)
        BY <1>12 DEF Ordered
      <3>2. Accurate(v, t)
        BY <1>10, <1>13, <1>14 DEF Accurate
      <3>3. InFront(v, t, {})
        BY DEF InFront
      <3>4. PICK r, a : r = Running' /\ a = Active' /\ r = {} /\ a = t
        BY <2>3, <2>4
      <3>5. Ordered(w, a) /\ InFront(w, a, r) /\ Accurate(w, a)
        BY <2>2, <3>1, <3>2, <3>3, <3>4
      <3> QED BY <1>9, <3>4, <3>5 DEF ChainsOK
    <2>6. TasksOK'
      <3>1. 0 \notin Tasked
        BY <1>3, <1>5 DEF ThreadOK, TasksOK
      <3> QED BY <1>3, <1>9, <1>14, <2>3, <2>4, <3>1 DEF ThreadOK, TasksOK
    <2>7. WokenOK'
      BY <1>3, <1>9, <2>2, <2>3, <2>4 DEF ThreadOK, WokenOK
    <2>8. CallsOK'
      <3>1. StackOK(stack, held) /\ Distinct(stack)
        BY DEF ProcessorInv, StackInv, ThreadOK, CallsOK
      <3>2. PICK q : q = stack'
        OBVIOUS
      <3>3. Distinct(q)
        BY <1>3, <2>1, <2>2, <3>1, <3>2, DistinctReplaced
      <3>4. \A e \in Calls(q) : e.op = "branches" => e \in Calls(stack)
        <4>1. Calls(q) = {f} \cup Calls(Tail(stack)) /\ Calls(stack) = {Top} \cup Calls(Tail(stack))
          BY <1>3, <2>2, <3>2, CallReplaced
        <4> QED BY <2>1, <4>1
      <3> QED BY <1>9, <1>11, <1>14, <2>2, <2>3, <3>2, <3>3, <3>4, CallsStay DEF ThreadOK
    <2>9. ReturnOK'
      BY <2>3 DEF ReturnOK
    <2>10. TableOK'
      BY <1>3, <1>5, <1>14 DEF ThreadOK, TableOK
    <2> QED BY <2>5, <2>6, <2>7, <2>8, <2>9, <2>10 DEF ThreadOK
  <1>15. CASE /\ held[j].status = PENDING
              /\ SaveJob(j, job)
              /\ IF s = PENDING THEN Replace(Exit(Null)) ELSE AfterJob(n, j, s)
    <2>1. job.node = n /\ job.status = s /\ job.result = result
      BY <1>2, <1>6 DEF Job
    <2>2. held' = With(held, j, job) /\ unsaved' = unsaved \cup {j}
      BY <1>15 DEF SaveJob
    <2>3. /\ result \in Seq(Statuses \cup {Null}) /\ DOMAIN result = DOMAIN held[j].result
          /\ \A i \in DOMAIN result : result[i] = IF i = b THEN held[c].status ELSE held[j].result[i]
          /\ held[c].status \in Statuses
      <3>1. PICK old, new : old = held[j].result /\ new = held[c].status
        OBVIOUS
      <3>2. old \in Seq(Statuses \cup {Null}) /\ new \in Statuses \cup {Null} /\ result = [old EXCEPT ![b] = new]
            /\ new \in Statuses
        BY <1>1, <1>6, <3>1 DEF Job
      <3>3. /\ result \in Seq(Statuses \cup {Null}) /\ DOMAIN result = DOMAIN old
            /\ \A i \in DOMAIN result : result[i] = IF i = b THEN new ELSE old[i]
        BY ONLY <3>2, SeqChanged
      <3> QED BY <3>1, <3>2, <3>3
    <2>4. s \in Statuses
      <3>1. Mode[n] \in {"all", "any", "race", "allSettled"}
        BY <1>3, ProcessorAssumption
      <3> QED BY <1>1, <2>3, <3>1, JoinStatusTyped
    <2>5. \E f : stack' = <<f>> \o Tail(stack) /\ Leads(f, n, j, job) /\ f.op \in {"run", "resume", "exit"}
      <3>1. CASE s = PENDING
        <4>1. ~ Closes(job)
          BY <2>1, <3>1 DEF Closes, PENDING, RESOLVED
        <4>2. Exit(Null).op = "exit" /\ stack' = <<Exit(Null)>> \o Tail(stack)
          BY <1>15, <3>1 DEF Exit, Frame, Replace
        <4> QED BY <4>1, <4>2 DEF Leads
      <3>2. CASE s # PENDING
        <4>1. AfterJob(n, j, job.status) /\ job.status \in Statuses /\ job.status # PENDING
          BY <1>15, <2>1, <2>4, <3>2
        <4> QED BY <1>3, <1>5, <2>1, <4>1, AfterJobLeads
      <3> QED BY <3>1, <3>2
    <2>6. PICK f : stack' = <<f>> \o Tail(stack) /\ Leads(f, n, j, job) /\ f.op \in {"run", "resume", "exit"}
      BY <2>5
    <2>7. Ids(w) = Ids(v) /\ w[j] = job /\ \A i \in Ids(v) \ {j} : w[i] = v[i]
      <3>1. jobs' = jobs
        BY <1>3
      <3>2. Ids(w) = Ids(v) \cup {j} /\ w[j] = job /\ \A i \in Ids(v) \ {j} : w[i] = v[i]
        BY <1>6, <1>9, <2>1, <2>2, <3>1, SeenWith
      <3> QED BY <1>10, <3>2
    <2>8. Told(w, t, j)
      <3>1. Told(v, t \cup {c}, j) /\ v[j].node = n
        BY <1>3, <1>6, <1>10, <1>12, <1>15 DEF Accurate
      <3>2. Tells(v, w, t, c, j, n, b, result)
        BY <1>8, <1>10, <1>11, <1>12, <2>1, <2>3, <2>7, <3>1 DEF Tells
      <3> QED BY <1>3, <1>8, <3>2, ToldAgain
    <2>9. \A i \in Ids(v) \ {j} : Lane(v[i].node) = Lane(n) => i < j /\ Precedes(v[i], n) /\ i \notin t
      <3> SUFFICES ASSUME NEW i \in Ids(v) \ {j}, Lane(v[i].node) = Lane(n)
                   PROVE  i < j /\ Precedes(v[i], n) /\ i \notin t
        OBVIOUS
      <3>1. v[j].node = n /\ v[j].status = PENDING /\ i \in Nat
        BY <1>6, <1>10, <1>15
      <3>2. ~ (j < i)
        <4>1. j < i => Passed(v[j])
          BY <1>10, <1>12, <3>1 DEF Ordered, Precedes
        <4> QED BY <3>1, <4>1, PassedOpen
      <3>3. i < j
        BY <1>6, <3>1, <3>2
      <3> QED BY <1>10, <1>12, <3>1, <3>3 DEF Ordered
    <2>10. LastOne(v, w, t, j, job, n)
      <3>1. ~ Closes(v[j])
        BY <1>10, <1>15 DEF Closes, PENDING, RESOLVED
      <3>2. n \in Reached(v, Running)
        BY <1>6, <1>10 DEF Reached
      <3> QED BY <1>5, <1>9, <1>11, <1>13, <2>8, <2>9, <3>1, <3>2 DEF LastOne
    <2>11. Calling(w, j, n, f)
      BY <2>6 DEF Calling
    <2>12. j \notin Tasked
      <3>1. j \in Tasked => j \in Ids(jobs) /\ jobs[j].node \in Waiting
        BY <1>6, TaskedKnown
      <3>2. j \in Ids(jobs) => jobs[j].node = held[j].node
        BY <1>6 DEF ProcessorInv, DataInv, Data, Objects
      <3> QED BY <1>5, <1>6, <3>1, <3>2
    <2> QED BY <1>3, <1>5, <1>6, <1>9, <2>1, <2>2, <2>6, <2>10, <2>11, <2>12, Moved
  <1> QED BY <1>4, <1>14, <1>15

------------------------------------------------------------------------------
(* The result is accurate: calls that return                                *)

\* Calls return or are made, and nothing else changes.
LEMMA StaysThread ==
  ASSUME ProcessorInv, ThreadOK, stack # <<>>, ~ At("prepare"), ~ At("resume"),
         Seen' = Seen, UNCHANGED <<tasks, loaded, poked, held>>, unsaved' \subseteq unsaved,
         ~ At("resume")', Running' = Running,
         Distinct(stack'), \A e \in Calls(stack') : e.op = "branches" => e \in Calls(stack),
         TableOK', \A j \in JobIds : j \in Tasked => jobs'[j].status = jobs[j].status
  PROVE  ThreadOK'
  <1>1. Resumed = {} /\ Resumed' = {}
    BY DEF Resumed
  <1>2. Tasked' = Tasked /\ (\A u, t : Has(u, t)' <=> Has(u, t)) /\ Active' = Active
    BY <1>1, SameTasks DEF Active
  <1>3. 0 \notin Tasked
    BY DEF ThreadOK, TasksOK
  <1>4. PICK v, w, a, b, r, s : /\ v = Seen /\ w = Seen' /\ a = Active /\ b = Active' /\ r = Running /\ s = Running'
                                /\ v = w /\ a = b /\ r = s
    BY <1>2
  <1>5. ChainsOK'
    <2>1. Ordered(v, a) /\ InFront(v, a, r) /\ Accurate(v, a)
      BY <1>4 DEF ThreadOK, ChainsOK
    <2> QED BY <1>4, <2>1 DEF ChainsOK
  <1>6. TasksOK'
    <2>1. Tasked' \cap (Resumed' \cup unsaved') = {}
      BY <1>1, <1>2 DEF ThreadOK, TasksOK
    <2>2. \A u \in Workers : \A j \in JobIds : Has(u, j)' => loaded'[u].status = jobs'[j].status
      <3> SUFFICES ASSUME NEW u \in Workers, NEW j \in JobIds, Has(u, j) PROVE loaded[u].status = jobs'[j].status
        BY <1>2
      <3>1. j \in Tasked
        BY DEF Tasked
      <3> QED BY <3>1 DEF ThreadOK, TasksOK
    <2> QED BY <1>2, <1>3, <2>1, <2>2 DEF ThreadOK, TasksOK
  <1>7. WokenOK'
    BY <1>2, <1>4 DEF ThreadOK, WokenOK
  <1>8. CallsOK'
    <2>1. PICK q : q = stack'
      OBVIOUS
    <2> QED BY <1>4, <2>1, CallsStay DEF ThreadOK
  <1>9. ReturnOK'
    BY DEF ReturnOK
  <1> QED BY <1>5, <1>6, <1>7, <1>8, <1>9 DEF ThreadOK

LEMMA CallThread == ASSUME ProcessorInv, ThreadOK, Call PROVE ThreadOK'
  <1>1. PICK top, f : top = Top /\ f = [top EXCEPT !.op = "called"]
    OBVIOUS
  <1>2. /\ At("run") /\ stack # <<>> /\ stack' = <<f>> \o Tail(stack) /\ ~ At("resume") /\ ~ At("prepare")
        /\ UNCHANGED <<jobs, tasks, loaded, holder, held, base, unsaved, poked>>
    BY <1>1 DEF Call, At, Replace, dbVars, queueVars
  <1>3. f.op = "called" /\ f.node = top.node
    <2>1. top \in Frames
      BY <1>1, <1>2, TopKnown
    <2> QED BY <1>1, <2>1 DEF Frames
  <1>4. stack' # <<>> /\ Head(stack') = f /\ Calls(stack') = {f} \cup Calls(Tail(stack))
        /\ Calls(stack) = {Top} \cup Calls(Tail(stack))
    BY <1>2, CallReplaced
  <1>5. Running' = Running /\ ~ At("resume")' /\ ~ At("prepare")'
    <2>1. Running' = {f.node} /\ ~ At("resume")' /\ ~ At("prepare")'
      BY <1>3, <1>4, TopActs
    <2> QED BY <1>1, <1>2, <1>3, <2>1 DEF Running
  <1>6. Distinct(stack')
    <2>1. StackOK(stack, held) /\ Distinct(stack)
      BY DEF ProcessorInv, StackInv, ThreadOK, CallsOK
    <2> QED BY <1>2, <1>3, <2>1, DistinctReplaced
  <1>7. \A e \in Calls(stack') : e.op = "branches" => e \in Calls(stack)
    BY <1>3, <1>4
  <1>8. Seen' = Seen /\ TableOK'
    BY <1>2 DEF Seen, ThreadOK, TableOK
  <1> QED BY <1>2, <1>5, <1>6, <1>7, <1>8, StaysThread

\* The innermost call returns.
LEMMA PoppedCalls ==
  ASSUME ProcessorInv, ThreadOK, stack # <<>>, stack' = Tail(stack)
  PROVE  /\ Distinct(stack') /\ \A e \in Calls(stack') : e \in Calls(stack)
         /\ Running' = {} /\ ~ At("resume")' /\ ~ At("prepare")'
  <1>1. StackOK(stack, held) /\ Distinct(stack)
    BY DEF ProcessorInv, StackInv, ThreadOK, CallsOK
  <1>2. Distinct(stack') /\ Calls(stack) = {Head(stack)} \cup Calls(stack')
    BY <1>1, DistinctPopped, CallsOf
  <1>3. stack' # <<>> => Head(stack').op = "branches"
    BY <1>1, StackPopped
  <1>4. Running' = {} /\ ~ At("resume")' /\ ~ At("prepare")'
    BY <1>3 DEF Running, At, Top
  <1> QED BY <1>2, <1>4

LEMMA BranchesEndThread == ASSUME ProcessorInv, ThreadOK, BranchesEnd PROVE ThreadOK'
  <1>1. /\ At("branches") /\ stack # <<>> /\ stack' = Tail(stack) /\ ~ At("resume") /\ ~ At("prepare")
        /\ UNCHANGED <<jobs, tasks, loaded, holder, held, base, unsaved, poked>>
    BY DEF BranchesEnd, At, Pop, dbVars, queueVars, ghostVars
  <1>2. Running = {}
    BY <1>1 DEF Running, At
  <1>3. Seen' = Seen /\ TableOK'
    BY <1>1 DEF Seen, ThreadOK, TableOK
  <1> QED BY <1>1, <1>2, <1>3, PoppedCalls, StaysThread

LEMMA ExitUpdateThread == ASSUME ProcessorInv, ThreadOK, ExitUpdate PROVE ThreadOK'
  <1>1. /\ At("update") /\ stack # <<>> /\ stack' = Tail(stack) /\ ~ At("resume") /\ ~ At("prepare")
        /\ UNCHANGED <<jobs, tasks, loaded, holder, held, base, unsaved, poked>>
    BY DEF ExitUpdate, At, Pop, dbVars, queueVars, ghostVars
  <1>2. Running = {}
    BY <1>1 DEF Running, At
  <1>3. Seen' = Seen /\ TableOK'
    BY <1>1 DEF Seen, ThreadOK, TableOK
  <1> QED BY <1>1, <1>2, <1>3, PoppedCalls, StaysThread

\* The branch before the one whose turn it is has a job.
LEMMA BranchesThrowNever == ASSUME ProcessorInv, ThreadOK, BranchesThrow PROVE FALSE
  <1>1. PICK top, n, i, C : top = Top /\ n = top.node /\ i = top.k /\ C = Chain(BranchNo(n, i - 1))
    OBVIOUS
  <1>2. /\ At("branches") /\ stack # <<>> /\ i > 1 /\ LastStatus(BranchNo(n, i - 1)) = Null /\ top.op = "branches"
    BY <1>1 DEF BranchesThrow, At
  <1>3. top \in Calls(stack) /\ Running = {}
    <2>1. PICK q : q = <<top>> \o Tail(stack)
      OBVIOUS
    <2>2. Calls(stack) = {Top} \cup Calls(Tail(stack))
      BY <1>2, <2>1, CallReplaced
    <2> QED BY <1>1, <1>2, <2>2 DEF Running, At
  <1>4. PICK l \in Ids(held) : held[l].node \in C
    <2>1. (\E l \in Ids(held) : held[l].node \in Before(top)) \/ Running \cap Before(top) # {}
      BY <1>1, <1>2, <1>3 DEF ThreadOK, CallsOK, Begun
    <2> QED BY <1>1, <1>3, <2>1 DEF Before
  <1> DEFINE ids == {j \in Ids(held) : held[j].node \in C}
  <1>5. nextId \in Nat
    BY IdsAreNumbers DEF ProcessorInv, TypesInv
  <1>6. ids \in SUBSET (1..nextId) /\ ids # {} /\ \A j \in ids : held[j] \in Job
    BY <1>4 DEF ProcessorInv, DataInv, Data, JobsOK
  <1>7. \E j \in ids : \A x \in ids : x <= j
    <2> HIDE DEF ids
    <2> QED BY <1>5, <1>6, Greatest
  <1>8. LastStatus(BranchNo(n, i - 1)) = held[CHOOSE j \in ids : \A x \in ids : x <= j].status
    BY <1>1, <1>6 DEF LastStatus
  <1>9. PICK j \in ids : LastStatus(BranchNo(n, i - 1)) = held[j].status
    BY <1>7, <1>8
  <1>10. held[j].status \in Statuses
    BY <1>6, <1>9 DEF Job
  <1> QED BY <1>2, <1>9, <1>10 DEF Statuses, PENDING, RESOLVED, FAILED, ABORTED, Null

LEMMA ExitSaveThread == ASSUME ProcessorInv, RestInv, ThreadOK, ExitSave PROVE ThreadOK'
  <1>1. PICK top, f : top = Top /\ f = [top EXCEPT !.op = "update"]
    OBVIOUS
  <1>2. /\ At("exit") /\ stack # <<>> /\ stack' = <<f>> \o Tail(stack) /\ ~ At("resume") /\ ~ At("prepare")
        /\ unsaved' = {} /\ holder # NoWorker
        /\ jobs' = [j \in Ids(jobs) \cup unsaved |-> IF j \in unsaved THEN Merge(j) ELSE jobs[j]]
        /\ base' = [j \in Ids(base) \cup unsaved |-> IF j \in unsaved THEN held[j] ELSE base[j]]
        /\ UNCHANGED <<tasks, loaded, holder, held, poked>>
    BY <1>1 DEF ExitSave, At, Replace, queueVars, ghostVars, ProcessorInv, IdleInv
  <1>3. f.op = "update"
    <2>1. top \in Frames
      BY <1>1, <1>2, TopKnown
    <2> QED BY <1>1, <2>1 DEF Frames
  <1>4. stack' # <<>> /\ Head(stack') = f /\ Calls(stack') = {f} \cup Calls(Tail(stack))
        /\ Calls(stack) = {Top} \cup Calls(Tail(stack))
    BY <1>2, CallReplaced
  <1>5. Running' = Running /\ ~ At("resume")' /\ ~ At("prepare")'
    <2>1. Running' = {} /\ ~ At("resume")' /\ ~ At("prepare")'
      BY <1>3, <1>4, TopActs
    <2> QED BY <1>2, <2>1 DEF Running, At
  <1>6. Distinct(stack') /\ \A e \in Calls(stack') : e.op = "branches" => e \in Calls(stack)
    <2>1. StackOK(stack, held) /\ Distinct(stack)
      BY DEF ProcessorInv, StackInv, ThreadOK, CallsOK
    <2> QED BY <1>2, <1>3, <1>4, <2>1, DistinctReplaced
  <1>7. /\ unsaved \subseteq Ids(held) /\ \A j \in Ids(jobs) : jobs[j] \in Job
        /\ \A j \in Ids(held) : held[j] \in Job
        /\ \A j \in Ids(held) \cap Ids(jobs) : j \in Ids(base) /\ held[j].node = jobs[j].node
    BY DEF ProcessorInv, DataInv, Data, Objects, JobsOK
  <1>8. ASSUME NEW j \in unsaved PROVE Merge(j) = held[j]
    <2>1. CASE j \notin Ids(jobs)
      BY <2>1 DEF Merge
    <2>2. CASE j \in Ids(jobs)
      <3>1. jobs[j] = base[j] /\ jobs[j] \in Job /\ held[j] \in Job /\ held[j].node = jobs[j].node
        BY <1>2, <1>7, <1>8, <2>2 DEF ThreadOK, TableOK
      <3>2. PICK a, b, c : a = jobs[j] /\ b = held[j] /\ c = Merge(j)
        OBVIOUS
      <3>3. /\ a \in Job /\ b \in Job /\ a.node = b.node
            /\ c = [a EXCEPT !.status = IF b.status # a.status THEN b.status ELSE @,
                             !.result = IF b.result # a.result THEN b.result ELSE @]
        BY <2>2, <3>1, <3>2 DEF Merge
      <3>4. c = b
        BY ONLY <3>3 DEF Job
      <3> QED BY <3>2, <3>4
    <2> QED BY <2>1, <2>2
  <1>9. /\ Ids(jobs') = Ids(jobs) \cup unsaved
        /\ \A j \in Ids(jobs') : jobs'[j] = IF j \in unsaved THEN held[j] ELSE jobs[j]
    BY <1>2, <1>8 DEF Ids
  <1>10. Seen' = Seen
    <2>1. PICK t, h : t = jobs' /\ h = held'
      OBVIOUS
    <2>2. Seen' = View(t, h, {})
      BY <1>2, <2>1 DEF Seen
    <2>3. View(t, h, {}) = [j \in Ids(jobs) \cup unsaved |-> IF j \in unsaved THEN held[j] ELSE jobs[j]]
      BY <1>9, <2>1 DEF View, Ids
    <2> QED BY <2>2, <2>3 DEF Seen, View
  <1>11. TableOK'
    <2> SUFFICES ASSUME NEW j \in Ids(held) \cap Ids(jobs') PROVE jobs'[j] = base'[j]
      BY <1>2 DEF TableOK
    <2>1. CASE j \in unsaved
      BY <1>2, <1>9, <2>1
    <2>2. CASE j \notin unsaved
      <3>1. j \in Ids(jobs) /\ jobs'[j] = jobs[j] /\ j \in Ids(base) /\ jobs[j] = base[j]
        BY <1>2, <1>7, <1>9, <2>2 DEF ThreadOK, TableOK
      <3>2. base'[j] = base[j]
        BY <1>2, <2>2, <3>1
      <3> QED BY <3>1, <3>2
    <2> QED BY <2>1, <2>2
  <1>12. \A j \in JobIds : j \in Tasked => jobs'[j].status = jobs[j].status
    <2> SUFFICES ASSUME NEW j \in JobIds, j \in Tasked PROVE jobs'[j] = jobs[j]
      OBVIOUS
    <2>1. j \in Ids(jobs)
      BY TaskedKnown, ProcessorAssumption
    <2>2. j \notin unsaved
      BY DEF ThreadOK, TasksOK
    <2> QED BY <1>9, <2>1, <2>2
  <1> QED BY <1>2, <1>5, <1>6, <1>10, <1>11, <1>12, StaysThread

\* The next branch begins where nobody has been.
LEMMA RunBranchThread == ASSUME ProcessorInv, ThreadOK, RunBranch PROVE ThreadOK'
  <1>1. PICK top, n, i, k : top = Top /\ n = top.node /\ i = top.k /\ k = top.job
    OBVIOUS
  <1>2. PICK f, e, m : m = BranchNo(n, i) /\ f = Run(m, k) /\ e = [top EXCEPT !.k = i + 1]
    OBVIOUS
  <1>3. /\ At("branches") /\ stack # <<>> /\ i <= Cardinality(Branches(n)) /\ ~ At("resume") /\ ~ At("prepare")
        /\ stack' = <<f, e>> \o Tail(stack)
        /\ UNCHANGED <<jobs, tasks, loaded, holder, held, base, unsaved, poked>>
    BY <1>1, <1>2 DEF RunBranch, At, dbVars, queueVars, ghostVars
  <1>4. /\ top = Head(stack) /\ top.op = "branches" /\ top \in Frames
        /\ n \in Parallels /\ i > 0 /\ i \in Int /\ k \in Ids(held) /\ held[k].node = n
    BY <1>1, <1>3, TopKnown DEF Top, At, FrameOK, Frames
  <1>5. /\ f.op = "run" /\ f.node = m
        /\ e.op = "branches" /\ e.node = n /\ e.job = k /\ e.k = i + 1
    BY <1>1, <1>2, <1>4 DEF Run, Frame, Frames
  <1>6. StackOK(stack, held) /\ Distinct(stack)
    BY DEF ProcessorInv, StackInv, ThreadOK, CallsOK
  <1>7. PICK q : q = stack'
    OBVIOUS
  <1>8. /\ q # <<>> /\ Head(q) = f /\ Calls(q) = {f, e} \cup Calls(Tail(stack))
        /\ Calls(stack) = {top} \cup Calls(Tail(stack))
        /\ \A g \in Calls(stack) : FrameOK(g, held)
    <2>1. PICK s : s = stack /\ s # <<>> /\ StackOK(s, held)
      BY <1>3, <1>6
    <2>2. q # <<>> /\ Head(q) = f /\ Calls(q) = {f, e} \cup Calls(Tail(s))
      BY <1>3, <1>7, <2>1, CallsPushed
    <2>3. Calls(s) = {Head(s)} \cup Calls(Tail(s)) /\ \A g \in Calls(s) : FrameOK(g, held)
      BY ONLY <2>1, CallsOf
    <2> QED BY <1>4, <2>1, <2>2, <2>3
  <1>9. i \in 1..Cardinality(Branches(n)) /\ Cardinality(Branches(n)) \in Nat
    BY <1>3, <1>4, BranchesCounted
  <1>10. m \in Starts /\ m \in Nodes /\ m \in Chain(m) /\ ParentOf[m] = n /\ IndexOf(n, StartIn(m, n)) = i
    <2>1. m \in Starts
      BY <1>2, <1>4, <1>9, BranchesCounted
    <2>2. m \in Chain(BranchNo(n, i))
      BY <1>2, <2>1, Chains
    <2> QED BY <1>2, <1>4, <1>9, <2>1, <2>2, BranchFound
  <1>11. PICK v, w : v = Seen /\ w = Seen' /\ v = w
    BY <1>3 DEF Seen
  <1>12. Running = {} /\ Running' = {m} /\ Resumed = {} /\ Resumed' = {} /\ ~ At("resume")' /\ ~ At("prepare")'
    <2>1. Running' = {m} /\ Resumed' = {} /\ ~ At("resume")' /\ ~ At("prepare")'
      BY <1>5, <1>7, <1>8, TopActs
    <2> QED BY <1>3, <2>1 DEF Running, Resumed, At
  <1>13. Tasked' = Tasked /\ (\A u, t : Has(u, t)' <=> Has(u, t)) /\ Active' = Active
    BY <1>3, <1>12, SameTasks DEF Active
  <1>14. Untouched(stack, v, {}) /\ Begun(stack, held, {})
    BY <1>11, <1>12 DEF ThreadOK, CallsOK
  <1>15. \A c \in Ids(v) : v[c].node \in Nodes /\ v[c].node \notin Chain(m)
    <2>1. Reached(v, {}) \cap Chain(m) = {}
      BY <1>1, <1>2, <1>4, <1>8, <1>9, <1>14 DEF Untouched
    <2>2. \A c \in Ids(v) : v[c] \in Job
      BY <1>11, SeenKnown
    <2> QED BY <2>1, <2>2 DEF Reached, Job
  <1>16. ChainsOK'
    <2>1. PICK a, b, r : a = Active /\ b = Active' /\ a = b /\ r = Running' /\ r = {m}
      BY <1>12, <1>13
    <2>2. Ordered(v, a) /\ Accurate(v, a)
      BY <1>11, <2>1 DEF ThreadOK, ChainsOK
    <2>3. InFront(v, a, r)
      <3>1. \A x \in Nodes : x \in Chain(m) <=> Lane(x) = {m}
        BY <1>2, <1>4, <1>9, LaneOf
      <3>2. \A c \in Ids(v) : Lane(v[c].node) # Lane(m)
        BY <1>10, <1>15, <3>1
      <3> QED BY <2>1, <3>2 DEF InFront
    <2> QED BY <1>11, <2>1, <2>2, <2>3 DEF ChainsOK
  <1>17. TasksOK'
    <2>1. 0 \notin Tasked
      BY <1>3 DEF ThreadOK, TasksOK
    <2> QED BY <1>3, <1>12, <1>13, <2>1 DEF ThreadOK, TasksOK
  <1>18. WokenOK'
    BY <1>3, <1>11, <1>12, <1>13 DEF ThreadOK, WokenOK
  <1>19. CallsOK'
    <2>1. Distinct(q)
      BY <1>1, <1>3, <1>4, <1>5, <1>6, <1>7, DistinctPushed
    <2>2. Begun(q, held, {m})
      <3> SUFFICES ASSUME NEW g \in Calls(q), g.op = "branches", g.k > 1
                   PROVE  (\E l \in Ids(held) : held[l].node \in Before(g)) \/ {m} \cap Before(g) # {}
        BY DEF Begun
      <3>1. CASE g = e
        <4>1. Before(e) = Chain(m)
          BY <1>2, <1>4, <1>5 DEF Before
        <4> QED BY <1>10, <3>1, <4>1
      <3>2. CASE g \in Calls(Tail(stack))
        <4>1. PICK B : B = Before(g)
          OBVIOUS
        <4>2. (\E l \in Ids(held) : held[l].node \in B) \/ {} \cap B # {}
          BY <1>8, <1>14, <3>2, <4>1 DEF Begun
        <4> QED BY <4>1, <4>2
      <3> QED BY <1>5, <1>8, <3>1, <3>2
    <2>3. Untouched(q, v, {m})
      <3> SUFFICES ASSUME NEW g \in Calls(q), g.op = "branches",
                          NEW j \in 1..Cardinality(Branches(g.node)), g.k <= j,
                          NEW C, C = Chain(BranchNo(g.node, j))
                   PROVE  Reached(v, {m}) \cap C = {}
        BY DEF Untouched
      <3>1. Reached(v, {}) \cap C = {}
        <4>1. CASE g = e
          <5>1. top \in Calls(stack) /\ top.op = "branches" /\ top.node = n /\ top.k <= j
            BY <1>1, <1>4, <1>5, <1>8, <4>1
          <5>2. j \in 1..Cardinality(Branches(n)) /\ C = Chain(BranchNo(n, j))
            BY <1>5, <4>1
          <5> QED BY <1>14, <5>1, <5>2 DEF Untouched
        <4>2. CASE g \in Calls(Tail(stack))
          BY <1>8, <1>14, <4>2 DEF Untouched
        <4> QED BY <1>5, <1>8, <4>1, <4>2
      <3>2. m \notin C
        <4>1. CASE g = e
          <5>1. j # i /\ j \in 1..Cardinality(Branches(n)) /\ C = Chain(BranchNo(n, j))
            BY <1>4, <1>5, <4>1
          <5> QED BY <1>4, <1>10, <5>1, BranchFound
        <4>2. CASE g \in Calls(Tail(stack))
          <5>1. g \in Calls(stack) /\ g.job # k /\ g.node \in Parallels /\ g.job \in Ids(held) /\ held[g.job].node = g.node
            <6>1. g.job # k
              BY <1>1, <1>3, <1>4, <1>6, <4>2, DistinctPopped
            <6> QED BY <1>8, <4>2, <6>1 DEF FrameOK
          <5>2. /\ g.job \in Ids(v) /\ v[g.job].node = g.node /\ k \in Ids(v) /\ v[k].node = n
                /\ \A c \in Ids(v) : c \in Nat
            <6>1. /\ nextId \in Nat /\ Ids(v) \subseteq 1..nextId
                  /\ \A c \in Ids(held) : c \in Ids(v) /\ v[c].node = held[c].node
              BY <1>11, SeenKnown
            <6> QED BY <1>4, <5>1, <6>1
          <5>3. g.node # n
            <6>1. PICK a : Ordered(v, a)
              BY <1>11 DEF ThreadOK, ChainsOK
            <6> QED BY <5>1, <5>2, <6>1, OneJob
          <5> QED BY <1>10, <5>1, <5>3, BranchFound
        <4> QED BY <1>5, <1>8, <4>1, <4>2
      <3> QED BY <3>1, <3>2 DEF Reached
    <2> QED BY <1>3, <1>7, <1>11, <1>12, <2>1, <2>2, <2>3 DEF CallsOK
  <1>20. ReturnOK' /\ TableOK'
    BY <1>3, <1>12 DEF ReturnOK, TableOK, ThreadOK
  <1> QED BY <1>16, <1>17, <1>18, <1>19, <1>20 DEF ThreadOK

------------------------------------------------------------------------------
(* The result is accurate: the lock, the copies and the tasks               *)

\* Nothing is seen but the table when all is saved.
LEMMA SeenTable ==
  ASSUME unsaved = {}, unsaved' = {}, jobs' = jobs
  PROVE  Seen' = Seen
  <1>1. PICK t, h, u : t = jobs' /\ h = held' /\ u = unsaved'
    OBVIOUS
  <1>2. Seen' = View(t, h, u) /\ t = jobs /\ u = {}
    BY <1>1 DEF Seen
  <1>3. View(t, h, {}) = View(jobs, held, {})
    BY <1>2 DEF View
  <1> QED BY <1>2, <1>3 DEF Seen

\* Nobody works on a job, before and after.
LEMMA IdleThread ==
  ASSUME ThreadOK, Seen' = Seen, UNCHANGED <<tasks, loaded, jobs, poked>>, unsaved' = {},
         stack = <<>>, ~ At("resume")', Running' = {}, \A g \in Calls(stack') : g.op # "branches",
         stack' = <<>> \/ At("prepare")',
         TableOK'
  PROVE  ThreadOK'
  <1>1. Resumed = {} /\ Resumed' = {} /\ Running = {}
    BY DEF Resumed, Running, At
  <1>2. Tasked' = Tasked /\ (\A u, t : Has(u, t)' <=> Has(u, t)) /\ Active' = Active
    BY <1>1, SameTasks DEF Active
  <1>3. PICK v, w, a, b, r, s : /\ v = Seen /\ w = Seen' /\ a = Active /\ b = Active' /\ r = Running /\ s = Running'
                                /\ v = w /\ a = b /\ r = s
    BY <1>1, <1>2
  <1>4. ChainsOK'
    <2>1. Ordered(v, a) /\ InFront(v, a, r) /\ Accurate(v, a)
      BY <1>3 DEF ThreadOK, ChainsOK
    <2> QED BY <1>3, <2>1 DEF ChainsOK
  <1>5. TasksOK'
    BY <1>1, <1>2, <1>3 DEF ThreadOK, TasksOK
  <1>6. WokenOK'
    BY <1>2, <1>3 DEF ThreadOK, WokenOK
  <1>7. CallsOK'
    <2>1. PICK q : q = stack'
      OBVIOUS
    <2>2. \A g \in Calls(q) : g.op # "branches"
      BY <2>1
    <2>3. Distinct(q)
      BY <2>1, <2>2 DEF Distinct, Calls
    <2> QED BY <2>1, <2>2, <2>3 DEF CallsOK, Begun, Untouched
  <1>8. ReturnOK'
    BY DEF ReturnOK
  <1> QED BY <1>4, <1>5, <1>6, <1>7, <1>8 DEF ThreadOK

LEMMA EnterThread ==
  ASSUME ProcessorInv, ThreadOK, exec' = STARTED, NEW x \in Workers, Enter(x) PROVE ThreadOK'
  <1>1. /\ holder = NoWorker /\ unsaved' = {} /\ UNCHANGED <<tasks, poked>>
    BY DEF Enter, ghostVars
  <1>2. stack = <<>> /\ unsaved = {}
    BY <1>1, IdleView
  <1>3. ~ AbortRows
    BY AbortEnds
  <1>4. stack' = <<Frame("prepare", NoNode, loaded[x].job, Null)>> /\ UNCHANGED <<jobs, loaded>>
    BY <1>3 DEF Enter
  <1>5. PICK f : f = Frame("prepare", NoNode, loaded[x].job, Null) /\ f.op = "prepare"
    <2>1. Frame("prepare", NoNode, loaded[x].job, Null).op = "prepare"
      BY DEF Frame
    <2> QED BY <2>1
  <1>6. stack' # <<>> /\ Head(stack') = f /\ \A g \in Calls(stack') : g = f
    BY <1>4, <1>5 DEF Calls
  <1>7. Running' = {} /\ ~ At("resume")' /\ At("prepare")'
    BY <1>5, <1>6, TopActs
  <1>8. Seen' = Seen
    BY <1>1, <1>2, <1>4, SeenTable
  <1>9. TableOK'
    BY <1>7 DEF TableOK
  <1> QED BY <1>1, <1>2, <1>4, <1>5, <1>6, <1>7, <1>8, <1>9, IdleThread

LEMMA LeaveThread == ASSUME Branched, ProcessorInv, ThreadOK, Leave PROVE ThreadOK'
  <1>1. /\ stack = <<>> /\ stack' = <<>> /\ holder' = NoWorker /\ unsaved' = {}
        /\ UNCHANGED <<jobs, tasks, loaded, poked>>
    BY DEF Leave, dbVars, queueVars, ghostVars
  <1>2. unsaved = {}
    BY <1>1 DEF ProcessorInv, SavedInv
  <1>3. Running' = {} /\ ~ At("resume")' /\ \A g \in Calls(stack') : g.op # "branches"
    BY <1>1 DEF Running, At, Calls
  <1>4. Seen' = Seen
    BY <1>1, <1>2, SeenTable
  <1>5. TableOK'
    BY <1>1 DEF TableOK
  <1> QED BY <1>1, <1>3, <1>4, <1>5, IdleThread

LEMMA StillThread ==
  ASSUME ThreadOK, UNCHANGED <<jobs, tasks, loaded, holder, stack, held, base, unsaved, poked>>
  PROVE  ThreadOK'
  <1>1. Seen' = Seen /\ Running' = Running /\ Resumed' = Resumed /\ Top' = Top /\ \A op : At(op)' <=> At(op)
    BY DEF Seen, Running, Resumed, At, Top
  <1>2. Tasked' = Tasked /\ (\A u, t : Has(u, t)' <=> Has(u, t)) /\ Active' = Active
    BY <1>1, SameTasks DEF Active
  <1>3. ChainsOK'
    BY <1>1, <1>2 DEF ThreadOK, ChainsOK
  <1>4. TasksOK'
    BY <1>1, <1>2 DEF ThreadOK, TasksOK
  <1>5. WokenOK'
    BY <1>1, <1>2 DEF ThreadOK, WokenOK
  <1>6. CallsOK'
    BY <1>1 DEF ThreadOK, CallsOK
  <1>7. ReturnOK' /\ TableOK'
    BY <1>1 DEF ThreadOK, ReturnOK, TableOK
  <1> QED BY <1>3, <1>4, <1>5, <1>6, <1>7 DEF ThreadOK

\* A worker takes a task that nobody else has.
LEMMA LoadThread ==
  ASSUME ProcessorInv, ThreadOK, exec = STARTED, NEW x \in Workers, NEW t \in JobIds \cup {0}, Load(x, t)
  PROVE  ThreadOK'
  <1>1. /\ loaded[x] = NoTask /\ tasks[t] > 0 /\ tasks' = [tasks EXCEPT ![t] = @ - 1]
        /\ loaded' = [loaded EXCEPT ![x] = [job |-> t, status |-> IF t = 0 THEN PENDING ELSE jobs[t].status]]
        /\ UNCHANGED <<jobs, holder, stack, held, base, unsaved, poked>>
    BY DEF Load, dbVars, procVars, ghostVars
  <1>2. PICK got : got = [job |-> t, status |-> IF t = 0 THEN PENDING ELSE jobs[t].status]
    OBVIOUS
  <1>3. got.job = t /\ (t # 0 => got.status = jobs[t].status) /\ got # NoTask
    <2>1. t # 0 => jobs[t].status \in Statuses
      BY <1>1 DEF ProcessorInv, TaskInv, Wakes, DataInv, Data, JobsOK, Job
    <2>2. got.status \in Statuses
      BY <1>2, <2>1 DEF Statuses, PENDING
    <2>3. Null \notin Statuses /\ NoTask.status = Null
      BY DEF Statuses, PENDING, RESOLVED, FAILED, ABORTED, Null, NoTask
    <2> QED BY <1>2, <2>2, <2>3
  <1>4. /\ tasks \in [JobIds \cup {0} -> Nat] /\ loaded' = [loaded EXCEPT ![x] = got]
        /\ loaded \in [Workers -> [job : JobIds \cup {0}, status : Statuses \cup {Null}]]
    BY <1>1, <1>2 DEF ProcessorInv, TaskInv
  <1>5. /\ \A i \in JobIds \cup {0} : tasks'[i] = IF i = t THEN tasks[i] - 1 ELSE tasks[i]
        /\ \A u \in Workers : loaded'[u] = IF u = x THEN got ELSE loaded[u]
    BY <1>1, <1>4
  <1>6. \A u \in Workers : \A i : Has(u, i)' <=> IF u = x THEN i = t ELSE Has(u, i)
    BY <1>3, <1>5 DEF Has
  <1>7. tasks[t] = 1 /\ (\A u \in Workers : ~ Has(u, t)) /\ \A i : ~ Has(x, i)
    <2>1. tasks[t] <= 1 /\ \A u \in Workers : Has(u, t) => tasks[t] = 0
      BY DEF ThreadOK, TasksOK
    <2> QED BY <1>1, <1>4, <2>1 DEF Has
  <1>8. Tasked' = Tasked
    <2>1. \A i \in JobIds \cup {0} : i \in Tasked' <=> i \in Tasked
      <3> SUFFICES ASSUME NEW i \in JobIds \cup {0}
                   PROVE  (tasks'[i] > 0 \/ \E u \in Workers : Has(u, i)') <=> (tasks[i] > 0 \/ \E u \in Workers : Has(u, i))
        BY DEF Tasked
      <3>1. CASE i = t
        BY <1>1, <1>6, <3>1
      <3>2. CASE i # t
        BY <1>5, <1>6, <1>7, <3>2
      <3> QED BY <3>1, <3>2
    <2> QED BY <2>1 DEF Tasked
  <1>9. Seen' = Seen /\ Running' = Running /\ Resumed' = Resumed /\ Top' = Top /\ \A op : At(op)' <=> At(op)
    BY <1>1 DEF Seen, Running, Resumed, At, Top
  <1>10. ChainsOK'
    BY <1>8, <1>9 DEF ThreadOK, ChainsOK, Active
  <1>11. TasksOK'
    <2>1. ASSUME NEW i \in JobIds \cup {0}
          PROVE  /\ tasks'[i] <= 1
                 /\ \A u \in Workers : Has(u, i)' => tasks'[i] = 0 /\ \A y \in Workers : Has(y, i)' => y = u
      <3>1. CASE i = t
        BY <1>4, <1>5, <1>6, <1>7, <3>1
      <3>2. CASE i # t
        BY <1>5, <1>6, <1>7, <3>2 DEF ThreadOK, TasksOK
      <3> QED BY <3>1, <3>2
    <2>2. \A u \in Workers : \A j \in JobIds : Has(u, j)' => loaded'[u].status = jobs'[j].status
      <3> SUFFICES ASSUME NEW u \in Workers, NEW j \in JobIds, Has(u, j)' PROVE loaded'[u].status = jobs[j].status
        BY <1>1
      <3>1. CASE u = x
        BY <1>3, <1>5, <1>6, <3>1, ProcessorAssumption
      <3>2. CASE u # x
        BY <1>5, <1>6, <3>2 DEF ThreadOK, TasksOK
      <3> QED BY <3>1, <3>2
    <2>3. /\ Tasked' \cap (Resumed' \cup unsaved') = {}
          /\ 0 \in Tasked' => Ids(Seen') = {} /\ (stack' = <<>> \/ At("prepare")')
      BY <1>1, <1>8, <1>9 DEF ThreadOK, TasksOK
    <2> QED BY <2>1, <2>2, <2>3 DEF TasksOK
  <1>12. WokenOK'
    BY <1>1, <1>8, <1>9 DEF ThreadOK, WokenOK
  <1>13. CallsOK'
    BY <1>1, <1>9 DEF ThreadOK, CallsOK
  <1>14. ReturnOK' /\ TableOK'
    BY <1>1, <1>9 DEF ThreadOK, ReturnOK, TableOK
  <1> QED BY <1>10, <1>11, <1>12, <1>13, <1>14 DEF ThreadOK

\* prepare: the job to resume is looked at by the processor instead of the queue.
LEMMA PrepareThread == ASSUME ProcessorInv, ThreadOK, Prepare PROVE ThreadOK'
  <1>1. PICK task, f, h : Loads(task, f, h)
    BY PrepareLoads
  <1>2. PICK t : t = task.job /\ t \in JobIds \cup {0}
    BY <1>1 DEF Loads
  <1>3. /\ At("prepare") /\ stack # <<>> /\ holder \in Workers /\ loaded[holder] # NoTask
        /\ UNCHANGED <<jobs, tasks, holder, poked>>
    BY <1>1 DEF Prepare, At, dbVars, ghostVars, Loads, ProcessorInv, TypesInv, PrepareInv
  <1>4. /\ t # 0 => t \in Ids(jobs) /\ jobs[t].node \in Waiting
        /\ unsaved = {} /\ unsaved' = {} /\ stack' = <<f>> \o Tail(stack) /\ Calls(Tail(stack)) = {}
        /\ f = IF t = 0 THEN Run(Head0, 0) ELSE Resume(jobs[t].node, t)
        /\ \A u \in Workers : loaded'[u] = IF u = holder THEN NoTask ELSE loaded[u]
    BY <1>1, <1>2, <1>3 DEF Loads, ProcessorInv, TaskInv
  <1>5. /\ t = 0 => f.op = "run"
        /\ t # 0 => f.op = "resume" /\ f.job = t /\ f.node \in Waiting
    BY <1>4 DEF Run, Resume, Frame
  <1>6. stack' # <<>> /\ Head(stack') = f /\ Calls(stack') = {f}
    <2>1. PICK q : q = <<f>> \o Tail(stack) /\ q = stack'
      BY <1>4
    <2>2. q # <<>> /\ Head(q) = f /\ Calls(q) = {f} \cup Calls(Tail(stack))
      BY <1>3, <2>1, CallReplaced
    <2> QED BY <1>4, <2>1, <2>2
  <1>7. /\ Running' = IF f.op \in {"run", "called"} THEN {f.node} ELSE {}
        /\ Resumed' = (IF t = 0 THEN {} ELSE {t}) /\ Running = {} /\ Resumed = {}
        /\ \A op : At(op)' <=> f.op = op
    BY <1>3, <1>5, <1>6, TopActs DEF Running, Resumed, At
  <1>8. PICK v, w : v = Seen /\ w = Seen' /\ v = w /\ Ids(v) = Ids(jobs)
    <2>1. Seen' = Seen
      BY <1>3, <1>4, SeenTable
    <2>2. Ids(Seen) = Ids(jobs)
      BY <1>4, SavedView DEF Seen
    <2> QED BY <2>1, <2>2
  <1>9. \A u \in Workers : \A i : Has(u, i)' <=> Has(u, i) /\ u # holder
    BY <1>4 DEF Has
  <1>10. Has(holder, t) /\ tasks[t] = 0 /\ \A u \in Workers : Has(u, t) => u = holder
    <2>1. Has(holder, t)
      BY <1>1, <1>2, <1>3 DEF Has, Loads
    <2> QED BY <1>2, <1>3, <2>1 DEF ThreadOK, TasksOK
  <1>11. \A i : Has(holder, i) => i = t
    BY <1>1, <1>2 DEF Has, Loads
  <1>12. t \in Tasked /\ Tasked' = Tasked \ {t}
    <2>1. \A i \in JobIds \cup {0} : i \in Tasked' <=> i \in Tasked /\ i # t
      BY <1>3, <1>9, <1>10, <1>11 DEF Tasked
    <2>2. t \in Tasked
      BY <1>2, <1>3, <1>10 DEF Tasked
    <2> QED BY <2>1, <2>2 DEF Tasked
  <1>13. 0 \in Tasked => Ids(v) = {}
    BY <1>8 DEF ThreadOK, TasksOK
  <1>14. ChainsOK'
    <2>1. CASE t = 0
      <3>1. Ids(w) = {}
        BY <1>8, <1>12, <1>13, <2>1
      <3> QED BY <1>8, <3>1 DEF ChainsOK, Ordered, InFront, Accurate
    <2>2. CASE t # 0
      <3>1. PICK a, b, r, s : a = Active /\ b = Active' /\ r = Running /\ s = Running' /\ a = b /\ r = s
        BY <1>5, <1>7, <1>12, <2>2 DEF Active
      <3>2. Ordered(v, a) /\ InFront(v, a, r) /\ Accurate(v, a)
        BY <1>8, <3>1 DEF ThreadOK, ChainsOK
      <3> QED BY <1>8, <3>1, <3>2 DEF ChainsOK
    <2> QED BY <2>1, <2>2
  <1>15. TasksOK'
    <2>1. 0 \notin Tasked'
      BY <1>4, <1>8, <1>12, <1>13
    <2>2. ASSUME NEW u \in Workers, NEW j \in JobIds, Has(u, j)' PROVE loaded'[u].status = jobs'[j].status
      <3>1. Has(u, j) /\ u # holder
        BY <1>9, <2>2
      <3> QED BY <1>3, <1>4, <3>1 DEF ThreadOK, TasksOK
    <2>3. ASSUME NEW i \in JobIds \cup {0}
          PROVE  /\ tasks'[i] <= 1
                 /\ \A u \in Workers : Has(u, i)' => tasks'[i] = 0 /\ \A y \in Workers : Has(y, i)' => y = u
      BY <1>3, <1>9 DEF ThreadOK, TasksOK
    <2>4. Tasked' \cap (Resumed' \cup unsaved') = {}
      BY <1>4, <1>7, <1>12
    <2> QED BY <2>1, <2>2, <2>3, <2>4 DEF TasksOK
  <1>16. WokenOK'
    <2> SUFFICES ASSUME NEW j \in Ids(w), w[j].node \in Waiting
                 PROVE  poked[j] >= 1 \/ (w[j].status = PENDING /\ j \notin Tasked' /\ ~ (At("resume")' /\ Head(stack').job = j))
      BY <1>3, <1>8 DEF WokenOK, Top
    <2>1. poked[j] >= 1 \/ (v[j].status = PENDING /\ j \notin Tasked)
      BY <1>8 DEF ThreadOK, WokenOK
    <2>2. j \notin Tasked => j # t
      BY <1>12
    <2> QED BY <1>5, <1>6, <1>7, <1>8, <1>12, <2>1, <2>2
  <1>17. CallsOK'
    <2>1. StackOK(stack, held) /\ Distinct(stack)
      BY DEF ProcessorInv, StackInv, ThreadOK, CallsOK
    <2>2. f.op # "branches"
      BY <1>5
    <2>3. Distinct(stack')
      BY <1>3, <1>4, <2>1, <2>2, DistinctReplaced
    <2> QED BY <1>6, <2>2, <2>3 DEF CallsOK, Begun, Untouched
  <1>18. ReturnOK'
    <2>1. At("resume")' => Head(stack').node \notin Parallels
      BY <1>5, <1>6, <1>7, ProcessorAssumption
    <2> QED BY <2>1 DEF ReturnOK, Top
  <1>19. TableOK'
    <2> SUFFICES ASSUME NEW j \in Ids(h) PROVE jobs[j] = h[j]
      BY <1>1, <1>3 DEF TableOK, Loads
    <2>1. CASE j # t
      BY <1>1, <1>2, <2>1 DEF Loads
    <2>2. CASE j = t
      <3>1. t # 0 /\ h[t] \in Job /\ jobs[t] \in Job /\ h[t].node = jobs[t].node /\ h[t].result = jobs[t].result
        <4>1. t \in Ids(jobs) /\ h[t] \in Job /\ h[t].node = jobs[t].node /\ h[t].result = jobs[t].result
          BY <1>1, <2>2 DEF Loads
        <4> QED BY <4>1, ProcessorAssumption DEF ProcessorInv, DataInv, Data, JobsOK
      <3>2. task.status = jobs[t].status
        BY <1>1, <1>2, <1>3, <1>10, <3>1 DEF ThreadOK, TasksOK, Loads
      <3>3. h[t].status = task.status
        <4>1. h[t] = [jobs[t] EXCEPT !.status = task.status]
          BY <1>1, <1>2, <2>2 DEF Loads, Prepare, Ids
        <4> QED BY <3>1, <4>1 DEF Job
      <3> QED BY <2>2, <3>1, <3>2, <3>3 DEF Job
    <2> QED BY <2>1, <2>2
  <1> QED BY <1>14, <1>15, <1>16, <1>17, <1>18, <1>19 DEF ThreadOK

\* A pending job is settled, or not, and somebody is about to look at it.
LEMMA WokenChains ==
  ASSUME NEW v, NEW w, NEW a, NEW r, NEW j \in Ids(v), v[j].status = PENDING, v[j].node \notin Parallels,
         Ids(w) = Ids(v), w[j].node = v[j].node, \A i \in Ids(v) \ {j} : w[i] = v[i],
         Ordered(v, a), InFront(v, a, r), Accurate(v, a)
  PROVE  Ordered(w, a \cup {j}) /\ InFront(w, a \cup {j}, r) /\ Accurate(w, a \cup {j})
  <1>1. ~ Passed(v[j]) /\ ~ Closes(v[j])
    BY PassedOpen DEF Closes, PENDING, RESOLVED
  <1>2. Ordered(w, a \cup {j})
    <2> SUFFICES ASSUME NEW i \in Ids(w), NEW k \in Ids(w), i < k, Lane(w[i].node) = Lane(w[k].node)
                 PROVE  Precedes(w[i], w[k].node) /\ i \notin a \cup {j}
      BY DEF Ordered
    <2>1. Precedes(v[i], v[k].node) /\ i \notin a
      BY DEF Ordered
    <2>2. i # j
      BY <1>1, <2>1 DEF Precedes
    <2> QED BY <2>1, <2>2
  <1>3. InFront(w, a \cup {j}, r)
    <2> SUFFICES ASSUME NEW i \in Ids(w), NEW n \in r, Lane(w[i].node) = Lane(n)
                 PROVE  Precedes(w[i], n) /\ i \notin a \cup {j}
      BY DEF InFront
    <2>1. Precedes(v[i], n) /\ i \notin a
      BY DEF InFront
    <2>2. i # j
      BY <1>1, <2>1 DEF Precedes
    <2> QED BY <2>1, <2>2
  <1>4. Accurate(w, a \cup {j})
    <2> SUFFICES ASSUME NEW i \in Ids(w), w[i].node \in Parallels, w[i].status = PENDING
                 PROVE  Told(w, a \cup {j}, i)
      BY DEF Accurate
    <2>1. i # j /\ w[i] = v[i] /\ Told(v, a, i)
      BY DEF Accurate
    <2>2. ASSUME NEW C
          PROVE  (\E c \in Ids(v) : v[c].node \in C /\ Closes(v[c]) /\ c \notin a) <=>
                 (\E c \in Ids(w) : w[c].node \in C /\ Closes(w[c]) /\ c \notin a \cup {j})
      <3> HIDE DEF Closes
      <3> QED BY <1>1
    <2> HIDE DEF Closes
    <2> QED BY <2>1, <2>2 DEF Told
  <1> QED BY <1>2, <1>3, <1>4

\* A waiting job is resumed for the first time.
LEMMA WokenThread ==
  ASSUME ProcessorInv, RestInv, ThreadOK, NEW j \in Ids(jobs), jobs[j].node \in Waiting, Once',
         poked \in [JobIds -> Nat], poked' = [poked EXCEPT ![j] = @ + 1], tasks' = [tasks EXCEPT ![j] = @ + 1],
         UNCHANGED <<loaded, stack, held, base, unsaved, holder>>,
         Ids(jobs') = Ids(jobs), jobs'[j].node = jobs[j].node, \A i \in Ids(jobs) \ {j} : jobs'[i] = jobs[i],
         jobs' = jobs \/ holder = NoWorker
  PROVE  ThreadOK'
  <1>1. /\ j \in JobIds /\ j # 0 /\ tasks \in [JobIds \cup {0} -> Nat] /\ Ids(jobs) \subseteq JobIds
        /\ \A i \in Ids(held) \cap Ids(jobs) : held[i].node = jobs[i].node
        /\ unsaved \subseteq Ids(held) /\ jobs[j] \in Job
    BY ProcessorAssumption DEF ProcessorInv, TaskInv, DataInv, Data, JobsOK, Objects
  <1>2. /\ \A i \in JobIds : poked'[i] = IF i = j THEN poked[i] + 1 ELSE poked[i]
        /\ \A i \in JobIds \cup {0} : tasks'[i] = IF i = j THEN tasks[i] + 1 ELSE tasks[i]
        /\ poked[j] = 0
    <2>1. /\ \A i \in JobIds : poked'[i] = IF i = j THEN poked[i] + 1 ELSE poked[i]
          /\ \A i \in JobIds \cup {0} : tasks'[i] = IF i = j THEN tasks[i] + 1 ELSE tasks[i]
      BY <1>1
    <2> QED BY <1>1, <2>1 DEF Once
  <1>3. PICK v, w : v = Seen /\ w = Seen'
    OBVIOUS
  <1>4. /\ nextId \in Nat /\ Ids(v) = Ids(jobs) \cup unsaved /\ Ids(v) \subseteq 1..nextId
        /\ \A i \in Ids(v) : v[i] \in Job /\ (i \in unsaved => v[i] = held[i]) /\ (i \notin unsaved => v[i] = jobs[i])
    BY <1>3, SeenKnown
  <1>5. j \in Ids(v) /\ v[j].node = jobs[j].node /\ v[j].node \in Waiting /\ v[j].node \notin Parallels
    BY <1>1, <1>4, ProcessorAssumption
  <1>6. v[j].status = PENDING /\ j \notin Tasked /\ ~ (At("resume") /\ Top.job = j /\ Top.node \in Waiting)
    BY <1>2, <1>3, <1>5 DEF ThreadOK, WokenOK
  <1>7. j \notin unsaved
    BY <1>1, <1>4, <1>5, <1>6 DEF RestInv, WaitInv
  <1>8. ~ (At("resume") /\ Top.job = j)
    <2> SUFFICES ASSUME At("resume"), Top.job = j PROVE FALSE
      OBVIOUS
    <2>1. Top.node \in Parallels
      BY <1>6, TopKnown DEF At, FrameOK
    <2> QED BY <1>7, <2>1 DEF ThreadOK, ReturnOK
  <1>9. Running' = Running /\ Resumed' = Resumed /\ Top' = Top /\ \A op : At(op)' <=> At(op)
    BY DEF Running, Resumed, At, Top
  <1>10. \A u, i : Has(u, i)' <=> Has(u, i)
    BY DEF Has
  <1>11. tasks[j] = 0 /\ \A u \in Workers : ~ Has(u, j)
    <2>1. j \in JobIds \cup {0} /\ tasks[j] \in Nat
      BY <1>1
    <2>2. ~ (tasks[j] > 0 \/ \E u \in Workers : Has(u, j))
      BY <1>6, <2>1 DEF Tasked
    <2> QED BY <2>1, <2>2
  <1>12. Tasked' = Tasked \cup {j}
    <2>1. \A i \in JobIds \cup {0} : i \in Tasked' <=> i \in Tasked \/ i = j
      BY <1>1, <1>2, <1>10, <1>11 DEF Tasked
    <2> QED BY <1>1, <2>1 DEF Tasked
  <1>13. Ids(w) = Ids(v) /\ w[j].node = v[j].node /\ \A i \in Ids(v) \ {j} : w[i] = v[i]
    <2>1. PICK t, h, u : t = jobs' /\ h = held' /\ u = unsaved'
      OBVIOUS
    <2>2. w = View(t, h, u) /\ h = held /\ u = unsaved
      BY <1>3, <2>1 DEF Seen
    <2>3. /\ Ids(w) = Ids(t) \cup u
          /\ \A i \in Ids(w) : w[i] = IF i \in u THEN h[i] ELSE t[i]
      BY <2>2 DEF View, Ids
    <2> QED BY <1>4, <1>5, <1>7, <2>1, <2>2, <2>3
  <1>14. ChainsOK'
    <2>1. PICK a, b, r, s : a = Active /\ b = Active' /\ r = Running /\ s = Running' /\ b = a \cup {j} /\ r = s
      BY <1>9, <1>12 DEF Active
    <2>2. Ordered(v, a) /\ InFront(v, a, r) /\ Accurate(v, a)
      BY <1>3, <2>1 DEF ThreadOK, ChainsOK
    <2>3. Ordered(w, b) /\ InFront(w, b, r) /\ Accurate(w, b)
      <3>1. Ordered(w, a \cup {j}) /\ InFront(w, a \cup {j}, r) /\ Accurate(w, a \cup {j})
        <4>1. v[j].status = PENDING
          BY <1>6
        <4> QED BY ONLY <1>5, <1>13, <2>2, <4>1, WokenChains
      <3> QED BY <2>1, <3>1
    <2> QED BY <1>3, <2>1, <2>3 DEF ChainsOK
  <1>15. TasksOK'
    <2>1. ASSUME NEW i \in JobIds \cup {0}
          PROVE  /\ tasks'[i] <= 1
                 /\ \A u \in Workers : Has(u, i)' => tasks'[i] = 0 /\ \A y \in Workers : Has(y, i)' => y = u
      BY <1>2, <1>10, <1>11 DEF ThreadOK, TasksOK
    <2>2. ASSUME NEW u \in Workers, NEW i \in JobIds, Has(u, i)' PROVE loaded'[u].status = jobs'[i].status
      <3>1. Has(u, i) /\ i # j /\ i \in Tasked
        BY <1>10, <1>11, <2>2 DEF Tasked
      <3>2. i \in Ids(jobs)
        BY <3>1, TaskedKnown, ProcessorAssumption
      <3> QED BY <3>1, <3>2 DEF ThreadOK, TasksOK
    <2>3. Tasked' \cap (Resumed' \cup unsaved') = {}
      <3>1. j \notin Resumed
        BY <1>8 DEF Resumed
      <3> QED BY <1>7, <1>9, <1>12, <3>1 DEF ThreadOK, TasksOK
    <2>4. 0 \notin Tasked'
      <3>1. 0 \notin Tasked
        BY <1>3, <1>5 DEF ThreadOK, TasksOK
      <3> QED BY <1>1, <1>12, <3>1
    <2> QED BY <2>1, <2>2, <2>3, <2>4 DEF TasksOK
  <1>16. WokenOK'
    <2> SUFFICES ASSUME NEW i \in Ids(w), w[i].node \in Waiting
                 PROVE  \/ poked'[i] >= 1
                        \/ w[i].status = PENDING /\ i \notin Tasked' /\ ~ (At("resume") /\ Top.job = i /\ Top.node \in Waiting)
      BY <1>3, <1>9 DEF WokenOK
    <2>1. CASE i = j
      BY <1>1, <1>2, <2>1
    <2>2. CASE i # j
      <3>1. \/ poked[i] >= 1
            \/ v[i].status = PENDING /\ i \notin Tasked /\ ~ (At("resume") /\ Top.job = i /\ Top.node \in Waiting)
        BY <1>3, <1>13, <2>2 DEF ThreadOK, WokenOK
      <3>2. poked'[i] = poked[i]
        BY <2>2
      <3> QED BY <1>12, <1>13, <2>2, <3>1, <3>2
    <2> QED BY <2>1, <2>2
  <1>17. CallsOK'
    <2>1. PICK q : q = stack' /\ q = stack
      OBVIOUS
    <2>2. Distinct(q)
      BY <2>1 DEF ThreadOK, CallsOK
    <2>3. \A i \in Ids(v) : w[i].node = v[i].node
      BY <1>13
    <2> QED BY <1>3, <1>9, <1>13, <2>1, <2>2, <2>3, CallsStay DEF ThreadOK
  <1>18. ReturnOK'
    BY <1>9 DEF ThreadOK, ReturnOK
  <1>19. TableOK'
    BY <1>9 DEF ThreadOK, TableOK
  <1> QED BY <1>14, <1>15, <1>16, <1>17, <1>18, <1>19 DEF ThreadOK

LEMMA PokeThread ==
  ASSUME ProcessorInv, RestInv, ThreadOK, NEW j \in Ids(jobs), Once', poked \in [JobIds -> Nat],
         Poke(j) \/ \E s \in {RESOLVED, FAILED} : ResumeAction(j, s)
  PROVE  ThreadOK'
  <1>1. /\ jobs[j].node \in Waiting
        /\ poked' = [poked EXCEPT ![j] = @ + 1] /\ tasks' = [tasks EXCEPT ![j] = @ + 1]
        /\ UNCHANGED <<loaded, stack, held, base, unsaved, holder>>
    BY DEF Poke, ResumeAction, dbVars, procVars
  <1>2. /\ Ids(jobs') = Ids(jobs) /\ jobs'[j].node = jobs[j].node /\ \A i \in Ids(jobs) \ {j} : jobs'[i] = jobs[i]
        /\ jobs' = jobs \/ holder = NoWorker
    <2>1. CASE Poke(j)
      BY <2>1 DEF Poke, dbVars
    <2>2. ASSUME NEW s \in {RESOLVED, FAILED}, ResumeAction(j, s)
          PROVE  /\ Ids(jobs') = Ids(jobs) /\ jobs'[j].node = jobs[j].node /\ \A i \in Ids(jobs) \ {j} : jobs'[i] = jobs[i]
                 /\ holder = NoWorker
      <3>1. jobs' = [jobs EXCEPT ![j].status = s] /\ holder = NoWorker
        BY <2>2 DEF ResumeAction
      <3>2. jobs[j] \in Job
        BY DEF ProcessorInv, DataInv, Data, JobsOK
      <3> QED BY <3>1, <3>2 DEF Ids, Job
    <2> QED BY <2>1, <2>2
  <1> QED BY <1>1, <1>2, WokenThread

\* An execution that goes on after a step has gone on before it.
LEMMA WentOn ==
  ASSUME ProcessorInv, RestInv, [Next]_vars, Goes'
  PROVE  Goes /\ ~ Stop /\ ~ Crash /\ ~ AbortRows
  <1>1. exec' = STARTED /\ crashes' = 0 /\ ~ Ending' /\ ~ AbortRows
    BY AbortEnds DEF Goes
  <1>2. ~ Crash
    BY <1>1 DEF Crash, ProcessorInv, TypesInv
  <1>3. ~ Stop
    <2> SUFFICES ASSUME Stop PROVE FALSE
      OBVIOUS
    <2>1. copy # STARTED /\ exec' = exec
      BY <1>1 DEF Stop
    <2> QED BY <1>1, <2>1 DEF RestInv, CopyInv
  <1>4. crashes' = crashes
    <2>1. CASE UNCHANGED vars
      BY <2>1 DEF vars, ghostVars
    <2>2. CASE Processing
      BY <1>3, <2>2 DEF Processing, Prepare, Call, RunNode, RunWaiting, RunParallel, RunBranch, BranchesEnd, BranchesThrow,
           ResumeWaiting, ResumeParallel, ExitSave, ExitUpdate, Leave, ghostVars
    <2> QED BY <1>1, <1>2, <2>1, <2>2 DEF Next, Enter, Load, Poke, ResumeAction, ResumeTooLate, Abort, Expire,
           TimeoutGuard, TimeoutAbort, ghostVars
  <1>5. exec = STARTED /\ ~ Ending
    <2>1. CASE UNCHANGED vars
      BY <1>1, <2>1 DEF vars, dbVars, procVars, Ending, At, Top
    <2>2. CASE Processing
      <3>1. CASE ExitSave
        <4>1. PICK top, f : top = Top /\ f = [top EXCEPT !.op = "update"]
          OBVIOUS
        <4>2. At("exit") /\ stack # <<>> /\ stack' = <<f>> \o Tail(stack) /\ exec' = exec
          BY <3>1, <4>1 DEF ExitSave, At, Replace
        <4>3. f.op = "update" /\ f.k = top.k
          <5>1. top \in Frames
            BY <4>1, <4>2, TopKnown
          <5> QED BY <4>1, <5>1 DEF Frames
        <4>4. stack' # <<>> /\ Head(stack') = f
          BY <4>2, CallReplaced
        <4> QED BY <1>1, <4>1, <4>2, <4>3, <4>4 DEF Ending, At, Top
      <3>2. CASE ExitUpdate
        <4>1. At("update") /\ IF Top.k = Null THEN UNCHANGED <<exec, copy>>
                              ELSE exec' = IF exec = STARTED THEN Top.k ELSE exec
          BY <3>2 DEF ExitUpdate
        <4> QED BY <1>1, <4>1 DEF Ending, At, PENDING, STARTED
      <3>3. CASE Leave
        BY <1>1, <3>3 DEF Leave, Ending, At, dbVars
      <3>4. CASE Prepare \/ Call \/ RunNode \/ RunWaiting \/ RunParallel \/ RunBranch \/ BranchesEnd \/ BranchesThrow
                 \/ ResumeWaiting \/ ResumeParallel
        BY <1>1, <3>4 DEF Prepare, Call, RunNode, RunWaiting, RunParallel, RunBranch, BranchesEnd, BranchesThrow,
           ResumeWaiting, ResumeParallel, Ending, At, Called, dbVars
      <3> QED BY <1>3, <2>2, <3>1, <3>2, <3>3, <3>4 DEF Processing
    <2>3. ASSUME NEW x \in Workers, Enter(x) PROVE exec = STARTED /\ ~ Ending
      BY <1>1, <2>3, IdleView DEF Enter, Ending, At
    <2>4. ASSUME NEW x \in Workers, NEW t \in JobIds \cup {0}, Load(x, t) PROVE exec = STARTED /\ ~ Ending
      BY <1>1, <2>4 DEF Load, dbVars, procVars, Ending, At, Top
    <2>5. ASSUME NEW j, Poke(j) \/ \E s \in {RESOLVED, FAILED} : ResumeAction(j, s)
          PROVE  exec = STARTED /\ ~ Ending
      BY <1>1, <2>5 DEF Poke, ResumeAction, dbVars, procVars, Ending, At, Top
    <2>6. ASSUME Expire \/ TimeoutGuard PROVE exec = STARTED /\ ~ Ending
      BY <1>1, <2>6 DEF Expire, TimeoutGuard, dbVars, procVars, Ending, At, Top
    <2> QED BY <1>1, <1>2, <2>1, <2>2, <2>3, <2>4, <2>5, <2>6 DEF Next, ResumeTooLate, Abort, TimeoutAbort
  <1> QED BY <1>1, <1>2, <1>3, <1>4, <1>5 DEF Goes

\* Jobs are resumed more and more often.
LEMMA PokedGrows ==
  ASSUME ProcessorInv, poked \in [JobIds -> Nat], [Next]_vars
  PROVE  poked' \in [JobIds -> Nat] /\ (Once' => Once)
  <1>1. \/ poked' = poked
        \/ \E j \in Ids(jobs) : poked' = [poked EXCEPT ![j] = @ + 1]
    <2>1. CASE UNCHANGED vars
      BY <2>1 DEF vars, ghostVars
    <2>2. CASE Processing
      BY <2>2 DEF Processing, Prepare, Stop, Call, RunNode, RunWaiting, RunParallel, RunBranch, BranchesEnd, BranchesThrow,
           ResumeWaiting, ResumeParallel, ExitSave, ExitUpdate, Leave, ghostVars
    <2> QED BY <2>1, <2>2 DEF Next, Enter, Load, Poke, ResumeAction, ResumeTooLate, Abort, Expire,
           TimeoutGuard, TimeoutAbort, Crash, ghostVars
  <1>2. ASSUME NEW j \in Ids(jobs), poked' = [poked EXCEPT ![j] = @ + 1]
        PROVE  poked' \in [JobIds -> Nat] /\ (Once' => Once)
    <2>1. j \in JobIds
      BY DEF ProcessorInv, DataInv, Data, JobsOK
    <2>2. poked' \in [JobIds -> Nat] /\ \A i \in JobIds : poked[i] <= poked'[i]
      BY <1>2, <2>1
    <2>3. \A i \in JobIds : poked[i] \in Nat /\ poked'[i] \in Nat
      BY <2>2
    <2> QED BY <2>2, <2>3 DEF Once
  <1> QED BY <1>1, <1>2 DEF Once

LEMMA NextThread == ASSUME Branched, ProcessorInv, RestInv, ThreadInv, [Next]_vars PROVE ThreadInv'
  <1>1. poked \in [JobIds -> Nat] /\ poked' \in [JobIds -> Nat] /\ (Once' => Once)
    BY PokedGrows DEF ThreadInv
  <1> SUFFICES ASSUME Goes', Once' PROVE ThreadOK'
    BY <1>1 DEF ThreadInv
  <1>2. Goes /\ ~ Stop /\ ~ Crash /\ ~ AbortRows /\ exec = STARTED /\ exec' = STARTED
    BY WentOn DEF Goes
  <1>3. ThreadOK
    BY <1>1, <1>2 DEF ThreadInv
  <1>4. CASE UNCHANGED vars \/ Expire \/ TimeoutGuard
    <2>1. UNCHANGED <<jobs, tasks, loaded, holder, stack, held, base, unsaved, poked>>
      BY <1>4 DEF vars, Expire, TimeoutGuard, dbVars, queueVars, procVars, ghostVars
    <2> QED BY <1>3, <2>1, StillThread
  <1>5. CASE Processing
    BY <1>2, <1>3, <1>5, PrepareThread, CallThread, RunNodeThread, RunWaitingThread, RunParallelThread, RunBranchThread,
       BranchesEndThread, BranchesThrowNever, ResumeWaitingThread, ResumeParallelThread, ExitSaveThread,
       ExitUpdateThread, LeaveThread DEF Processing
  <1>6. ASSUME NEW x \in Workers, Enter(x) \/ \E t \in JobIds \cup {0} : Load(x, t) PROVE ThreadOK'
    BY <1>2, <1>3, <1>6, EnterThread, LoadThread
  <1>7. ASSUME NEW j \in Ids(jobs), Poke(j) \/ \E s \in {RESOLVED, FAILED} : ResumeAction(j, s) PROVE ThreadOK'
    BY <1>1, <1>3, <1>7, PokeThread
  <1> QED BY <1>2, <1>4, <1>5, <1>6, <1>7 DEF Next, ResumeTooLate, Abort, TimeoutAbort

LEMMA InitThread == ASSUME Init PROVE ThreadInv
  <1>1. /\ Ids(Seen) = {} /\ stack = <<>> /\ holder = NoWorker /\ unsaved = {}
        /\ poked = [j \in JobIds |-> 0] /\ tasks = [t \in JobIds \cup {0} |-> IF t = 0 THEN 1 ELSE 0]
        /\ \A u \in Workers : loaded[u] = NoTask
    BY SavedView DEF Init, Seen, NoJobs, Ids
  <1>2. Calls(stack) = {} /\ Len(stack) = 0
    BY <1>1 DEF Calls
  <1>3. Running = {} /\ Resumed = {} /\ ~ At("resume")
    BY <1>1 DEF Running, Resumed, At
  <1>4. \A u \in Workers : \A t : ~ Has(u, t)
    BY <1>1 DEF Has
  <1>5. ChainsOK
    BY <1>1 DEF ChainsOK, Ordered, InFront, Accurate
  <1>6. TasksOK
    BY <1>1, <1>3, <1>4, ProcessorAssumption DEF TasksOK
  <1>7. CallsOK
    BY <1>2, <1>3 DEF CallsOK, Distinct, Begun, Untouched
  <1>8. WokenOK /\ ReturnOK /\ TableOK
    BY <1>1, <1>3 DEF WokenOK, ReturnOK, TableOK
  <1> QED BY <1>1, <1>5, <1>6, <1>7, <1>8 DEF ThreadInv, ThreadOK

\* Between two processors no branch has an end its parallel node is still to be told of.
LEMMA QuietAccurate ==
  ASSUME ProcessorInv, ThreadInv, Once PROVE JoinIsAccurate
  <1> SUFFICES ASSUME Quiet, exec = STARTED, crashes = 0,
                      NEW j \in Ids(jobs), jobs[j].node \in Parallels, jobs[j].status = PENDING,
                      NEW i \in DOMAIN jobs[j].result
               PROVE  jobs[j].result[i] \notin {Null, PENDING} <=> BranchEnded(BranchNo(jobs[j].node, i))
    BY DEF JoinIsAccurate
  <1>1. stack = <<>> /\ \A k \in Ids(jobs) : Seen[k] = jobs[k]
    BY QuietWaits
  <1>2. Ids(Seen) = Ids(jobs)
    BY IdleView DEF Quiet
  <1>3. Goes
    BY <1>1 DEF Goes, Ending, At
  <1>4. Active = {}
    <2>1. \A t \in JobIds \cup {0} : tasks[t] = 0 /\ \A u \in Workers : ~ Has(u, t)
      BY DEF Quiet, Has, ProcessorInv, TaskInv
    <2> QED BY <1>1, <2>1 DEF Active, Tasked, Resumed, At
  <1>5. Told(Seen, {}, j)
    BY <1>1, <1>2, <1>3, <1>4 DEF ThreadInv, ThreadOK, ChainsOK, Accurate
  <1>6. PICK v, C, r : v = Seen /\ C = Chain(BranchNo(jobs[j].node, i)) /\ r = jobs[j].result
    OBVIOUS
  <1>7. r[i] \notin {Null, PENDING} <=> \E c \in Ids(v) : v[c].node \in C /\ Closes(v[c])
    <2> HIDE DEF Closes
    <2> QED BY <1>1, <1>5, <1>6 DEF Told
  <1>8. BranchEnded(BranchNo(jobs[j].node, i)) <=> \E c \in Ids(v) : v[c].node \in C /\ Closes(v[c])
    BY <1>1, <1>2, <1>6 DEF BranchEnded, Closes
  <1> QED BY <1>6, <1>7, <1>8

------------------------------------------------------------------------------
(* Theorems                                                                 *)

LEMMA Invariance == Spec => [](ProcessorInv /\ SignalInv)
  <1>1. Init => ProcessorInv
    BY InitInv
  <1>2. Init => SignalInv
    BY DEF Init, SignalInv, Over, Stopping
  <1>3. ProcessorInv /\ SignalInv /\ [Next]_vars => (ProcessorInv /\ SignalInv)'
    BY NextInv, SignalNext
  <1> QED BY <1>1, <1>2, <1>3, PTL DEF Spec

\* The tables, the queue, the stack of awaited calls and the processor's copies
\* keep their types, in every workflow.
THEOREM TypeCorrect == Spec => []TypeOK
  <1>1. ProcessorInv /\ SignalInv => TypeOK
    BY DEF ProcessorInv, TypesInv, TaskInv, DataInv, Data, JobsOK, Objects, IdleInv, SignalInv, TypeOK
  <1> QED BY <1>1, Invariance, PTL

\* Whatever workers resume which jobs how often, from however stale a copy, and
\* whoever aborts meanwhile: the node after a parallel node runs no more often
\* than the parallel node itself and the crashes together.  A tree with a
\* parallel node without branches (ParallelInstruction.run) is excepted: there a
\* join that was not saved is made again.
THEOREM JoinsHappenOnce == ASSUME Branched PROVE Spec => []JoinsOnce
  <1>1. ProcessorInv => JoinsOnce
    <2> SUFFICES ASSUME ProcessorInv, NEW n \in Parallels, Downstream(n) # NoNode
                 PROVE  runs[Downstream(n)] <= runs[n] + crashes
      BY DEF JoinsOnce
    <2>1. /\ runs[Downstream(n)] \in Nat /\ runs[n] \in Nat /\ crashes \in Nat
          /\ Cardinality(Open(n, jobs, unsaved, held)) \in Nat
          /\ runs[Downstream(n)] + Cardinality(Open(n, jobs, unsaved, held)) <= runs[n] + crashes
      BY JoinsWithoutTop
    <2> QED BY <2>1
  <1> QED BY <1>1, Invariance, PTL

\* Once the processor is told that its execution is aborted, or its time is up,
\* it runs at most one more ordinary node, in all processors of the execution.
THEOREM SignalIsHeeded == Spec => []SignalStops
  <1>1. SignalInv => SignalStops
    BY DEF SignalInv, SignalStops
  <1> QED BY <1>1, Invariance, PTL

\* When start or resume returns, nothing is left that was not written: whoever
\* releases the execution's lock loses no job.  After a parallel node without
\* branches that is not so: exit(true) saves nothing.
THEOREM NothingUnsavedAtLeave ==
  ASSUME Branched
  PROVE  Spec => [](holder # NoWorker /\ stack = <<>> => unsaved = {})
  <1>1. ProcessorInv => (holder # NoWorker /\ stack = <<>> => unsaved = {})
    BY DEF ProcessorInv, SavedInv
  <1> QED BY <1>1, Invariance, PTL

\* Nothing is lost while the processor works, in every workflow whose parallel
\* nodes have branches.
LEMMA NothingLost == ASSUME Branched PROVE Spec => [](ProcessorInv /\ RestInv)
  <1>1. Init => ProcessorInv /\ RestInv
    BY InitInv, InitRest
  <1>2. ProcessorInv /\ RestInv /\ [Next]_vars => (ProcessorInv /\ RestInv)'
    BY NextInv, NextRest
  <1> QED BY <1>1, <1>2, PTL DEF Spec

\* A running execution that nobody works on waits for something: when no worker
\* has a task of it, nor the queue, the table has a pending job of a waiting node,
\* which a timer or a user resumes.  So it is in every workflow, with whatever
\* workers, whoever resumes which job how often: each time the processor gives up
\* control, in the middle of nested branches, what it knows has been saved and
\* every branch without a result is still in somebody's hands.  A tree with a
\* parallel node without branches is excepted, as its jobs are not saved.
THEOREM NobodyIsForgotten == ASSUME Branched PROVE Spec => []SomethingToWaitFor
  <1>1. ProcessorInv /\ RestInv => SomethingToWaitFor
    BY SomebodyAsks DEF SomethingToWaitFor
  <1> QED BY <1>1, NothingLost, PTL

\* The saved result of a parallel node that still waits tells exactly which of its
\* branches have ended, whenever nobody works on the execution: in every workflow,
\* nested branches included, whatever the workers and the order in which the waiting
\* jobs are resumed.  Excepted is an execution one of whose jobs was resumed twice,
\* as two copies may then both run what follows it; if that waits or has branches,
\* it has two jobs, and the branch may have ended by the one and not by the other.
\* A tree with a parallel node without branches is excepted, too.
THEOREM BranchesAreJoined ==
  ASSUME Branched
  PROVE  Spec => []((\A j \in JobIds : poked[j] <= 1) => JoinIsAccurate)
  <1>1. Init => ProcessorInv /\ RestInv /\ ThreadInv
    BY InitInv, InitRest, InitThread
  <1>2. ProcessorInv /\ RestInv /\ ThreadInv /\ [Next]_vars => (ProcessorInv /\ RestInv /\ ThreadInv)'
    BY NextInv, NextRest, NextThread
  <1>3. ProcessorInv /\ RestInv /\ ThreadInv => ((\A j \in JobIds : poked[j] <= 1) => JoinIsAccurate)
    BY QuietAccurate DEF Once
  <1> QED BY <1>1, <1>2, <1>3, PTL DEF Spec
================================================================================
