------------------------------ MODULE EventQueue ------------------------------
(***************************************************************************)
(* The event queue of one application instance with its memory adapter     *)
(* (packages/core/server/src/event-queue.ts), for one channel that is not  *)
(* shared: publishing, the polling loop and the setImmediate wake-ups that *)
(* read messages, processing with retries, unsubscribing, and the          *)
(* restarts that carry the queue over in a file.  Channels do not interact *)
(* but for the file, which holds them side by side.                        *)
(*                                                                         *)
(* Time is abstracted: a retry timer that is armed may fire.  What the     *)
(* consumer answers to idle() is up to the environment.                    *)
(***************************************************************************)
EXTENDS Naturals, Sequences, FiniteSets, SequencesExt

CONSTANTS Ids,          \* the messages' identities
          Concurrency,  \* of the subscription
          MaxRetries,   \* of every message
          MaxStops,     \* bound: graceful restarts
          MaxCrashes,   \* bound: crashes
          MaxPauses     \* bound: times the consumer unsubscribes

ASSUME EventQueueAssumption == /\ Concurrency \in Nat \ {0}
                               /\ MaxRetries \in Nat
                               /\ MaxStops \in Nat
                               /\ MaxCrashes \in Nat
                               /\ MaxPauses \in Nat

VARIABLES phase,      \* of the connection
          subscribed, \* the subscription that EventQueue keeps over restarts
          listening,  \* the channel is in the adapter's events
          idle,       \* what the consumer's idle() answers
          queue,      \* the adapter's queue
          reading,    \* messages whose processing has not ended
          retrying,   \* messages whose retry timer is armed
          scheduled,  \* the channel is in scheduledChannels
          stored,     \* the queue in event-queue.json
          published,  \* history: identities in the order of publication
          attempts,   \* history: how often each was handed to the consumer
          settled,    \* history: processed, or given up after its last retry
          stops, crashes, pauses

conn == <<phase, subscribed, listening>>
bounds == <<stops, crashes, pauses>>
vars == <<phase, subscribed, listening, idle, queue, reading, retrying, scheduled,
          stored, published, attempts, settled, stops, crashes, pauses>>

-----------------------------------------------------------------------------

\* down: not connected; open; closing: close() waits for the processing;
\* saving: the snapshot of the queue is being written
Phases == {"down", "open", "closing", "saving"}

Messages == [id : Ids, retried : 0..MaxRetries]

TypeOK == /\ phase \in Phases
          /\ subscribed \in BOOLEAN /\ listening \in BOOLEAN
          /\ idle \in BOOLEAN /\ scheduled \in BOOLEAN
          /\ queue \in Seq(Messages)
          /\ reading \subseteq Messages
          /\ retrying \subseteq Messages
          /\ stored \in Seq(Messages)
          /\ published \in Seq(Ids)
          /\ attempts \in [Ids -> Nat]
          /\ settled \subseteq Ids
          /\ stops \in Nat /\ crashes \in Nat /\ pauses \in Nat

Init == /\ phase = "down" /\ subscribed = TRUE /\ listening = FALSE
        /\ idle = TRUE
        /\ queue = <<>> /\ reading = {} /\ retrying = {}
        /\ scheduled = FALSE
        /\ stored = <<>>
        /\ published = <<>> /\ attempts = [i \in Ids |-> 0] /\ settled = {}
        /\ stops = 0 /\ crashes = 0 /\ pauses = 0

-----------------------------------------------------------------------------
(* Connecting, subscribing, closing *)

\* Mutants: subscribing empties the queue; subscribing is forgotten.
ConnectEmpties == /\ phase = "down"
                  /\ phase' = "open"
                  /\ queue' = <<>>
                  /\ stored' = <<>>
                  /\ listening' = (listening \/ subscribed)
                  /\ UNCHANGED <<subscribed, idle, reading, retrying, scheduled, published, attempts, settled, bounds>>
ConnectIsDeaf == /\ phase = "down"
                 /\ phase' = "open"
                 /\ queue' = stored
                 /\ stored' = <<>>
                 /\ UNCHANGED <<subscribed, listening, idle, reading, retrying, scheduled, published, attempts, settled, bounds>>

\* connect: the queues are what the file holds, the file is removed, and the
\* subscriptions are passed to the adapter.
Connect == /\ phase = "down"
           /\ phase' = "open"
           /\ queue' = stored
           /\ stored' = <<>>
           /\ listening' = (listening \/ subscribed)
           /\ UNCHANGED <<subscribed, idle, reading, retrying, scheduled, published, attempts, settled, bounds>>

Subscribe == /\ ~subscribed
             /\ subscribed' = TRUE
             /\ listening' = (listening \/ phase = "open")
             /\ UNCHANGED <<phase, idle, queue, reading, retrying, scheduled, stored, published, attempts, settled, bounds>>

Unsubscribe == /\ subscribed
               /\ pauses < MaxPauses /\ pauses' = pauses + 1
               /\ subscribed' = FALSE
               /\ listening' = (listening /\ phase # "open")
               /\ UNCHANGED <<phase, idle, queue, reading, retrying, scheduled, stored, published, attempts, settled, stops, crashes>>

\* close: from here on nothing is read, and publishing throws.
Close == /\ phase = "open"
         /\ stops < MaxStops /\ stops' = stops + 1
         /\ phase' = "closing"
         /\ UNCHANGED <<subscribed, listening, idle, queue, reading, retrying, scheduled, stored, published, attempts, settled, crashes, pauses>>

\* saveToStorage, once the processing has ended
Save == /\ phase = "closing"
        /\ reading = {}
        /\ phase' = "saving"
        /\ stored' = queue
        /\ UNCHANGED <<subscribed, listening, idle, queue, reading, retrying, scheduled, published, attempts, settled, bounds>>

\* The adapter has closed; the subscriptions that EventQueue has leave it (one
\* that was cancelled during the closing stays behind).
Closed == /\ phase = "saving"
          /\ phase' = "down"
          /\ listening' = (listening /\ ~subscribed)
          /\ UNCHANGED <<subscribed, idle, queue, reading, retrying, scheduled, stored, published, attempts, settled, bounds>>

\* The process dies and is started anew: only the file remains.
Crash == /\ crashes < MaxCrashes /\ crashes' = crashes + 1
         /\ phase' = "down" /\ subscribed' = TRUE /\ listening' = FALSE
         /\ queue' = <<>> /\ reading' = {} /\ retrying' = {}
         /\ scheduled' = FALSE
         /\ UNCHANGED <<idle, stored, published, attempts, settled, stops, pauses>>

-----------------------------------------------------------------------------
(* Messages *)

\* Mutant: the newest message comes first.
AdapterPublishInFront(m) == IF listening
                            THEN queue' = <<m>> \o queue /\ scheduled' = TRUE
                            ELSE UNCHANGED <<queue, scheduled>>

\* The adapter's publish; a channel it does not know is skipped.
AdapterPublish(m) == IF listening
                     THEN queue' = Append(queue, m) /\ scheduled' = TRUE
                     ELSE UNCHANGED <<queue, scheduled>>

\* EventQueue.publish throws unless it is connected and subscribed.
Publish(i) == /\ phase = "open" /\ subscribed
              /\ i \notin ToSet(published)
              /\ published' = Append(published, i)
              /\ AdapterPublish([id |-> i, retried |-> 0])
              /\ UNCHANGED <<conn, idle, reading, retrying, stored, attempts, settled, bounds>>

\* Mutant: the messages that are read stay in the queue.
ListenKeeps == IF phase = "open" /\ listening /\ idle /\ queue # <<>> /\ Cardinality(reading) < Concurrency
               THEN /\ reading' = reading \cup {Head(queue)}
                    /\ attempts' = [attempts EXCEPT ![Head(queue).id] = @ + 1]
                    /\ UNCHANGED queue
               ELSE UNCHANGED <<reading, queue, attempts>>

\* listen: an idle consumer is given as many messages as its concurrency
\* leaves room for.
Listen == LET room == Concurrency - Cardinality(reading)
              n == IF room < Len(queue) THEN room ELSE Len(queue)
              batch == ToSet(SubSeq(queue, 1, n))
          IN  IF phase = "open" /\ listening /\ idle
              THEN /\ reading' = reading \cup batch
                   /\ queue' = SubSeq(queue, n + 1, Len(queue))
                   /\ attempts' = [i \in Ids |-> IF \E m \in batch : m.id = i
                                                 THEN attempts[i] + 1 ELSE attempts[i]]
              ELSE UNCHANGED <<reading, queue, attempts>>

\* The setImmediate of scheduleListen
Immediate == /\ scheduled
             /\ scheduled' = FALSE
             /\ Listen
             /\ UNCHANGED <<conn, idle, retrying, stored, published, settled, bounds>>

\* A round of the consume loop
Poll == /\ phase = "open" /\ listening /\ idle /\ queue # <<>>
        /\ Listen
        /\ UNCHANGED <<conn, idle, retrying, scheduled, stored, published, settled, bounds>>

\* The end of one processing
Processed(m) == /\ m \in reading
                /\ reading' = reading \ {m}
                /\ scheduled' = TRUE
                /\ UNCHANGED <<conn, idle, queue, stored, published, attempts, bounds>>

Succeed(m) == /\ Processed(m)
              /\ settled' = settled \cup {m.id}
              /\ UNCHANGED retrying

\* Mutant: one retry too many.
FailRetriesOnceMore(m) == /\ Processed(m)
                          /\ IF m.retried <= MaxRetries
                             THEN retrying' = retrying \cup {m} /\ UNCHANGED settled
                             ELSE settled' = settled \cup {m.id} /\ UNCHANGED retrying

\* A failure is retried half a second later, or given up.
Fail(m) == /\ Processed(m)
           /\ IF m.retried < MaxRetries
              THEN retrying' = retrying \cup {m} /\ UNCHANGED settled
              ELSE settled' = settled \cup {m.id} /\ UNCHANGED retrying

\* The retry publishes to the adapter itself, whatever the connection is.
Retry(m) == /\ m \in retrying
            /\ retrying' = retrying \ {m}
            /\ AdapterPublish([m EXCEPT !.retried = @ + 1])
            /\ UNCHANGED <<conn, idle, reading, stored, published, attempts, settled, bounds>>

\* The consumer becomes idle or busy.
Turn == /\ idle' = ~idle
        /\ UNCHANGED <<conn, queue, reading, retrying, scheduled, stored, published, attempts, settled, bounds>>

Next == \/ Connect \/ Subscribe \/ Unsubscribe \/ Close \/ Save \/ Closed \/ Crash
        \/ \E i \in Ids : Publish(i)
        \/ \E m \in Messages : Succeed(m) \/ Fail(m) \/ Retry(m)
        \/ Immediate \/ Poll \/ Turn

Spec == Init /\ [][Next]_vars

\* The application is started again and subscribes again, processing ends, a
\* busy consumer becomes idle, and is idle at a poll again and again.
FairSpec == /\ Spec
            /\ WF_vars(Connect) /\ WF_vars(Subscribe) /\ WF_vars(Save) /\ WF_vars(Closed)
            /\ WF_vars(~idle /\ Turn) /\ SF_vars(Poll)
            /\ \A m \in Messages : WF_vars(Succeed(m) \/ Fail(m))

-----------------------------------------------------------------------------
(* Properties *)

\* The places that hold message i and will be carried over to a later moment:
\* between the snapshot and the next connect, the file stands for the queue.
Places(i) ==
  LET kept == IF phase \in {"saving", "down"} THEN stored ELSE queue
  IN  {<<"queue", k>> : k \in {k \in DOMAIN kept : kept[k].id = i}}
      \cup {<<"reading", m>> : m \in {m \in reading : m.id = i}}
      \cup {<<"retrying", m>> : m \in {m \in retrying : m.id = i}}

\* No message is ever held twice, or again after it was settled, over any
\* number of restarts: two wake-ups never read the same message, and a message
\* that was read is not in the file.
HeldOnce == \A i \in Ids : Cardinality(Places(i)) <= IF i \in settled THEN 0 ELSE 1

\* A message nobody has tried yet is lost by a crash only; a graceful restart
\* or a pause of the subscription keeps it.
UntriedAreKept ==
  crashes = 0 => \A i \in ToSet(published) : attempts[i] = 0 => Places(i) # {}

\* Messages are tried in the order in which they were published.
FirstInFirstOut ==
  crashes = 0 => \A j, k \in DOMAIN published :
                    j < k /\ attempts[published[k]] > 0 => attempts[published[j]] > 0

\* Every published message is tried, whatever restarts and pauses come between,
\* unless the process dies with it.
PublishedAreTried ==
  \A i \in Ids : i \in ToSet(published) ~> attempts[i] > 0 \/ crashes > 0
==============================================================================
