----------------------------- MODULE WorkflowSync -----------------------------
(***************************************************************************)
(* Which versions of a workflow are switched on: the rows of the table, and *)
(* the enabledCache of every instance, kept in step by sync messages.      *)
(*                                                                         *)
(* The hooks of the database switch the cache of their own instance inside *)
(* the transaction; the other instances are told after the commit.  Their  *)
(* handler is debounced per message and reads the row before it switches a *)
(* workflow on.                                                            *)
(***************************************************************************)
EXTENDS Naturals, Sequences, FiniteSets, SequencesExt

CONSTANTS
  Instances,    \* the application instances
  Versions,     \* the versions of one workflow: rows with the same key
  None,
  MaxUpdates,   \* bound: transactions
  MaxRollbacks, \* bound: transactions that are rolled back
  MaxStops      \* bound: graceful stops of an instance

Rows    == [exists : SUBSET Versions, enabled : SUBSET Versions,
            current : Versions \cup {None}]
Message == [version : Versions, enabled : BOOLEAN]
Tx      == [by : Instances, rows : Rows, messages : Seq(Message)]

ASSUME SyncAssumption ==
  /\ None \notin Versions \cup Instances \cup Tx
  /\ MaxUpdates \in Nat /\ MaxRollbacks \in Nat /\ MaxStops \in Nat

VARIABLES
  rows,      \* committed: [exists, enabled, current]
  tx,        \* the open transaction, or None
  cache,     \* instance -> its enabledCache
  phase,     \* instance -> where it is in its life
  toSwitch,  \* instance -> the workflows onAfterStart has read and not switched on yet
  sent,      \* instance -> sync messages on their way to it
  armed,     \* instance -> messages whose debounce runs, in the order it ends
  reads,     \* instance -> handlers that await the row of a workflow
  doubtful,  \* ghost: pairs (instance, version) whose last change met a race
  updates, rollbacks, stops   \* ghost counters

vars == <<rows, tx, cache, phase, toSwitch, sent, armed, reads, doubtful,
          updates, rollbacks, stops>>

On(v)   == [version |-> v, enabled |-> TRUE]
Off(v)  == [version |-> v, enabled |-> FALSE]

Init ==
  /\ rows = [exists |-> {}, enabled |-> {}, current |-> None]
  /\ tx = None
  /\ cache = [i \in Instances |-> {}]
  /\ phase = [i \in Instances |-> "up"]
  /\ toSwitch = [i \in Instances |-> {}]
  /\ sent = [i \in Instances |-> <<>>]
  /\ armed = [i \in Instances |-> <<>>]
  /\ reads = [i \in Instances |-> {}]
  /\ doubtful = {}
  /\ updates = 0 /\ rollbacks = 0 /\ stops = 0

\* The messages on their way to an instance or being handled by it.
InFlight(i) == ToSet(sent[i]) \cup ToSet(armed[i]) \cup {On(r.version) : r \in reads[i]}
Touched     == {m.version : m \in ToSet(tx.messages)}

------------------------------------------------------------------------------
(* Changes                                                                  *)

\* toggle, of each message, in the memory of the instance itself.  No two
\* messages of a transaction are about the same version.
Toggled(switched, messages) ==
  {v \in Versions : \/ On(v) \in ToSet(messages)
                    \/ v \in switched /\ Off(v) \notin ToSet(messages)}

\* The hooks of one transaction at instance i: the new rows, and what is to be
\* told to the others.
Open(i, new, messages) ==
  /\ phase[i] = "up" /\ tx = None
  /\ updates < MaxUpdates
  /\ updates' = updates + 1
  /\ tx' = [by |-> i, rows |-> new, messages |-> messages]
  /\ cache' = [cache EXCEPT ![i] = Toggled(@, messages)]
  /\ doubtful' = LET touched == {m.version : m \in ToSet(messages)}
                     told    == {m.version : m \in InFlight(i)}
                 IN  (doubtful \ ({i} \X touched)) \cup ({i} \X (touched \cap told))
  /\ UNCHANGED <<rows, phase, toSwitch, sent, armed, reads, rollbacks, stops>>

\* Mutant of Save: the version that was current stays enabled.
SaveKeepsPrevious(i, v, enable) ==
  LET current  == enable \/ rows.current \in {None, v}
      isNew    == v \notin rows.exists
  IN  Open(i,
           [exists  |-> rows.exists \cup {v},
            enabled |-> IF enable THEN rows.enabled \cup {v} ELSE rows.enabled \ {v},
            current |-> IF current THEN v ELSE rows.current],
           IF isNew /\ ~enable THEN <<>> ELSE <<[version |-> v, enabled |-> enable]>>)

\* create or update of a workflow: an enabled version becomes the current one,
\* and the previous current one is switched off.
Save(i, v, enable) ==
  LET current  == enable \/ rows.current \in {None, v}
      previous == IF current THEN {rows.current} \ {None, v} ELSE {}
      isNew    == v \notin rows.exists
  IN  Open(i,
           [exists  |-> rows.exists \cup {v},
            enabled |-> (rows.enabled \ (previous \cup {v})) \cup (IF enable THEN {v} ELSE {}),
            current |-> IF current THEN v ELSE rows.current],
           (IF previous = {} THEN <<>> ELSE <<Off(rows.current)>>)
             \o IF isNew /\ ~enable THEN <<>> ELSE <<[version |-> v, enabled |-> enable]>>)

Destroy(i, v) ==
  /\ v \in rows.exists
  /\ Open(i,
          [exists  |-> rows.exists \ {v},
           enabled |-> rows.enabled \ {v},
           current |-> IF rows.current = v THEN None ELSE rows.current],
          <<Off(v)>>)

\* Mutant of Commit: the sender is told instead of the others.
CommitTellsSelf ==
  /\ tx # None
  /\ rows' = tx.rows
  /\ tx' = None
  /\ sent' = [sent EXCEPT ![tx.by] = @ \o tx.messages]
  /\ UNCHANGED <<cache, phase, toSwitch, armed, reads, doubtful, updates, rollbacks, stops>>

\* The commit, and the messages to every other instance that is connected.
\* A race at j: it is starting with what it has read before, or is told to
\* switch off while it still is to switch on.
Commit ==
  LET others == {j \in Instances : j # tx.by /\ phase[j] # "down"}
      raced(j, v) == \/ phase[j] = "starting"
                     \/ Off(v) \in ToSet(tx.messages) /\ On(v) \in InFlight(j)
  IN  /\ tx # None
      /\ rows' = tx.rows
      /\ tx' = None
      /\ sent' = [j \in Instances |-> IF j \in others THEN sent[j] \o tx.messages ELSE sent[j]]
      /\ doubtful' = (doubtful \ (others \X Touched))
                       \cup {p \in others \X Touched : raced(p[1], p[2])}
      /\ UNCHANGED <<cache, phase, toSwitch, armed, reads, updates, rollbacks, stops>>

\* A rollback undoes the rows.  The cache stays as the hooks left it, and the
\* messages, which wait for the commit, time out.
Rollback ==
  /\ tx # None
  /\ rollbacks < MaxRollbacks
  /\ rollbacks' = rollbacks + 1
  /\ tx' = None
  /\ doubtful' = doubtful \cup ({tx.by} \X Touched)
  /\ UNCHANGED <<rows, cache, phase, toSwitch, sent, armed, reads, updates, stops>>

------------------------------------------------------------------------------
(* Messages                                                                 *)

\* A message arrives and its debounce starts.  When an equal one waits, its
\* debounce starts again instead, unless the manager has forgotten its handler:
\* of several, it knows the last.
Arrive(i) ==
  LET m == Head(sent[i])
  IN  /\ sent[i] # <<>>
      /\ sent' = [sent EXCEPT ![i] = Tail(@)]
      /\ \/ armed' = [armed EXCEPT ![i] = Append(@, m)]
         \/ \E k \in DOMAIN armed[i] :
              /\ armed[i][k] = m /\ \A l \in DOMAIN armed[i] : armed[i][l] = m => l <= k
              /\ armed' = [armed EXCEPT ![i] = Append(RemoveAt(@, k), m)]
      /\ UNCHANGED <<rows, tx, cache, phase, toSwitch, reads, doubtful, updates, rollbacks, stops>>

\* handleSyncMessage: off at once, on once the row has been read.
Handle(i) ==
  LET m == Head(armed[i])
  IN  /\ armed[i] # <<>>
      /\ armed' = [armed EXCEPT ![i] = Tail(@)]
      /\ \/ /\ m.enabled
            /\ reads' = [reads EXCEPT ![i] = @ \cup {[version |-> m.version, row |-> "asked"]}]
            /\ UNCHANGED cache
         \/ /\ ~m.enabled
            /\ cache' = [cache EXCEPT ![i] = @ \ {m.version}]
            /\ UNCHANGED reads
      /\ UNCHANGED <<rows, tx, phase, toSwitch, sent, doubtful, updates, rollbacks, stops>>

\* The read of the row, reload or findOne: it counts only whether there is one.
Read(i, r) ==
  /\ r.row = "asked"
  /\ reads' = [reads EXCEPT ![i] =
                 (@ \ {r}) \cup IF r.version \in rows.exists
                               THEN {[version |-> r.version, row |-> "found"]} ELSE {}]
  /\ UNCHANGED <<rows, tx, cache, phase, toSwitch, sent, armed, doubtful, updates, rollbacks, stops>>

SwitchOn(i, r) ==
  /\ r.row = "found"
  /\ reads' = [reads EXCEPT ![i] = @ \ {r}]
  /\ cache' = [cache EXCEPT ![i] = @ \cup {r.version}]
  /\ UNCHANGED <<rows, tx, phase, toSwitch, sent, armed, doubtful, updates, rollbacks, stops>>

------------------------------------------------------------------------------
(* The life of an instance                                                  *)

\* Mutant of Stop: the workflows stay in the cache.
StopKeepsCache(i) ==
  /\ phase[i] = "up" /\ stops < MaxStops
  /\ (tx # None => tx.by # i)
  /\ stops' = stops + 1
  /\ phase' = [phase EXCEPT ![i] = "down"]
  /\ sent' = [sent EXCEPT ![i] = <<>>]
  /\ armed' = [armed EXCEPT ![i] = <<>>]
  /\ reads' = [reads EXCEPT ![i] = {}]
  /\ UNCHANGED <<rows, tx, cache, toSwitch, doubtful, updates, rollbacks>>

\* beforeStop: the adapter is closed, pending debounces are cancelled, every
\* workflow is switched off; handlers that still wait find the database closed.
Stop(i) ==
  /\ phase[i] = "up" /\ stops < MaxStops
  /\ (tx # None => tx.by # i)
  /\ stops' = stops + 1
  /\ phase' = [phase EXCEPT ![i] = "down"]
  /\ cache' = [cache EXCEPT ![i] = {}]
  /\ sent' = [sent EXCEPT ![i] = <<>>]
  /\ armed' = [armed EXCEPT ![i] = <<>>]
  /\ reads' = [reads EXCEPT ![i] = {}]
  /\ UNCHANGED <<rows, tx, toSwitch, doubtful, updates, rollbacks>>

\* afterStart: connect and subscribe, then read all workflows.
Start(i) ==
  /\ phase[i] = "down"
  /\ phase' = [phase EXCEPT ![i] = "starting"]
  /\ toSwitch' = [toSwitch EXCEPT ![i] = rows.enabled]
  /\ doubtful' = doubtful \ ({i} \X Versions)
  /\ UNCHANGED <<rows, tx, cache, sent, armed, reads, updates, rollbacks, stops>>

\* Each of them is switched on, with awaits in between.
StartSwitch(i, v) ==
  /\ toSwitch' = [toSwitch EXCEPT ![i] = @ \ {v}]
  /\ cache' = [cache EXCEPT ![i] = @ \cup {v}]
  /\ UNCHANGED <<rows, tx, phase, sent, armed, reads, doubtful, updates, rollbacks, stops>>

Started(i) ==
  /\ phase[i] = "starting" /\ toSwitch[i] = {}
  /\ phase' = [phase EXCEPT ![i] = "up"]
  /\ UNCHANGED <<rows, tx, cache, toSwitch, sent, armed, reads, doubtful, updates, rollbacks, stops>>

Messaging(i) == \/ Arrive(i) \/ Handle(i)
                \/ \E r \in reads[i] : Read(i, r) \/ SwitchOn(i, r)

Next == \/ \E i \in Instances :
             \/ \E v \in Versions : \/ \E enable \in BOOLEAN : Save(i, v, enable)
                                    \/ Destroy(i, v)
             \/ Messaging(i)
             \/ Stop(i) \/ Start(i) \/ Started(i)
             \/ \E v \in toSwitch[i] : StartSwitch(i, v)
        \/ Commit \/ Rollback

Spec == Init /\ [][Next]_vars

------------------------------------------------------------------------------
(* Properties                                                               *)

\* Types of the rows, the transaction, the caches and the messages.
TypeOK ==
  /\ rows \in Rows
  /\ tx \in Tx \cup {None}
  /\ cache \in [Instances -> SUBSET Versions]
  /\ phase \in [Instances -> {"up", "down", "starting"}]
  /\ toSwitch \in [Instances -> SUBSET Versions]
  /\ sent \in [Instances -> Seq(Message)] /\ armed \in [Instances -> Seq(Message)]
  /\ reads \in [Instances -> SUBSET [version : Versions, row : {"asked", "found"}]]
  /\ \A i \in Instances : phase[i] = "down" => sent[i] = <<>> /\ cache[i] = {}
  /\ doubtful \subseteq Instances \X Versions

\* However versions are enabled, disabled, created and destroyed, at most one
\* is enabled, and it is the current one.
OneEnabled == /\ rows.enabled \subseteq {rows.current}
              /\ rows.enabled \cup ({rows.current} \ {None}) \subseteq rows.exists

\* No transaction is open, and all messages have been handled.
Quiet == /\ tx = None
         /\ \A i \in Instances : phase[i] # "starting" /\ InFlight(i) = {}

\* The caches tell what the rows say, for every version whose last change met
\* none of the three races the code is open to: a rollback, an instance that
\* is starting, a change while a message about the same version is handled.
\* A later change without a race repairs what an earlier one has left.
OthersAgree ==
  Quiet => \A i \in Instances, v \in Versions :
             phase[i] = "up" /\ <<i, v>> \notin doubtful =>
               (v \in cache[i] <=> v \in rows.enabled)

\* cluster.test.ts:55: "enabled status of workflow should be sync in every
\* nodes", once every change has been handled everywhere.
EnabledIsInSync ==
  Quiet => \A i \in Instances : phase[i] = "up" => cache[i] = rows.enabled
==============================================================================
