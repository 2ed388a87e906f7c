--------------------------- MODULE EventQueue_proofs ---------------------------
(***************************************************************************)
(* The event queue holds no message twice, loses none that nobody has       *)
(* tried, and hands them out in the order of their publication, for every   *)
(* number of messages, restarts and pauses.  The argument follows the one   *)
(* queue that counts: the adapter's while it is open, the file while it is  *)
(* not.                                                                     *)
(***************************************************************************)
EXTENDS EventQueue, FiniteSetTheorems, TLAPS

\* The queue that the messages will be read from.
Kept == IF phase \in {"saving", "down"} THEN stored ELSE queue

\* The messages that the consumer has, or will have again.
Held == reading \cup retrying

\* An open connection knows the channel of a subscription, the file is removed
\* when it has been read, nothing is processed once the queue is saved, and the
\* consumer is given no more than it asks for.
ConnInv == /\ phase = "open" /\ subscribed => listening
           /\ phase \in {"open", "closing"} => stored = <<>>
           /\ phase \in {"saving", "down"} => reading = {}
           /\ IsFiniteSet(reading) /\ Cardinality(reading) <= Concurrency

\* Every message comes from its one publication.
KnownInv == /\ \A j, k \in DOMAIN published : published[j] = published[k] => j = k
            /\ \A k \in DOMAIN Kept : Kept[k].id \in ToSet(published)
            /\ \A m \in Held : m.id \in ToSet(published)
            /\ settled \subseteq ToSet(published)
            /\ \A i \in Ids : attempts[i] > 0 => i \in ToSet(published)

\* Every message is in one place, and in none when it is settled.
OnceInv == /\ \A j, k \in DOMAIN Kept : Kept[j].id = Kept[k].id => j = k
           /\ \A k \in DOMAIN Kept, m \in Held : Kept[k].id # m.id
           /\ \A m, n \in Held : m.id = n.id => m = n
           /\ reading \cap retrying = {}
           /\ \A k \in DOMAIN Kept : Kept[k].id \notin settled
           /\ \A m \in Held : m.id \notin settled /\ attempts[m.id] > 0
           /\ \A m \in retrying : m.retried < MaxRetries

\* Without crashes, a message nobody has tried is in the queue, nothing that was
\* published after it has been tried, and nothing of that is ahead of it.
OrderInv ==
  crashes = 0 =>
    /\ \A i \in ToSet(published) : attempts[i] = 0 => \E k \in DOMAIN Kept : Kept[k].id = i
    /\ \A j, k \in DOMAIN published :
         j < k /\ attempts[published[k]] > 0 => attempts[published[j]] > 0
    /\ \A j, k \in DOMAIN published, a, b \in DOMAIN Kept :
         j < k /\ attempts[published[j]] = 0 /\ Kept[a].id = published[j] /\ Kept[b].id = published[k] => a < b

Inv == TypeOK /\ ConnInv /\ KnownInv /\ OnceInv /\ OrderInv

------------------------------------------------------------------------------
(* Sequences                                                                *)

\* What an element of ToSet is.
LEMMA ToSetElements ==
  ASSUME NEW s, NEW x
  PROVE  x \in ToSet(s) <=> \E k \in DOMAIN s : s[k] = x
  BY DEF ToSet

\* Appending keeps what there is and adds one at the end.
LEMMA Appended ==
  ASSUME NEW S, NEW s \in Seq(S), NEW x \in S
  PROVE  /\ Append(s, x) \in Seq(S)
         /\ DOMAIN Append(s, x) = DOMAIN s \cup {Len(s) + 1}
         /\ DOMAIN s = 1..Len(s) /\ Len(s) \in Nat
         /\ \A k \in DOMAIN s : Append(s, x)[k] = s[k]
         /\ Append(s, x)[Len(s) + 1] = x
         /\ ToSet(Append(s, x)) = ToSet(s) \cup {x}
  <1>1. /\ Append(s, x) \in Seq(S)
        /\ DOMAIN Append(s, x) = DOMAIN s \cup {Len(s) + 1}
        /\ DOMAIN s = 1..Len(s) /\ Len(s) \in Nat
        /\ \A k \in DOMAIN s : Append(s, x)[k] = s[k]
        /\ Append(s, x)[Len(s) + 1] = x
    OBVIOUS
  <1>2. ASSUME NEW y
        PROVE  y \in ToSet(Append(s, x)) <=> y \in ToSet(s) \cup {x}
    <2>1. y \in ToSet(Append(s, x)) <=> \E k \in DOMAIN Append(s, x) : Append(s, x)[k] = y
      BY ToSetElements
    <2>2. y \in ToSet(s) <=> \E k \in DOMAIN s : s[k] = y
      BY ToSetElements
    <2> DEFINE t == Append(s, x)
    <2> HIDE DEF t
    <2>3. (\E k \in DOMAIN t : t[k] = y) <=> (\E k \in DOMAIN s : s[k] = y) \/ y = x
      BY <1>1 DEF t
    <2> QED BY <2>1, <2>2, <2>3 DEF t
  <1> QED BY <1>1, <1>2

\* Cutting the first n off a queue: the batch has at most n messages.
LEMMA Cut ==
  ASSUME NEW S, NEW s \in Seq(S), NEW n \in 0..Len(s)
  PROVE  LET batch == ToSet(SubSeq(s, 1, n))
             rest  == SubSeq(s, n + 1, Len(s))
         IN  /\ \A x : x \in batch <=> \E k \in 1..n : s[k] = x
             /\ batch \subseteq S
             /\ IsFiniteSet(batch) /\ Cardinality(batch) <= n
             /\ rest \in Seq(S) /\ DOMAIN rest = 1..(Len(s) - n)
             /\ \A k \in 1..(Len(s) - n) : rest[k] = s[k + n]
  <1> DEFINE front == SubSeq(s, 1, n)
             batch == ToSet(front)
             rest  == SubSeq(s, n + 1, Len(s))
  <1>1. n \in Nat /\ Len(s) \in Nat /\ n <= Len(s)
    OBVIOUS
  <1>2. front \in Seq(S) /\ DOMAIN front = 1..n /\ \A k \in 1..n : front[k] = s[k]
    BY <1>1
  <1>3. rest \in Seq(S) /\ DOMAIN rest = 1..(Len(s) - n) /\ \A k \in 1..(Len(s) - n) : rest[k] = s[k + n]
    BY <1>1
  <1> HIDE DEF front, rest
  <1>4. \A x : x \in batch <=> \E k \in 1..n : s[k] = x
    BY <1>2, ToSetElements
  <1>5. batch \subseteq S
    BY <1>1, <1>4
  <1>6. IsFiniteSet(batch) /\ Cardinality(batch) <= n
    <2> DEFINE f == [k \in 1..n |-> front[k]]
    <2>1. IsFiniteSet(1..n) /\ Cardinality(1..n) = n
      BY <1>1, FS_Interval
    <2>2. f \in Surjection(1..n, batch)
      BY <1>2, <1>4 DEF Surjection
    <2> HIDE DEF f, batch
    <2> QED BY <2>1, <2>2, FS_Surjection
  <1> QED BY <1>3, <1>4, <1>5, <1>6 DEF front, rest

------------------------------------------------------------------------------
(* The invariant                                                            *)

\* There are no messages at first.
LEMMA InitInv == Init => Inv
  <1> SUFFICES ASSUME Init PROVE Inv
    OBVIOUS
  <1>1. TypeOK
    <2>1. <<>> \in Seq(Messages) /\ <<>> \in Seq(Ids)
      OBVIOUS
    <2> QED BY <2>1 DEF Init, TypeOK, Phases
  <1>2. ConnInv
    BY FS_EmptySet, EventQueueAssumption DEF Init, ConnInv
  <1>3. KnownInv /\ OnceInv /\ OrderInv
    BY DEF Init, KnownInv, OnceInv, OrderInv, Kept, Held, ToSet
  <1> QED BY <1>1, <1>2, <1>3 DEF Inv

\* The types of the queue that counts.
LEMMA KeptTyped == ASSUME TypeOK PROVE Kept \in Seq(Messages) /\ DOMAIN Kept = 1..Len(Kept) /\ Len(Kept) \in Nat
  BY DEF TypeOK, Kept

\* A step that moves no message keeps them where they are.
LEMMA NothingMoves ==
  ASSUME Inv, TypeOK', ConnInv', UNCHANGED <<Kept, reading, retrying, published, attempts, settled, crashes>>
  PROVE  Inv'
  BY DEF Inv, KnownInv, OnceInv, OrderInv, Held

\* Connecting, subscribing and closing move no message: the queue goes to the
\* file and comes from it as it is.
LEMMA ConnectionInv ==
  ASSUME Inv, Connect \/ Subscribe \/ Unsubscribe \/ Close \/ Save \/ Closed \/ Turn \/ UNCHANGED vars
  PROVE  Inv'
  <1>1. TypeOK'
    <2>1. CASE Connect
      BY <2>1 DEF Inv, TypeOK, Phases, Connect, bounds
    <2>2. CASE Subscribe \/ Unsubscribe
      <3>1. subscribed' \in BOOLEAN /\ listening' \in BOOLEAN
        BY <2>2 DEF Subscribe, Unsubscribe
      <3>2. pauses' \in Nat
        BY <2>2 DEF Inv, TypeOK, Subscribe, Unsubscribe, bounds
      <3> QED BY <2>2, <3>1, <3>2 DEF Inv, TypeOK, Subscribe, Unsubscribe, bounds
    <2>3. CASE Close \/ Save \/ Closed
      <3>1. listening' \in BOOLEAN
        BY <2>3 DEF Inv, TypeOK, Close, Save, Closed
      <3>2. stops' \in Nat /\ phase' \in Phases
        BY <2>3 DEF Inv, TypeOK, Phases, Close, Save, Closed, bounds
      <3> QED BY <2>3, <3>1, <3>2 DEF Inv, TypeOK, Close, Save, Closed, bounds
    <2>4. CASE Turn \/ UNCHANGED vars
      BY <2>4 DEF Inv, TypeOK, Turn, vars, conn, bounds
    <2> QED BY <2>1, <2>2, <2>3, <2>4
  <1>2. UNCHANGED <<reading, retrying, published, attempts, settled, crashes>>
    BY DEF Connect, Subscribe, Unsubscribe, Close, Save, Closed, Turn, vars, conn, bounds
  <1>3. UNCHANGED Kept
    BY DEF Kept, Connect, Subscribe, Unsubscribe, Close, Save, Closed, Turn, vars, conn, bounds
  <1>4. ConnInv'
    <2>1. phase' = "open" /\ subscribed' => listening'
      BY DEF Inv, TypeOK, ConnInv, Connect, Subscribe, Unsubscribe, Close, Save, Closed, Turn, vars, conn
    <2>2. phase' \in {"open", "closing"} => stored' = <<>>
      BY DEF Inv, ConnInv, Connect, Subscribe, Unsubscribe, Close, Save, Closed, Turn, vars, conn
    <2>3. phase' \in {"saving", "down"} => reading' = {}
      BY DEF Inv, ConnInv, Connect, Subscribe, Unsubscribe, Close, Save, Closed, Turn, vars, conn
    <2> QED BY <1>2, <2>1, <2>2, <2>3 DEF Inv, ConnInv
  <1> QED BY <1>1, <1>2, <1>3, <1>4, NothingMoves

\* A crash leaves the file.
LEMMA CrashInv == ASSUME Inv, Crash PROVE Inv'
  <1>1. /\ crashes' = crashes + 1 /\ crashes' # 0 /\ phase' = "down"
        /\ reading' = {} /\ retrying' = {} /\ UNCHANGED <<stored, published, attempts, settled>>
    BY DEF Crash, Inv, TypeOK
  <1>2. Kept' = Kept \/ Kept' = <<>>
    BY <1>1 DEF Kept, Inv, ConnInv, TypeOK, Phases
  <1>3. TypeOK'
    <2>1. <<>> \in Seq(Messages)
      OBVIOUS
    <2>2. crashes' \in Nat /\ phase' \in Phases
      BY <1>1 DEF Inv, TypeOK, Phases
    <2>3. subscribed' \in BOOLEAN /\ listening' \in BOOLEAN /\ scheduled' \in BOOLEAN
      BY DEF Crash
    <2> QED BY <2>1, <2>2, <2>3 DEF Crash, Inv, TypeOK
  <1>4. ConnInv'
    BY <1>1, FS_EmptySet, EventQueueAssumption DEF ConnInv
  <1>5. KnownInv' /\ OnceInv' /\ OrderInv'
    BY <1>1, <1>2 DEF Inv, KnownInv, OnceInv, OrderInv, Held
  <1> QED BY <1>3, <1>4, <1>5 DEF Inv

\* A new message goes to the end of the queue, and nowhere else.
LEMMA PublishInv == ASSUME Inv, NEW i \in Ids, Publish(i) PROVE Inv'
  <1> DEFINE m == [id |-> i, retried |-> 0]
  <1>1. m \in Messages /\ m.id = i
    BY EventQueueAssumption DEF Messages
  <1>2. /\ phase = "open" /\ listening /\ i \notin ToSet(published)
        /\ published' = Append(published, i) /\ queue' = Append(queue, m) /\ scheduled' = TRUE
        /\ UNCHANGED <<phase, subscribed, listening, idle, reading, retrying, stored, attempts, settled, stops, crashes, pauses>>
    BY DEF Publish, AdapterPublish, Inv, ConnInv, conn, bounds
  <1> HIDE DEF m
  <1>3. Kept = queue /\ Kept' = Append(Kept, m)
    BY <1>2 DEF Kept
  <1>4. published \in Seq(Ids) /\ Kept \in Seq(Messages)
    BY KeptTyped DEF Inv, TypeOK
  <1>5. /\ DOMAIN Kept' = DOMAIN Kept \cup {Len(Kept) + 1} /\ DOMAIN Kept = 1..Len(Kept) /\ Len(Kept) \in Nat
        /\ \A k \in DOMAIN Kept : Kept'[k] = Kept[k]
        /\ Kept'[Len(Kept) + 1].id = i
    BY <1>1, <1>3, <1>4, Appended
  <1>6. /\ DOMAIN published' = DOMAIN published \cup {Len(published) + 1}
        /\ DOMAIN published = 1..Len(published) /\ Len(published) \in Nat
        /\ \A k \in DOMAIN published : published'[k] = published[k] /\ published[k] # i /\ published[k] \in ToSet(published)
        /\ published'[Len(published) + 1] = i
        /\ ToSet(published') = ToSet(published) \cup {i}
    BY <1>2, <1>4, Appended, ToSetElements
  <1>7. TypeOK'
    BY <1>1, <1>2 DEF Inv, TypeOK
  <1>8. ConnInv'
    BY <1>2 DEF Inv, ConnInv
  <1>9. KnownInv'
    BY <1>2, <1>5, <1>6 DEF Inv, KnownInv, Held
  <1>10. \A k \in DOMAIN Kept : Kept[k].id # i
    BY <1>2 DEF Inv, KnownInv
  <1>11. OnceInv'
    <2>1. \A n \in Held : n.id # i
      BY <1>2 DEF Inv, KnownInv
    <2>2. i \notin settled
      BY <1>2 DEF Inv, KnownInv
    <2> QED BY <1>2, <1>5, <1>10, <2>1, <2>2 DEF Inv, OnceInv, Held
  <1>12. OrderInv'
    <2> SUFFICES ASSUME crashes = 0 PROVE OrderInv'
      BY <1>2 DEF OrderInv
    <2>1. ~(attempts[i] > 0)
      BY <1>2 DEF Inv, KnownInv
    <2>2. \A h \in ToSet(published') : attempts[h] = 0 => \E k \in DOMAIN Kept' : Kept'[k].id = h
      BY <1>5, <1>6 DEF Inv, OrderInv
    <2>3. \A j, k \in DOMAIN published' :
            j < k /\ attempts[published'[k]] > 0 => attempts[published'[j]] > 0
      BY <1>6, <2>1 DEF Inv, OrderInv
    <2>4. ASSUME NEW j \in DOMAIN published', NEW k \in DOMAIN published',
                 NEW a \in DOMAIN Kept', NEW b \in DOMAIN Kept',
                 j < k, attempts[published'[j]] = 0, Kept'[a].id = published'[j], Kept'[b].id = published'[k]
          PROVE  a < b
      <3>1. j \in DOMAIN published /\ published'[j] = published[j] /\ published[j] # i
        BY <1>6, <2>4
      <3>2. a \in DOMAIN Kept /\ Kept'[a] = Kept[a]
        BY <1>5, <2>4, <3>1
      <3>3. CASE b = Len(Kept) + 1
        BY <1>5, <3>2, <3>3
      <3>4. CASE b \in DOMAIN Kept
        <4>1. k \in DOMAIN published /\ published'[k] = published[k]
          BY <1>5, <1>6, <1>10, <2>4, <3>4
        <4> QED BY <1>5, <2>4, <3>1, <3>2, <3>4, <4>1 DEF Inv, OrderInv
      <3> QED BY <1>5, <3>3, <3>4
    <2> QED BY <1>2, <2>2, <2>3, <2>4 DEF OrderInv
  <1> QED BY <1>7, <1>8, <1>9, <1>11, <1>12 DEF Inv

\* What one look at the queue does: it takes a prefix of it, as long as the
\* subscription has room for.
LEMMA ListenTakes ==
  ASSUME Inv, Listen, phase = "open", listening, idle
  PROVE  \E n \in 0..Len(queue) :
           LET batch == ToSet(SubSeq(queue, 1, n))
           IN  /\ \A x : x \in batch <=> \E k \in 1..n : queue[k] = x
               /\ batch \subseteq Messages
               /\ reading' = reading \cup batch
               /\ IsFiniteSet(reading') /\ Cardinality(reading') <= Concurrency
               /\ queue' \in Seq(Messages) /\ DOMAIN queue' = 1..(Len(queue) - n)
               /\ \A k \in 1..(Len(queue) - n) : queue'[k] = queue[k + n]
               /\ attempts' = [i \in Ids |-> IF \E m \in batch : m.id = i
                                             THEN attempts[i] + 1 ELSE attempts[i]]
  <1> DEFINE room == Concurrency - Cardinality(reading)
             n == IF room < Len(queue) THEN room ELSE Len(queue)
             batch == ToSet(SubSeq(queue, 1, n))
  <1>1. queue \in Seq(Messages) /\ Len(queue) \in Nat
    BY DEF Inv, TypeOK
  <1>2. IsFiniteSet(reading) /\ Cardinality(reading) \in Nat /\ Cardinality(reading) <= Concurrency
    BY FS_CardinalityType DEF Inv, ConnInv
  <1>3. room \in Nat /\ n \in 0..Len(queue) /\ n <= room
    BY <1>1, <1>2, EventQueueAssumption
  <1>4. /\ reading' = reading \cup batch
        /\ queue' = SubSeq(queue, n + 1, Len(queue))
        /\ attempts' = [i \in Ids |-> IF \E m \in batch : m.id = i
                                      THEN attempts[i] + 1 ELSE attempts[i]]
    BY DEF Listen
  <1> HIDE DEF n
  <1>5. /\ \A x : x \in batch <=> \E k \in 1..n : queue[k] = x
        /\ batch \subseteq Messages
        /\ IsFiniteSet(batch) /\ Cardinality(batch) <= n
        /\ queue' \in Seq(Messages) /\ DOMAIN queue' = 1..(Len(queue) - n)
        /\ \A k \in 1..(Len(queue) - n) : queue'[k] = queue[k + n]
    BY <1>1, <1>3, <1>4, Cut
  <1> HIDE DEF batch
  <1>6. IsFiniteSet(reading') /\ Cardinality(reading') <= Concurrency
    <2>1. IsFiniteSet(reading') /\ Cardinality(reading') = Cardinality(reading) + Cardinality(batch) - Cardinality(reading \cap batch)
      BY <1>2, <1>4, <1>5, FS_Union
    <2>2. Cardinality(batch) \in Nat /\ Cardinality(reading \cap batch) \in Nat
      BY <1>2, <1>5, FS_Intersection, FS_CardinalityType
    <2> QED BY <1>2, <1>3, <1>5, <2>1, <2>2, EventQueueAssumption
  <1> QED BY <1>3, <1>4, <1>5, <1>6 DEF batch

\* Looking at the queue keeps the order: what is taken was ahead of the rest.
LEMMA ListenInv == ASSUME Inv, Immediate \/ Poll PROVE Inv'
  <1>1. /\ Listen /\ scheduled' \in BOOLEAN
        /\ UNCHANGED <<phase, subscribed, listening, idle, retrying, stored, published, settled, stops, crashes, pauses>>
    BY DEF Immediate, Poll, conn, bounds, Inv, TypeOK
  <1>2. CASE ~(phase = "open" /\ listening /\ idle)
    <2>1. UNCHANGED <<reading, queue, attempts>>
      BY <1>1, <1>2 DEF Listen
    <2>2. TypeOK'
      BY <1>1, <2>1 DEF Inv, TypeOK
    <2>3. ConnInv' /\ Kept' = Kept
      BY <1>1, <2>1 DEF Inv, ConnInv, Kept
    <2> QED BY <1>1, <2>1, <2>2, <2>3, NothingMoves
  <1>3. CASE phase = "open" /\ listening /\ idle
    <2>1. PICK n \in 0..Len(queue) :
            LET batch == ToSet(SubSeq(queue, 1, n))
            IN  /\ \A x : x \in batch <=> \E k \in 1..n : queue[k] = x
                /\ batch \subseteq Messages
                /\ reading' = reading \cup batch
                /\ IsFiniteSet(reading') /\ Cardinality(reading') <= Concurrency
                /\ queue' \in Seq(Messages) /\ DOMAIN queue' = 1..(Len(queue) - n)
                /\ \A k \in 1..(Len(queue) - n) : queue'[k] = queue[k + n]
                /\ attempts' = [i \in Ids |-> IF \E m \in batch : m.id = i
                                              THEN attempts[i] + 1 ELSE attempts[i]]
      BY <1>1, <1>3, ListenTakes
    <2> DEFINE batch == ToSet(SubSeq(queue, 1, n))
    <2>2. /\ \A x : x \in batch <=> \E k \in 1..n : queue[k] = x
          /\ batch \subseteq Messages /\ reading' = reading \cup batch
          /\ \A i \in Ids : attempts'[i] = IF \E m \in batch : m.id = i THEN attempts[i] + 1 ELSE attempts[i]
      BY <2>1
    <2>3. ConnInv'
      BY <1>1, <1>3, <2>1 DEF Inv, ConnInv
    <2>4. Kept = queue /\ Kept' = queue'
      BY <1>1, <1>3 DEF Kept
    <2>5. DOMAIN queue = 1..Len(queue) /\ Len(queue) \in Nat /\ n \in Nat /\ n <= Len(queue)
      BY DEF Inv, TypeOK
    <2> HIDE DEF batch
    <2>6. TypeOK'
      <3>1. attempts' \in [Ids -> Nat]
        BY <2>1 DEF Inv, TypeOK
      <3> QED BY <1>1, <2>1, <2>2, <3>1 DEF Inv, TypeOK
    <2>7. /\ DOMAIN Kept = 1..Len(queue) /\ DOMAIN Kept' = 1..(Len(queue) - n)
          /\ \A k \in DOMAIN Kept' : k + n \in DOMAIN Kept /\ Kept'[k] = Kept[k + n]
          /\ \A x : x \in batch <=> \E k \in DOMAIN Kept : k <= n /\ Kept[k] = x
      BY <2>1, <2>2, <2>4, <2>5
    <2>8. \A m \in Held' : m \in Held \/ \E k \in DOMAIN Kept : k <= n /\ Kept[k] = m /\ m \in batch
      BY <1>1, <2>2, <2>7 DEF Held
    <2>9. \A k \in DOMAIN Kept : Kept[k] \in Messages /\ Kept[k].id \in Ids
      <3>1. Kept \in Seq(Messages)
        BY KeptTyped DEF Inv
      <3>2. \A k \in DOMAIN Kept : Kept[k] \in Messages
        BY <3>1
      <3> QED BY <3>2 DEF Messages
    <2>10. KnownInv'
      <3>1. \A k \in DOMAIN Kept' : Kept'[k].id \in ToSet(published')
        BY <1>1, <2>7 DEF Inv, KnownInv
      <3>2. \A m \in Held' : m.id \in ToSet(published')
        BY <1>1, <2>8 DEF Inv, KnownInv
      <3>3. \A i \in Ids : attempts'[i] > 0 => i \in ToSet(published')
        BY <1>1, <2>2, <2>7 DEF Inv, KnownInv
      <3> QED BY <1>1, <3>1, <3>2, <3>3 DEF Inv, KnownInv
    <2>11. OnceInv'
      <3>1. \A j, k \in DOMAIN Kept' : Kept'[j].id = Kept'[k].id => j = k
        BY <2>5, <2>7 DEF Inv, OnceInv
      <3>2. \A k \in DOMAIN Kept', m \in Held' : Kept'[k].id # m.id
        BY <2>5, <2>7, <2>8 DEF Inv, OnceInv
      <3>3. \A l, m \in Held' : l.id = m.id => l = m
        BY <2>8 DEF Inv, OnceInv
      <3>4. reading' \cap retrying' = {}
        BY <1>1, <2>2, <2>7 DEF Inv, OnceInv, Held
      <3>5. \A k \in DOMAIN Kept' : Kept'[k].id \notin settled'
        BY <1>1, <2>7 DEF Inv, OnceInv
      <3>6. \A m \in Held' : m.id \notin settled' /\ attempts'[m.id] > 0
        <4>1. \A m \in Held : m.id \in Ids /\ attempts[m.id] \in Nat /\ attempts[m.id] > 0
          BY DEF Inv, TypeOK, OnceInv, Held, Messages
        <4>2. \A m \in batch : m.id \in Ids /\ attempts[m.id] \in Nat
          BY <2>2 DEF Inv, TypeOK, Messages
        <4> QED BY <1>1, <2>2, <2>8, <4>1, <4>2 DEF Inv, OnceInv
      <3>7. \A m \in retrying' : m.retried < MaxRetries
        BY <1>1 DEF Inv, OnceInv
      <3> QED BY <3>1, <3>2, <3>3, <3>4, <3>5, <3>6, <3>7 DEF OnceInv
    <2>12. OrderInv'
      <3> SUFFICES ASSUME crashes = 0 PROVE OrderInv'
        BY <1>1 DEF OrderInv
      <3>1. \A i \in Ids : attempts[i] \in Nat /\ attempts'[i] \in Nat /\ (attempts'[i] = 0 => attempts[i] = 0)
        <4>1. \A i \in Ids : attempts[i] \in Nat
          BY DEF Inv, TypeOK
        <4> QED BY <2>2, <4>1
      <3>2. \A j \in DOMAIN published : published[j] \in Ids /\ published[j] \in ToSet(published)
        BY ToSetElements DEF Inv, TypeOK
      <3>3. \A i \in ToSet(published) : i \in Ids
        BY ToSetElements DEF Inv, TypeOK
      <3>4. \A i \in Ids : attempts'[i] > 0 => attempts[i] > 0 \/ \E k \in DOMAIN Kept : k <= n /\ Kept[k].id = i
        BY <2>2, <2>7
      <3>5. \A k \in DOMAIN Kept : k <= n => attempts'[Kept[k].id] > 0
        BY <2>2, <2>7, <2>9, <3>1
      <3>6. \A k \in DOMAIN Kept : k > n => k - n \in DOMAIN Kept' /\ Kept'[k - n] = Kept[k]
        BY <2>5, <2>7
      <3>7. ASSUME NEW i \in ToSet(published'), attempts'[i] = 0 PROVE \E k \in DOMAIN Kept' : Kept'[k].id = i
        <4>1. i \in Ids /\ i \in ToSet(published) /\ attempts[i] = 0
          BY <1>1, <3>1, <3>3, <3>7
        <4>2. PICK k \in DOMAIN Kept : Kept[k].id = i
          BY <4>1 DEF Inv, OrderInv
        <4>3. k > n
          BY <2>5, <2>7, <3>5, <3>7, <4>2
        <4> QED BY <3>6, <4>2, <4>3
      <3>8. ASSUME NEW j \in DOMAIN published', NEW k \in DOMAIN published',
                   j < k, attempts'[published'[k]] > 0
            PROVE  attempts'[published'[j]] > 0
        <4>1. j \in DOMAIN published /\ k \in DOMAIN published /\ published' = published
          BY <1>1
        <4>2. SUFFICES ASSUME attempts'[published[j]] = 0 PROVE FALSE
          BY <3>1, <3>2, <4>1
        <4>3. attempts[published[j]] = 0
          BY <3>1, <3>2, <4>1, <4>2
        <4>4. ~(attempts[published[k]] > 0)
          BY <3>8, <4>1, <4>3 DEF Inv, OrderInv
        <4>5. PICK b \in DOMAIN Kept : b <= n /\ Kept[b].id = published[k]
          BY <3>2, <3>4, <3>8, <4>1, <4>4
        <4>6. PICK a \in DOMAIN Kept : Kept[a].id = published[j]
          BY <3>2, <4>1, <4>3 DEF Inv, OrderInv
        <4>7. a < b
          BY <3>8, <4>1, <4>3, <4>5, <4>6 DEF Inv, OrderInv
        <4>8. attempts'[published[j]] > 0
          BY <2>5, <2>7, <3>5, <4>5, <4>6, <4>7
        <4> QED BY <4>2, <4>8
      <3>9. ASSUME NEW j \in DOMAIN published', NEW k \in DOMAIN published',
                   NEW a \in DOMAIN Kept', NEW b \in DOMAIN Kept',
                   j < k, attempts'[published'[j]] = 0, Kept'[a].id = published'[j], Kept'[b].id = published'[k]
            PROVE  a < b
        <4>1. j \in DOMAIN published /\ k \in DOMAIN published /\ published' = published
          BY <1>1
        <4>2. attempts[published[j]] = 0
          BY <3>1, <3>2, <3>9, <4>1
        <4>3. a + n < b + n
          BY <2>7, <3>9, <4>1, <4>2 DEF Inv, OrderInv
        <4> QED BY <2>5, <2>7, <4>3
      <3> QED BY <1>1, <3>7, <3>8, <3>9 DEF OrderInv
    <2> QED BY <2>3, <2>6, <2>10, <2>11, <2>12 DEF Inv
  <1> QED BY <1>2, <1>3

\* A processing that ends takes the message out of reading: to the settled ones,
\* or to those that wait for another try.
LEMMA ProcessedInv == ASSUME Inv, NEW m \in Messages, Succeed(m) \/ Fail(m) PROVE Inv'
  <1>1. /\ m \in reading /\ reading' = reading \ {m} /\ scheduled' = TRUE
        /\ UNCHANGED <<phase, subscribed, listening, idle, queue, stored, published, attempts, stops, crashes, pauses>>
    BY DEF Succeed, Fail, Processed, conn, bounds
  <1>2. \/ retrying' = retrying \cup {m} /\ settled' = settled /\ m.retried < MaxRetries
        \/ settled' = settled \cup {m.id} /\ retrying' = retrying
    BY DEF Succeed, Fail
  <1>3. Kept' = Kept
    BY <1>1 DEF Kept
  <1>4. TypeOK'
    BY <1>1, <1>2 DEF Inv, TypeOK, Messages
  <1>5. ConnInv'
    <2>1. IsFiniteSet(reading') /\ Cardinality(reading') <= Concurrency
      <3>1. IsFiniteSet(reading) /\ Cardinality(reading) <= Concurrency /\ Cardinality(reading) \in Nat
        BY FS_CardinalityType DEF Inv, ConnInv
      <3>2. IsFiniteSet(reading') /\ Cardinality(reading') = Cardinality(reading) - 1
        BY <1>1, <3>1, FS_RemoveElement
      <3> QED BY <3>1, <3>2, EventQueueAssumption
    <2> QED BY <1>1, <2>1 DEF Inv, ConnInv
  <1>6. Held' \subseteq Held
    BY <1>1, <1>2 DEF Held
  <1>7. m.id \in ToSet(published) /\ m \in Held
    BY <1>1 DEF Inv, KnownInv, Held
  <1>8. KnownInv'
    BY <1>1, <1>2, <1>3, <1>6, <1>7 DEF Inv, KnownInv
  <1>9. OnceInv'
    <2>1. reading' \cap retrying' = {} /\ \A l \in retrying' : l.retried < MaxRetries
      BY <1>1, <1>2 DEF Inv, OnceInv
    <2>2. \A k \in DOMAIN Kept' : Kept'[k].id \notin settled'
      BY <1>2, <1>3, <1>7 DEF Inv, OnceInv
    <2>3. \A l \in Held' : l.id \notin settled'
      <3>1. CASE settled' = settled
        BY <1>6, <3>1 DEF Inv, OnceInv
      <3>2. CASE settled' = settled \cup {m.id} /\ retrying' = retrying
        <4>1. m \notin Held'
          BY <1>1, <3>2 DEF Inv, OnceInv, Held
        <4> QED BY <1>6, <1>7, <3>2, <4>1 DEF Inv, OnceInv
      <3> QED BY <1>2, <3>1, <3>2
    <2> QED BY <1>1, <1>3, <1>6, <2>1, <2>2, <2>3 DEF Inv, OnceInv
  <1>10. OrderInv'
    BY <1>1, <1>3 DEF Inv, OrderInv
  <1> QED BY <1>4, <1>5, <1>8, <1>9, <1>10 DEF Inv

\* A retry goes to the end of the queue; it has been tried, so it may be behind
\* anything.  The adapter drops it when it does not know the channel, and it is
\* not in the file when that is written already.
LEMMA RetryInv == ASSUME Inv, NEW m \in Messages, Retry(m) PROVE Inv'
  <1> DEFINE again == [m EXCEPT !.retried = @ + 1]
  <1>1. /\ m \in retrying /\ retrying' = retrying \ {m}
        /\ UNCHANGED <<phase, subscribed, listening, idle, reading, stored, published, attempts, settled, stops, crashes, pauses>>
    BY DEF Retry, conn, bounds
  <1>2. again \in Messages /\ again.id = m.id
    BY <1>1, EventQueueAssumption DEF Messages, Inv, OnceInv
  <1>3. \/ queue' = Append(queue, again) /\ scheduled' = TRUE
        \/ queue' = queue /\ scheduled' = scheduled
    BY DEF Retry, AdapterPublish
  <1> HIDE DEF again
  <1>4. Kept' = Kept \/ Kept' = Append(Kept, again)
    BY <1>1, <1>3 DEF Kept
  <1>5. TypeOK'
    <2>1. queue \in Seq(Messages) /\ Append(queue, again) \in Seq(Messages)
      BY <1>2 DEF Inv, TypeOK
    <2>2. queue' \in Seq(Messages) /\ scheduled' \in BOOLEAN
      BY <1>3, <2>1 DEF Inv, TypeOK
    <2> QED BY <1>1, <2>2 DEF Inv, TypeOK
  <1>6. ConnInv'
    BY <1>1 DEF Inv, ConnInv
  <1>7. m \in Held /\ m.id \in Ids /\ attempts[m.id] > 0
    BY <1>1 DEF Held, Inv, OnceInv, Messages
  <1>8. Held' = Held \ {m}
    BY <1>1 DEF Inv, OnceInv, Held
  <1>9. CASE Kept' = Kept
    BY <1>1, <1>5, <1>6, <1>8, <1>9 DEF Inv, KnownInv, OnceInv, OrderInv
  <1>10. CASE Kept' = Append(Kept, again)
    <2>1. Kept \in Seq(Messages)
      BY KeptTyped DEF Inv
    <2>2. /\ DOMAIN Kept' = DOMAIN Kept \cup {Len(Kept) + 1} /\ DOMAIN Kept = 1..Len(Kept) /\ Len(Kept) \in Nat
          /\ \A k \in DOMAIN Kept : Kept'[k] = Kept[k]
          /\ Kept'[Len(Kept) + 1].id = m.id
      BY <1>2, <1>10, <2>1, Appended
    <2>3. KnownInv'
      BY <1>1, <1>7, <1>8, <2>2 DEF Inv, KnownInv
    <2>4. OnceInv'
      BY <1>1, <1>7, <1>8, <2>2 DEF Inv, OnceInv
    <2>5. OrderInv'
      <3> SUFFICES ASSUME crashes = 0 PROVE OrderInv'
        BY <1>1 DEF OrderInv
      <3>1. \A i \in ToSet(published') : attempts'[i] = 0 => \E k \in DOMAIN Kept' : Kept'[k].id = i
        BY <1>1, <2>2 DEF Inv, OrderInv
      <3>2. ASSUME NEW j \in DOMAIN published, NEW k \in DOMAIN published,
                   NEW a \in DOMAIN Kept', NEW b \in DOMAIN Kept',
                   j < k, attempts[published[j]] = 0, Kept'[a].id = published[j], Kept'[b].id = published[k]
            PROVE  a < b
        <4>1. a \in DOMAIN Kept /\ Kept'[a] = Kept[a]
          BY <1>7, <2>2, <3>2
        <4>2. CASE b = Len(Kept) + 1
          BY <2>2, <4>1, <4>2
        <4>3. CASE b \in DOMAIN Kept
          BY <2>2, <3>2, <4>1, <4>3 DEF Inv, OrderInv
        <4> QED BY <2>2, <4>2, <4>3
      <3> QED BY <1>1, <3>1, <3>2 DEF Inv, OrderInv
    <2> QED BY <1>5, <1>6, <2>3, <2>4, <2>5 DEF Inv
  <1> QED BY <1>4, <1>9, <1>10

\* Every step preserves the invariant.
LEMMA NextInv == Inv /\ [Next]_vars => Inv'
  <1> SUFFICES ASSUME Inv, [Next]_vars PROVE Inv'
    OBVIOUS
  <1>1. CASE Connect \/ Subscribe \/ Unsubscribe \/ Close \/ Save \/ Closed \/ Turn \/ UNCHANGED vars
    BY <1>1, ConnectionInv
  <1>2. CASE Crash
    BY <1>2, CrashInv
  <1>3. CASE \E i \in Ids : Publish(i)
    BY <1>3, PublishInv
  <1>4. CASE \E m \in Messages : Succeed(m) \/ Fail(m) \/ Retry(m)
    BY <1>4, ProcessedInv, RetryInv
  <1>5. CASE Immediate \/ Poll
    BY <1>5, ListenInv
  <1> QED BY <1>1, <1>2, <1>3, <1>4, <1>5 DEF Next

LEMMA InvHolds == Spec => []Inv
  BY InitInv, NextInv, PTL DEF Spec

------------------------------------------------------------------------------
(* The properties                                                           *)

\* The type invariant.
THEOREM TypeCorrect == Spec => []TypeOK
  <1>1. Inv => TypeOK
    BY DEF Inv
  <1> QED BY <1>1, InvHolds, PTL

\* A message that was settled is nowhere, and any other is in one place.
LEMMA InOnePlace == ASSUME Inv, NEW i \in Ids PROVE Cardinality(Places(i)) <= IF i \in settled THEN 0 ELSE 1
  <1>1. /\ \A x : x \in Places(i) <=> \/ \E k \in DOMAIN Kept : Kept[k].id = i /\ x = <<"queue", k>>
                                      \/ \E m \in reading : m.id = i /\ x = <<"reading", m>>
                                      \/ \E m \in retrying : m.id = i /\ x = <<"retrying", m>>
    BY DEF Places, Kept
  <1>2. ASSUME NEW x \in Places(i), NEW y \in Places(i) PROVE x = y
    BY <1>1, <1>2 DEF Inv, OnceInv, Held
  <1>3. CASE Places(i) = {}
    BY <1>3, FS_EmptySet
  <1>4. CASE Places(i) # {}
    <2>1. PICK x : x \in Places(i)
      BY <1>4
    <2>2. Places(i) = {x}
      BY <1>2, <2>1
    <2>3. i \notin settled
      BY <1>1, <2>1 DEF Inv, OnceInv, Held
    <2>4. Cardinality(Places(i)) = 1
      BY <2>2, FS_Singleton
    <2> QED BY <2>3, <2>4
  <1> QED BY <1>3, <1>4

\* No message is ever held twice, or again after it was settled.
THEOREM MessagesAreHeldOnce == Spec => []HeldOnce
  <1>1. Inv => HeldOnce
    BY InOnePlace DEF HeldOnce
  <1> QED BY <1>1, InvHolds, PTL

\* Without a crash, a message that nobody has tried is in the queue or the file.
THEOREM UntriedMessagesAreKept == Spec => []UntriedAreKept
  <1>1. Inv => UntriedAreKept
    <2> SUFFICES ASSUME Inv, crashes = 0, NEW i \in ToSet(published), attempts[i] = 0
                 PROVE  Places(i) # {}
      BY DEF UntriedAreKept
    <2>1. PICK k \in DOMAIN Kept : Kept[k].id = i
      BY DEF Inv, OrderInv
    <2>2. <<"queue", k>> \in Places(i)
      BY <2>1 DEF Places, Kept
    <2> QED BY <2>2
  <1> QED BY <1>1, InvHolds, PTL

\* Without a crash, messages are tried in the order of their publication.
THEOREM MessagesAreTriedInOrder == Spec => []FirstInFirstOut
  <1>1. Inv => FirstInFirstOut
    BY DEF Inv, OrderInv, FirstInFirstOut
  <1> QED BY <1>1, InvHolds, PTL
================================================================================
