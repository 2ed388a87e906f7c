-------------------------- MODULE WorkflowSync_proofs --------------------------
(***************************************************************************)
(* However workflows are saved and destroyed, at most one version of a     *)
(* workflow is enabled.  A transaction decides on the rows as they are when *)
(* it opens, and commits later: it has to keep this to itself.             *)
(*                                                                         *)
(* And however messages are delayed, debounced and repeated, the caches    *)
(* agree with the rows in the end.  What holds in the meantime: for an     *)
(* enabled version no message that switches it off is the last one, for    *)
(* another version no message that switches it on is left.                 *)
(***************************************************************************)
EXTENDS WorkflowSync, SequenceTheorems, TLAPS

------------------------------------------------------------------------------
(* Sequences of messages                                                    *)

Has(s, m) == \E k \in DOMAIN s : s[k] = m

\* Every message in s that switches v off has one behind it that switches v on.
Followed(s, v) ==
  \A k \in DOMAIN s : s[k] = Off(v) => \E l \in DOMAIN s : l > k /\ s[l] = On(v)

LEMMA Messages ==
  ASSUME NEW v \in Versions, NEW w \in Versions
  PROVE  /\ On(v) \in Message /\ Off(v) \in Message
         /\ On(v) # Off(w)
         /\ On(v) = On(w) => v = w
         /\ Off(v) = Off(w) => v = w
         /\ On(v).version = v /\ Off(v).version = v
  BY DEF On, Off, Message

LEMMA EveryMessage ==
  ASSUME NEW m \in Message
  PROVE  m.version \in Versions /\ m = IF m.enabled THEN On(m.version) ELSE Off(m.version)
  BY DEF On, Off, Message

LEMMA Member ==
  ASSUME NEW s \in Seq(Message), NEW m, Has(s, m)
  PROVE  m \in Message
  BY LenProperties DEF Has

LEMMA HeadAndTail ==
  ASSUME NEW s \in Seq(Message), s # <<>>
  PROVE  /\ Head(s) \in Message /\ Tail(s) \in Seq(Message)
         /\ \A m : Has(s, m) <=> Head(s) = m \/ Has(Tail(s), m)
         /\ \A v \in Versions : Followed(s, v) =>
              Followed(Tail(s), v) /\ (Head(s) = Off(v) => Has(Tail(s), On(v)))
  <1> DEFINE t == Tail(s)
  <1>1. /\ Head(s) \in Message /\ t \in Seq(Message)
        /\ Len(s) \in Nat /\ Len(s) > 0 /\ Head(s) = s[1]
        /\ DOMAIN s = 1..Len(s) /\ DOMAIN t = 1..(Len(s) - 1)
        /\ \A k \in 1..(Len(s) - 1) : t[k] = s[k + 1]
    BY HeadTailProperties, LenProperties, EmptySeq
  <1> HIDE DEF t
  <1>2. ASSUME NEW m PROVE Has(s, m) <=> Head(s) = m \/ Has(t, m)
    <2>1. ASSUME NEW k \in DOMAIN s, s[k] = m, s[1] # m PROVE Has(t, m)
      <3>1. k - 1 \in DOMAIN t /\ t[k - 1] = m
        BY <1>1, <2>1
      <3> QED BY <3>1 DEF Has
    <2>2. ASSUME NEW k \in DOMAIN t, t[k] = m PROVE Has(s, m)
      <3>1. k + 1 \in DOMAIN s /\ s[k + 1] = m
        BY <1>1, <2>2
      <3> QED BY <3>1 DEF Has
    <2>3. Head(s) = m => Has(s, m)
      BY <1>1 DEF Has
    <2> QED BY <1>1, <2>1, <2>2, <2>3 DEF Has
  <1>3. ASSUME NEW v \in Versions, Followed(s, v)
        PROVE  Followed(t, v) /\ (Head(s) = Off(v) => Has(t, On(v)))
    <2>1. ASSUME NEW k \in DOMAIN s, s[k] = Off(v)
          PROVE  \E l \in DOMAIN t : l > k - 1 /\ t[l] = On(v)
      <3>1. PICK l \in DOMAIN s : l > k /\ s[l] = On(v)
        BY <1>3, <2>1 DEF Followed
      <3>2. l - 1 \in DOMAIN t /\ t[l - 1] = On(v) /\ l - 1 > k - 1
        BY <1>1, <3>1
      <3> QED BY <3>2
    <2>2. ASSUME NEW k \in DOMAIN t, t[k] = Off(v)
          PROVE  \E l \in DOMAIN t : l > k /\ t[l] = On(v)
      <3>1. k + 1 \in DOMAIN s /\ s[k + 1] = Off(v) /\ (k + 1) - 1 = k
        BY <1>1, <2>2
      <3> QED BY <2>1, <3>1
    <2>3. Head(s) = Off(v) => Has(t, On(v))
      BY <1>1, <2>1 DEF Has
    <2> QED BY <2>2, <2>3 DEF Followed
  <1> QED BY <1>1, <1>2, <1>3 DEF t

LEMMA Appended ==
  ASSUME NEW s \in Seq(Message), NEW m \in Message
  PROVE  /\ Append(s, m) \in Seq(Message)
         /\ \A x : Has(Append(s, m), x) <=> Has(s, x) \/ x = m
         /\ \A v \in Versions : m = On(v) \/ (m # Off(v) /\ Followed(s, v)) =>
              Followed(Append(s, m), v)
  <1> DEFINE t == Append(s, m)
  <1>1. /\ t \in Seq(Message) /\ Len(s) \in Nat
        /\ DOMAIN s = 1..Len(s) /\ DOMAIN t = 1..(Len(s) + 1)
        /\ \A k \in 1..Len(s) : t[k] = s[k]
        /\ t[Len(s) + 1] = m
    BY AppendProperties, LenProperties
  <1> HIDE DEF t
  <1>2. \A x : Has(t, x) <=> Has(s, x) \/ x = m
    BY <1>1 DEF Has
  <1>3. ASSUME NEW v \in Versions, m = On(v) \/ (m # Off(v) /\ Followed(s, v)),
               NEW k \in DOMAIN t, t[k] = Off(v)
        PROVE  \E l \in DOMAIN t : l > k /\ t[l] = On(v)
    <2>1. k \in DOMAIN s /\ s[k] = Off(v)
      BY <1>1, <1>3, Messages
    <2>2. CASE m = On(v)
      BY <1>1, <2>1, <2>2
    <2>3. CASE Followed(s, v)
      BY <1>1, <2>1, <2>3 DEF Followed
    <2> QED BY <1>3, <2>2, <2>3
  <1> QED BY <1>1, <1>2, <1>3 DEF t, Followed

LEMMA Concatenated ==
  ASSUME NEW s \in Seq(Message), NEW t \in Seq(Message)
  PROVE  /\ s \o t \in Seq(Message)
         /\ \A x : Has(s \o t, x) <=> Has(s, x) \/ Has(t, x)
         /\ \A v \in Versions : ~Has(t, Off(v)) /\ (Has(t, On(v)) \/ Followed(s, v)) =>
              Followed(s \o t, v)
  <1> DEFINE u == s \o t
  <1>1. /\ u \in Seq(Message) /\ Len(s) \in Nat /\ Len(t) \in Nat
        /\ DOMAIN s = 1..Len(s) /\ DOMAIN t = 1..Len(t)
        /\ DOMAIN u = 1..(Len(s) + Len(t))
        /\ \A k \in 1..(Len(s) + Len(t)) : u[k] = IF k <= Len(s) THEN s[k] ELSE t[k - Len(s)]
    BY ConcatProperties, LenProperties
  <1> HIDE DEF u
  <1>2. /\ \A k \in DOMAIN s : k \in DOMAIN u /\ u[k] = s[k]
        /\ \A k \in DOMAIN t : k + Len(s) \in DOMAIN u /\ u[k + Len(s)] = t[k]
    BY <1>1
  <1>3. \A k \in DOMAIN u : \/ k \in DOMAIN s /\ u[k] = s[k]
                            \/ k - Len(s) \in DOMAIN t /\ u[k] = t[k - Len(s)]
    <2> SUFFICES ASSUME NEW k \in 1..(Len(s) + Len(t))
                 PROVE  \/ k \in DOMAIN s /\ u[k] = s[k]
                        \/ k - Len(s) \in DOMAIN t /\ u[k] = t[k - Len(s)]
      BY <1>1
    <2>1. CASE k <= Len(s)
      BY <1>1, <2>1
    <2>2. CASE ~(k <= Len(s))
      <3>1. k - Len(s) \in 1..Len(t) /\ u[k] = t[k - Len(s)]
        BY <1>1, <2>2
      <3> QED BY <1>1, <3>1
    <2> QED BY <2>1, <2>2
  <1>4. \A x : Has(u, x) <=> Has(s, x) \/ Has(t, x)
    BY <1>2, <1>3 DEF Has
  <1>5. ASSUME NEW v \in Versions, ~Has(t, Off(v)), Has(t, On(v)) \/ Followed(s, v),
               NEW k \in DOMAIN u, u[k] = Off(v)
        PROVE  \E l \in DOMAIN u : l > k /\ u[l] = On(v)
    <2>1. k \in DOMAIN s /\ s[k] = Off(v)
      BY <1>3, <1>5 DEF Has
    <2>2. CASE Has(t, On(v))
      <3>1. PICK l \in DOMAIN t : t[l] = On(v)
        BY <2>2 DEF Has
      <3>2. l + Len(s) \in DOMAIN u /\ u[l + Len(s)] = On(v) /\ l + Len(s) > k
        BY <1>1, <1>2, <2>1, <3>1
      <3> QED BY <3>2
    <2>3. CASE Followed(s, v)
      BY <1>2, <2>1, <2>3 DEF Followed
    <2> QED BY <1>5, <2>2, <2>3
  <1> QED BY <1>1, <1>4, <1>5 DEF u, Followed

LEMMA Removed ==
  ASSUME NEW s \in Seq(Message), NEW n \in DOMAIN s
  PROVE  /\ RemoveAt(s, n) \in Seq(Message)
         /\ \A x : Has(RemoveAt(s, n), x) => Has(s, x)
         /\ \A x : Has(s, x) /\ x # s[n] => Has(RemoveAt(s, n), x)
         /\ \A v \in Versions : Followed(s, v) /\ s[n] # On(v) => Followed(RemoveAt(s, n), v)
  <1> DEFINE a == SubSeq(s, 1, n - 1)
             b == SubSeq(s, n + 1, Len(s))
             u == RemoveAt(s, n)
  <1>1. Len(s) \in Nat /\ DOMAIN s = 1..Len(s) /\ n \in 1..Len(s) /\ \A k \in 1..Len(s) : s[k] \in Message
    BY LenProperties, ElementOfSeq
  <1>2. /\ a \in Seq(Message) /\ Len(a) = n - 1
        /\ \A k \in 1..(n - 1) : a[k] = s[k]
    <2>1. \A k \in 1..(n - 1) : s[k] \in Message
      BY <1>1
    <2> QED BY <1>1, <2>1, SubSeqProperties
  <1>3. /\ b \in Seq(Message) /\ Len(b) = Len(s) - n
        /\ \A k \in 1..(Len(s) - n) : b[k] = s[n + k]
    <2>1. \A k \in (n + 1)..Len(s) : s[k] \in Message
      BY <1>1
    <2>2. /\ SubSeq(s, n + 1, Len(s)) \in Seq(Message)
          /\ Len(SubSeq(s, n + 1, Len(s))) = IF n + 1 <= Len(s) THEN Len(s) - (n + 1) + 1 ELSE 0
          /\ \A k \in 1..(Len(s) - (n + 1) + 1) : SubSeq(s, n + 1, Len(s))[k] = s[(n + 1) + k - 1]
      BY <1>1, <2>1, SubSeqProperties
    <2>3. /\ (n + 1 <= Len(s) => Len(s) - (n + 1) + 1 = Len(s) - n)
          /\ (~(n + 1 <= Len(s)) => 0 = Len(s) - n)
          /\ 1..(Len(s) - (n + 1) + 1) = 1..(Len(s) - n)
          /\ \A k \in 1..(Len(s) - n) : (n + 1) + k - 1 = n + k
      BY <1>1
    <2> QED BY <2>2, <2>3
  <1>4. u = a \o b
    BY DEF RemoveAt
  <1> HIDE DEF a, b
  <1>5. /\ u \in Seq(Message) /\ DOMAIN u = 1..(Len(s) - 1)
        /\ \A k \in 1..(Len(s) - 1) : u[k] = IF k < n THEN s[k] ELSE s[k + 1]
    <2>1. /\ u \in Seq(Message) /\ Len(u) = Len(a) + Len(b)
          /\ \A k \in 1..(Len(a) + Len(b)) : u[k] = IF k <= Len(a) THEN a[k] ELSE b[k - Len(a)]
      <3>1. /\ a \o b \in Seq(Message) /\ Len(a \o b) = Len(a) + Len(b)
            /\ \A k \in 1..(Len(a) + Len(b)) :
                 (a \o b)[k] = IF k <= Len(a) THEN a[k] ELSE b[k - Len(a)]
        BY <1>2, <1>3, ConcatProperties
      <3> HIDE DEF u
      <3> QED BY <1>4, <3>1
    <2>2. DOMAIN u = 1..Len(u) /\ Len(a) + Len(b) = Len(s) - 1
      BY <1>1, <1>2, <1>3, <2>1, LenProperties
    <2>3. ASSUME NEW k \in 1..(Len(s) - 1) PROVE u[k] = IF k < n THEN s[k] ELSE s[k + 1]
      <3>1. CASE k < n
        BY <1>1, <1>2, <2>1, <2>2, <3>1
      <3>2. CASE ~(k < n)
        <4>1. k - (n - 1) \in 1..(Len(s) - n) /\ n + (k - (n - 1)) = k + 1
          BY <1>1, <3>2
        <4>2. u[k] = b[k - (n - 1)]
          BY <1>1, <1>2, <2>1, <2>2, <3>2
        <4> QED BY <1>3, <3>2, <4>1, <4>2
      <3> QED BY <3>1, <3>2
    <2> QED BY <2>1, <2>2, <2>3
  <1> HIDE DEF u
  \* Where the element k of s is in u.
  <1>6. \A k \in DOMAIN s : k # n => LET j == IF k < n THEN k ELSE k - 1
                                    IN  j \in DOMAIN u /\ u[j] = s[k]
    BY <1>1, <1>5
  <1>7. \A x : Has(u, x) => Has(s, x)
    BY <1>1, <1>5 DEF Has
  <1>8. \A x : Has(s, x) /\ x # s[n] => Has(u, x)
    BY <1>6 DEF Has
  <1>9. ASSUME NEW v \in Versions, Followed(s, v), s[n] # On(v), NEW k \in DOMAIN u, u[k] = Off(v)
        PROVE  \E l \in DOMAIN u : l > k /\ u[l] = On(v)
    <2> DEFINE i == IF k < n THEN k ELSE k + 1
    <2>1. i \in DOMAIN s /\ s[i] = Off(v)
      BY <1>1, <1>5, <1>9
    <2>2. PICK l \in DOMAIN s : l > i /\ s[l] = On(v)
      BY <1>9, <2>1 DEF Followed
    <2>3. l # n
      BY <1>9, <2>2
    <2> DEFINE j == IF l < n THEN l ELSE l - 1
    <2>4. j \in DOMAIN u /\ u[j] = On(v)
      BY <1>6, <2>2, <2>3
    <2>5. j > k
      BY <1>1, <1>5, <2>1, <2>2, <2>3
    <2> QED BY <2>4, <2>5
  <1> QED BY <1>5, <1>7, <1>8, <1>9 DEF u, Followed

------------------------------------------------------------------------------
(* The tables                                                               *)

\* What OneEnabled says of a table.
One(table) == /\ table.enabled \subseteq {table.current}
              /\ table.enabled \cup ({table.current} \ {None}) \subseteq table.exists

\* A change of the rows and what it tells: the last word on every version.
Change(new, messages) ==
  /\ new \in Rows /\ One(new) /\ messages \in Seq(Message)
  /\ \A v \in Versions :
       /\ Has(messages, On(v)) => v \in new.enabled
       /\ Has(messages, Off(v)) => v \notin new.enabled
       /\ ~Has(messages, On(v)) /\ ~Has(messages, Off(v)) => (v \in new.enabled <=> v \in rows.enabled)

\* A sequence of at most one message.
LEMMA Short ==
  ASSUME NEW m \in Message
  PROVE  /\ <<>> \in Seq(Message) /\ <<m>> \in Seq(Message)
         /\ \A x : ~Has(<<>>, x) /\ (Has(<<m>>, x) <=> x = m)
  BY DEF Has

\* A version that is saved as enabled becomes the only one.
LEMMA SaveIsChange ==
  ASSUME rows \in Rows, One(rows),
         NEW i \in Instances, NEW v \in Versions, NEW enable \in BOOLEAN, Save(i, v, enable)
  PROVE  \E new, messages : Change(new, messages) /\ Open(i, new, messages)
  <1> DEFINE current  == enable \/ rows.current \in {None, v}
             previous == IF current THEN {rows.current} \ {None, v} ELSE {}
             new      == [exists  |-> rows.exists \cup {v},
                          enabled |-> (rows.enabled \ (previous \cup {v})) \cup (IF enable THEN {v} ELSE {}),
                          current |-> IF current THEN v ELSE rows.current]
             own      == [version |-> v, enabled |-> enable]
             first    == IF previous = {} THEN <<>> ELSE <<Off(rows.current)>>
             second   == IF v \notin rows.exists /\ ~enable THEN <<>> ELSE <<own>>
             X == rows.exists  E == rows.enabled  C == rows.current
  <1>1. Open(i, new, first \o second)
    BY DEF Save
  <1>2. new \in Rows
    BY DEF Rows
  <1>3. /\ v # None /\ None \notin X
        /\ E \subseteq {C} /\ E \subseteq X /\ (C # None => C \in X)
        /\ C \in Versions \cup {None}
    BY SyncAssumption DEF Rows, One
  <1>4. /\ new.exists = X \cup {v}
        /\ new.enabled = (E \ (previous \cup {v})) \cup (IF enable THEN {v} ELSE {})
        /\ new.current = IF current THEN v ELSE C
        /\ previous = IF current THEN {C} \ {None, v} ELSE {}
        /\ current <=> enable \/ C = None \/ C = v
    OBVIOUS
  <1>5. own \in Message /\ own = IF enable THEN On(v) ELSE Off(v)
    BY DEF Message, On, Off
  <1>6. /\ first = IF previous = {} THEN <<>> ELSE <<Off(C)>>
        /\ second = IF v \notin X /\ ~enable THEN <<>> ELSE <<own>>
    OBVIOUS
  <1> HIDE DEF new, X, E, C, current, previous, own, first, second
  <1>7. One(new)
    <2>1. CASE current
      <3>1. new.enabled \subseteq {v} /\ new.current = v
        BY <1>3, <1>4, <2>1
      <3> QED BY <1>4, <3>1 DEF One
    <2>2. CASE ~current
      <3>1. new.enabled \subseteq E /\ new.current = C
        BY <1>4, <2>2
      <3> QED BY <1>3, <1>4, <3>1 DEF One
    <2> QED BY <2>1, <2>2
  <1>8. /\ first \in Seq(Message)
        /\ \A x : Has(first, x) <=> previous # {} /\ x = Off(C)
    <2>1. CASE previous = {}
      BY <1>5, <1>6, <2>1, Short
    <2>2. CASE previous # {}
      <3>1. C \in Versions
        BY <1>3, <1>4, <2>2
      <3> QED BY <1>6, <2>2, <3>1, Short, Messages
    <2> QED BY <2>1, <2>2
  <1>9. /\ second \in Seq(Message)
        /\ \A x : Has(second, x) <=> (v \in X \/ enable) /\ x = own
    BY <1>5, <1>6, Short
  <1>10. /\ first \o second \in Seq(Message)
         /\ \A x : Has(first \o second, x) <=> \/ previous # {} /\ x = Off(C)
                                               \/ (v \in X \/ enable) /\ x = own
    BY <1>8, <1>9, Concatenated
  <1>11. ASSUME NEW w \in Versions
         PROVE  /\ Has(first \o second, On(w)) <=> enable /\ w = v
                /\ Has(first \o second, Off(w)) <=> (previous # {} /\ w = C) \/ (~enable /\ v \in X /\ w = v)
    <2>1. previous # {} => C \in Versions
      BY <1>3, <1>4
    <2> QED BY <1>5, <1>10, <2>1, Messages
  <1>12. ASSUME NEW w \in Versions
         PROVE  /\ Has(first \o second, On(w)) => w \in new.enabled
                /\ Has(first \o second, Off(w)) => w \notin new.enabled
                /\ ~Has(first \o second, On(w)) /\ ~Has(first \o second, Off(w)) =>
                     (w \in new.enabled <=> w \in E)
    BY <1>3, <1>4, <1>11
  <1>13. Change(new, first \o second)
    BY <1>2, <1>7, <1>10, <1>12 DEF Change, E
  <1> QED BY <1>1, <1>13

\* A version that is destroyed is not the current one any longer.
LEMMA DestroyIsChange ==
  ASSUME rows \in Rows, One(rows), NEW i \in Instances, NEW v \in Versions, Destroy(i, v)
  PROVE  \E new, messages : Change(new, messages) /\ Open(i, new, messages)
  <1> DEFINE new == [exists  |-> rows.exists \ {v},
                     enabled |-> rows.enabled \ {v},
                     current |-> IF rows.current = v THEN None ELSE rows.current]
  <1>1. Open(i, new, <<Off(v)>>)
    BY DEF Destroy
  <1>2. new \in Rows /\ One(new) /\ new.enabled = rows.enabled \ {v}
    BY DEF Rows, One
  <1> HIDE DEF new
  <1>3. ASSUME NEW w \in Versions
        PROVE  ~Has(<<Off(v)>>, On(w)) /\ (Has(<<Off(v)>>, Off(w)) <=> w = v)
    BY Short, Messages
  <1>4. Change(new, <<Off(v)>>)
    BY <1>2, <1>3, Short, Messages DEF Change
  <1> QED BY <1>1, <1>4

------------------------------------------------------------------------------
(* The invariant                                                            *)

\* A message about v is on its way to i or being handled there.
Coming(i, v) == Has(sent[i], On(v)) \/ Has(armed[i], On(v)) \/ \E r \in reads[i] : r.version = v
Going(i, v)  == Has(sent[i], Off(v)) \/ Has(armed[i], Off(v))

\* An enabled version is in the cache or will be: nothing switches it off last.
Settling(i, v) ==
  /\ Followed(sent[i], v)
  /\ Has(sent[i], On(v)) \/ Followed(armed[i], v)
  /\ v \in cache[i] \/ v \in toSwitch[i] \/ Coming(i, v)

\* Any other version is not in the cache or will not be: nothing switches it on.
Ceasing(i, v) ==
  /\ ~Coming(i, v) /\ v \notin toSwitch[i]
  /\ v \in cache[i] => Going(i, v)

\* The instance of the open transaction is ahead of the rows.
Ahead(i, v) == ~Coming(i, v) /\ ~Going(i, v) /\ (v \in cache[i] <=> v \in tx.rows.enabled)

Mine(i, v) == tx # None /\ tx.by = i /\ (Has(tx.messages, On(v)) \/ Has(tx.messages, Off(v)))

Agreed(i, v) == /\ Mine(i, v) => Ahead(i, v)
                /\ ~Mine(i, v) /\ v \in rows.enabled => Settling(i, v)
                /\ ~Mine(i, v) /\ v \notin rows.enabled => Ceasing(i, v)

TxInv   == tx # None => Change(tx.rows, tx.messages) /\ phase[tx.by] = "up"
LifeInv == \A i \in Instances :
             /\ phase[i] # "starting" => toSwitch[i] = {}
             /\ phase[i] = "down" => armed[i] = <<>> /\ reads[i] = {}
CacheInv == \A i \in Instances, v \in Versions :
              phase[i] # "down" /\ <<i, v>> \notin doubtful => Agreed(i, v)

Inv == TypeOK /\ One(rows) /\ TxInv /\ LifeInv /\ CacheInv

\* The sets of the model in terms of the sequences.
LEMMA Flight ==
  ASSUME TypeOK, NEW i \in Instances, NEW v \in Versions
  PROVE  /\ On(v) \in InFlight(i) <=> Coming(i, v)
         /\ Off(v) \in InFlight(i) <=> Going(i, v)
         /\ v \in {m.version : m \in InFlight(i)} <=> Coming(i, v) \/ Going(i, v)
  <1>1. \A m : m \in InFlight(i) <=> \/ Has(sent[i], m) \/ Has(armed[i], m)
                                     \/ \E r \in reads[i] : m = On(r.version)
    BY DEF InFlight, ToSet, Has
  <1>2. \A r \in reads[i] : r.version \in Versions
    BY DEF TypeOK
  <1>3. On(v) \in InFlight(i) <=> Coming(i, v)
    BY <1>1, <1>2, Messages DEF Coming
  <1>4. Off(v) \in InFlight(i) <=> Going(i, v)
    BY <1>1, <1>2, Messages DEF Going
  <1>5. \A m \in InFlight(i) : m \in Message
    <2>1. sent[i] \in Seq(Message) /\ armed[i] \in Seq(Message)
      BY DEF TypeOK
    <2> QED BY <1>1, <1>2, <2>1, Messages, Member
  <1>6. v \in {m.version : m \in InFlight(i)} <=> On(v) \in InFlight(i) \/ Off(v) \in InFlight(i)
    BY <1>5, Messages, EveryMessage
  <1> QED BY <1>3, <1>4, <1>6

\* The versions a sequence of messages is about.
LEMMA About ==
  ASSUME NEW s \in Seq(Message), NEW v \in Versions
  PROVE  /\ On(v) \in ToSet(s) <=> Has(s, On(v))
         /\ Off(v) \in ToSet(s) <=> Has(s, Off(v))
         /\ v \in {m.version : m \in ToSet(s)} <=> Has(s, On(v)) \/ Has(s, Off(v))
  <1>1. \A m : m \in ToSet(s) <=> Has(s, m)
    BY DEF ToSet, Has
  <1>2. \A m : Has(s, m) => m \in Message
    BY Member
  <1> QED BY <1>1, <1>2, Messages, EveryMessage

LEMMA InitInv == Init => Inv
  <1> SUFFICES ASSUME Init PROVE Inv
    OBVIOUS
  <1>1. TypeOK
    BY EmptySeq DEF Init, TypeOK, Rows
  <1>2. ASSUME NEW i \in Instances, NEW v \in Versions PROVE Ceasing(i, v)
    BY DEF Init, Ceasing, Coming, Has
  <1>3. One(rows) /\ TxInv /\ LifeInv /\ CacheInv
    BY <1>2 DEF Init, One, TxInv, LifeInv, CacheInv, Agreed, Mine
  <1> QED BY <1>1, <1>3 DEF Inv

------------------------------------------------------------------------------
(* Changes                                                                  *)

\* A transaction opens.
LEMMA OpenKeeps ==
  ASSUME Inv, NEW i \in Instances, NEW new, NEW messages, Change(new, messages), Open(i, new, messages)
  PROVE  Inv'
  <1>1. /\ phase[i] = "up" /\ tx = None
        /\ tx' = [by |-> i, rows |-> new, messages |-> messages]
        /\ cache' = [cache EXCEPT ![i] = Toggled(@, messages)]
        /\ UNCHANGED <<rows, phase, toSwitch, sent, armed, reads>>
    BY DEF Open
  <1>2. /\ new \in Rows /\ messages \in Seq(Message)
        /\ cache \in [Instances -> SUBSET Versions]
    BY DEF Change, Inv, TypeOK
  <1>3. tx' \in Tx /\ tx' # None
    BY <1>1, <1>2, SyncAssumption DEF Tx
  <1>4. doubtful' \subseteq Instances \X Versions
    <2>1. \A m \in ToSet(messages) : m.version \in Versions
      BY <1>2, Member, EveryMessage DEF ToSet, Has
    <2> QED BY <2>1 DEF Open, Inv, TypeOK
  <1>5. TypeOK'
    BY <1>1, <1>2, <1>4, <1>3 DEF Inv, TypeOK, Toggled
  <1>6. One(rows)' /\ TxInv' /\ LifeInv'
    BY <1>1 DEF Inv, TxInv, LifeInv, Change, One
  <1>7. ASSUME NEW j \in Instances, NEW v \in Versions, j # i, <<j, v>> \notin doubtful'
        PROVE  <<j, v>> \notin doubtful /\ (Agreed(j, v) => Agreed(j, v)')
    <2>1. <<j, v>> \notin doubtful
      BY <1>7 DEF Open
    <2>2. cache'[j] = cache[j]
      BY <1>1, <1>2, <1>7
    <2> QED BY <1>1, <1>7, <2>1, <2>2 DEF Agreed, Mine, Settling, Ceasing, Coming, Going
  <1>8. ASSUME NEW v \in Versions, <<i, v>> \notin doubtful', CacheInv
        PROVE  Agreed(i, v)'
    <2> DEFINE about == Has(messages, On(v)) \/ Has(messages, Off(v))
    <2>1. Mine(i, v)' <=> about
      BY <1>1, <1>3 DEF Mine
    <2>2. v \in cache'[i] <=> Has(messages, On(v)) \/ (v \in cache[i] /\ ~Has(messages, Off(v)))
      BY <1>1, <1>2, About DEF Toggled
    <2>3. Coming(i, v)' = Coming(i, v) /\ Going(i, v)' = Going(i, v)
      BY <1>1 DEF Coming, Going
    <2>4. CASE about
      <3>1. ~Coming(i, v) /\ ~Going(i, v)
        BY <1>2, <1>8, <2>4, About, Flight DEF Open, Inv
      <3>2. v \in cache'[i] <=> v \in new.enabled
        BY <2>2, <2>4 DEF Change
      <3> QED BY <1>1, <2>1, <2>3, <2>4, <3>1, <3>2 DEF Agreed, Ahead
    <2>5. CASE ~about
      <3>1. <<i, v>> \notin doubtful
        BY <1>2, <1>8, <2>5, About DEF Open
      <3>2. Agreed(i, v) /\ ~Mine(i, v)
        BY <1>1, <1>8, <3>1 DEF CacheInv, Mine
      <3> QED BY <1>1, <2>1, <2>2, <2>3, <2>5, <3>2 DEF Agreed, Settling, Ceasing
    <2> QED BY <2>4, <2>5
  <1>9. CacheInv'
    BY <1>1, <1>7, <1>8 DEF Inv, CacheInv
  <1> QED BY <1>5, <1>6, <1>9 DEF Inv

\* What an instance knows of a version hangs on its own state, the rows and the
\* transaction.
LEMMA Same ==
  ASSUME NEW i \in Instances, NEW v \in Versions, UNCHANGED <<rows, tx>>,
         cache'[i] = cache[i], toSwitch'[i] = toSwitch[i], sent'[i] = sent[i],
         armed'[i] = armed[i], reads'[i] = reads[i]
  PROVE  Agreed(i, v)' = Agreed(i, v)
  BY DEF Agreed, Mine, Ahead, Settling, Ceasing, Coming, Going

\* The commit makes the rows what the transaction says.
LEMMA CommitKeeps ==
  ASSUME Inv, Commit
  PROVE  Inv'
  <1> DEFINE others == {j \in Instances : j # tx.by /\ phase[j] # "down"}
             m == tx.messages
  <1>1. /\ tx # None /\ rows' = tx.rows /\ tx' = None
        /\ sent' = [j \in Instances |-> IF j \in others THEN sent[j] \o m ELSE sent[j]]
        /\ UNCHANGED <<cache, phase, toSwitch, armed, reads>>
    BY DEF Commit
  <1>2. Change(tx.rows, m) /\ phase[tx.by] = "up" /\ tx.by \in Instances /\ m \in Seq(Message)
    BY <1>1 DEF Inv, TxInv, TypeOK, Tx
  <1>3. doubtful' \subseteq Instances \X Versions
    <2>1. \A x \in ToSet(m) : x.version \in Versions
      BY <1>2, Member, EveryMessage DEF ToSet, Has
    <2> QED BY <2>1 DEF Commit, Touched, Inv, TypeOK
  <1>4. sent' \in [Instances -> Seq(Message)]
    BY <1>1, <1>2, Concatenated DEF Inv, TypeOK
  <1>5. TypeOK'
    BY <1>1, <1>2, <1>3, <1>4 DEF Inv, TypeOK, Change
  <1>6. One(rows)' /\ TxInv' /\ LifeInv'
    BY <1>1, <1>2 DEF Inv, TxInv, LifeInv, Change, One
  <1>7. ASSUME NEW j \in Instances, NEW v \in Versions, phase[j] # "down", <<j, v>> \notin doubtful'
        PROVE  Agreed(j, v)'
    <2> DEFINE about == Has(m, On(v)) \/ Has(m, Off(v))
    <2>1. v \in Touched <=> about
      BY <1>2, About DEF Touched
    <2>2. ~Mine(j, v)'
      BY <1>1 DEF Mine
    <2>3. /\ about => (v \in tx.rows.enabled <=> Has(m, On(v)))
          /\ about => (v \notin tx.rows.enabled <=> Has(m, Off(v)))
          /\ ~about => (v \in tx.rows.enabled <=> v \in rows.enabled)
      BY <1>2 DEF Change
    <2>4. CASE j = tx.by
      <3>1. sent'[j] = sent[j] /\ toSwitch[j] = {}
        BY <1>1, <1>2, <2>4 DEF Inv, LifeInv
      <3>2. <<j, v>> \notin doubtful
        BY <1>7, <2>4 DEF Commit
      <3>3. Agreed(j, v) /\ (Mine(j, v) <=> about)
        BY <1>1, <1>7, <2>4, <3>2 DEF Inv, CacheInv, Mine
      <3>4. Coming(j, v)' = Coming(j, v) /\ Going(j, v)' = Going(j, v)
        BY <1>1, <3>1 DEF Coming, Going
      <3>5. CASE about
        <4>1. ~Coming(j, v) /\ ~Going(j, v) /\ (v \in cache[j] <=> v \in tx.rows.enabled)
          BY <3>3, <3>5 DEF Agreed, Ahead
        <4>2. Followed(sent[j], v) /\ Followed(armed[j], v)
          BY <4>1 DEF Going, Has, Followed
        <4> QED BY <1>1, <2>2, <3>1, <3>4, <4>1, <4>2 DEF Agreed, Settling, Ceasing
      <3>6. CASE ~about
        BY <1>1, <2>2, <2>3, <3>1, <3>3, <3>4, <3>6 DEF Agreed, Settling, Ceasing
      <3> QED BY <3>5, <3>6
    <2>5. CASE j # tx.by
      <3>1. sent'[j] = sent[j] \o m /\ sent[j] \in Seq(Message) /\ ~Mine(j, v)
        BY <1>1, <1>7, <2>5 DEF Inv, TypeOK, Mine
      <3>2. /\ \A x : Has(sent'[j], x) <=> Has(sent[j], x) \/ Has(m, x)
            /\ ~Has(m, Off(v)) /\ (Has(m, On(v)) \/ Followed(sent[j], v)) => Followed(sent'[j], v)
        BY <1>2, <3>1, Concatenated
      <3>3. /\ Coming(j, v)' <=> Coming(j, v) \/ Has(m, On(v))
            /\ Going(j, v)' <=> Going(j, v) \/ Has(m, Off(v))
        BY <1>1, <3>2 DEF Coming, Going
      <3>4. CASE about
        <4>1. phase[j] # "starting" /\ (Has(m, Off(v)) => ~Coming(j, v))
          <5>1. <<j, v>> \in others \X Touched
            BY <1>7, <2>1, <2>5, <3>4
          <5>2. ~(phase[j] = "starting" \/ (Off(v) \in ToSet(tx.messages) /\ On(v) \in InFlight(j)))
            BY <1>7, <5>1 DEF Commit
          <5> QED BY <1>2, <5>2, About, Flight DEF Inv
        <4>2. toSwitch[j] = {}
          BY <4>1 DEF Inv, LifeInv
        <4>3. CASE Has(m, On(v))
          BY <1>1, <1>2, <2>2, <3>2, <3>3, <4>3 DEF Agreed, Settling, Change
        <4>4. CASE Has(m, Off(v))
          BY <1>1, <1>2, <2>2, <2>3, <3>3, <3>4, <4>1, <4>2, <4>4 DEF Agreed, Ceasing
        <4> QED BY <3>4, <4>3, <4>4
      <3>5. CASE ~about
        <4>1. <<j, v>> \notin doubtful
          BY <1>7, <2>1, <3>5 DEF Commit
        <4>2. Agreed(j, v)
          BY <1>7, <4>1 DEF Inv, CacheInv
        <4> QED BY <1>1, <2>2, <2>3, <3>1, <3>2, <3>3, <3>5, <4>2 DEF Agreed, Settling, Ceasing
      <3> QED BY <3>4, <3>5
    <2> QED BY <2>4, <2>5
  <1>8. CacheInv'
    BY <1>1, <1>7 DEF CacheInv
  <1> QED BY <1>5, <1>6, <1>8 DEF Inv

\* A rollback leaves doubt about what the transaction was about, no other.
LEMMA RollbackKeeps ==
  ASSUME Inv, Rollback
  PROVE  Inv'
  <1>1. /\ tx # None /\ tx' = None
        /\ UNCHANGED <<rows, cache, phase, toSwitch, sent, armed, reads>>
    BY DEF Rollback
  <1>2. tx.by \in Instances /\ tx.messages \in Seq(Message)
    BY <1>1 DEF Inv, TypeOK, Tx
  <1>3. doubtful' \subseteq Instances \X Versions
    <2>1. \A x \in ToSet(tx.messages) : x.version \in Versions
      BY <1>2, Member, EveryMessage DEF ToSet, Has
    <2> QED BY <1>2, <2>1 DEF Rollback, Touched, Inv, TypeOK
  <1>4. TypeOK' /\ One(rows)' /\ TxInv' /\ LifeInv'
    BY <1>1, <1>3 DEF Inv, TypeOK, TxInv, LifeInv, One
  <1>5. ASSUME NEW j \in Instances, NEW v \in Versions, phase[j] # "down", <<j, v>> \notin doubtful'
        PROVE  Agreed(j, v)'
    <2>1. <<j, v>> \notin doubtful /\ ~(j = tx.by /\ v \in Touched)
      BY <1>5 DEF Rollback
    <2>2. Agreed(j, v) /\ ~Mine(j, v)
      BY <1>2, <1>5, <2>1, About DEF Inv, CacheInv, Mine, Touched
    <2> QED BY <1>1, <2>2 DEF Agreed, Mine, Settling, Ceasing, Coming, Going
  <1>6. CacheInv'
    BY <1>1, <1>5 DEF CacheInv
  <1> QED BY <1>4, <1>6 DEF Inv

------------------------------------------------------------------------------
(* Messages                                                                 *)

\* What a step of one instance has to show: its types, its life, and that it
\* still agrees on every version it agreed on.
LEMMA LocalStep ==
  ASSUME Inv, NEW i \in Instances, UNCHANGED <<rows, tx, phase, doubtful>>, TypeOK',
         \A j \in Instances \ {i} : /\ cache'[j] = cache[j] /\ toSwitch'[j] = toSwitch[j]
                                    /\ sent'[j] = sent[j] /\ armed'[j] = armed[j]
                                    /\ reads'[j] = reads[j],
         toSwitch'[i] \subseteq toSwitch[i],
         phase[i] # "down",
         \A v \in Versions : Agreed(i, v) => Agreed(i, v)'
  PROVE  Inv'
  <1>1. One(rows)' /\ TxInv' /\ LifeInv'
    BY DEF Inv, TxInv, LifeInv, Change, One
  <1>2. CacheInv'
    BY Same DEF Inv, CacheInv
  <1> QED BY <1>1, <1>2 DEF Inv

\* An instance that is down has neither messages nor reads.
LEMMA DownIsIdle ==
  ASSUME Inv, NEW i \in Instances, phase[i] = "down"
  PROVE  sent[i] = <<>> /\ armed[i] = <<>> /\ reads[i] = {} /\ toSwitch[i] = {}
  BY DEF Inv, TypeOK, LifeInv

LEMMA ArriveKeeps ==
  ASSUME Inv, NEW i \in Instances, Arrive(i)
  PROVE  Inv'
  <1> DEFINE m == Head(sent[i])
             s == Tail(sent[i])
             a == armed'[i]
  <1>1. /\ sent[i] # <<>> /\ sent' = [sent EXCEPT ![i] = s]
        /\ UNCHANGED <<rows, tx, cache, phase, toSwitch, reads, doubtful>>
    BY DEF Arrive
  <1>2. /\ sent \in [Instances -> Seq(Message)] /\ sent[i] \in Seq(Message)
        /\ armed \in [Instances -> Seq(Message)] /\ armed[i] \in Seq(Message)
    BY DEF Inv, TypeOK
  <1>3. /\ m \in Message /\ s \in Seq(Message)
        /\ \A x : Has(sent[i], x) <=> m = x \/ Has(s, x)
        /\ \A v \in Versions : Followed(sent[i], v) =>
             Followed(s, v) /\ (m = Off(v) => Has(s, On(v)))
    BY <1>1, <1>2, HeadAndTail
  <1> DEFINE Kept(b) == /\ armed' = [armed EXCEPT ![i] = Append(b, m)] /\ b \in Seq(Message)
                        /\ \A x : Has(b, x) => Has(armed[i], x)
                        /\ \A x : Has(armed[i], x) /\ x # m => Has(b, x)
                        /\ \A v \in Versions : Followed(armed[i], v) /\ m # On(v) => Followed(b, v)
  <1>4. \E b : Kept(b)
    <2>1. CASE armed' = [armed EXCEPT ![i] = Append(@, m)]
      BY <1>2, <2>1
    <2>2. ASSUME NEW k \in DOMAIN armed[i], armed[i][k] = m,
                 armed' = [armed EXCEPT ![i] = Append(RemoveAt(@, k), m)]
          PROVE  Kept(RemoveAt(armed[i], k))
      BY <1>2, <2>2, Removed
    <2> QED BY <2>1, <2>2 DEF Arrive
  <1>5. PICK b : Kept(b)
    BY <1>4
  <1>6. a = Append(b, m) /\ sent'[i] = s
    BY <1>1, <1>2, <1>5
  <1>7. /\ a \in Seq(Message)
        /\ \A x : Has(a, x) <=> Has(b, x) \/ x = m
        /\ \A v \in Versions : m = On(v) \/ (m # Off(v) /\ Followed(b, v)) => Followed(a, v)
    <2>1. b \in Seq(Message)
      BY <1>5
    <2> HIDE DEF m
    <2> QED BY <1>3, <1>6, <2>1, Appended
  <1>8. TypeOK'
    <2>1. sent' \in [Instances -> Seq(Message)] /\ armed' \in [Instances -> Seq(Message)]
      BY <1>1, <1>2, <1>3, <1>5, <1>6, <1>7
    <2>2. \A j \in Instances : phase[j] = "down" => sent'[j] = <<>>
      BY <1>1, <1>2, EmptySeq DEF Inv, TypeOK
    <2> QED BY <1>1, <2>1, <2>2 DEF Inv, TypeOK
  <1> HIDE DEF a, m, s
  <1>9. ASSUME NEW v \in Versions, Agreed(i, v) PROVE Agreed(i, v)'
    <2>1. /\ Coming(i, v)' <=> Coming(i, v)
          /\ Going(i, v)' <=> Going(i, v)
      BY <1>1, <1>3, <1>5, <1>6, <1>7 DEF Coming, Going, a
    <2>2. ASSUME Settling(i, v) PROVE Settling(i, v)'
      <3>1. Followed(sent'[i], v)
        BY <1>3, <1>6, <2>2 DEF Settling
      <3>2. Has(sent'[i], On(v)) \/ Followed(armed'[i], v)
        <4>1. CASE m = On(v) \/ m = Off(v)
          BY <1>3, <1>6, <1>7, <2>2, <4>1 DEF Settling, a
        <4>2. CASE m # On(v) /\ m # Off(v)
          BY <1>3, <1>5, <1>6, <1>7, <2>2, <4>2 DEF Settling, a
        <4> QED BY <4>1, <4>2
      <3> QED BY <1>1, <2>1, <2>2, <3>1, <3>2 DEF Settling
    <2> QED BY <1>1, <1>9, <2>1, <2>2 DEF Agreed, Mine, Ahead, Ceasing
  <1>10. phase[i] # "down"
    BY <1>1, DownIsIdle
  <1> QED BY <1>1, <1>2, <1>5, <1>8, <1>9, <1>10, LocalStep

LEMMA HandleKeeps ==
  ASSUME Inv, NEW i \in Instances, Handle(i)
  PROVE  Inv'
  <1> DEFINE m == Head(armed[i])
             a == Tail(armed[i])
  <1>1. /\ armed[i] # <<>> /\ armed' = [armed EXCEPT ![i] = a]
        /\ UNCHANGED <<rows, tx, phase, toSwitch, sent, doubtful>>
        /\ \/ /\ m.enabled
              /\ reads' = [reads EXCEPT ![i] = @ \cup {[version |-> m.version, row |-> "asked"]}]
              /\ UNCHANGED cache
           \/ /\ ~m.enabled
              /\ cache' = [cache EXCEPT ![i] = @ \ {m.version}]
              /\ UNCHANGED reads
    BY DEF Handle
  <1>2. /\ armed \in [Instances -> Seq(Message)] /\ armed[i] \in Seq(Message)
        /\ cache \in [Instances -> SUBSET Versions]
        /\ reads \in [Instances -> SUBSET [version : Versions, row : {"asked", "found"}]]
    BY DEF Inv, TypeOK
  <1>3. /\ m \in Message /\ a \in Seq(Message)
        /\ \A x : Has(armed[i], x) <=> m = x \/ Has(a, x)
        /\ \A v \in Versions : Followed(armed[i], v) =>
             Followed(a, v) /\ (m = Off(v) => Has(a, On(v)))
    BY <1>1, <1>2, HeadAndTail
  <1> HIDE DEF m, a
  <1>4. m.version \in Versions /\ m = IF m.enabled THEN On(m.version) ELSE Off(m.version)
    BY <1>3, EveryMessage
  <1>5. TypeOK'
    <2>1. armed' \in [Instances -> Seq(Message)]
      BY <1>1, <1>2, <1>3
    <2>2. cache' \in [Instances -> SUBSET Versions]
      BY <1>1, <1>2
    <2>3. reads' \in [Instances -> SUBSET [version : Versions, row : {"asked", "found"}]]
      <3>1. [version |-> m.version, row |-> "asked"] \in [version : Versions, row : {"asked", "found"}]
        BY <1>4
      <3> QED BY <1>1, <1>2, <3>1
    <2>4. \A j \in Instances : phase[j] = "down" => cache'[j] = {}
      BY <1>1, <1>2 DEF Inv, TypeOK
    <2> QED BY <1>1, <2>1, <2>2, <2>3, <2>4 DEF Inv, TypeOK
  <1>6. phase[i] # "down"
    BY <1>1, DownIsIdle
  <1>7. armed'[i] = a
    BY <1>1, <1>2
  <1>8. ASSUME NEW v \in Versions, Agreed(i, v) PROVE Agreed(i, v)'
    <2>1. CASE m.enabled
      <3>1. /\ cache'[i] = cache[i]
            /\ (\E r \in reads'[i] : r.version = v) <=> (\E r \in reads[i] : r.version = v) \/ m = On(v)
        <4>1. UNCHANGED cache /\ reads'[i] = reads[i] \cup {[version |-> m.version, row |-> "asked"]}
          BY <1>1, <1>2, <2>1
        <4>2. m.version = v <=> m = On(v)
          BY <1>4, <2>1, Messages
        <4>3. [version |-> m.version, row |-> "asked"].version = m.version
          OBVIOUS
        <4> DEFINE asked == [version |-> m.version, row |-> "asked"]
        <4> HIDE DEF asked
        <4>4. \A x : x \in reads'[i] <=> x \in reads[i] \/ x = asked
          BY <4>1 DEF asked
        <4> QED BY <4>1, <4>2, <4>3, <4>4 DEF asked
      <3>2. \A w \in Versions : m # Off(w)
        BY <1>4, <2>1, Messages
      <3>3. Coming(i, v)' = Coming(i, v) /\ Going(i, v)' = Going(i, v)
        BY <1>1, <1>3, <1>7, <3>1, <3>2 DEF Coming, Going
      <3>4. Settling(i, v) => Settling(i, v)'
        BY <1>1, <1>3, <1>7, <3>1, <3>3 DEF Settling
      <3> QED BY <1>1, <1>8, <3>1, <3>3, <3>4 DEF Agreed, Mine, Ahead, Ceasing
    <2>2. CASE ~m.enabled
      <3>1. reads'[i] = reads[i] /\ (v \in cache'[i] <=> v \in cache[i] /\ m # Off(v))
        BY <1>1, <1>2, <1>4, <2>2, Messages
      <3>2. m # On(v)
        BY <1>4, <2>2, Messages
      <3>3. Coming(i, v)' = Coming(i, v) /\ (Going(i, v) => Going(i, v)' \/ m = Off(v)) /\ (Going(i, v)' => Going(i, v))
        BY <1>1, <1>3, <1>7, <3>1, <3>2 DEF Coming, Going
      <3>4. m = Off(v) => Going(i, v)
        BY <1>3 DEF Going
      <3>5. ASSUME Settling(i, v) PROVE Settling(i, v)'
        <4>1. m = Off(v) => Coming(i, v)
          BY <1>3, <3>5 DEF Settling, Coming
        <4> QED BY <1>1, <1>3, <1>7, <3>1, <3>3, <3>5, <4>1 DEF Settling
      <3> QED BY <1>1, <1>8, <3>1, <3>3, <3>4, <3>5 DEF Agreed, Mine, Ahead, Ceasing
    <2> QED BY <2>1, <2>2
  <1> QED BY <1>1, <1>2, <1>5, <1>6, <1>8, LocalStep

\* A read finds the row of every enabled version.
LEMMA ReadKeeps ==
  ASSUME Inv, NEW i \in Instances, NEW r \in reads[i], Read(i, r) \/ SwitchOn(i, r)
  PROVE  Inv'
  <1>1. /\ UNCHANGED <<rows, tx, phase, toSwitch, sent, armed, doubtful>>
        /\ \/ /\ reads' = [reads EXCEPT ![i] =
                             (@ \ {r}) \cup IF r.version \in rows.exists
                                           THEN {[version |-> r.version, row |-> "found"]} ELSE {}]
              /\ UNCHANGED cache
           \/ /\ reads' = [reads EXCEPT ![i] = @ \ {r}]
              /\ cache' = [cache EXCEPT ![i] = @ \cup {r.version}]
    BY DEF Read, SwitchOn
  <1>2. /\ cache \in [Instances -> SUBSET Versions]
        /\ reads \in [Instances -> SUBSET [version : Versions, row : {"asked", "found"}]]
        /\ r.version \in Versions
    BY DEF Inv, TypeOK
  <1>3. phase[i] # "down"
    BY DownIsIdle
  <1>4. TypeOK'
    <2>1. reads' \in [Instances -> SUBSET [version : Versions, row : {"asked", "found"}]]
      <3>1. [version |-> r.version, row |-> "found"] \in [version : Versions, row : {"asked", "found"}]
        BY <1>2
      <3> QED BY <1>1, <1>2, <3>1
    <2>2. cache' \in [Instances -> SUBSET Versions]
      BY <1>1, <1>2
    <2>3. \A j \in Instances : phase[j] = "down" => cache'[j] = {}
      BY <1>1, <1>2, <1>3 DEF Inv, TypeOK
    <2> QED BY <1>1, <2>1, <2>2, <2>3 DEF Inv, TypeOK
  <1>5. ASSUME NEW v \in Versions, Agreed(i, v) PROVE Agreed(i, v)'
    <2>1. (\E x \in reads'[i] : x.version = v) => (\E x \in reads[i] : x.version = v)
      BY <1>1, <1>2
    <2>2. /\ v # r.version =>
               /\ (\E x \in reads[i] : x.version = v) => (\E x \in reads'[i] : x.version = v)
               /\ v \in cache'[i] <=> v \in cache[i]
          /\ v \in cache[i] => v \in cache'[i]
      BY <1>1, <1>2
    <2>3. v = r.version => Coming(i, v)
      BY DEF Coming
    <2>4. v \in rows.enabled /\ v = r.version =>
            v \in cache'[i] \/ (\E x \in reads'[i] : x.version = v)
      <3> DEFINE found == [version |-> r.version, row |-> "found"]
      <3> SUFFICES ASSUME v \in rows.enabled, v = r.version
                   PROVE  v \in cache'[i] \/ (\E x \in reads'[i] : x.version = v)
        OBVIOUS
      <3>1. v \in rows.exists
        BY DEF Inv, One
      <3>2. CASE reads'[i] = (reads[i] \ {r}) \cup {found}
        <4>1. found \in reads'[i] /\ found.version = v
          BY <3>2
        <4> QED BY <4>1
      <3>3. CASE cache'[i] = cache[i] \cup {r.version}
        BY <3>3
      <3> QED BY <1>1, <1>2, <3>1, <3>2, <3>3
    <2>5. /\ Coming(i, v)' => Coming(i, v)
          /\ v # r.version => Coming(i, v)' = Coming(i, v)
          /\ Going(i, v)' = Going(i, v)
      BY <1>1, <2>1, <2>2 DEF Coming, Going
    <2>6. ASSUME Settling(i, v), v \in rows.enabled PROVE Settling(i, v)'
      <3>1. v \in cache'[i] \/ v \in toSwitch'[i] \/ Coming(i, v)'
        BY <1>1, <2>2, <2>4, <2>5, <2>6 DEF Settling, Coming
      <3> QED BY <1>1, <2>6, <3>1 DEF Settling
    <2>7. Ahead(i, v) => Ahead(i, v)'
      BY <1>1, <2>2, <2>3, <2>5 DEF Ahead
    <2>8. Ceasing(i, v) => Ceasing(i, v)'
      BY <1>1, <2>2, <2>3, <2>5 DEF Ceasing
    <2> QED BY <1>1, <1>5, <2>6, <2>7, <2>8 DEF Agreed, Mine
  <1> QED BY <1>1, <1>2, <1>3, <1>4, <1>5, LocalStep

------------------------------------------------------------------------------
(* The life of an instance                                                  *)

\* What an instance still has to switch on counts as on.
LEMMA StartSwitchKeeps ==
  ASSUME Inv, NEW i \in Instances, NEW v \in toSwitch[i], StartSwitch(i, v)
  PROVE  Inv'
  <1>1. /\ toSwitch' = [toSwitch EXCEPT ![i] = @ \ {v}]
        /\ cache' = [cache EXCEPT ![i] = @ \cup {v}]
        /\ UNCHANGED <<rows, tx, phase, sent, armed, reads, doubtful>>
    BY DEF StartSwitch
  <1>2. /\ cache \in [Instances -> SUBSET Versions] /\ toSwitch \in [Instances -> SUBSET Versions]
        /\ v \in Versions
    BY DEF Inv, TypeOK
  <1>3. phase[i] = "starting"
    BY DEF Inv, LifeInv
  <1>4. TypeOK'
    BY <1>1, <1>2, <1>3 DEF Inv, TypeOK
  <1>5. ASSUME NEW w \in Versions, Agreed(i, w) PROVE Agreed(i, w)'
    <2>1. /\ w \in cache'[i] \/ w \in toSwitch'[i] <=> w \in cache[i] \/ w \in toSwitch[i]
          /\ w \notin toSwitch[i] => w \notin toSwitch'[i] /\ (w \in cache'[i] <=> w \in cache[i])
      BY <1>1, <1>2
    <2>2. Coming(i, w)' = Coming(i, w) /\ Going(i, w)' = Going(i, w)
      BY <1>1 DEF Coming, Going
    <2>3. ~Mine(i, w)
      BY <1>3 DEF Inv, TxInv, Mine
    <2> QED BY <1>1, <1>5, <2>1, <2>2, <2>3 DEF Agreed, Mine, Settling, Ceasing
  <1>6. toSwitch'[i] \subseteq toSwitch[i]
    BY <1>1, <1>2
  <1> QED BY <1>1, <1>2, <1>3, <1>4, <1>5, <1>6, LocalStep

\* A stopped instance has to agree on nothing; it starts with what is enabled.
LEMMA LifeKeeps ==
  ASSUME Inv, NEW i \in Instances, Stop(i) \/ Start(i) \/ Started(i)
  PROVE  Inv'
  <1>1. UNCHANGED <<rows, tx>>
    BY DEF Stop, Start, Started
  <1>2. TypeOK'
    <2>1. CASE Stop(i)
      BY <2>1, EmptySeq DEF Stop, Inv, TypeOK
    <2>2. CASE Start(i)
      <3>1. rows.enabled \subseteq Versions
        BY DEF Inv, TypeOK, Rows
      <3>2. doubtful' \subseteq Instances \X Versions
        BY <2>2 DEF Start, Inv, TypeOK
      <3> QED BY <2>2, <3>1, <3>2 DEF Start, Inv, TypeOK
    <2>3. CASE Started(i)
      BY <2>3 DEF Started, Inv, TypeOK
    <2> QED BY <2>1, <2>2, <2>3
  <1>3. One(rows)' /\ TxInv'
    BY <1>1 DEF Stop, Start, Started, Inv, TypeOK, TxInv, Change, One, Tx
  <1>4. LifeInv'
    BY DownIsIdle DEF Stop, Start, Started, Inv, TypeOK, LifeInv
  <1>5. ASSUME NEW j \in Instances, NEW v \in Versions, phase'[j] # "down", <<j, v>> \notin doubtful'
        PROVE  Agreed(j, v)'
    <2>1. CASE Stop(i)
      <3>1. j # i /\ phase'[j] = phase[j] /\ doubtful' = doubtful
        BY <1>5, <2>1 DEF Stop, Inv, TypeOK
      <3>2. Agreed(j, v)
        BY <1>5, <3>1 DEF Inv, CacheInv
      <3> QED BY <2>1, <3>1, <3>2, Same DEF Stop, Inv, TypeOK
    <2>2. CASE Start(i) /\ j = i
      <3>1. /\ sent[i] = <<>> /\ armed[i] = <<>> /\ reads[i] = {} /\ cache[i] = {}
        BY <2>2, DownIsIdle DEF Start, Inv, TypeOK
      <3>2. toSwitch'[i] = rows.enabled /\ UNCHANGED <<rows, tx, cache, sent, armed, reads>>
        BY <2>2 DEF Start, Inv, TypeOK
      <3>3. ~Mine(i, v)
        BY <2>2 DEF Start, Inv, TxInv, Mine
      <3> QED BY <2>2, <3>1, <3>2, <3>3 DEF Agreed, Mine, Settling, Ceasing, Coming, Going, Followed, Has
    <2>3. CASE Start(i) /\ j # i
      <3>1. phase'[j] = phase[j] /\ <<j, v>> \notin doubtful
        BY <1>5, <2>3 DEF Start, Inv, TypeOK
      <3>2. Agreed(j, v)
        BY <1>5, <3>1 DEF Inv, CacheInv
      <3> QED BY <2>3, <3>2, Same DEF Start, Inv, TypeOK
    <2>4. CASE Started(i)
      <3>1. phase[j] # "down" /\ doubtful' = doubtful
        BY <1>5, <2>4 DEF Started, Inv, TypeOK
      <3>2. Agreed(j, v)
        BY <1>5, <3>1 DEF Inv, CacheInv
      <3> QED BY <2>4, <3>2, Same DEF Started
    <2> QED BY <2>1, <2>2, <2>3, <2>4
  <1>6. CacheInv'
    BY <1>5 DEF CacheInv
  <1> QED BY <1>2, <1>3, <1>4, <1>6 DEF Inv

------------------------------------------------------------------------------
(* Theorems                                                                 *)

LEMMA NextInv == Inv /\ [Next]_vars => Inv'
  <1> SUFFICES ASSUME Inv, [Next]_vars PROVE Inv'
    OBVIOUS
  <1>1. rows \in Rows /\ One(rows)
    BY DEF Inv, TypeOK
  <1>2. ASSUME NEW i \in Instances, NEW v \in Versions, NEW enable \in BOOLEAN, Save(i, v, enable)
        PROVE  Inv'
    BY <1>1, <1>2, SaveIsChange, OpenKeeps
  <1>3. ASSUME NEW i \in Instances, NEW v \in Versions, Destroy(i, v)
        PROVE  Inv'
    BY <1>1, <1>3, DestroyIsChange, OpenKeeps
  <1>4. ASSUME NEW i \in Instances, Messaging(i)
        PROVE  Inv'
    BY <1>4, ArriveKeeps, HandleKeeps, ReadKeeps DEF Messaging
  <1>5. CASE UNCHANGED vars
    <2>1. \A i \in Instances, v \in Versions : Agreed(i, v)' = Agreed(i, v)
      BY <1>5, Same DEF vars
    <2> QED BY <1>5, <2>1 DEF vars, Inv, TypeOK, One, TxInv, Change, LifeInv, CacheInv
  <1> QED BY <1>2, <1>3, <1>4, <1>5, CommitKeeps, RollbackKeeps, StartSwitchKeeps, LifeKeeps DEF Next

LEMMA Invariance == Spec => []Inv
  BY InitInv, NextInv, PTL DEF Spec

\* Types of the rows, the transaction, the caches and the messages; a stopped
\* instance gets no messages and has an empty cache.
THEOREM TypeCorrect == Spec => []TypeOK
  <1>1. Inv => TypeOK
    BY DEF Inv
  <1> QED BY <1>1, Invariance, PTL

\* At most one version is enabled, and it is the current one.
THEOREM OneVersionEnabled == Spec => []OneEnabled
  <1>1. Inv => OneEnabled
    BY DEF Inv, One, OneEnabled
  <1> QED BY <1>1, Invariance, PTL

\* With no transaction open and every message handled, the cache of a running
\* instance has a version if and only if the row says that it is enabled,
\* except where its last change met one of the three races.
THEOREM CachesAgree == Spec => []OthersAgree
  <1>1. Inv => OthersAgree
    <2> SUFFICES ASSUME Inv, Quiet, NEW i \in Instances, NEW v \in Versions,
                        phase[i] = "up", <<i, v>> \notin doubtful
                 PROVE  v \in cache[i] <=> v \in rows.enabled
      BY DEF OthersAgree
    <2>1. Agreed(i, v) /\ ~Mine(i, v) /\ toSwitch[i] = {}
      BY DEF Inv, CacheInv, LifeInv, Mine, Quiet
    <2>2. ~Coming(i, v) /\ ~Going(i, v)
      BY Flight DEF Inv, Quiet
    <2> QED BY <2>1, <2>2 DEF Agreed, Settling, Ceasing
  <1> QED BY <1>1, Invariance, PTL
===============================================================================
