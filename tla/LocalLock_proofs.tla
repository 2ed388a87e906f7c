--------------------------- MODULE LocalLock_proofs ---------------------------
(***************************************************************************)
(* Proofs about the local lock adapter, for any set of callers: types, the *)
(* inductive invariant, mutual exclusion, no lost wake-up, no lost ticket,  *)
(* and that the adapter implements the abstract lease.                     *)
(***************************************************************************)
EXTENDS LocalLock, TLAPS

Waiting == {"queued", "abandoned"}

-----------------------------------------------------------------------------
(* The inductive invariant, in parts. *)

\* An unreleased ticket is the one the mutex gave out last.
OwnersHold == \A c \in Calls : Owns(c) => holder = c

\* The holder either still waits for its continuation or owns its ticket.
HolderIsLive == holder # NoCall => pc[holder] \in Waiting \/ Owns(holder)

\* The queue holds waiting calls, each once, and never the holder.
QueueHoldsWaiters ==
  /\ \A i \in 1..Len(queue) : pc[queue[i]] \in Waiting /\ queue[i] # holder
  /\ \A i, j \in 1..Len(queue) : queue[i] = queue[j] => i = j

\* A fresh handle is unreleased; a TTL timer runs only inside the section.
GuardsFresh == \A c \in Calls : /\ pc[c] = "handle" => ~released[c]
                                /\ ttl[c] => pc[c] = "critical"

LockInv == /\ OwnersHold
           /\ HolderIsLive
           /\ QueueHoldsWaiters
           /\ GuardsFresh
           /\ NoLostWakeup

-----------------------------------------------------------------------------
(* Sequences: what taking the first waiter does. *)

\* Taking the head off a non-empty queue: where each waiter is afterwards.
LEMMA HeadAndTail ==
  ASSUME NEW q \in Seq(Calls), q # <<>>
  PROVE  /\ Head(q) \in Calls
         /\ Tail(q) \in Seq(Calls)
         /\ Len(q) \in Nat \ {0}
         /\ Len(Tail(q)) = Len(q) - 1
         /\ Head(q) = q[1]
         /\ \A i \in 1..Len(Tail(q)) : i + 1 \in 1..Len(q) /\ Tail(q)[i] = q[i + 1]
  OBVIOUS

\* Joining a queue: where each waiter is afterwards.
LEMMA AppendAtEnd ==
  ASSUME NEW q \in Seq(Calls), NEW c \in Calls
  PROVE  /\ Append(q, c) \in Seq(Calls)
         /\ Append(q, c) # <<>>
         /\ Len(Append(q, c)) = Len(q) + 1
         /\ Append(q, c)[Len(q) + 1] = c
         /\ \A i \in 1..Len(q) : Append(q, c)[i] = q[i]
  OBVIOUS

-----------------------------------------------------------------------------
(* Types *)

\* Releasing the mutex keeps its types.
LEMMA ReleaseTypes ==
  ASSUME TypeOK, MutexRelease
  PROVE  holder' \in Calls \cup {NoCall} /\ queue' \in Seq(Calls)
  BY HeadAndTail DEF TypeOK, MutexRelease

\* Acquiring it does, too.
LEMMA AcquireTypes ==
  ASSUME TypeOK, NEW c \in Calls, MutexAcquire(c)
  PROVE  holder' \in Calls \cup {NoCall} /\ queue' \in Seq(Calls)
  BY AppendAtEnd DEF TypeOK, MutexAcquire

\* Every variable of the adapter keeps its type.
THEOREM TypeCorrect == Spec => []TypeOK
<1>1. Init => TypeOK
  BY DEF Init, TypeOK, PCs, Kinds
<1>2. TypeOK /\ [Next]_vars => TypeOK'
  <2> SUFFICES ASSUME TypeOK, [Next]_vars PROVE TypeOK'
    OBVIOUS
  <2> USE DEF PCs, Kinds
  <2>1. ASSUME NEW c \in Calls, NEW k \in {"acquire", "runExclusive", "tryWait", "tryNow"}, Ask(c, k)
        PROVE  TypeOK'
    BY <2>1, AcquireTypes DEF TypeOK, Ask
  <2>2. ASSUME NEW c \in Calls, Granted(c) PROVE TypeOK'
    BY <2>2 DEF TypeOK, Granted
  <2>3. ASSUME NEW c \in Calls, WaitTimesOut(c) PROVE TypeOK'
    BY <2>3 DEF TypeOK, WaitTimesOut
  <2>4. ASSUME NEW c \in Calls, DropTicket(c) PROVE TypeOK'
    BY <2>4, ReleaseTypes DEF TypeOK, DropTicket
  <2>5. ASSUME NEW c \in Calls, UseHandle(c) PROVE TypeOK'
    BY <2>5 DEF TypeOK, UseHandle
  <2>6. ASSUME NEW c \in Calls, ReleaseHandle(c) PROVE TypeOK'
    BY <2>6, ReleaseTypes DEF TypeOK, ReleaseHandle, Release
  <2>7. ASSUME NEW c \in Calls, ReuseHandle(c) PROVE TypeOK'
    BY <2>7, AcquireTypes DEF TypeOK, ReuseHandle
  <2>8. ASSUME NEW c \in Calls, ForgetHandle(c) PROVE TypeOK'
    BY <2>8 DEF TypeOK, ForgetHandle
  <2>9. ASSUME NEW c \in Calls, TtlFires(c) PROVE TypeOK'
    BY <2>9, ReleaseTypes DEF TypeOK, TtlFires, Release
  <2>10. ASSUME NEW c \in Calls, Finish(c) PROVE TypeOK'
    BY <2>10, ReleaseTypes DEF TypeOK, Finish, Release
  <2>11. CASE UNCHANGED vars
    BY <2>11 DEF TypeOK, vars
  <2>12. QED
    BY <2>1, <2>2, <2>3, <2>4, <2>5, <2>6, <2>7, <2>8, <2>9, <2>10, <2>11
       DEF Next, TryNow
<1>3. QED
  BY <1>1, <1>2, PTL DEF Spec

-----------------------------------------------------------------------------
(* The inductive invariant: one lemma per way a step touches the mutex. *)

\* A call that joins the mutex: it takes an unlocked one or goes to the end of
\* the line.
LEMMA JoinKeepsInv ==
  ASSUME TypeOK, LockInv, NEW c \in Calls, MutexAcquire(c),
         pc[c] \in {"idle", "spent"}, pc' = [pc EXCEPT ![c] = "queued"],
         UNCHANGED <<released, ttl>>
  PROVE  LockInv'
<1> USE NoCallAssumption DEF TypeOK, LockInv, Waiting
<1>1. ~Owns(c) /\ ~Owns(c)' /\ \A d \in Calls \ {c} : Owns(d)' <=> Owns(d)
  BY DEF Owns
<1>2. GuardsFresh'
  BY DEF GuardsFresh
<1>3. CASE holder = NoCall
  <2>1. holder' = c /\ queue' = queue /\ queue = <<>>
    BY <1>3 DEF MutexAcquire, NoLostWakeup
  <2>2. QED
    BY <2>1, <1>1, <1>2, <1>3 DEF OwnersHold, HolderIsLive, QueueHoldsWaiters, NoLostWakeup
<1>4. CASE holder # NoCall
  <2>1. holder' = holder /\ queue' = Append(queue, c) /\ holder # c
    BY <1>1, <1>4 DEF MutexAcquire, HolderIsLive
  <2>2. OwnersHold' /\ HolderIsLive' /\ NoLostWakeup'
    BY <2>1, <1>1, <1>4 DEF OwnersHold, HolderIsLive, NoLostWakeup
  <2>3. \A i \in 1..Len(queue) : queue[i] \in Calls /\ queue[i] # c
    BY DEF QueueHoldsWaiters
  <2>4. QueueHoldsWaiters'
    <3>1. ASSUME NEW i \in 1..Len(queue)'
          PROVE  pc'[queue'[i]] \in Waiting /\ queue'[i] # holder'
      BY <2>1, <2>3, AppendAtEnd DEF QueueHoldsWaiters
    <3>2. ASSUME NEW i \in 1..Len(queue)', NEW j \in 1..Len(queue)', queue'[i] = queue'[j]
          PROVE  i = j
      BY <2>1, <2>3, <3>2, AppendAtEnd DEF QueueHoldsWaiters
    <3>3. QED
      BY <3>1, <3>2 DEF QueueHoldsWaiters
  <2>5. QED
    BY <1>2, <2>2, <2>4
<1>5. QED
  BY <1>3, <1>4

\* A call that gives the mutex away and stops owning or waiting for it: the
\* oldest waiter becomes the holder.
LEMMA HandOverKeepsInv ==
  ASSUME TypeOK, LockInv, NEW c \in Calls, MutexRelease, holder = c,
         ~Owns(c)', c \notin {queue[i] : i \in 1..Len(queue)},
         \A d \in Calls \ {c} : (Owns(d)' <=> Owns(d)) /\ pc'[d] = pc[d],
         GuardsFresh'
  PROVE  LockInv'
<1> USE NoCallAssumption DEF TypeOK, LockInv, Waiting
<1>1. CASE queue = <<>>
  <2>1. holder' = NoCall /\ queue' = <<>>
    BY <1>1 DEF MutexRelease
  <2>2. QED
    BY <1>1, <2>1 DEF OwnersHold, HolderIsLive, QueueHoldsWaiters, NoLostWakeup
<1>2. CASE queue # <<>>
  <2>1. holder' = queue[1] /\ queue' = Tail(queue) /\ holder' \in Calls \ {c}
    BY <1>2, HeadAndTail DEF MutexRelease, QueueHoldsWaiters
  <2>2. pc'[holder'] \in Waiting
    BY <1>2, <2>1, HeadAndTail DEF QueueHoldsWaiters
  <2>3. OwnersHold' /\ HolderIsLive' /\ NoLostWakeup'
    BY <2>1, <2>2 DEF OwnersHold, HolderIsLive, NoLostWakeup
  <2>4. QueueHoldsWaiters'
    <3>1. \A i \in 1..Len(queue)' : i + 1 \in 1..Len(queue) /\ queue'[i] = queue[i + 1]
      BY <1>2, <2>1, HeadAndTail
    <3>2. ASSUME NEW i \in 1..Len(queue)'
          PROVE  pc'[queue'[i]] \in Waiting /\ queue'[i] # holder'
      <4>1. queue'[i] = queue[i + 1] /\ i + 1 \in 1..Len(queue) /\ i + 1 # 1
        BY <3>1, <2>1, HeadAndTail, <1>2
      <4>2. queue[i + 1] \in Calls \ {c} /\ queue[i + 1] # queue[1]
        BY <4>1, <1>2, HeadAndTail DEF QueueHoldsWaiters
      <4>3. QED
        BY <4>1, <4>2, <2>1 DEF QueueHoldsWaiters
    <3>3. ASSUME NEW i \in 1..Len(queue)', NEW j \in 1..Len(queue)', queue'[i] = queue'[j]
          PROVE  i = j
      <4>1. /\ i + 1 \in 1..Len(queue) /\ j + 1 \in 1..Len(queue)
            /\ queue[i + 1] = queue[j + 1]
        BY <3>1, <3>3
      <4>2. i + 1 = j + 1
        BY <4>1 DEF QueueHoldsWaiters
      <4>3. QED
        BY <4>2, <2>1, <1>2, HeadAndTail
    <3>4. QED
      BY <3>2, <3>3 DEF QueueHoldsWaiters
  <2>5. QED
    BY <2>3, <2>4
<1>3. QED
  BY <1>1, <1>2

\* A step that leaves the mutex and its line alone.
LEMMA ElsewhereKeepsInv ==
  ASSUME TypeOK, LockInv, UNCHANGED <<holder, queue>>, NEW c \in Calls,
         \A d \in Calls \ {c} : (Owns(d)' <=> Owns(d)) /\ pc'[d] = pc[d],
         Owns(c)' => holder = c,
         holder = c => pc'[c] \in Waiting \/ Owns(c)',
         (\E i \in 1..Len(queue) : queue[i] = c) => pc'[c] \in Waiting,
         GuardsFresh'
  PROVE  LockInv'
<1> USE DEF TypeOK, LockInv, Waiting
<1>1. OwnersHold' /\ HolderIsLive' /\ NoLostWakeup'
  BY DEF OwnersHold, HolderIsLive, NoLostWakeup
<1>2. QueueHoldsWaiters'
  BY DEF QueueHoldsWaiters
<1>3. QED
  BY <1>1, <1>2

\* Every step of the adapter keeps the invariant that relates the place of each
\* call to its ticket.
LEMMA LockInvInductive == TypeOK /\ LockInv /\ [Next]_vars => LockInv'
<1> SUFFICES ASSUME TypeOK, LockInv, [Next]_vars PROVE LockInv'
  OBVIOUS
<1> USE DEF PCs
<1>0. \A c \in Calls : pc[c] \notin Waiting => c \notin {queue[i] : i \in 1..Len(queue)}
  BY DEF LockInv, QueueHoldsWaiters
<1>1. ASSUME NEW c \in Calls, NEW k \in {"acquire", "runExclusive", "tryWait", "tryNow"}, Ask(c, k)
      PROVE  LockInv'
  BY <1>1, JoinKeepsInv DEF Ask
<1>2. ASSUME NEW c \in Calls, Granted(c) PROVE LockInv'
  <2>1. c \notin {queue[i] : i \in 1..Len(queue)}
    BY <1>2 DEF LockInv, QueueHoldsWaiters, Granted
  <2>2. GuardsFresh'
    BY <1>2 DEF Granted, TypeOK, LockInv, GuardsFresh
  <2>3. Owns(c)' /\ \A d \in Calls \ {c} : (Owns(d)' <=> Owns(d)) /\ pc'[d] = pc[d]
    BY <1>2 DEF Granted, TypeOK, Owns
  <2>4. QED
    BY <1>2, <2>1, <2>2, <2>3, ElsewhereKeepsInv DEF Granted
<1>3. ASSUME NEW c \in Calls, WaitTimesOut(c) PROVE LockInv'
  <2>1. GuardsFresh' /\ ~Owns(c)' /\ pc'[c] \in Waiting
    BY <1>3 DEF WaitTimesOut, TypeOK, LockInv, GuardsFresh, Owns, Waiting
  <2>2. \A d \in Calls \ {c} : (Owns(d)' <=> Owns(d)) /\ pc'[d] = pc[d]
    BY <1>3 DEF WaitTimesOut, TypeOK, Owns
  <2>3. QED
    BY <1>3, <2>1, <2>2, ElsewhereKeepsInv DEF WaitTimesOut
<1>4. ASSUME NEW c \in Calls, DropTicket(c) PROVE LockInv'
  <2>1. c \notin {queue[i] : i \in 1..Len(queue)}
    BY <1>4 DEF DropTicket, LockInv, QueueHoldsWaiters
  <2>2. GuardsFresh' /\ ~Owns(c)'
    BY <1>4 DEF DropTicket, TypeOK, LockInv, GuardsFresh, Owns
  <2>3. \A d \in Calls \ {c} : (Owns(d)' <=> Owns(d)) /\ pc'[d] = pc[d]
    BY <1>4 DEF DropTicket, TypeOK, Owns
  <2>4. QED
    BY <1>4, <2>1, <2>2, <2>3, HandOverKeepsInv DEF DropTicket
<1>5. ASSUME NEW c \in Calls, UseHandle(c) PROVE LockInv'
  <2>1. Owns(c) /\ Owns(c)' /\ GuardsFresh'
    BY <1>5 DEF UseHandle, TypeOK, LockInv, GuardsFresh, Owns
  <2>2. \A d \in Calls \ {c} : (Owns(d)' <=> Owns(d)) /\ pc'[d] = pc[d]
    BY <1>5 DEF UseHandle, TypeOK, Owns
  <2>3. c \notin {queue[i] : i \in 1..Len(queue)} /\ holder = c
    BY <1>5, <1>0, <2>1 DEF UseHandle, LockInv, OwnersHold, Waiting
  <2>4. QED
    BY <1>5, <2>1, <2>2, <2>3, ElsewhereKeepsInv DEF UseHandle
<1>6. ASSUME NEW c \in Calls, ReleaseHandle(c) PROVE LockInv'
  <2>1. Owns(c) /\ ~released[c] /\ ~Owns(c)' /\ GuardsFresh'
    BY <1>6 DEF ReleaseHandle, Release, TypeOK, LockInv, GuardsFresh, Owns
  <2>2. \A d \in Calls \ {c} : (Owns(d)' <=> Owns(d)) /\ pc'[d] = pc[d]
    BY <1>6 DEF ReleaseHandle, Release, TypeOK, Owns
  <2>3. c \notin {queue[i] : i \in 1..Len(queue)} /\ holder = c
    BY <1>6, <1>0, <2>1 DEF ReleaseHandle, LockInv, OwnersHold, Waiting
  <2>4. QED
    BY <1>6, <2>1, <2>2, <2>3, HandOverKeepsInv DEF ReleaseHandle, Release
<1>7. ASSUME NEW c \in Calls, ReuseHandle(c) PROVE LockInv'
  BY <1>7, JoinKeepsInv DEF ReuseHandle
<1>8. ASSUME NEW c \in Calls, ForgetHandle(c) PROVE LockInv'
  <2>1. ~Owns(c) /\ ~Owns(c)' /\ GuardsFresh'
    BY <1>8 DEF ForgetHandle, TypeOK, LockInv, GuardsFresh, Owns
  <2>2. \A d \in Calls \ {c} : (Owns(d)' <=> Owns(d)) /\ pc'[d] = pc[d]
    BY <1>8 DEF ForgetHandle, TypeOK, Owns
  <2>3. c \notin {queue[i] : i \in 1..Len(queue)} /\ holder # c
    BY <1>8, <1>0, <2>1, NoCallAssumption DEF ForgetHandle, LockInv, HolderIsLive, Waiting
  <2>4. QED
    BY <1>8, <2>1, <2>2, <2>3, ElsewhereKeepsInv DEF ForgetHandle
<1>9. ASSUME NEW c \in Calls, TtlFires(c) PROVE LockInv'
  <2>1. pc[c] = "critical" /\ pc' = pc
    BY <1>9 DEF TtlFires, LockInv, GuardsFresh
  <2>2. c \notin {queue[i] : i \in 1..Len(queue)}
    BY <1>0, <2>1 DEF Waiting
  <2>3. GuardsFresh'
    BY <1>9, <2>1 DEF TtlFires, Release, TypeOK, LockInv, GuardsFresh
  <2>4. \A d \in Calls \ {c} : (Owns(d)' <=> Owns(d)) /\ pc'[d] = pc[d]
    BY <1>9, <2>1 DEF TtlFires, Release, TypeOK, Owns
  <2>5. CASE Owns(c)
    <3>1. holder = c /\ ~released[c] /\ ~Owns(c)'
      BY <1>9, <2>1, <2>5, NoCallAssumption DEF TtlFires, Release, TypeOK, LockInv, OwnersHold, Owns
    <3>2. QED
      BY <1>9, <2>2, <2>3, <2>4, <3>1, NoCallAssumption, HandOverKeepsInv DEF TtlFires, Release
  <2>6. CASE ~Owns(c)
    <3>1. released[c] /\ holder # c
      BY <2>1, <2>6, NoCallAssumption DEF Owns, LockInv, HolderIsLive, Waiting
    <3>2. UNCHANGED <<holder, queue>> /\ ~Owns(c)'
      BY <1>9, <2>1, <3>1 DEF TtlFires, Release, TypeOK, Owns
    <3>3. QED
      BY <2>2, <2>3, <2>4, <3>1, <3>2, ElsewhereKeepsInv
  <2>7. QED
    BY <2>5, <2>6
<1>10. ASSUME NEW c \in Calls, Finish(c) PROVE LockInv'
  <2>1. pc[c] = "critical" /\ ~Owns(c)'
    BY <1>10 DEF Finish, TypeOK, Owns
  <2>2. c \notin {queue[i] : i \in 1..Len(queue)}
    BY <1>0, <2>1 DEF Waiting
  <2>3. GuardsFresh'
    BY <1>10 DEF Finish, Release, TypeOK, LockInv, GuardsFresh
  <2>4. \A d \in Calls \ {c} : (Owns(d)' <=> Owns(d)) /\ pc'[d] = pc[d]
    BY <1>10 DEF Finish, Release, TypeOK, Owns
  <2>5. CASE Owns(c)
    <3>1. holder = c /\ ~released[c]
      BY <2>1, <2>5 DEF LockInv, OwnersHold, Owns
    <3>2. QED
      BY <1>10, <2>1, <2>2, <2>3, <2>4, <3>1, HandOverKeepsInv DEF Finish, Release
  <2>6. CASE ~Owns(c)
    <3>1. released[c] /\ holder # c
      BY <2>1, <2>6, NoCallAssumption DEF Owns, LockInv, HolderIsLive, Waiting
    <3>2. UNCHANGED <<holder, queue>>
      BY <1>10, <3>1 DEF Finish, Release
    <3>3. QED
      BY <2>1, <2>2, <2>3, <2>4, <3>1, <3>2, ElsewhereKeepsInv
  <2>7. QED
    BY <2>5, <2>6
<1>11. CASE UNCHANGED vars
  BY <1>11 DEF vars, LockInv, OwnersHold, HolderIsLive, QueueHoldsWaiters, GuardsFresh, NoLostWakeup, Owns
<1>12. QED
  BY <1>1, <1>2, <1>3, <1>4, <1>5, <1>6, <1>7, <1>8, <1>9, <1>10, <1>11 DEF Next, TryNow

\* A mutex that nobody uses satisfies the invariant.
LEMMA InitLockInv == Init => LockInv
BY NoCallAssumption DEF Init, LockInv, OwnersHold, HolderIsLive, QueueHoldsWaiters, GuardsFresh,
   NoLostWakeup, Owns

\* The inductive invariant holds in every reachable state.
THEOREM LockInvHolds == Spec => []LockInv
<1>1. Init => LockInv
  BY InitLockInv
<1>2. TypeOK /\ LockInv /\ [Next]_vars => LockInv'
  BY LockInvInductive
<1>3. QED
  BY <1>1, <1>2, TypeCorrect, PTL DEF Spec

-----------------------------------------------------------------------------
(* Consequences *)

\* Two callers never both own an unreleased ticket of the mutex.
THEOREM LockMutualExclusion == Spec => []MutualExclusion
<1>1. LockInv => MutualExclusion
  BY DEF LockInv, OwnersHold, MutualExclusion
<1>2. QED
  BY <1>1, LockInvHolds, PTL

\* The mutex is never unlocked while callers wait for it.
THEOREM LockNoLostWakeup == Spec => []NoLostWakeup
<1>1. LockInv => NoLostWakeup
  BY DEF LockInv
<1>2. QED
  BY <1>1, LockInvHolds, PTL
\* A step that moves the mutex takes it from a call only by that call's own
\* release or timer: a late release frees nothing that belongs to another call.
THEOREM LockReleasesOnlyItsOwn == Spec => ReleasesOnlyItsOwn
<1>1. LockInv /\ LockInv' => \A c \in Calls : Owns(c) /\ holder' # holder => ~Owns(c)'
  BY DEF LockInv, OwnersHold
<1>2. QED
  BY <1>1, LockInvHolds, PTL DEF ReleasesOnlyItsOwn

-----------------------------------------------------------------------------
(* Nobody waits without a ticket. *)

\* A call whose ticket is in the queue or was given out last.
HasTicket(c) == holder = c \/ \E i \in 1..Len(queue) : queue[i] = c

WaitersHaveTickets == \A c \in Calls : pc[c] \in Waiting => HasTicket(c)

\* Whoever asks gets a ticket, and all others keep theirs.
LEMMA AcquireGivesTicket ==
  ASSUME TypeOK, NEW c \in Calls, MutexAcquire(c)
  PROVE  HasTicket(c)' /\ \A d \in Calls : HasTicket(d) => HasTicket(d)'
<1>1. CASE holder = NoCall
  BY <1>1, NoCallAssumption DEF MutexAcquire, HasTicket
<1>2. CASE holder # NoCall
  <2>1. holder' = holder /\ queue' = Append(queue, c) /\ queue \in Seq(Calls)
    BY <1>2 DEF MutexAcquire, TypeOK
  <2>2. Len(queue') = Len(queue) + 1 /\ queue'[Len(queue) + 1] = c /\ Len(queue) \in Nat
        /\ \A i \in 1..Len(queue) : queue'[i] = queue[i]
    BY <2>1, AppendAtEnd
  <2>3. Len(queue) + 1 \in 1..Len(queue') /\ 1..Len(queue) \subseteq 1..Len(queue')
    BY <2>2
  <2>4. QED
    BY <2>1, <2>2, <2>3 DEF HasTicket
<1>3. QED
  BY <1>1, <1>2

\* A release costs nobody but the holder its ticket.
LEMMA ReleaseKeepsTickets ==
  ASSUME TypeOK, MutexRelease, NEW d \in Calls, d # holder, HasTicket(d)
  PROVE  HasTicket(d)'
<1>1. PICK i \in 1..Len(queue) : queue[i] = d
  BY DEF HasTicket
<1>2. queue # <<>> /\ queue \in Seq(Calls)
  BY <1>1 DEF TypeOK
<1>3. holder' = queue[1] /\ queue' = Tail(queue)
  BY <1>2, HeadAndTail DEF MutexRelease
<1>4. CASE i = 1
  BY <1>1, <1>3, <1>4 DEF HasTicket
<1>5. CASE i # 1
  <2>1. i - 1 \in 1..Len(queue') /\ queue'[i - 1] = queue[(i - 1) + 1] /\ (i - 1) + 1 = i
    BY <1>1, <1>2, <1>3, <1>5, HeadAndTail
  <2>2. QED
    BY <1>1, <2>1 DEF HasTicket
<1>6. QED
  BY <1>4, <1>5

\* Every step leaves each call that waits with a ticket.
LEMMA TicketsKept == TypeOK /\ LockInv /\ WaitersHaveTickets /\ [Next]_vars => WaitersHaveTickets'
<1> SUFFICES ASSUME TypeOK, LockInv, WaitersHaveTickets, [Next]_vars PROVE WaitersHaveTickets'
  OBVIOUS
<1> USE DEF PCs, Waiting
<1>1. ASSUME NEW c \in Calls, MutexAcquire(c), \A d \in Calls \ {c} : pc'[d] = pc[d]
      PROVE  WaitersHaveTickets'
  BY <1>1, AcquireGivesTicket DEF WaitersHaveTickets
<1>2. ASSUME NEW c \in Calls, MutexRelease, holder = c, pc'[c] \notin Waiting,
             \A d \in Calls \ {c} : pc'[d] = pc[d]
      PROVE  WaitersHaveTickets'
  BY <1>2, ReleaseKeepsTickets DEF WaitersHaveTickets
<1>3. ASSUME UNCHANGED <<holder, queue>>, \A d \in Calls : pc'[d] \in Waiting => pc[d] \in Waiting
      PROVE  WaitersHaveTickets'
  BY <1>3 DEF WaitersHaveTickets, HasTicket
<1>4. ASSUME NEW c \in Calls, NEW k \in {"acquire", "runExclusive", "tryWait", "tryNow"}, Ask(c, k)
      PROVE  WaitersHaveTickets'
  BY <1>1, <1>4 DEF Ask, TypeOK
<1>5. ASSUME NEW c \in Calls, Granted(c) \/ WaitTimesOut(c) \/ UseHandle(c) \/ ForgetHandle(c)
      PROVE  WaitersHaveTickets'
  BY <1>3, <1>5 DEF Granted, WaitTimesOut, UseHandle, ForgetHandle, TypeOK
<1>6. ASSUME NEW c \in Calls, DropTicket(c) PROVE WaitersHaveTickets'
  BY <1>2, <1>6 DEF DropTicket, TypeOK
<1>7. ASSUME NEW c \in Calls, ReuseHandle(c) PROVE WaitersHaveTickets'
  BY <1>1, <1>7 DEF ReuseHandle, TypeOK
<1>8. ASSUME NEW c \in Calls, Release(c), pc[c] \in {"handle", "critical"}, pc'[c] \notin Waiting,
             \A d \in Calls \ {c} : pc'[d] = pc[d]
      PROVE  WaitersHaveTickets'
  <2>1. CASE released[c]
    BY <1>3, <1>8, <2>1 DEF Release
  <2>2. CASE ~released[c]
    <3>1. holder = c
      BY <1>8, <2>2 DEF LockInv, OwnersHold, Owns
    <3>2. QED
      BY <1>2, <1>8, <2>2, <3>1 DEF Release
  <2>3. QED
    BY <2>1, <2>2
<1>9. ASSUME NEW c \in Calls, ReleaseHandle(c) PROVE WaitersHaveTickets'
  BY <1>8, <1>9 DEF ReleaseHandle, TypeOK
<1>10. ASSUME NEW c \in Calls, TtlFires(c) PROVE WaitersHaveTickets'
  <2>1. pc[c] = "critical" /\ pc' = pc
    BY <1>10 DEF TtlFires, LockInv, GuardsFresh
  <2>2. QED
    BY <1>3, <1>8, <1>10, <2>1 DEF TtlFires
<1>11. ASSUME NEW c \in Calls, Finish(c) PROVE WaitersHaveTickets'
  BY <1>8, <1>11 DEF Finish, TypeOK
<1>12. CASE UNCHANGED vars
  BY <1>3, <1>12 DEF vars
<1>13. QED
  BY <1>4, <1>5, <1>6, <1>7, <1>9, <1>10, <1>11, <1>12 DEF Next, TryNow

\* A call waits exactly as long as it has one ticket, in the line or in the
\* mutex, that it has not come back for; so neither an abandoned ticket nor a
\* late one lets a second call in, and no ticket is lost.
THEOREM LockTicketsInLine == Spec => []TicketsInLine
<1>1. Init => WaitersHaveTickets
  BY DEF Init, WaitersHaveTickets, Waiting
<1>2. Spec => []WaitersHaveTickets
  BY <1>1, TicketsKept, TypeCorrect, LockInvHolds, PTL DEF Spec
<1>3. TypeOK /\ LockInv /\ WaitersHaveTickets => TicketsInLine
  <2> SUFFICES ASSUME TypeOK, LockInv, WaitersHaveTickets, NEW c \in Calls
               PROVE  LET line == {i \in DOMAIN queue : queue[i] = c}
                      IN  /\ \A i, j \in line : i = j
                          /\ line # {} => holder # c
                          /\ (line # {} \/ (holder = c /\ ~Owns(c))) <=> pc[c] \in Waiting
    BY DEF TicketsInLine, Waiting
  <2> DEFINE line == {i \in DOMAIN queue : queue[i] = c}
  <2>1. DOMAIN queue = 1..Len(queue)
    BY DEF TypeOK
  <2>2. (\A i, j \in line : i = j) /\ (line # {} => holder # c /\ pc[c] \in Waiting)
    BY <2>1 DEF LockInv, QueueHoldsWaiters
  <2>3. holder = c /\ ~Owns(c) => pc[c] \in Waiting
    BY NoCallAssumption DEF LockInv, HolderIsLive
  <2>4. pc[c] \in Waiting => ~Owns(c) /\ (holder = c \/ line # {})
    BY <2>1 DEF WaitersHaveTickets, HasTicket, Owns, Waiting
  <2>5. QED
    BY <2>2, <2>3, <2>4
<1>4. QED
  BY <1>2, <1>3, TypeCorrect, LockInvHolds, PTL

-----------------------------------------------------------------------------
(* The adapter implements the abstract lease. *)

\* A step that leaves every lease as it was is a stuttering step of the lease.
LEMMA SameLeases ==
  ASSUME \A d \in Calls : (Owns(d)' <=> Owns(d)) /\ (pc'[d] = "critical" <=> pc[d] = "critical")
  PROVE  leaseBar' = leaseBar
BY DEF leaseBar

\* A step that ends the call's lease, or leaves a call without one alone.
LEMMA EndsLease ==
  ASSUME NEW c \in Calls, ~Owns(c)', pc'[c] # "critical",
         \A d \in Calls \ {c} : (Owns(d)' <=> Owns(d)) /\ pc'[d] = pc[d],
         Owns(c) \/ pc[c] = "critical"
  PROVE  Lease!End(c)
<1>1. leaseBar[c] \in {"held", "lapsed"}
  BY DEF leaseBar
<1>2. leaseBar' = [leaseBar EXCEPT ![c] = "none"]
  BY DEF leaseBar
<1>3. QED
  BY <1>1, <1>2 DEF Lease!End

\* Every step of the adapter is a step of LeaseLock or a stutter.
LEMMA StepImplementsLease ==
  TypeOK /\ LockInv /\ [Next]_vars => [Lease!Next]_leaseBar
<1> SUFFICES ASSUME TypeOK, LockInv, [Next]_vars PROVE [Lease!Next]_leaseBar
  OBVIOUS
<1> USE DEF PCs
<1>1. ASSUME NEW c \in Calls, NEW k \in {"acquire", "runExclusive", "tryWait", "tryNow"}, Ask(c, k)
      PROVE  leaseBar' = leaseBar
  BY <1>1, SameLeases DEF Ask, TypeOK, Owns
<1>2. ASSUME NEW c \in Calls, Granted(c) PROVE Lease!Grant(c)
  <2>1. Lease!Free /\ leaseBar[c] = "none"
    BY <1>2 DEF Granted, Lease!Free, leaseBar, Owns, LockInv, OwnersHold
  <2>2. Owns(c)' /\ \A d \in Calls \ {c} : (Owns(d)' <=> Owns(d)) /\ pc'[d] = pc[d]
    BY <1>2 DEF Granted, TypeOK, Owns
  <2>3. leaseBar' = [leaseBar EXCEPT ![c] = "held"]
    BY <2>2 DEF leaseBar
  <2>4. QED
    BY <2>1, <2>3 DEF Lease!Grant
<1>3. ASSUME NEW c \in Calls, WaitTimesOut(c) PROVE leaseBar' = leaseBar
  BY <1>3, SameLeases DEF WaitTimesOut, TypeOK, Owns
<1>4. ASSUME NEW c \in Calls, DropTicket(c) PROVE leaseBar' = leaseBar
  BY <1>4, SameLeases DEF DropTicket, TypeOK, Owns
<1>5. ASSUME NEW c \in Calls, UseHandle(c) PROVE leaseBar' = leaseBar
  <2>1. Owns(c) /\ Owns(c)'
    BY <1>5 DEF UseHandle, TypeOK, LockInv, GuardsFresh, Owns
  <2>2. \A d \in Calls \ {c} : (Owns(d)' <=> Owns(d)) /\ pc'[d] = pc[d]
    BY <1>5 DEF UseHandle, TypeOK, Owns
  <2>3. QED
    BY <2>1, <2>2 DEF leaseBar
<1>6. ASSUME NEW c \in Calls, ReleaseHandle(c) PROVE Lease!End(c)
  <2>1. Owns(c) /\ ~Owns(c)' /\ pc'[c] # "critical"
    BY <1>6 DEF ReleaseHandle, Release, TypeOK, Owns
  <2>2. \A d \in Calls \ {c} : (Owns(d)' <=> Owns(d)) /\ pc'[d] = pc[d]
    BY <1>6 DEF ReleaseHandle, Release, TypeOK, Owns
  <2>3. QED
    BY <2>1, <2>2, EndsLease
<1>7. ASSUME NEW c \in Calls, ReuseHandle(c) PROVE leaseBar' = leaseBar
  BY <1>7, SameLeases DEF ReuseHandle, TypeOK, Owns
<1>8. ASSUME NEW c \in Calls, ForgetHandle(c) PROVE leaseBar' = leaseBar
  BY <1>8, SameLeases DEF ForgetHandle, TypeOK, Owns
<1>9. ASSUME NEW c \in Calls, TtlFires(c) PROVE Lease!Lapse(c) \/ leaseBar' = leaseBar
  <2>1. pc[c] = "critical" /\ pc' = pc
    BY <1>9 DEF TtlFires, LockInv, GuardsFresh
  <2>2. \A d \in Calls \ {c} : (Owns(d)' <=> Owns(d)) /\ pc'[d] = pc[d]
    BY <1>9, <2>1 DEF TtlFires, Release, TypeOK, Owns
  <2>3. CASE Owns(c)
    <3>1. ~Owns(c)'
      BY <1>9, <2>1, <2>3, NoCallAssumption DEF TtlFires, Release, TypeOK, LockInv, OwnersHold, Owns
    <3>2. leaseBar' = [leaseBar EXCEPT ![c] = "lapsed"]
      BY <2>1, <2>2, <3>1 DEF leaseBar
    <3>3. leaseBar[c] = "held"
      BY <2>3 DEF leaseBar
    <3>4. QED
      BY <3>2, <3>3 DEF Lease!Lapse
  <2>4. CASE ~Owns(c)
    <3>1. ~Owns(c)'
      BY <1>9, <2>1, <2>4 DEF TtlFires, Release, TypeOK, Owns
    <3>2. QED
      BY <2>1, <2>2, <2>4, <3>1, SameLeases
  <2>5. QED
    BY <2>3, <2>4
<1>10. ASSUME NEW c \in Calls, Finish(c) PROVE Lease!End(c)
  <2>1. pc[c] = "critical" /\ ~Owns(c)' /\ pc'[c] # "critical"
    BY <1>10 DEF Finish, TypeOK, Owns
  <2>2. \A d \in Calls \ {c} : (Owns(d)' <=> Owns(d)) /\ pc'[d] = pc[d]
    BY <1>10 DEF Finish, Release, TypeOK, Owns
  <2>3. QED
    BY <2>1, <2>2, EndsLease
<1>11. CASE UNCHANGED vars
  BY <1>11 DEF vars, leaseBar, Owns
<1>12. QED
  BY <1>1, <1>2, <1>3, <1>4, <1>5, <1>6, <1>7, <1>8, <1>9, <1>10, <1>11
     DEF Next, TryNow, Lease!Next

\* The local adapter implements the abstract lease for any set of callers.
THEOREM LockImplementsLease == Spec => ImplementsLease
<1>1. Init => Lease!Init
  BY DEF Init, Lease!Init, leaseBar, Owns
<1>2. TypeOK /\ LockInv /\ [Next]_vars => [Lease!Next]_leaseBar
  BY StepImplementsLease
<1>3. QED
  BY <1>1, <1>2, TypeCorrect, LockInvHolds, PTL DEF Spec, ImplementsLease, Lease!Spec
==============================================================================
