------------------------------ MODULE LocalLock ------------------------------
(***************************************************************************)
(* The local adapter of the lock manager                                   *)
(* (packages/core/lock-manager/src/lock-manager.ts), for one lock key: one *)
(* async-mutex Mutex with a FIFO of waiters, and the calls made on it:     *)
(* acquire, runExclusive, tryAcquire with and without a waiting time, and  *)
(* the handle tryAcquire returns.  Keys do not interact (one Mutex per key *)
(* in a static Map), so one key is the whole adapter.                      *)
(*                                                                         *)
(* A "call" is one caller's use of the adapter, from the call to the end   *)
(* of its critical section; the identity is reused once it is over.  Time  *)
(* is abstracted: a timer that is armed may fire at any moment.            *)
(***************************************************************************)
EXTENDS Naturals, Sequences

CONSTANTS Calls,     \* the callers' identities
          NoCall     \* "nobody holds the mutex"

ASSUME NoCallAssumption == NoCall \notin Calls

VARIABLES pc,        \* where each call stands
          kind,      \* the function that was called
          released,  \* the idempotency guard of the call's releaser
          ttl,       \* the TTL timer of the call is armed
          holder,    \* the call whose ticket the mutex gave out last
          queue      \* the waiters of the mutex, oldest first

vars == <<pc, kind, released, ttl, holder, queue>>

-----------------------------------------------------------------------------
(* Types *)

\* idle      no call in progress
\* queued    awaiting mutex.acquire()
\* abandoned tryAcquire gave up waiting; its ticket is still in the queue
\* handle    holds the handle of tryAcquire, with the mutex pre-acquired
\* critical  between the acquisition and the caller's release (fn runs)
\* spent     has a handle whose pre-acquired ticket is used up
PCs == {"idle", "queued", "abandoned", "handle", "critical", "spent"}

Kinds == {"acquire", "runExclusive", "tryNow", "tryWait", "handle"}

TypeOK == /\ pc \in [Calls -> PCs]
          /\ kind \in [Calls -> Kinds]
          /\ released \in [Calls -> BOOLEAN]
          /\ ttl \in [Calls -> BOOLEAN]
          /\ holder \in Calls \cup {NoCall}
          /\ queue \in Seq(Calls)

Init == /\ pc = [c \in Calls |-> "idle"]
        /\ kind = [c \in Calls |-> "acquire"]
        /\ released = [c \in Calls |-> FALSE]
        /\ ttl = [c \in Calls |-> FALSE]
        /\ holder = NoCall
        /\ queue = <<>>

-----------------------------------------------------------------------------
(* The async-mutex Mutex *)

\* mutex.acquire(): an unlocked mutex is taken in the same execution slice.
MutexAcquire(c) == IF holder = NoCall
                   THEN holder' = c /\ UNCHANGED queue
                   ELSE queue' = Append(queue, c) /\ UNCHANGED holder

\* The ticket's releaser hands the mutex to the oldest waiter.
MutexRelease == IF queue = <<>>
                THEN holder' = NoCall /\ UNCHANGED queue
                ELSE holder' = Head(queue) /\ queue' = Tail(queue)

\* Mutant: a releaser without the idempotency guard.
ReleaseUnguarded(c) == MutexRelease /\ released' = [released EXCEPT ![c] = TRUE]

\* A releaser with the idempotency guard: only its first use reaches the mutex.
Release(c) == /\ IF released[c] THEN UNCHANGED <<holder, queue>>
                                ELSE MutexRelease
              /\ released' = [released EXCEPT ![c] = TRUE]

-----------------------------------------------------------------------------
(* The calls *)

\* acquire(key, ttl), runExclusive(key, fn, ttl), tryAcquire(key, timeout > 0)
Ask(c, k) == /\ pc[c] = "idle"
             /\ pc' = [pc EXCEPT ![c] = "queued"]
             /\ kind' = [kind EXCEPT ![c] = k]
             /\ MutexAcquire(c)
             /\ UNCHANGED <<released, ttl>>

\* tryAcquire(key): throws at once when the mutex is locked, and otherwise
\* takes it before the first await.
TryNow(c) == /\ holder = NoCall
             /\ Ask(c, "tryNow")

\* The continuation of the awaited mutex.acquire().  acquire() and a handle's
\* own acquire()/runExclusive() arm the TTL timer; the adapter's runExclusive()
\* returns the promise without awaiting it, so that its finally block has
\* already cleared the timer.
Granted(c) ==
  /\ pc[c] = "queued"
  /\ holder = c
  /\ released' = [released EXCEPT ![c] = FALSE]
  /\ IF kind[c] \in {"tryNow", "tryWait"}
     THEN pc' = [pc EXCEPT ![c] = "handle"] /\ UNCHANGED ttl
     ELSE /\ pc' = [pc EXCEPT ![c] = "critical"]
          /\ ttl' = IF kind[c] = "runExclusive" THEN ttl ELSE [ttl EXCEPT ![c] = TRUE]
  /\ UNCHANGED <<kind, holder, queue>>

\* Mutant: the caller is gone and comes back while its ticket is in the queue.
WaitTimesOutForgets(c) == /\ pc[c] = "queued"
                          /\ kind[c] = "tryWait"
                          /\ pc' = [pc EXCEPT ![c] = "idle"]
                          /\ UNCHANGED <<kind, released, ttl, holder, queue>>

\* withTimeout(mutex, timeout) rejects; the ticket stays in the queue.
WaitTimesOut(c) == /\ pc[c] = "queued"
                   /\ kind[c] = "tryWait"
                   /\ pc' = [pc EXCEPT ![c] = "abandoned"]
                   /\ UNCHANGED <<kind, released, ttl, holder, queue>>

\* withTimeout releases a ticket that arrives after its timeout.
DropTicket(c) == /\ pc[c] = "abandoned"
                 /\ holder = c
                 /\ pc' = [pc EXCEPT ![c] = "idle"]
                 /\ MutexRelease
                 /\ UNCHANGED <<kind, released, ttl>>

\* handle.acquire(ttl) or handle.runExclusive(fn, ttl) on the pre-acquired mutex
UseHandle(c) == /\ pc[c] = "handle"
                /\ pc' = [pc EXCEPT ![c] = "critical"]
                /\ kind' = [kind EXCEPT ![c] = "handle"]
                /\ ttl' = [ttl EXCEPT ![c] = TRUE]
                /\ UNCHANGED <<released, holder, queue>>

\* handle.release() without any work
ReleaseHandle(c) == /\ pc[c] = "handle"
                    /\ pc' = [pc EXCEPT ![c] = "spent"]
                    /\ kind' = [kind EXCEPT ![c] = "handle"]
                    /\ Release(c)
                    /\ UNCHANGED ttl

\* A handle used again acquires the mutex anew, without a waiting time.
ReuseHandle(c) == /\ pc[c] = "spent"
                  /\ pc' = [pc EXCEPT ![c] = "queued"]
                  /\ MutexAcquire(c)
                  /\ UNCHANGED <<kind, released, ttl>>

\* The caller lets go of the handle object.
ForgetHandle(c) == /\ pc[c] = "spent"
                   /\ pc' = [pc EXCEPT ![c] = "idle"]
                   /\ UNCHANGED <<kind, released, ttl, holder, queue>>

\* Mutant: the timer only logs.
TtlFiresInVain(c) == /\ ttl[c]
                     /\ ttl' = [ttl EXCEPT ![c] = FALSE]
                     /\ UNCHANGED <<pc, kind, released, holder, queue>>

\* The TTL timer fires: release the mutex if it is locked.  fn goes on.
TtlFires(c) == /\ ttl[c]
               /\ ttl' = [ttl EXCEPT ![c] = FALSE]
               /\ IF holder # NoCall THEN Release(c)
                                     ELSE UNCHANGED <<released, holder, queue>>
               /\ UNCHANGED <<pc, kind>>

\* The caller releases, or fn returned or threw: release, then clear the timer.
Finish(c) == /\ pc[c] = "critical"
             /\ pc' = [pc EXCEPT ![c] = IF kind[c] = "handle" THEN "spent" ELSE "idle"]
             /\ ttl' = [ttl EXCEPT ![c] = FALSE]
             /\ Release(c)
             /\ UNCHANGED kind

Next == \E c \in Calls : \/ \E k \in {"acquire", "runExclusive", "tryWait"} : Ask(c, k)
                         \/ TryNow(c)
                         \/ Granted(c)
                         \/ WaitTimesOut(c)
                         \/ DropTicket(c)
                         \/ UseHandle(c)
                         \/ ReleaseHandle(c)
                         \/ ReuseHandle(c)
                         \/ ForgetHandle(c)
                         \/ TtlFires(c)
                         \/ Finish(c)

Spec == Init /\ [][Next]_vars

-----------------------------------------------------------------------------
(* Fairness.  Continuations and timers run (the event loop is alive), and a *)
(* caller uses the handle it was given, as the comment on ILock demands.    *)
(* Nothing says that the work done under the lock ever ends, except for the *)
(* adapter's own runExclusive in LiveSpec.                                  *)

LoopIsAlive == \A c \in Calls :
  /\ WF_vars(Granted(c))
  /\ WF_vars(DropTicket(c))
  /\ WF_vars(TtlFires(c))
  /\ WF_vars(UseHandle(c) \/ ReleaseHandle(c))

FnTerminates == \A c \in Calls : WF_vars(kind[c] = "runExclusive" /\ Finish(c))

TimerSpec == Spec /\ LoopIsAlive
LiveSpec == Spec /\ LoopIsAlive /\ FnTerminates

-----------------------------------------------------------------------------
(* Properties *)

\* A call that was given the mutex and has not released it.
Owns(c) == \/ pc[c] = "handle"
           \/ pc[c] = "critical" /\ ~released[c]

\* Two calls are never both inside with an unreleased ticket: the second one
\* gets in only after the first one's TTL took the lock away from it.
MutualExclusion == \A c, d \in Calls : Owns(c) /\ Owns(d) => c = d

\* The mutex is never left unlocked with waiters behind it: every release and
\* every abandoned ticket wakes the next waiter.
NoLostWakeup == queue # <<>> => holder # NoCall

\* A waiter is in line exactly once, and the mutex is never given to a call
\* that is past it: an abandoned or late ticket cannot let two calls in.
TicketsInLine ==
  \A c \in Calls :
    LET line == {i \in DOMAIN queue : queue[i] = c}
    IN  /\ \A i, j \in line : i = j
        /\ line # {} => holder # c
        /\ (line # {} \/ (holder = c /\ ~Owns(c))) <=> pc[c] \in {"queued", "abandoned"}

\* Only a call's own step takes the mutex from it: the release of a call whose
\* TTL has already fired never unlocks the call that came after it.
ReleasesOnlyItsOwn ==
  [][\A c \in Calls : Owns(c) /\ holder' # holder => ~Owns(c)']_vars

\* The lease that the state of each call amounts to.
leaseBar == [c \in Calls |-> IF Owns(c) THEN "held"
                             ELSE IF pc[c] = "critical" THEN "lapsed"
                             ELSE "none"]

Lease == INSTANCE LeaseLock WITH Clients <- Calls, lease <- leaseBar

\* The tickets the adapter gives out behave as leases: one valid lease at a
\* time, and a lapsed lease frees nothing when its caller finishes.
ImplementsLease == Lease!Spec

\* A caller that waits is answered, although the work done under acquire() and
\* under a handle may hang: their TTL takes the lock away.
WaitersAreServed == \A c \in Calls : pc[c] = "queued" ~> pc[c] # "queued"

\* The documented meaning of the TTL: no call keeps the mutex for ever.
TtlReleases == \A c \in Calls : Owns(c) ~> ~Owns(c)
==============================================================================
