----------------------------- MODULE TokenRenewal -----------------------------
(***************************************************************************)
(* The renewal of one session's token: BaseAuth.check finds a token expired *)
(* and asks TokenController.renew for its successor.  A browser sends many  *)
(* requests with the same token at once, to any instance; the row of the    *)
(* session takes one successor, and the cache has to bring it to the rest.  *)
(***************************************************************************)
EXTENDS Naturals, FiniteSets

CONSTANTS
  Instances,
  Calls,         \* requests that are under way at the same time
  Nil,
  Shared,        \* the cache is one store (redis); otherwise one per process
  Ttl,           \* RENEWED_JTI_CACHE_MS
  TokenLife,     \* tokenExpirationTime
  SessionLife,   \* sessionExpirationTime
  MaxTime,       \* bound: the clock
  MaxCrashes     \* bound: processes that die

ASSUME RenewalAssumption ==
  /\ Shared \in BOOLEAN
  /\ Ttl \in Nat \ {0} /\ TokenLife \in Nat /\ SessionLife \in Nat
  /\ MaxTime \in Nat /\ MaxCrashes \in Nat
  /\ Nil \notin Instances /\ Nil \notin Nat
  /\ Nil \notin [step : {"get", "update", "again", "set"}, to : Nat \cup {Nil}]

\* jti are random and new; the n-th one of the session stands as n.
Jtis == 1..(MaxTime + 1)

VARIABLES
  now,        \* the clock
  row,        \* jti of the session's row in issuedTokens, Nil when it is removed
  last,       \* the last jti there is
  issuedTime, \* jti -> when it was issued
  next,       \* ghost: jti -> the one that replaced it, Nil for none
  cache,      \* store -> jti -> its successor and until when it is kept
  call,       \* call -> instance, jti, where it is, answer
  flight,     \* instance -> jti -> the coalesced wrap that runs, Nil for none
  crashes     \* ghost counter

table == <<row, last, issuedTime, next>>
renewalVars == <<now, table, cache, call, flight, crashes>>

Store(i) == IF Shared THEN "shared" ELSE i
Stores   == IF Shared THEN {"shared"} ELSE Instances
NoEntry  == [to |-> Nil, until |-> 0]
Idle     == [at |-> Nil, jti |-> 1, step |-> "idle", answer |-> Nil]

RenewalInit ==
  /\ now = 0
  /\ row = 1 /\ last = 1
  /\ issuedTime = [j \in Jtis |-> 0]
  /\ next = [j \in Jtis |-> Nil]
  /\ cache = [s \in Stores |-> [j \in Jtis |-> NoEntry]]
  /\ call = [c \in Calls |-> Idle]
  /\ flight = [i \in Instances |-> [j \in Jtis |-> Nil]]
  /\ crashes = 0

\* cache.get: Nil when there is no entry or its time is over.
Cached(i, j) == LET entry == cache[Store(i)][j]
                IN  IF entry.until > now THEN entry.to ELSE Nil

Tick == /\ now < MaxTime
        /\ now' = now + 1
        /\ UNCHANGED <<table, cache, call, flight, crashes>>

\* Sign-in of the same user removes the sessions that are too old.
Cleanup == /\ row # Nil /\ now > SessionLife
           /\ row' = Nil
           /\ UNCHANGED <<now, last, issuedTime, next, cache, call, flight, crashes>>

\* check, up to the first look into the cache: the token is expired, the
\* session is not.
Check(c, i, j) ==
  /\ call[c].step \in {"idle", "done", "failed"}
  /\ j <= last
  /\ now <= SessionLife /\ now > issuedTime[j] + TokenLife
  /\ call' = [call EXCEPT ![c] =
       IF Cached(i, j) # Nil THEN [at |-> i, jti |-> j, step |-> "done", answer |-> Cached(i, j)]
       ELSE [at |-> i, jti |-> j, step |-> "wrap", answer |-> Nil]]
  /\ UNCHANGED <<now, table, cache, flight, crashes>>

\* cache.wrap joins the call for the same key that runs in this process.
Wrap(c) ==
  LET i == call[c].at
      j == call[c].jti
  IN  /\ call[c].step = "wrap"
      /\ flight' = [flight EXCEPT ![i][j] = IF @ = Nil THEN [step |-> "get", to |-> Nil] ELSE @]
      /\ call' = [call EXCEPT ![c].step = "wait"]
      /\ UNCHANGED <<now, table, cache, crashes>>

------------------------------------------------------------------------------
(* The coalesced call                                                       *)

Waiting(i, j) == {c \in Calls : call[c].at = i /\ call[c].jti = j /\ call[c].step = "wait"}

\* Mutant of Settle: one of the calls that wait is forgotten.
SettleOne(i, j, step, answer) ==
  /\ flight' = [flight EXCEPT ![i][j] = Nil]
  /\ \E one \in Waiting(i, j) :
       call' = [call EXCEPT ![one] = [call[one] EXCEPT !.step = step, !.answer = answer]]

\* All the calls that joined get the same result or the same error.
Settle(i, j, step, answer) ==
  /\ flight' = [flight EXCEPT ![i][j] = Nil]
  /\ call' = [c \in Calls |-> IF c \in Waiting(i, j)
                              THEN [call[c] EXCEPT !.step = step, !.answer = answer] ELSE call[c]]

At(i, j, step) == flight[i][j] # Nil /\ flight[i][j].step = step

Go(i, j, step, to) == flight' = [flight EXCEPT ![i][j] = [step |-> step, to |-> to]]

\* wrap looks into the cache again, as another call may just have left it.
Get(i, j) ==
  /\ At(i, j, "get")
  /\ IF Cached(i, j) # Nil THEN Settle(i, j, "done", Cached(i, j))
     ELSE Go(i, j, "update", Nil) /\ UNCHANGED call
  /\ UNCHANGED <<now, table, cache, crashes>>

\* Mutant of Update: the row of the session is found by something else.
UpdateAnyJti(i, j) ==
  /\ At(i, j, "update") /\ last + 1 \in Jtis
  /\ IF row # Nil
     THEN /\ row' = last + 1 /\ last' = last + 1
          /\ next' = [next EXCEPT ![j] = last + 1]
          /\ issuedTime' = [issuedTime EXCEPT ![last + 1] = now]
          /\ Go(i, j, "set", last + 1)
     ELSE Go(i, j, "again", Nil) /\ UNCHANGED table
  /\ UNCHANGED <<now, cache, call, crashes>>

\* model.update where the row still has this jti.
Update(i, j) ==
  /\ At(i, j, "update")
  /\ IF row = j
     THEN /\ row' = last + 1 /\ last' = last + 1
          /\ next' = [next EXCEPT ![j] = last + 1]
          /\ issuedTime' = [issuedTime EXCEPT ![last + 1] = now]
          /\ Go(i, j, "set", last + 1)
     ELSE Go(i, j, "again", Nil) /\ UNCHANGED table
  /\ UNCHANGED <<now, cache, call, crashes>>

\* Nothing was updated: another one may have renewed it; else it is refused.
Again(i, j) ==
  /\ At(i, j, "again")
  /\ IF Cached(i, j) # Nil THEN Go(i, j, "set", Cached(i, j)) /\ UNCHANGED call
     ELSE Settle(i, j, "failed", Nil)
  /\ UNCHANGED <<now, table, cache, crashes>>

\* Mutant of Set: the result is kept for a shorter time.
SetTooShort(i, j) ==
  /\ At(i, j, "set")
  /\ cache' = [cache EXCEPT ![Store(i)][j] = [to |-> flight[i][j].to, until |-> now + Ttl - 1]]
  /\ Settle(i, j, "done", flight[i][j].to)
  /\ UNCHANGED <<now, table, crashes>>

\* wrap keeps the result, then answers.
Set(i, j) ==
  /\ At(i, j, "set")
  /\ cache' = [cache EXCEPT ![Store(i)][j] = [to |-> flight[i][j].to, until |-> now + Ttl]]
  /\ Settle(i, j, "done", flight[i][j].to)
  /\ UNCHANGED <<now, table, crashes>>

\* A process dies, with its calls and, unless it is shared, its cache.
Crash(i) ==
  /\ crashes < MaxCrashes
  /\ crashes' = crashes + 1
  /\ call' = [c \in Calls |-> IF call[c].at = i THEN Idle ELSE call[c]]
  /\ flight' = [flight EXCEPT ![i] = [j \in Jtis |-> Nil]]
  /\ cache' = IF Shared THEN cache ELSE [cache EXCEPT ![i] = [j \in Jtis |-> NoEntry]]
  /\ UNCHANGED <<now, table>>

Renewing(i, j) == Get(i, j) \/ Update(i, j) \/ Again(i, j) \/ Set(i, j)

RenewalNext ==
  \/ Tick \/ Cleanup
  \/ \E c \in Calls : Wrap(c) \/ \E i \in Instances, j \in Jtis : Check(c, i, j)
  \/ \E i \in Instances : Crash(i) \/ \E j \in Jtis : Renewing(i, j)

RenewalSpec == RenewalInit /\ [][RenewalNext]_renewalVars

\* Fairness: what a call awaits comes back.
RenewalFairSpec ==
  /\ RenewalSpec
  /\ \A c \in Calls : WF_renewalVars(Wrap(c))
  /\ \A i \in Instances, j \in Jtis : WF_renewalVars(Renewing(i, j))

------------------------------------------------------------------------------
(* Properties                                                               *)

\* Types of the row, the cache, the calls and the wraps.
RenewalTypeOK ==
  /\ now \in 0..MaxTime
  /\ row \in Jtis \cup {Nil} /\ last \in Jtis
  /\ issuedTime \in [Jtis -> 0..MaxTime]
  /\ next \in [Jtis -> Jtis \cup {Nil}]
  /\ cache \in [Stores -> [Jtis -> [to : Jtis \cup {Nil}, until : Nat]]]
  /\ call \in [Calls -> [at : Instances \cup {Nil}, jti : Jtis,
                         step : {"idle", "wrap", "wait", "done", "failed"}, answer : Jtis \cup {Nil}]]
  /\ flight \in [Instances -> [Jtis -> [step : {"get", "update", "again", "set"}, to : Jtis \cup {Nil}]
                                         \cup {Nil}]]
  /\ crashes \in Nat

\* Every call with the same token gets the same new one, whichever instance
\* renewed it and however the renewals interleave.
SameAnswer == \A c \in Calls : call[c].step = "done" => call[c].answer = next[call[c].jti]

\* A call that waits always has a renewal under way that will answer it.
WaitsForSomething ==
  \A c \in Calls : call[c].step = "wait" => flight[call[c].at][call[c].jti] # Nil

\* Where all instances share a store, a token is refused only when the session
\* was removed, when the token was renewed longer ago than its successor is
\* kept, or when the renewal on another instance has not been written to the
\* cache yet, which a crash may prevent for good.
RefusedOnlyLate ==
  [][Shared => \A c \in Calls : call[c].step = "wait" /\ call'[c].step = "failed" =>
       LET j == call[c].jti
       IN  \/ row = Nil \/ crashes > 0
           \/ next[j] # Nil /\ now >= issuedTime[next[j]] + Ttl
           \/ \E i \in Instances \ {call[c].at} : At(i, j, "set")]_renewalVars

\* Every call is answered, the ones that joined another as well.
CallsEnd == \A c \in Calls : call[c].step \in {"wrap", "wait"} ~> call[c].step \notin {"wrap", "wait"}
===============================================================================
