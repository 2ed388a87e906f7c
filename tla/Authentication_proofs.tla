------------------------- MODULE Authentication_proofs -------------------------
(***************************************************************************)
(* The two ways to a token: the sign-in through LDAP, and the renewal.      *)
(*                                                                         *)
(* The sign-in is safe for any accounts, passwords, attempts and failures.  *)
(* The argument has two halves: what the users table looks like, which only *)
(* ever grows by a user with a new name and its link; and what is known of  *)
(* an attempt at each of its steps, given that table.                       *)
(*                                                                         *)
(* All calls with one token get the same new one, for any number of calls,  *)
(* instances, stores and renewals.  The argument: a token has a successor   *)
(* only when the row has gone past it, and nothing gives it another one;    *)
(* what the caches hold and the renewals carry is that successor.           *)
(***************************************************************************)
EXTENDS LdapSignIn, TokenRenewal, FiniteSetTheorems, TLAPS

(* LdapSignIn *)

\* User names are unique, a link is to the account of that name, and who has
\* no link is a local user.
UsersInv ==
  /\ IsFiniteSet(users)
  /\ \A u, v \in users : u.username = v.username => u = v
  /\ \A u \in users : u.uuid # None => u.uuid = u.username
  /\ \A u \in users : u.uuid = None => u.username \in LocalUsers

\* What is known of an attempt in state t, when U are the users.
Known(t, U) ==
  /\ t.step # "idle" => t.name # None
  /\ t.step = "bindService" => options.bind # "template"
  /\ t.step \in {"bindUser", "find", "create"} => t.found = t.name
  /\ t.step = "search" /\ options.bind = "template" => t.bound = t.name
  /\ t.step \in {"find", "create"} => t.bound = t.name
  /\ t.user # None => /\ t.step \in {"unbind", "token", "done", "failed"}
                      /\ t.bound = t.name /\ t.found = t.name
                      /\ \E u \in U : u.id = t.user /\ u.uuid = t.name
  /\ t.why = "conflict" => \E u \in U : u.username = t.name
  /\ t.step \in {"idle", "token", "done", "failed"} => ~t.open

SignInInv == SignInTypeOK /\ UsersInv /\ \A a \in Attempts : Known(attempt[a], users)

------------------------------------------------------------------------------
(* Steps                                                                    *)

\* The steps an attempt goes to.
LEMMA StepNames ==
  /\ "bindService" \in Steps /\ "bindLogin" \in Steps /\ "search" \in Steps /\ "bindUser" \in Steps
  /\ "find" \in Steps /\ "create" \in Steps /\ "unbind" \in Steps
  /\ "token" \in Steps /\ "done" \in Steps /\ "failed" \in Steps
  BY DEF Steps

\* An attempt that goes to another step, with one more thing known of it.
LEMMA Fields ==
  ASSUME NEW t \in AttemptStates, NEW step \in Steps, NEW bound \in Names \cup {None, "service"},
         NEW found \in Names \cup {None}, NEW open \in BOOLEAN,
         NEW why \in {"none", "credentials", "fault", "unregistered", "conflict"}
  PROVE  /\ [t EXCEPT !.step = step] \in AttemptStates
         /\ [t EXCEPT !.step = step, !.bound = bound] \in AttemptStates
         /\ [t EXCEPT !.found = found, !.step = step] \in AttemptStates
         /\ [t EXCEPT !.open = open, !.step = step] \in AttemptStates
         /\ [t EXCEPT !.step = step, !.why = why] \in AttemptStates
  <1>1. [t EXCEPT !.step = step] \in AttemptStates
    BY DEF AttemptStates
  <1>2. [t EXCEPT !.step = step, !.bound = bound] \in AttemptStates
    BY DEF AttemptStates
  <1>3. [t EXCEPT !.found = found, !.step = step] \in AttemptStates
    BY DEF AttemptStates
  <1>4. [t EXCEPT !.open = open, !.step = step] \in AttemptStates
    BY DEF AttemptStates
  <1>5. [t EXCEPT !.step = step, !.why = why] \in AttemptStates
    BY DEF AttemptStates
  <1> QED BY <1>1, <1>2, <1>3, <1>4, <1>5

\* A step of one attempt, which may add users, leaves what is known of the others.
LEMMA AttemptStep ==
  ASSUME SignInInv, NEW a \in Attempts, NEW t \in AttemptStates,
         attempt' = [attempt EXCEPT ![a] = t], UNCHANGED <<options, dir>>,
         users' \subseteq [id : Nat, username : Names, uuid : Names \cup {None}],
         users \subseteq users', UsersInv', Known(t, users')
  PROVE  SignInInv'
  <1>1. SignInTypeOK'
    BY DEF SignInInv, SignInTypeOK
  <1>2. \A b \in Attempts : Known(attempt[b], users')
    BY DEF SignInInv, Known
  <1>3. \A b \in Attempts : attempt'[b] = IF b = a THEN t ELSE attempt[b]
    BY DEF SignInInv, SignInTypeOK
  <1>4. ASSUME NEW b \in Attempts PROVE Known(attempt[b], users)'
    <2>1. CASE b = a
      <3>1. attempt'[b] = t
        BY <1>3, <2>1
      <3> QED BY <3>1 DEF Known
    <2>2. CASE b # a
      <3>1. attempt'[b] = attempt[b]
        BY <1>3, <2>2
      <3> QED BY <1>2, <3>1 DEF Known
    <2> QED BY <2>1, <2>2
  <1> QED BY <1>1, <1>4 DEF SignInInv

\* One that leaves the users alone.
LEMMA AttemptOnly ==
  ASSUME SignInInv, NEW a \in Attempts, NEW t \in AttemptStates,
         attempt' = [attempt EXCEPT ![a] = t], UNCHANGED <<options, dir, users>>, Known(t, users)
  PROVE  SignInInv'
  <1>1. UsersInv' /\ users' \subseteq [id : Nat, username : Names, uuid : Names \cup {None}]
    BY DEF SignInInv, SignInTypeOK, UsersInv
  <1> QED BY <1>1, AttemptStep

\* An attempt that is over the line: what failed is told, and nothing else is
\* known that was not known before.
LEMMA FailsKeeps ==
  ASSUME SignInInv, NEW a \in Attempts, NEW why \in {"credentials", "fault", "unregistered", "conflict"},
         attempt[a].user = None, attempt[a].step # "idle", Fails(a, why), UNCHANGED <<options, dir, users>>,
         why = "conflict" => Taken(attempt[a].name)
  PROVE  SignInInv'
  <1> DEFINE t == [attempt[a] EXCEPT !.step = "unbind", !.why = why]
  <1>1. attempt[a] \in AttemptStates /\ Known(attempt[a], users)
    BY DEF SignInInv, SignInTypeOK
  <1>2. attempt' = [attempt EXCEPT ![a] = t]
    BY DEF Fails, SignInInv, SignInTypeOK
  <1>3. t \in AttemptStates
    BY <1>1, StepNames DEF AttemptStates
  <1>4. Known(t, users)
    BY <1>1 DEF Known, Taken, AttemptStates
  <1> HIDE DEF t
  <1> QED BY <1>2, <1>3, <1>4, AttemptOnly

\* An attempt whose password was accepted gets the user that is linked.
LEMMA SucceedsKeeps ==
  ASSUME SignInInv, NEW a \in Attempts, NEW id \in Nat, attempt[a].step \in {"find", "create"},
         Succeeds(a, id), UNCHANGED <<options, dir>>,
         users' \subseteq [id : Nat, username : Names, uuid : Names \cup {None}],
         users \subseteq users', UsersInv',
         \E u \in users' : u.id = id /\ u.uuid = attempt[a].name
  PROVE  SignInInv'
  <1> DEFINE t == [attempt[a] EXCEPT !.step = "unbind", !.user = id]
  <1>1. attempt[a] \in AttemptStates /\ Known(attempt[a], users)
    BY DEF SignInInv, SignInTypeOK
  <1>2. attempt' = [attempt EXCEPT ![a] = t]
    BY DEF Succeeds, SignInInv, SignInTypeOK
  <1>3. t \in AttemptStates
    BY <1>1, StepNames DEF AttemptStates
  <1>4. Known(t, users')
    BY <1>1 DEF Known, AttemptStates
  <1> HIDE DEF t
  <1> QED BY <1>2, <1>3, <1>4, AttemptStep

\* At first there are local users only, and no attempts.
LEMMA SignInInitInv == ASSUME SignInInit PROVE SignInInv
  <1> USE LdapAssumption
  <1>1. PICK id \in [LocalUsers -> 1..Cardinality(LocalUsers)] :
          users = {[id |-> id[n], username |-> n, uuid |-> None] : n \in LocalUsers}
    BY DEF SignInInit
  <1>2. Cardinality(LocalUsers) \in Nat
    BY FS_CardinalityType
  <1>3. \A n \in LocalUsers : id[n] \in Nat /\ n \in Names
    BY <1>1, <1>2
  <1>4. users \subseteq [id : Nat, username : Names, uuid : Names \cup {None}]
    BY <1>1, <1>3
  <1>5. IsFiniteSet(users)
    <2> DEFINE f == [n \in LocalUsers |-> [id |-> id[n], username |-> n, uuid |-> None]]
    <2>1. users = {f[n] : n \in LocalUsers}
      BY <1>1
    <2>2. f \in Surjection(LocalUsers, users)
      BY <2>1 DEF Surjection
    <2> HIDE DEF f
    <2> QED BY <2>2, FS_Surjection
  <1>6. UsersInv
    BY <1>1, <1>5 DEF UsersInv
  <1>7. Fresh \in AttemptStates
    BY DEF Fresh, AttemptStates, Steps
  <1>8. SignInTypeOK
    BY <1>4, <1>7 DEF SignInInit, SignInTypeOK
  <1>9. Known(Fresh, users)
    BY DEF Known, Fresh
  <1> QED BY <1>6, <1>8, <1>9 DEF SignInInv, SignInInit

\* Every step keeps the invariant.
LEMMA SignInNextInv == ASSUME SignInInv, [SignInNext]_signInVars PROVE SignInInv'
  <1> USE LdapAssumption
  <1>0. \A a \in Attempts : attempt[a] \in AttemptStates /\ Known(attempt[a], users)
    BY DEF SignInInv, SignInTypeOK
  <1>1. ASSUME NEW n \in Names, NEW p \in Passwords \cup {None}, Administer(n, p) PROVE SignInInv'
    BY <1>1 DEF Administer, SignInInv, SignInTypeOK, UsersInv, Known
  <1>2. ASSUME NEW a \in Attempts, NEW n \in Names, NEW p \in Passwords, Begin(a, n, p) PROVE SignInInv'
    <2> DEFINE t == [Fresh EXCEPT !.step = "connect", !.name = n, !.password = p, !.open = TRUE]
    <2>1. attempt' = [attempt EXCEPT ![a] = t] /\ UNCHANGED <<options, dir, users>>
      BY <1>2 DEF Begin
    <2>2. t \in AttemptStates
      BY DEF Fresh, AttemptStates, Steps
    <2>3. Known(t, users)
      BY DEF Fresh, Known
    <2> HIDE DEF t
    <2> QED BY <2>1, <2>2, <2>3, AttemptOnly
  <1>3. ASSUME NEW a \in Attempts, Connect(a) PROVE SignInInv'
    <2>1. PICK step \in {"bindService", "bindLogin", "search"} :
            /\ attempt' = [attempt EXCEPT ![a] = [attempt[a] EXCEPT !.step = step]]
            /\ step \in {"search", "bindService"} => options.bind # "template"
      <3>1. options.bind \in {"service", "template", "anonymous"}
        BY DEF SignInInv, SignInTypeOK
      <3>2. CASE options.bind = "service"
        BY <1>3, <3>2 DEF Connect, Goes
      <3>3. CASE options.bind = "template"
        BY <1>3, <3>3 DEF Connect, Goes
      <3>4. CASE options.bind = "anonymous"
        BY <1>3, <3>4 DEF Connect, Goes
      <3> QED BY <3>1, <3>2, <3>3, <3>4
    <2> DEFINE t == [attempt[a] EXCEPT !.step = step]
    <2>2. t \in AttemptStates
      BY <1>0, StepNames, Fields
    <2>3. Known(t, users)
      <3>1. t.step = step /\ t.name = attempt[a].name /\ t.user = attempt[a].user /\ t.why = attempt[a].why
        BY <1>0 DEF AttemptStates
      <3>2. t.user = None /\ t.name # None
        BY <1>0, <1>3, <3>1 DEF Connect, Known
      <3> QED BY <1>0, <2>1, <3>1, <3>2 DEF Known
    <2>4. UNCHANGED <<options, dir, users>>
      BY <1>3 DEF Connect, Others
    <2> HIDE DEF t
    <2>5. attempt' = [attempt EXCEPT ![a] = t]
      BY <2>1 DEF t
    <2> QED BY <2>2, <2>3, <2>4, <2>5, AttemptOnly
  <1>4. ASSUME NEW a \in Attempts, BindService(a) PROVE SignInInv'
    <2> DEFINE t == [attempt[a] EXCEPT !.step = "search", !.bound = "service"]
    <2>1. attempt' = [attempt EXCEPT ![a] = t] /\ UNCHANGED <<options, dir, users>>
      BY <1>4 DEF BindService, Others, SignInInv, SignInTypeOK
    <2>2. t \in AttemptStates
      BY <1>0, StepNames, Fields
    <2>3. Known(t, users)
      BY <1>0, <1>4 DEF BindService, Known, AttemptStates
    <2> HIDE DEF t
    <2> QED BY <2>1, <2>2, <2>3, AttemptOnly
  <1>5. ASSUME NEW a \in Attempts, BindLogin(a) PROVE SignInInv'
    <2>1. attempt[a].user = None /\ attempt[a].step # "idle" /\ attempt[a].name \in Names
          /\ UNCHANGED <<options, dir, users>>
      BY <1>0, <1>5 DEF BindLogin, Known, AttemptStates, Others
    <2>2. CASE Accepts(attempt[a].name, attempt[a].password)
      <3> DEFINE t == [attempt[a] EXCEPT !.step = "search", !.bound = attempt[a].name]
      <3>1. attempt' = [attempt EXCEPT ![a] = t]
        BY <1>5, <2>2 DEF BindLogin, SignInInv, SignInTypeOK
      <3>2. t \in AttemptStates
        BY <1>0, <2>1, StepNames, Fields
      <3>3. Known(t, users)
        BY <1>0, <1>5 DEF BindLogin, Known, AttemptStates
      <3> HIDE DEF t
      <3> QED BY <2>1, <3>1, <3>2, <3>3, AttemptOnly
    <2>3. CASE ~Accepts(attempt[a].name, attempt[a].password)
      BY <1>5, <2>1, <2>3, FailsKeeps DEF BindLogin
    <2> QED BY <2>2, <2>3
  <1>6. ASSUME NEW a \in Attempts, Search(a) PROVE SignInInv'
    <2>1. attempt[a].user = None /\ attempt[a].step # "idle" /\ attempt[a].name \in Names
          /\ UNCHANGED <<options, dir, users>>
      BY <1>0, <1>6 DEF Search, Known, AttemptStates, Others
    <2>2. CASE dir[attempt[a].name] = None
      BY <1>6, <2>1, <2>2, FailsKeeps DEF Search
    <2>3. CASE dir[attempt[a].name] # None
      <3> DEFINE t == [attempt[a] EXCEPT !.found = attempt[a].name,
                                         !.step = IF options.bind = "template" THEN "find" ELSE "bindUser"]
      <3>1. attempt' = [attempt EXCEPT ![a] = t]
        BY <1>6, <2>3 DEF Search, SignInInv, SignInTypeOK
      <3>2. t \in AttemptStates
        BY <1>0, <2>1, StepNames, Fields
      <3>3. Known(t, users)
        BY <1>0, <1>6 DEF Search, Known, AttemptStates
      <3> HIDE DEF t
      <3> QED BY <2>1, <3>1, <3>2, <3>3, AttemptOnly
    <2> QED BY <2>2, <2>3
  <1>7. ASSUME NEW a \in Attempts, BindUser(a) PROVE SignInInv'
    <2>1. attempt[a].user = None /\ attempt[a].step # "idle" /\ attempt[a].found = attempt[a].name
          /\ attempt[a].found \in Names /\ UNCHANGED <<options, dir, users>>
      BY <1>0, <1>7 DEF BindUser, Known, AttemptStates, Others
    <2>2. CASE Accepts(attempt[a].found, attempt[a].password)
      <3> DEFINE t == [attempt[a] EXCEPT !.step = "find", !.bound = attempt[a].found]
      <3>1. attempt' = [attempt EXCEPT ![a] = t]
        BY <1>7, <2>2 DEF BindUser, SignInInv, SignInTypeOK
      <3>2. t \in AttemptStates
        BY <1>0, <2>1, StepNames, Fields
      <3>3. Known(t, users)
        BY <1>0, <1>7, <2>1 DEF BindUser, Known, AttemptStates
      <3> HIDE DEF t
      <3> QED BY <2>1, <3>1, <3>2, <3>3, AttemptOnly
    <2>3. CASE ~Accepts(attempt[a].found, attempt[a].password)
      BY <1>7, <2>1, <2>3, FailsKeeps DEF BindUser
    <2> QED BY <2>2, <2>3
  <1>8. ASSUME NEW a \in Attempts, LdapFails(a) PROVE SignInInv'
    <2>1. attempt[a].user = None /\ attempt[a].step # "idle"
      BY <1>0, <1>8 DEF LdapFails, Known
    <2> QED BY <1>8, <2>1, FailsKeeps DEF LdapFails
  <1>9. ASSUME NEW a \in Attempts, FindUser(a) PROVE SignInInv'
    <2>1. attempt[a].user = None /\ attempt[a].found = attempt[a].name /\ attempt[a].step = "find"
          /\ attempt[a].bound = attempt[a].name /\ UNCHANGED <<options, dir, users>>
      BY <1>0, <1>9 DEF FindUser, Known, Others
    <2>2. UsersInv' /\ users' \subseteq [id : Nat, username : Names, uuid : Names \cup {None}]
      BY <2>1 DEF SignInInv, SignInTypeOK, UsersInv
    <2>3. ASSUME NEW u \in Linked(attempt[a].found), Succeeds(a, u.id) PROVE SignInInv'
      <3>1. u.id \in Nat /\ u \in users' /\ u.uuid = attempt[a].name
        BY <2>1, <2>3 DEF Linked, SignInInv, SignInTypeOK
      <3> QED BY <2>1, <2>2, <2>3, <3>1, SucceedsKeeps
    <2>4. CASE Goes(a, "create")
      <3> DEFINE t == [attempt[a] EXCEPT !.step = "create"]
      <3>1. attempt' = [attempt EXCEPT ![a] = t]
        BY <2>4 DEF Goes, SignInInv, SignInTypeOK
      <3>2. t \in AttemptStates
        BY <1>0, StepNames, Fields
      <3>3. Known(t, users)
        BY <1>0, <2>1 DEF Known, AttemptStates
      <3> HIDE DEF t
      <3> QED BY <2>1, <3>1, <3>2, <3>3, AttemptOnly
    <2>5. CASE Fails(a, "unregistered")
      BY <2>1, <2>5, FailsKeeps
    <2> QED BY <1>9, <2>3, <2>4, <2>5 DEF FindUser
  <1>10. ASSUME NEW a \in Attempts, NewUser(a) PROVE SignInInv'
    <2> DEFINE n == attempt[a].found
               u == [id |-> NewId, username |-> n, uuid |-> n]
    <2>1. attempt[a].user = None /\ n = attempt[a].name /\ n \in Names /\ attempt[a].step = "create"
          /\ UNCHANGED <<options, dir>>
      BY <1>0, <1>10 DEF NewUser, Known, AttemptStates
    <2>2. CASE Taken(n)
      BY <1>10, <2>1, <2>2, FailsKeeps DEF NewUser
    <2>3. CASE ~Taken(n)
      <3>1. NewId \in Nat
        BY FS_CardinalityType DEF NewId, SignInInv, UsersInv
      <3>2. Succeeds(a, NewId) /\ users' = users \cup {u}
        BY <1>10, <2>3 DEF NewUser
      <3>3. u \in [id : Nat, username : Names, uuid : Names \cup {None}]
            /\ u.id = NewId /\ u.uuid = n /\ u.username = n
        BY <2>1, <3>1
      <3>4. u.uuid # None /\ \A v \in users : v.username # u.username
        BY <2>1, <2>3, <3>3 DEF Taken
      <3>5. u.uuid = u.username
        BY <3>3
      <3>6. \E w \in {u} : w.id = NewId /\ w.uuid = attempt[a].name
        BY <2>1, <3>3
      <3> HIDE DEF u
      <3>7. IsFiniteSet(users')
        BY <3>2, FS_AddElement DEF SignInInv, UsersInv
      <3>8. UsersInv'
        BY <3>2, <3>4, <3>5, <3>7 DEF SignInInv, UsersInv
      <3>9. users' \subseteq [id : Nat, username : Names, uuid : Names \cup {None}] /\ users \subseteq users'
        BY <3>2, <3>3 DEF SignInInv, SignInTypeOK
      <3>10. \E w \in users' : w.id = NewId /\ w.uuid = attempt[a].name
        BY <3>2, <3>6
      <3> QED BY <2>1, <3>1, <3>2, <3>8, <3>9, <3>10, SucceedsKeeps
    <2> QED BY <2>2, <2>3
  <1>11. ASSUME NEW a \in Attempts, NewUserFails(a) PROVE SignInInv'
    <2>1. attempt[a].user = None /\ attempt[a].step # "idle"
      BY <1>0, <1>11 DEF NewUserFails, Known
    <2> QED BY <1>11, <2>1, FailsKeeps DEF NewUserFails
  <1>12. ASSUME NEW a \in Attempts, Unbind(a) PROVE SignInInv'
    <2> DEFINE t == [attempt[a] EXCEPT !.open = FALSE,
                                       !.step = IF attempt[a].user = None THEN "failed" ELSE "token"]
    <2>1. attempt' = [attempt EXCEPT ![a] = t] /\ UNCHANGED <<options, dir, users>>
      BY <1>12 DEF Unbind, Others, SignInInv, SignInTypeOK
    <2>2. t \in AttemptStates
      BY <1>0, StepNames, Fields
    <2>3. Known(t, users)
      BY <1>0, <1>12 DEF Unbind, Known, AttemptStates
    <2> HIDE DEF t
    <2> QED BY <2>1, <2>2, <2>3, AttemptOnly
  <1>13. ASSUME NEW a \in Attempts, SignNewToken(a) PROVE SignInInv'
    <2> DEFINE t == [attempt[a] EXCEPT !.step = "done"]
    <2>1. attempt' = [attempt EXCEPT ![a] = t] /\ UNCHANGED <<options, dir, users>>
      BY <1>13 DEF SignNewToken, Goes, Others, SignInInv, SignInTypeOK
    <2>2. t \in AttemptStates
      BY <1>0, StepNames, Fields
    <2>3. Known(t, users)
      BY <1>0, <1>13 DEF SignNewToken, Known, AttemptStates
    <2> HIDE DEF t
    <2> QED BY <2>1, <2>2, <2>3, AttemptOnly
  <1>14. ASSUME NEW a \in Attempts, SignNewTokenFails(a) PROVE SignInInv'
    <2> DEFINE t == [attempt[a] EXCEPT !.step = "failed", !.why = "fault"]
    <2>1. attempt' = [attempt EXCEPT ![a] = t] /\ UNCHANGED <<options, dir, users>>
      BY <1>14 DEF SignNewTokenFails, SignInInv, SignInTypeOK
    <2>2. t \in AttemptStates
      BY <1>0, StepNames, Fields
    <2>3. Known(t, users)
      BY <1>0, <1>14 DEF SignNewTokenFails, Known, AttemptStates
    <2> HIDE DEF t
    <2> QED BY <2>1, <2>2, <2>3, AttemptOnly
  <1>15. CASE UNCHANGED signInVars
    BY <1>15 DEF signInVars, SignInInv, SignInTypeOK, UsersInv, Known
  <1> QED BY <1>1, <1>2, <1>3, <1>4, <1>5, <1>6, <1>7, <1>8, <1>9, <1>10, <1>11, <1>12, <1>13, <1>14, <1>15
          DEF SignInNext, Progress

\* The invariant holds in every state.
LEMMA SignInInvHolds == SignInSpec => []SignInInv
  <1> QED BY SignInInitInv, SignInNextInv, PTL DEF SignInSpec

\* Directory, users and attempts keep their types.
THEOREM SignInTypeCorrect == SignInSpec => []SignInTypeOK
  <1>1. SignInInv => SignInTypeOK
    BY DEF SignInInv
  <1> QED BY <1>1, SignInInvHolds, PTL

\* There is one user for an account, and all who signed in with it are that
\* user, however many attempts overlap.
THEOREM OneUserForAll == SignInSpec => []OneUserPerAccount
  <1>1. ASSUME SignInInv PROVE OneUserPerAccount
    <2>1. \A u, v \in users : u.uuid # None /\ u.uuid = v.uuid => u = v
      BY <1>1 DEF SignInInv, UsersInv
    <2>2. \A a \in Attempts : attempt[a].user # None =>
            \E u \in users : u.id = attempt[a].user /\ u.uuid = attempt[a].name
      BY <1>1 DEF SignInInv, Known
    <2> QED BY <2>1, <2>2 DEF OneUserPerAccount
  <1> QED BY <1>1, SignInInvHolds, PTL

\* Nobody gets a user without a password that the server accepted for its entry.
THEOREM NobodyWithoutPassword == SignInSpec => []PasswordWasAccepted
  <1>1. SignInInv => PasswordWasAccepted
    BY DEF SignInInv, Known, PasswordWasAccepted
  <1> QED BY <1>1, SignInInvHolds, PTL

\* Who lost the race for the first sign-in finds the user the next time.
THEOREM ConflictsEnd == SignInSpec => []ConflictIsOverNextTime
  <1>1. ASSUME SignInInv PROVE ConflictIsOverNextTime
    <2> SUFFICES ASSUME NEW a \in Attempts, attempt[a].why = "conflict"
                 PROVE  Linked(attempt[a].name) # {} \/ attempt[a].name \in LocalUsers
      BY DEF ConflictIsOverNextTime
    <2>1. PICK u \in users : u.username = attempt[a].name
      BY <1>1 DEF SignInInv, Known
    <2>2. CASE u.uuid = None
      BY <1>1, <2>1, <2>2 DEF SignInInv, UsersInv
    <2>3. CASE u.uuid # None
      <3>1. u \in Linked(attempt[a].name)
        BY <1>1, <2>1, <2>3 DEF SignInInv, UsersInv, Linked
      <3> QED BY <3>1
    <2> QED BY <2>2, <2>3
  <1> QED BY <1>1, SignInInvHolds, PTL

\* No attempt that was answered leaves a connection open.
THEOREM ConnectionsClose == SignInSpec => []NoConnectionLeft
  <1>1. SignInInv => NoConnectionLeft
    BY DEF SignInInv, Known, NoConnectionLeft
  <1> QED BY <1>1, SignInInvHolds, PTL

------------------------------------------------------------------------------
(* TokenRenewal *)

\* The row stands at the last token, and renewals are at different times.
RowIsLast == (row # Nil => row = last) /\ last <= issuedTime[last] + 1

\* Only tokens before the last one have been replaced.
Successors == \A j \in Jtis : next[j] # Nil => j < last

\* The caches keep nothing but successors.
Kept == \A s \in Stores, j \in Jtis : cache[s][j].to # Nil => cache[s][j].to = next[j]

\* A renewal is for a token that has expired, and what it writes to the cache
\* is its successor.
Flights ==
  \A i \in Instances, j \in Jtis : flight[i][j] # Nil =>
    /\ j <= last /\ issuedTime[j] < now
    /\ flight[i][j].step = "set" => next[j] # Nil /\ flight[i][j].to = next[j]

\* A call that asks for a renewal has an expired token; a call that waits has a
\* renewal to wait for; a call that was answered has the successor.
Callers ==
  \A c \in Calls :
    LET j == call[c].jti
    IN  /\ call[c].step \in {"wrap", "wait"} =>
             call[c].at \in Instances /\ j <= last /\ issuedTime[j] < now
        /\ call[c].step = "wait" => flight[call[c].at][j] # Nil
        /\ call[c].step = "done" => next[j] # Nil /\ call[c].answer = next[j]

RenewalInv == RenewalTypeOK /\ RowIsLast /\ Successors /\ Kept /\ Flights /\ Callers

------------------------------------------------------------------------------
(* What the steps of a renewal have in common                               *)

\* A renewal that runs is something.
LEMMA StepIsNotNil ==
  ASSUME NEW step \in {"get", "update", "again", "set"}, NEW to \in Jtis \cup {Nil}
  PROVE  [step |-> step, to |-> to] # Nil
  <1>1. to \in Nat \cup {Nil}
    BY DEF Jtis
  <1>2. [step |-> step, to |-> to] \in [step : {"get", "update", "again", "set"}, to : Nat \cup {Nil}]
    BY <1>1
  <1> QED BY <1>2, RenewalAssumption

\* Every instance has a store, and what it reads there is a successor.
LEMMA CachedIsNext ==
  ASSUME RenewalInv, NEW i \in Instances, NEW j \in Jtis
  PROVE  /\ Store(i) \in Stores
         /\ Cached(i, j) \in Jtis \cup {Nil}
         /\ Cached(i, j) # Nil => next[j] # Nil /\ Cached(i, j) = next[j]
  <1>1. Store(i) \in Stores
    BY DEF Store, Stores
  <1> QED BY <1>1 DEF RenewalInv, RenewalTypeOK, Kept, Cached

\* The calls that wait get an answer that is the successor, or a failure.
LEMMA SettleKeeps ==
  ASSUME RenewalInv, NEW i \in Instances, NEW j \in Jtis, NEW step \in {"done", "failed"},
         NEW answer \in Jtis \cup {Nil}, Settle(i, j, step, answer),
         step = "done" => next[j] # Nil /\ answer = next[j],
         UNCHANGED <<now, table, crashes>>,
         cache' \in [Stores -> [Jtis -> [to : Jtis \cup {Nil}, until : Nat]]], Kept'
  PROVE  RenewalInv'
  <1> USE DEF RenewalInv, table
  <1>1. /\ flight' = [flight EXCEPT ![i][j] = Nil]
        /\ \A c \in Calls : call'[c] = IF c \in Waiting(i, j)
                                       THEN [call[c] EXCEPT !.step = step, !.answer = answer] ELSE call[c]
        /\ call' = [c \in Calls |-> call'[c]]
    BY DEF Settle
  <1>2. \A c \in Calls : call'[c] \in [at : Instances \cup {Nil}, jti : Jtis,
          step : {"idle", "wrap", "wait", "done", "failed"}, answer : Jtis \cup {Nil}]
    <2> SUFFICES ASSUME NEW c \in Calls
                 PROVE  call'[c] \in [at : Instances \cup {Nil}, jti : Jtis,
                          step : {"idle", "wrap", "wait", "done", "failed"}, answer : Jtis \cup {Nil}]
      OBVIOUS
    <2>1. call[c] \in [at : Instances \cup {Nil}, jti : Jtis,
            step : {"idle", "wrap", "wait", "done", "failed"}, answer : Jtis \cup {Nil}]
      BY DEF RenewalTypeOK
    <2>2. call'[c] \in {call[c], [call[c] EXCEPT !.step = step, !.answer = answer]}
      BY <1>1
    <2> QED BY <2>1, <2>2
  <1>3. RenewalTypeOK'
    BY <1>1, <1>2 DEF RenewalTypeOK
  <1>4. \A k \in Instances, l \in Jtis : flight'[k][l] = IF k = i /\ l = j THEN Nil ELSE flight[k][l]
    BY <1>1 DEF RenewalTypeOK
  <1>5. RowIsLast' /\ Successors'
    BY DEF RowIsLast, Successors
  <1>6. Flights'
    BY <1>4 DEF Flights
  <1>7. Callers'
    <2> SUFFICES ASSUME NEW c \in Calls
                 PROVE  LET l == call'[c].jti
                        IN  /\ call'[c].step \in {"wrap", "wait"} =>
                                 call'[c].at \in Instances /\ l <= last /\ issuedTime[l] < now
                            /\ call'[c].step = "wait" => flight'[call'[c].at][l] # Nil
                            /\ call'[c].step = "done" => next[l] # Nil /\ call'[c].answer = next[l]
      BY DEF Callers
    <2>1. CASE c \in Waiting(i, j)
      <3>1. call'[c].step = step /\ call'[c].answer = answer /\ call'[c].jti = j
        BY <1>1, <2>1 DEF RenewalTypeOK, Waiting
      <3> QED BY <3>1
    <2>2. CASE c \notin Waiting(i, j)
      <3>1. call'[c] = call[c] /\ call[c].jti \in Jtis
        BY <1>1, <2>2 DEF RenewalTypeOK
      <3>2. call[c].step = "wait" => call[c].at \in Instances /\ flight'[call[c].at][call[c].jti] # Nil
        BY <1>4, <2>2, <3>1 DEF Callers, Waiting
      <3> QED BY <3>1, <3>2 DEF Callers
    <2> QED BY <2>1, <2>2
  <1> QED BY <1>3, <1>5, <1>6, <1>7

\* The renewal goes on, and carries the successor to the cache.
LEMMA GoKeeps ==
  ASSUME RenewalInv, NEW i \in Instances, NEW j \in Jtis, NEW step \in {"update", "again", "set"},
         NEW to \in Jtis \cup {Nil}, Go(i, j, step, to), flight[i][j] # Nil,
         step = "set" => next[j] # Nil /\ to = next[j],
         UNCHANGED <<now, table, cache, call, crashes>>
  PROVE  RenewalInv'
  <1> USE DEF RenewalInv, table
  <1>1. [step |-> step, to |-> to] # Nil
    BY StepIsNotNil
  <1>2. flight' = [flight EXCEPT ![i][j] = [step |-> step, to |-> to]]
    BY DEF Go
  <1>3. RenewalTypeOK'
    BY <1>2 DEF RenewalTypeOK
  <1>4. \A k \in Instances, l \in Jtis :
          flight'[k][l] = IF k = i /\ l = j THEN [step |-> step, to |-> to] ELSE flight[k][l]
    BY <1>2 DEF RenewalTypeOK
  <1>5. RowIsLast' /\ Successors' /\ Kept'
    BY DEF RowIsLast, Successors, Kept
  <1>6. Flights'
    BY <1>4 DEF Flights
  <1>7. Callers'
    BY <1>1, <1>4 DEF RenewalTypeOK, Callers
  <1> QED BY <1>3, <1>5, <1>6, <1>7

------------------------------------------------------------------------------
(* The invariant                                                            *)

\* Nothing is renewed at first.
LEMMA RenewalInitInv == ASSUME RenewalInit PROVE RenewalInv
  <1> USE RenewalAssumption DEF RenewalInit
  <1>1. 1 \in Jtis /\ \A j \in Jtis : j \in Nat
    BY DEF Jtis
  <1>2. RenewalTypeOK
    BY <1>1 DEF RenewalTypeOK, NoEntry, Idle
  <1>3. RowIsLast /\ Successors /\ Kept /\ Flights /\ Callers
    BY <1>1 DEF RowIsLast, Successors, Kept, Flights, Callers, NoEntry, Idle
  <1> QED BY <1>2, <1>3 DEF RenewalInv

\* The row takes one successor, in a moment after that of its own renewal.
LEMMA UpdateKeeps == ASSUME RenewalInv, NEW i \in Instances, NEW j \in Jtis, Update(i, j), row = j PROVE RenewalInv'
  <1> USE RenewalAssumption DEF RenewalInv
  <1>1. /\ row' = last + 1 /\ last' = last + 1
        /\ next' = [next EXCEPT ![j] = last + 1]
        /\ issuedTime' = [issuedTime EXCEPT ![last + 1] = now]
        /\ Go(i, j, "set", last + 1)
        /\ UNCHANGED <<now, cache, call, crashes>>
        /\ flight[i][j] # Nil
    BY DEF Update, At
  <1>2. j = last /\ next[j] = Nil /\ issuedTime[j] < now /\ j \in Nat /\ now \in Nat
    <2>1. j \in Nat /\ j # Nil
      BY DEF Jtis
    <2>2. j = last /\ issuedTime[j] < now /\ now \in Nat
      BY <1>1, <2>1 DEF RowIsLast, Flights, RenewalTypeOK
    <2>3. ~(j < last)
      BY <2>1, <2>2
    <2> QED BY <2>1, <2>2, <2>3 DEF Successors
  <1>3. last + 1 \in Jtis /\ last + 1 <= now + 1
    <2>1. last \in Nat /\ last >= 1 /\ issuedTime[last] \in Nat /\ now \in 0..MaxTime
      BY DEF RenewalTypeOK, Jtis
    <2>2. last <= issuedTime[last] + 1 /\ issuedTime[last] < now
      BY <1>2 DEF RowIsLast
    <2> QED BY <2>1, <2>2 DEF Jtis
  <1>4. last + 1 # Nil /\ [step |-> "set", to |-> last + 1] # Nil
    <2>1. last + 1 # Nil
      BY <1>3 DEF Jtis
    <2> QED BY <1>3, <2>1, StepIsNotNil
  <1>5. flight' = [flight EXCEPT ![i][j] = [step |-> "set", to |-> last + 1]]
    BY <1>1 DEF Go
  <1>6. RenewalTypeOK'
    BY <1>1, <1>3, <1>5 DEF RenewalTypeOK
  <1>7. /\ \A l \in Jtis : /\ next'[l] = IF l = j THEN last + 1 ELSE next[l]
                           /\ issuedTime'[l] = IF l = last + 1 THEN now ELSE issuedTime[l]
                           /\ l \in Nat
        /\ \A k \in Instances, l \in Jtis :
             flight'[k][l] = IF k = i /\ l = j THEN [step |-> "set", to |-> last + 1] ELSE flight[k][l]
        /\ last \in Nat
    <2>1. \A l \in Jtis : l \in Nat
      BY DEF Jtis
    <2> QED BY <1>1, <1>5, <2>1 DEF RenewalTypeOK
  <1>8. RowIsLast'
    BY <1>1, <1>2, <1>3, <1>7 DEF RowIsLast
  <1>9. Successors'
    BY <1>1, <1>2, <1>7 DEF Successors
  <1>10. Kept'
    BY <1>1, <1>2, <1>7 DEF Kept
  <1>11. Flights'
    <2> SUFFICES ASSUME NEW k \in Instances, NEW l \in Jtis, flight'[k][l] # Nil
                 PROVE  /\ l <= last' /\ issuedTime'[l] < now'
                        /\ flight'[k][l].step = "set" => next'[l] # Nil /\ flight'[k][l].to = next'[l]
      BY DEF Flights
    <2>1. CASE k = i /\ l = j
      BY <1>1, <1>2, <1>4, <1>7, <2>1
    <2>2. CASE ~(k = i /\ l = j)
      <3>1. flight'[k][l] = flight[k][l] /\ l <= last /\ issuedTime[l] < now /\ l # last + 1
        BY <1>7, <2>2 DEF Flights
      <3>2. flight[k][l].step = "set" => l # j /\ next[l] # Nil /\ flight[k][l].to = next[l]
        BY <1>2, <1>7, <2>2, <3>1 DEF Flights
      <3> QED BY <1>1, <1>7, <3>1, <3>2
    <2> QED BY <2>1, <2>2
  <1>12. Callers'
    <2> SUFFICES ASSUME NEW c \in Calls
                 PROVE  LET l == call[c].jti
                        IN  /\ call[c].step \in {"wrap", "wait"} =>
                                 call[c].at \in Instances /\ l <= last' /\ issuedTime'[l] < now
                            /\ call[c].step = "wait" => flight'[call[c].at][l] # Nil
                            /\ call[c].step = "done" => next'[l] # Nil /\ call[c].answer = next'[l]
      BY <1>1 DEF Callers
    <2> DEFINE l == call[c].jti
    <2>1. l \in Jtis /\ l \in Nat
      BY <1>7 DEF RenewalTypeOK
    <2>2. call[c].step \in {"wrap", "wait"} => call[c].at \in Instances /\ l <= last' /\ issuedTime'[l] < now
      <3>1. call[c].step \in {"wrap", "wait"} => call[c].at \in Instances /\ l <= last /\ issuedTime[l] < now
        BY DEF Callers
      <3>2. l <= last => l <= last + 1 /\ l # last + 1
        BY <1>7, <2>1
      <3> QED BY <1>1, <1>7, <2>1, <3>1, <3>2
    <2>3. call[c].step = "wait" => flight'[call[c].at][l] # Nil
      BY <1>4, <1>7, <2>1 DEF Callers
    <2>4. call[c].step = "done" => next'[l] # Nil /\ call[c].answer = next'[l]
      BY <1>2, <1>7, <2>1 DEF Callers
    <2> QED BY <2>2, <2>3, <2>4
  <1> QED BY <1>6, <1>8, <1>9, <1>10, <1>11, <1>12

\* Every step keeps the invariant.
LEMMA RenewalNextInv == ASSUME RenewalInv, [RenewalNext]_renewalVars PROVE RenewalInv'
  <1> USE RenewalAssumption
  <1>1. CASE Tick
    <2>1. now' = now + 1 /\ now' \in 0..MaxTime /\ now \in Nat
          /\ UNCHANGED <<row, last, issuedTime, next, cache, call, flight, crashes>>
      BY <1>1 DEF Tick, table, RenewalInv, RenewalTypeOK
    <2>2. \A j \in Jtis : issuedTime[j] < now => issuedTime[j] < now'
      BY <2>1 DEF RenewalInv, RenewalTypeOK
    <2>3. RenewalTypeOK' /\ RowIsLast' /\ Successors' /\ Kept'
      BY <2>1 DEF RenewalInv, RenewalTypeOK, RowIsLast, Successors, Kept
    <2>4. Flights'
      BY <2>1, <2>2 DEF RenewalInv, Flights
    <2>5. Callers'
      BY <2>1, <2>2 DEF RenewalInv, RenewalTypeOK, Callers
    <2> QED BY <2>3, <2>4, <2>5 DEF RenewalInv
  <1>2. CASE Cleanup
    BY <1>2 DEF Cleanup, RenewalInv, RenewalTypeOK, RowIsLast, Successors, Kept, Flights, Callers
  <1>3. ASSUME NEW c \in Calls, Wrap(c) PROVE RenewalInv'
    <2> DEFINE i == call[c].at
               j == call[c].jti
               get == [step |-> "get", to |-> Nil]
    <2>1. /\ call[c].step = "wrap" /\ i \in Instances /\ j \in Jtis
          /\ j <= last /\ issuedTime[j] < now
      BY <1>3 DEF Wrap, RenewalInv, RenewalTypeOK, Callers
    <2>2. get # Nil
      BY StepIsNotNil
    <2>3. /\ flight' = [flight EXCEPT ![i][j] = IF @ = Nil THEN get ELSE @]
          /\ call' = [call EXCEPT ![c].step = "wait"]
          /\ UNCHANGED <<now, row, last, issuedTime, next, cache, crashes>>
      BY <1>3 DEF Wrap, table
    <2>4. RenewalTypeOK'
      <3>1. get \in [step : {"get", "update", "again", "set"}, to : Jtis \cup {Nil}]
        OBVIOUS
      <3> HIDE DEF get
      <3>2. flight' \in [Instances -> [Jtis -> [step : {"get", "update", "again", "set"}, to : Jtis \cup {Nil}]
                                                \cup {Nil}]]
        BY <2>1, <2>3, <3>1 DEF RenewalInv, RenewalTypeOK
      <3>3. call' \in [Calls -> [at : Instances \cup {Nil}, jti : Jtis,
              step : {"idle", "wrap", "wait", "done", "failed"}, answer : Jtis \cup {Nil}]]
        <4> DEFINE T == [at : Instances \cup {Nil}, jti : Jtis,
                         step : {"idle", "wrap", "wait", "done", "failed"}, answer : Jtis \cup {Nil}]
                   new == [call[c] EXCEPT !.step = "wait"]
        <4>1. call \in [Calls -> T] /\ call' = [call EXCEPT ![c] = new]
          BY <2>3 DEF RenewalInv, RenewalTypeOK
        <4>2. call[c] \in T
          BY <4>1
        <4>3. new \in T
          BY <4>2
        <4> HIDE DEF T, new
        <4>4. call' \in [Calls -> T]
          BY <4>1, <4>3
        <4> QED BY <4>4 DEF T
      <3> QED BY <2>3, <3>2, <3>3 DEF RenewalInv, RenewalTypeOK
    <2>5. \A k \in Instances, l \in Jtis :
            flight'[k][l] = IF k = i /\ l = j /\ flight[k][l] = Nil THEN get ELSE flight[k][l]
      BY <2>1, <2>3 DEF RenewalInv, RenewalTypeOK
    <2>6. RowIsLast' /\ Successors' /\ Kept'
      BY <2>3 DEF RenewalInv, RowIsLast, Successors, Kept
    <2>7. Flights'
      BY <2>1, <2>3, <2>5 DEF RenewalInv, Flights
    <2>8. /\ \A d \in Calls \ {c} : call'[d] = call[d]
          /\ call'[c].step = "wait" /\ call'[c].at = i /\ call'[c].jti = j
          /\ \A d \in Calls : call[d].jti \in Jtis
      BY <2>3 DEF RenewalInv, RenewalTypeOK
    <2> HIDE DEF get
    <2>9. \A k \in Instances, l \in Jtis : flight[k][l] # Nil => flight'[k][l] # Nil
      BY <2>5
    <2>10. flight'[i][j] # Nil
      BY <2>1, <2>2, <2>5
    <2> HIDE DEF i, j
    <2>11. Callers'
      BY <2>1, <2>3, <2>8, <2>9, <2>10 DEF RenewalInv, Callers
    <2> QED BY <2>4, <2>6, <2>7, <2>11 DEF RenewalInv
  <1>4. ASSUME NEW c \in Calls, NEW i \in Instances, NEW j \in Jtis, Check(c, i, j) PROVE RenewalInv'
    <2> DEFINE new == IF Cached(i, j) # Nil THEN [at |-> i, jti |-> j, step |-> "done", answer |-> Cached(i, j)]
                      ELSE [at |-> i, jti |-> j, step |-> "wrap", answer |-> Nil]
    <2>1. /\ call' = [call EXCEPT ![c] = new] /\ j <= last
          /\ UNCHANGED <<now, row, last, issuedTime, next, cache, flight, crashes>>
      BY <1>4 DEF Check, table
    <2>2. issuedTime[j] < now
      BY <1>4 DEF Check, RenewalInv, RenewalTypeOK
    <2>3. /\ new \in [at : Instances \cup {Nil}, jti : Jtis,
                      step : {"idle", "wrap", "wait", "done", "failed"}, answer : Jtis \cup {Nil}]
          /\ new.at = i /\ new.jti = j /\ new.step \in {"done", "wrap"}
          /\ new.step = "done" => next[j] # Nil /\ new.answer = next[j]
      BY CachedIsNext
    <2> HIDE DEF new
    <2>4. RenewalTypeOK'
      BY <2>1, <2>3 DEF RenewalInv, RenewalTypeOK
    <2>5. \A d \in Calls : call'[d] = IF d = c THEN new ELSE call[d]
      BY <2>1 DEF RenewalInv, RenewalTypeOK
    <2>6. Callers'
      BY <2>1, <2>2, <2>3, <2>5 DEF RenewalInv, Callers
    <2> QED BY <2>1, <2>4, <2>6 DEF RenewalInv, RowIsLast, Successors, Kept, Flights
  <1>5. ASSUME NEW i \in Instances, NEW j \in Jtis, Renewing(i, j) PROVE RenewalInv'
    <2>1. CASE Get(i, j)
      <3>1. CASE Cached(i, j) # Nil
        <4>1. Settle(i, j, "done", Cached(i, j)) /\ UNCHANGED <<now, table, cache, crashes>>
          BY <2>1, <3>1 DEF Get
        <4>2. Kept'
          BY <4>1 DEF RenewalInv, Kept, table
        <4> QED BY <3>1, <4>1, <4>2, CachedIsNext, SettleKeeps DEF RenewalInv, RenewalTypeOK
      <3>2. CASE Cached(i, j) = Nil
        <4>1. Go(i, j, "update", Nil) /\ flight[i][j] # Nil /\ UNCHANGED <<now, table, cache, call, crashes>>
          BY <2>1, <3>2 DEF Get, At
        <4> QED BY <4>1, GoKeeps
      <3> QED BY <3>1, <3>2
    <2>2. CASE Update(i, j)
      <3>1. CASE row = j
        BY <2>2, <3>1, UpdateKeeps
      <3>2. CASE row # j
        <4>1. Go(i, j, "again", Nil) /\ flight[i][j] # Nil /\ UNCHANGED <<now, table, cache, call, crashes>>
          BY <2>2, <3>2 DEF Update, At
        <4> QED BY <4>1, GoKeeps
      <3> QED BY <3>1, <3>2
    <2>3. CASE Again(i, j)
      <3>1. CASE Cached(i, j) # Nil
        <4>1. Go(i, j, "set", Cached(i, j)) /\ flight[i][j] # Nil /\ UNCHANGED <<now, table, cache, call, crashes>>
          BY <2>3, <3>1 DEF Again, At
        <4> QED BY <3>1, <4>1, CachedIsNext, GoKeeps
      <3>2. CASE Cached(i, j) = Nil
        <4>1. Settle(i, j, "failed", Nil) /\ UNCHANGED <<now, table, cache, crashes>>
          BY <2>3, <3>2 DEF Again
        <4>2. Kept'
          BY <4>1 DEF RenewalInv, Kept, table
        <4> QED BY <4>1, <4>2, SettleKeeps DEF RenewalInv, RenewalTypeOK
      <3> QED BY <3>1, <3>2
    <2>4. CASE Set(i, j)
      <3> DEFINE entry == [to |-> flight[i][j].to, until |-> now + Ttl]
      <3>1. /\ cache' = [cache EXCEPT ![Store(i)][j] = entry]
            /\ Settle(i, j, "done", flight[i][j].to) /\ UNCHANGED <<now, table, crashes>>
            /\ flight[i][j] # Nil /\ flight[i][j].step = "set"
        BY <2>4 DEF Set, At
      <3>2. flight[i][j].to \in Jtis \cup {Nil} /\ next[j] # Nil /\ flight[i][j].to = next[j]
        BY <3>1 DEF RenewalInv, RenewalTypeOK, Flights
      <3>3. Store(i) \in Stores
        BY CachedIsNext
      <3>4. entry \in [to : Jtis \cup {Nil}, until : Nat] /\ entry.to = next[j]
        BY <3>2 DEF RenewalInv, RenewalTypeOK
      <3> HIDE DEF entry
      <3>5. cache' \in [Stores -> [Jtis -> [to : Jtis \cup {Nil}, until : Nat]]]
        BY <3>1, <3>3, <3>4 DEF RenewalInv, RenewalTypeOK
      <3>6. \A s \in Stores, l \in Jtis : cache'[s][l] = IF s = Store(i) /\ l = j THEN entry ELSE cache[s][l]
        BY <3>1, <3>3 DEF RenewalInv, RenewalTypeOK
      <3>7. Kept'
        BY <3>1, <3>4, <3>6 DEF RenewalInv, Kept, table
      <3> QED BY <3>1, <3>2, <3>5, <3>7, SettleKeeps
    <2> QED BY <1>5, <2>1, <2>2, <2>3, <2>4 DEF Renewing
  <1>6. ASSUME NEW i \in Instances, Crash(i) PROVE RenewalInv'
    <2> DEFINE none == [j \in Jtis |-> Nil]
               empty == [j \in Jtis |-> NoEntry]
    <2>1. /\ crashes' = crashes + 1
          /\ call' = [c \in Calls |-> IF call[c].at = i THEN Idle ELSE call[c]]
          /\ flight' = [flight EXCEPT ![i] = none]
          /\ cache' = IF Shared THEN cache ELSE [cache EXCEPT ![i] = empty]
          /\ UNCHANGED <<now, row, last, issuedTime, next>>
      BY <1>6 DEF Crash, table
    <2>2. 1 \in Jtis
      BY DEF Jtis
    <2>3. NoEntry \in [to : Jtis \cup {Nil}, until : Nat] /\ NoEntry.to = Nil
      BY DEF NoEntry
    <2>4. \A c \in Calls : call'[c] \in [at : Instances \cup {Nil}, jti : Jtis,
            step : {"idle", "wrap", "wait", "done", "failed"}, answer : Jtis \cup {Nil}]
      BY <2>1, <2>2 DEF RenewalInv, RenewalTypeOK, Idle
    <2>5. cache' \in [Stores -> [Jtis -> [to : Jtis \cup {Nil}, until : Nat]]]
      BY <2>1, <2>3 DEF RenewalInv, RenewalTypeOK, Stores
    <2>6. flight' \in [Instances -> [Jtis -> [step : {"get", "update", "again", "set"}, to : Jtis \cup {Nil}]
                                              \cup {Nil}]]
      BY <2>1 DEF RenewalInv, RenewalTypeOK
    <2>7. RenewalTypeOK'
      BY <2>1, <2>4, <2>5, <2>6 DEF RenewalInv, RenewalTypeOK
    <2>8. \A s \in Stores, j \in Jtis : cache'[s][j] \in {cache[s][j], NoEntry}
      BY <2>1 DEF RenewalInv, RenewalTypeOK, Stores
    <2>9. \A k \in Instances, j \in Jtis : flight'[k][j] = IF k = i THEN Nil ELSE flight[k][j]
      BY <2>1 DEF RenewalInv, RenewalTypeOK
    <2>10. RowIsLast' /\ Successors'
      BY <2>1 DEF RenewalInv, RowIsLast, Successors
    <2>11. Kept'
      BY <2>1, <2>3, <2>8 DEF RenewalInv, Kept
    <2>12. Flights'
      BY <2>1, <2>9 DEF RenewalInv, Flights
    <2>13. Callers'
      <3> SUFFICES ASSUME NEW c \in Calls
                   PROVE  LET l == call'[c].jti
                          IN  /\ call'[c].step \in {"wrap", "wait"} =>
                                   call'[c].at \in Instances /\ l <= last /\ issuedTime[l] < now
                              /\ call'[c].step = "wait" => flight'[call'[c].at][l] # Nil
                              /\ call'[c].step = "done" => next[l] # Nil /\ call'[c].answer = next[l]
        BY <2>1 DEF Callers
      <3>1. CASE call[c].at = i
        BY <2>1, <3>1 DEF Idle
      <3>2. CASE call[c].at # i
        <4>1. call'[c] = call[c] /\ call[c].jti \in Jtis
          BY <2>1, <3>2 DEF RenewalInv, RenewalTypeOK
        <4> QED BY <2>9, <3>2, <4>1 DEF RenewalInv, Callers
      <3> QED BY <3>1, <3>2
    <2> QED BY <2>7, <2>10, <2>11, <2>12, <2>13 DEF RenewalInv
  <1>7. CASE UNCHANGED renewalVars
    BY <1>7 DEF renewalVars, table, RenewalInv, RenewalTypeOK, RowIsLast, Successors, Kept, Flights, Callers
  <1> QED BY <1>1, <1>2, <1>3, <1>4, <1>5, <1>6, <1>7 DEF RenewalNext

\* The invariant holds in every state.
LEMMA RenewalInvHolds == RenewalSpec => []RenewalInv
  <1> QED BY RenewalInitInv, RenewalNextInv, PTL DEF RenewalSpec

\* Row, cache, calls and renewals keep their types: in particular there are no
\* more tokens than moments.
THEOREM RenewalTypeCorrect == RenewalSpec => []RenewalTypeOK
  <1>1. RenewalInv => RenewalTypeOK
    BY DEF RenewalInv
  <1> QED BY <1>1, RenewalInvHolds, PTL

\* All calls with one token get the same new one, over any number of instances,
\* with a shared store or stores of their own, and whatever processes die.
THEOREM SameAnswerForAll == RenewalSpec => []SameAnswer
  <1>1. RenewalInv => SameAnswer
    BY DEF RenewalInv, Callers, SameAnswer
  <1> QED BY <1>1, RenewalInvHolds, PTL

\* A call that waits has a renewal to wait for.
THEOREM NobodyWaitsForNothing == RenewalSpec => []WaitsForSomething
  <1>1. RenewalInv => WaitsForSomething
    BY DEF RenewalInv, Callers, WaitsForSomething
  <1> QED BY <1>1, RenewalInvHolds, PTL

------------------------------------------------------------------------------
(* When a token is refused                                                  *)

\* Every token but the last one has a successor, and none is of the future.
Chain ==
  \A j \in Jtis : /\ j < last => next[j] # Nil
                  /\ next[j] # Nil => next[j] <= last
                  /\ issuedTime[j] <= now

\* A renewal that updated nothing is for a token the row has gone past.
Passed == \A i \in Instances, j \in Jtis : At(i, j, "again") => row # j

\* No successor is lost without a crash: the renewal that made it is about to
\* write it to the cache, or the cache has it until its time is over.
Recorded ==
  Shared /\ crashes = 0 => \A j \in Jtis : next[j] # Nil =>
    \/ \E i \in Instances : At(i, j, "set")
    \/ \A s \in Stores : cache[s][j].to # Nil /\ cache[s][j].until >= issuedTime[next[j]] + Ttl

LateInv == Chain /\ Passed /\ Recorded

\* No token has a successor at first.
LEMMA RenewalInitLate == RenewalInit => LateInv
  <1> SUFFICES ASSUME RenewalInit PROVE LateInv
    OBVIOUS
  <1>1. /\ now = 0 /\ row = 1 /\ last = 1
        /\ \A j \in Jtis : issuedTime[j] = 0 /\ next[j] = Nil /\ j \in Nat /\ j >= 1
        /\ \A i \in Instances, j \in Jtis : flight[i][j] = Nil
    BY DEF RenewalInit, Jtis
  <1> QED BY <1>1 DEF LateInv, Chain, Passed, Recorded, At

\* A step that leaves the row and the cache as they are, and no renewal that is
\* about to write, keeps the successors where they are.
LEMMA NothingWritten ==
  ASSUME RenewalInv, LateInv, UNCHANGED <<table, cache>>, now' >= now, now' \in Nat,
         crashes' = 0 => crashes = 0,
         \A i \in Instances, j \in Jtis : At(i, j, "again")' => At(i, j, "again") \/ row # j,
         crashes' = 0 => \A i \in Instances, j \in Jtis : At(i, j, "set") => At(i, j, "set")'
  PROVE  LateInv'
  <1>1. Chain'
    <2>1. \A j \in Jtis : issuedTime[j] \in Nat /\ issuedTime[j] <= now /\ now \in Nat
      BY DEF LateInv, Chain, RenewalInv, RenewalTypeOK
    <2>2. \A j \in Jtis : issuedTime[j] <= now'
      BY <2>1
    <2> QED BY <2>2 DEF table, LateInv, Chain
  <1>2. Passed'
    BY DEF table, LateInv, Passed
  <1>3. Recorded'
    BY DEF table, LateInv, Recorded
  <1> QED BY <1>1, <1>2, <1>3 DEF LateInv

\* Every step keeps what is known of the successors.
LEMMA RenewalNextLate == ASSUME RenewalInv, LateInv, [RenewalNext]_renewalVars PROVE LateInv'
  <1> USE RenewalAssumption
  <1>0. now \in Nat
    BY DEF RenewalInv, RenewalTypeOK
  <1>1. CASE Tick \/ UNCHANGED renewalVars
    <2>1. UNCHANGED <<table, cache, flight, crashes>> /\ now' \in Nat /\ now' >= now
      BY <1>0, <1>1 DEF Tick, renewalVars, table
    <2> QED BY <2>1, NothingWritten DEF At
  <1>2. CASE Cleanup
    <2>1. row' = Nil /\ UNCHANGED <<now, last, issuedTime, next, cache, flight, crashes>>
      BY <1>2 DEF Cleanup
    <2>2. Passed'
      <3>1. \A j \in Jtis : j # Nil
        BY DEF Jtis
      <3> QED BY <2>1, <3>1 DEF Passed
    <2> QED BY <2>1, <2>2 DEF LateInv, Chain, Recorded, At
  <1>3. ASSUME NEW c \in Calls, NEW i \in Instances, NEW j \in Jtis, Check(c, i, j) PROVE LateInv'
    BY <1>0, <1>3, NothingWritten DEF Check, At
  <1>4. ASSUME NEW c \in Calls, Wrap(c) PROVE LateInv'
    <2> DEFINE i == call[c].at
               j == call[c].jti
               get == [step |-> "get", to |-> Nil]
    <2>1. i \in Instances /\ j \in Jtis
      BY <1>4 DEF Wrap, RenewalInv, RenewalTypeOK, Callers
    <2>2. /\ flight' = [flight EXCEPT ![i][j] = IF @ = Nil THEN get ELSE @]
          /\ UNCHANGED <<now, table, cache, crashes>>
      BY <1>4 DEF Wrap
    <2> HIDE DEF i, j
    <2>3. \A k \in Instances, l \in Jtis : flight'[k][l] = flight[k][l] \/ (flight[k][l] = Nil /\ flight'[k][l] = get)
      BY <2>1, <2>2 DEF RenewalInv, RenewalTypeOK
    <2>4. \A k \in Instances, l \in Jtis : (At(k, l, "again")' => At(k, l, "again")) /\ (At(k, l, "set") => At(k, l, "set")')
      BY <2>3 DEF At
    <2> QED BY <1>0, <2>2, <2>4, NothingWritten
  <1>5. ASSUME NEW i \in Instances, NEW j \in Jtis, Get(i, j) \/ Again(i, j) PROVE LateInv'
    <2>1. ~At(i, j, "set") /\ UNCHANGED <<now, table, cache, crashes>>
      BY <1>5 DEF Get, Again, At
    <2>2. \/ flight' = [flight EXCEPT ![i][j] = Nil]
          \/ \E step \in {"update", "set"} : \E to : flight' = [flight EXCEPT ![i][j] = [step |-> step, to |-> to]]
      BY <1>5 DEF Get, Again, Settle, Go
    <2>3. PICK new : flight' = [flight EXCEPT ![i][j] = new] /\ (new = Nil \/ new.step \in {"update", "set"})
      BY <2>2
    <2>4. \A k \in Instances, l \in Jtis : flight'[k][l] = IF k = i /\ l = j THEN new ELSE flight[k][l]
      BY <2>3 DEF RenewalInv, RenewalTypeOK
    <2>5. \A k \in Instances, l \in Jtis : (At(k, l, "again")' => At(k, l, "again")) /\ (At(k, l, "set") => At(k, l, "set")')
      BY <2>1, <2>3, <2>4 DEF At
    <2> QED BY <1>0, <2>1, <2>5, NothingWritten
  <1>6. ASSUME NEW i \in Instances, NEW j \in Jtis, Update(i, j), row # j PROVE LateInv'
    <2>1. ~At(i, j, "set") /\ UNCHANGED <<now, table, cache, crashes>>
      BY <1>6 DEF Update, At
    <2>2. flight' = [flight EXCEPT ![i][j] = [step |-> "again", to |-> Nil]]
      BY <1>6 DEF Update, Go
    <2>3. \A k \in Instances, l \in Jtis : /\ At(k, l, "again")' => At(k, l, "again") \/ row # l
                                           /\ At(k, l, "set") => At(k, l, "set")'
      <3> DEFINE new == [step |-> "again", to |-> Nil]
      <3>1. \A k \in Instances, l \in Jtis : flight'[k][l] = IF k = i /\ l = j THEN new ELSE flight[k][l]
        BY <2>2 DEF RenewalInv, RenewalTypeOK
      <3>2. new.step = "again"
        OBVIOUS
      <3> HIDE DEF new
      <3> QED BY <1>6, <2>1, <3>1, <3>2 DEF At
    <2> QED BY <1>0, <2>1, <2>3, NothingWritten
  <1>7. ASSUME NEW i \in Instances, NEW j \in Jtis, Update(i, j), row = j PROVE LateInv'
    <2> DEFINE new == [step |-> "set", to |-> last + 1]
    <2>1. /\ At(i, j, "update") /\ row' = last + 1 /\ last' = last + 1
          /\ next' = [next EXCEPT ![j] = last + 1]
          /\ issuedTime' = [issuedTime EXCEPT ![last + 1] = now]
          /\ flight' = [flight EXCEPT ![i][j] = new]
          /\ UNCHANGED <<now, cache, call, crashes>>
      BY <1>7 DEF Update, Go
    <2>2. j = last /\ j \in Nat /\ last \in Nat /\ \A l \in Jtis : l \in Nat /\ l # Nil
      BY <1>7 DEF RenewalInv, RowIsLast, Jtis, RenewalTypeOK
    <2>3. /\ \A l \in Jtis : next'[l] = IF l = j THEN last + 1 ELSE next[l]
          /\ \A l \in Jtis : issuedTime'[l] = IF l = last + 1 THEN now ELSE issuedTime[l]
          /\ \A l \in Jtis : issuedTime[l] \in Nat /\ next[l] \in Jtis \cup {Nil}
          /\ last + 1 # Nil /\ last + 1 \in Nat
      BY <2>1, <2>2 DEF RenewalInv, RenewalTypeOK
    <2>4. Chain'
      BY <1>0, <2>1, <2>2, <2>3 DEF LateInv, Chain
    <2>5. new # Nil /\ new.step = "set"
      <3>1. last + 1 \in Jtis
        BY UpdateKeeps, <1>7, <2>1 DEF RenewalInv, RenewalTypeOK
      <3> QED BY <3>1, StepIsNotNil
    <2> HIDE DEF new
    <2>6. \A k \in Instances, l \in Jtis : flight'[k][l] = IF k = i /\ l = j THEN new ELSE flight[k][l]
      BY <2>1 DEF RenewalInv, RenewalTypeOK
    <2>7. Passed'
      <3> SUFFICES ASSUME NEW k \in Instances, NEW l \in Jtis, At(k, l, "again")' PROVE row' # l
        BY DEF Passed
      <3>1. At(k, l, "again")
        BY <2>5, <2>6 DEF At
      <3>2. l <= last /\ l \in Nat
        BY <2>2, <3>1 DEF RenewalInv, Flights, At
      <3> QED BY <2>1, <2>2, <3>2
    <2>8. Recorded'
      <3> SUFFICES ASSUME Shared, crashes = 0, NEW l \in Jtis, next'[l] # Nil
                   PROVE  \/ \E k \in Instances : At(k, l, "set")'
                          \/ \A s \in Stores : cache[s][l].to # Nil /\ cache[s][l].until >= issuedTime'[next'[l]] + Ttl
        BY <2>1 DEF Recorded, Stores
      <3>1. CASE l = j
        <4>1. At(i, l, "set")'
          BY <2>5, <2>6, <3>1 DEF At
        <4> QED BY <4>1
      <3>2. CASE l # j
        <4>1. next'[l] = next[l] /\ next[l] # Nil /\ next[l] \in Jtis /\ next[l] <= last
          BY <2>3, <3>2 DEF LateInv, Chain
        <4>2. issuedTime'[next'[l]] = issuedTime[next[l]]
          <5>1. next[l] # last + 1
            BY <2>2, <4>1
          <5> QED BY <2>3, <4>1, <5>1
        <4>3. \A k \in Instances : At(k, l, "set") => At(k, l, "set")'
          BY <2>6, <3>2 DEF At
        <4> QED BY <4>1, <4>2, <4>3 DEF LateInv, Recorded
      <3> QED BY <3>1, <3>2
    <2> QED BY <2>4, <2>7, <2>8 DEF LateInv
  <1>8. ASSUME NEW i \in Instances, NEW j \in Jtis, Set(i, j) PROVE LateInv'
    <2> DEFINE entry == [to |-> flight[i][j].to, until |-> now + Ttl]
    <2>1. /\ cache' = [cache EXCEPT ![Store(i)][j] = entry]
          /\ flight' = [flight EXCEPT ![i][j] = Nil]
          /\ UNCHANGED <<now, table, crashes>> /\ At(i, j, "set")
      BY <1>8 DEF Set, Settle
    <2>2. next[j] # Nil /\ flight[i][j].to = next[j]
      BY <2>1 DEF RenewalInv, Flights, At
    <2>3. \A k \in Instances, l \in Jtis : /\ At(k, l, "again")' => At(k, l, "again")
                                           /\ l # j /\ At(k, l, "set") => At(k, l, "set")'
      BY <2>1 DEF At, RenewalInv, RenewalTypeOK
    <2>4. Chain' /\ Passed'
      BY <2>1, <2>3 DEF LateInv, Chain, Passed, table
    <2>5. Recorded'
      <3> SUFFICES ASSUME Shared, crashes = 0, NEW l \in Jtis, next[l] # Nil
                   PROVE  \/ \E k \in Instances : At(k, l, "set")'
                          \/ \A s \in Stores : cache'[s][l].to # Nil /\ cache'[s][l].until >= issuedTime[next[l]] + Ttl
        BY <2>1 DEF Recorded, Stores, table
      <3>1. CASE l = j
        <4>1. \A s \in Stores : cache'[s][l] = entry
          BY <2>1, <3>1 DEF RenewalInv, RenewalTypeOK, Stores, Store
        <4>2. issuedTime[next[l]] <= now /\ issuedTime[next[l]] \in Nat
          BY DEF LateInv, Chain, RenewalInv, RenewalTypeOK
        <4>3. entry.to # Nil /\ entry.until >= issuedTime[next[l]] + Ttl
          BY <1>0, <2>2, <3>1, <4>2
        <4> QED BY <4>1, <4>3
      <3>2. CASE l # j
        <4>1. \A s \in Stores : cache'[s][l] = cache[s][l]
          BY <2>1, <3>2 DEF RenewalInv, RenewalTypeOK
        <4> QED BY <2>3, <3>2, <4>1 DEF LateInv, Recorded
      <3> QED BY <3>1, <3>2
    <2> QED BY <2>4, <2>5 DEF LateInv
  <1>9. ASSUME NEW i \in Instances, Crash(i) PROVE LateInv'
    <2>1. /\ crashes' # 0
          /\ UNCHANGED <<now, row, last, issuedTime, next>>
          /\ flight' = [flight EXCEPT ![i] = [j \in Jtis |-> Nil]]
      BY <1>9 DEF Crash, table, RenewalInv, RenewalTypeOK
    <2>2. \A k \in Instances, j \in Jtis : At(k, j, "again")' => At(k, j, "again")
      BY <2>1 DEF At, RenewalInv, RenewalTypeOK
    <2> QED BY <2>1, <2>2 DEF LateInv, Chain, Passed, Recorded
  <1> QED BY <1>1, <1>2, <1>3, <1>4, <1>5, <1>6, <1>7, <1>8, <1>9 DEF RenewalNext, Renewing

\* The only refusal is that of Again, when there is nothing in the cache.
LEMMA RefusedByAgain ==
  ASSUME RenewalInv, [RenewalNext]_renewalVars, NEW c \in Calls, call[c].step = "wait", call'[c].step = "failed"
  PROVE  Again(call[c].at, call[c].jti) /\ Cached(call[c].at, call[c].jti) = Nil
  <1> DEFINE T == [at : Instances \cup {Nil}, jti : Jtis,
                   step : {"idle", "wrap", "wait", "done", "failed"}, answer : Jtis \cup {Nil}]
  <1>1. call \in [Calls -> T]
    BY DEF RenewalInv, RenewalTypeOK
  <1>2. ASSUME NEW d \in Calls, NEW i \in Instances, NEW j \in Jtis, Check(d, i, j) PROVE FALSE
    <2>1. d # c => call'[c] = call[c]
      BY <1>1, <1>2 DEF Check
    <2>2. d # c
      BY <1>2 DEF Check
    <2> QED BY <2>1, <2>2
  <1>3. ASSUME NEW d \in Calls, Wrap(d) PROVE FALSE
    <2>1. d # c => call'[c] = call[c]
      BY <1>1, <1>3 DEF Wrap
    <2>2. d # c
      BY <1>3 DEF Wrap
    <2> QED BY <2>1, <2>2
  <1>4. ASSUME NEW i \in Instances, NEW j \in Jtis, NEW step, NEW answer, Settle(i, j, step, answer)
        PROVE  step = "failed" /\ call[c].at = i /\ call[c].jti = j
    <2>1. call'[c] = IF c \in Waiting(i, j) THEN [call[c] EXCEPT !.step = step, !.answer = answer] ELSE call[c]
      BY <1>4 DEF Settle
    <2>2. c \in Waiting(i, j)
      BY <2>1
    <2>3. call'[c].step = step
      BY <1>1, <2>1, <2>2
    <2> QED BY <2>2, <2>3 DEF Waiting
  <1>5. ASSUME NEW i \in Instances, Crash(i) PROVE FALSE
    BY <1>5 DEF Crash, Idle
  <1>6. ASSUME NEW i \in Instances, NEW j \in Jtis, Renewing(i, j)
        PROVE  Again(i, j) /\ Cached(i, j) = Nil /\ call[c].at = i /\ call[c].jti = j
    <2>1. Again(i, j) /\ Cached(i, j) = Nil
      BY <1>4, <1>6 DEF Renewing, Get, Update, Again, Set
    <2> QED BY <1>4, <2>1 DEF Again
  <1> QED BY <1>2, <1>3, <1>5, <1>6 DEF RenewalNext, Tick, Cleanup, renewalVars

\* With a shared store a token is refused only when its session is gone, when a
\* process has died, when its successor's time in the cache is over, or while
\* the renewal on another instance has yet to write it there.
THEOREM RefusalsAreLate == RenewalSpec => RefusedOnlyLate
  <1> DEFINE Late == Shared => \A c \in Calls : call[c].step = "wait" /\ call'[c].step = "failed" =>
                       LET j == call[c].jti
                       IN  \/ row = Nil \/ crashes > 0
                           \/ next[j] # Nil /\ now >= issuedTime[next[j]] + Ttl
                           \/ \E i \in Instances \ {call[c].at} : At(i, j, "set")
  <1>1. ASSUME RenewalInv, LateInv, [RenewalNext]_renewalVars PROVE Late
    <2> SUFFICES ASSUME Shared, NEW c \in Calls, call[c].step = "wait", call'[c].step = "failed",
                        row # Nil, crashes = 0
                 PROVE  LET j == call[c].jti
                        IN  \/ next[j] # Nil /\ now >= issuedTime[next[j]] + Ttl
                            \/ \E i \in Instances \ {call[c].at} : At(i, j, "set")
      BY <1>1 DEF RenewalInv, RenewalTypeOK
    <2> DEFINE i == call[c].at
               j == call[c].jti
    <2>1. i \in Instances /\ j \in Jtis /\ j <= last
      BY <1>1 DEF RenewalInv, Callers, RenewalTypeOK
    <2>2. At(i, j, "again") /\ Cached(i, j) = Nil
      BY <1>1, RefusedByAgain DEF Again
    <2> HIDE DEF i, j
    <2>3. next[j] # Nil
      <3>1. row = last /\ row # j
        BY <1>1, <2>1, <2>2 DEF RenewalInv, RowIsLast, LateInv, Passed
      <3>2. j \in Nat /\ last \in Nat
        BY <1>1, <2>1 DEF RenewalInv, RenewalTypeOK, Jtis
      <3>3. j < last
        BY <2>1, <3>1, <3>2
      <3> QED BY <1>1, <2>1, <3>3 DEF LateInv, Chain
    <2>4. CASE \E k \in Instances : At(k, j, "set")
      <3>1. ~At(i, j, "set")
        BY <2>2 DEF At
      <3> QED BY <2>4, <3>1 DEF i, j
    <2>5. CASE ~\E k \in Instances : At(k, j, "set")
      <3> DEFINE entry == cache[Store(i)][j]
      <3>1. Store(i) \in Stores
        BY <1>1, <2>1, CachedIsNext
      <3>2. entry.to # Nil /\ entry.until >= issuedTime[next[j]] + Ttl
        BY <1>1, <2>1, <2>3, <2>5, <3>1 DEF LateInv, Recorded
      <3>3. entry.until <= now
        <4>1. entry.until \in Nat /\ now \in Nat
          BY <1>1, <2>1, <3>1 DEF RenewalInv, RenewalTypeOK
        <4> QED BY <2>2, <3>2, <4>1 DEF Cached
      <3>4. entry.until \in Nat /\ now \in Nat /\ issuedTime[next[j]] \in Nat /\ Ttl \in Nat
        BY <1>1, <2>1, <2>3, <3>1, RenewalAssumption DEF RenewalInv, RenewalTypeOK
      <3> HIDE DEF entry
      <3>5. now >= issuedTime[next[j]] + Ttl
        BY <3>2, <3>3, <3>4
      <3> QED BY <2>3, <3>5 DEF j
    <2> QED BY <2>4, <2>5
  <1>2. ASSUME RenewalInv, LateInv, [RenewalNext]_renewalVars PROVE [Late]_renewalVars
    BY <1>1, <1>2
  <1>3. RenewalInv /\ LateInv /\ [RenewalNext]_renewalVars => LateInv'
    BY RenewalNextLate
  <1>4. RenewalInv /\ LateInv /\ [RenewalNext]_renewalVars => [Late]_renewalVars
    BY <1>2
  <1> QED BY <1>3, <1>4, RenewalInitLate, RenewalInvHolds, PTL DEF RenewalSpec, RefusedOnlyLate
==============================================================================
