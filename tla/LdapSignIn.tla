------------------------------ MODULE LdapSignIn ------------------------------
(***************************************************************************)
(* Sign-ins through an LDAP server: LDAPAuth.validate in its three bind    *)
(* modes, over a connection of its own for each attempt, and the user that *)
(* AuthModel finds or creates for it.  Attempts of one account overlap, the *)
(* directory changes between two of an attempt's requests, and any of them *)
(* may fail.                                                                *)
(***************************************************************************)
EXTENDS Naturals, FiniteSets

CONSTANTS
  Attempts,
  Names,         \* login ids, which are the values of the username attribute
  Passwords,
  None,
  Modes,         \* bound: of "service", "template", "anonymous", what bindDN says
  LocalUsers,    \* names of users who were created without LDAP
  MaxFailures,   \* bound: requests to the server or the database that fail
  MaxChanges,    \* bound: changes of the directory
  MaxTries       \* bound: sign-ins that are begun

ASSUME LdapAssumption ==
  /\ Modes \subseteq {"service", "template", "anonymous"}
  /\ LocalUsers \subseteq Names /\ IsFiniteSet(LocalUsers)
  /\ None \notin Names \cup Passwords \cup Nat
  /\ MaxFailures \in Nat /\ MaxChanges \in Nat /\ MaxTries \in Nat

VARIABLES
  options,  \* of the authenticator: how it binds, autoSignup
  dir,      \* directory: name -> password of its entry, None for no entry
  users,    \* users: id, username, uuid of the link to the authenticator or None
  attempt,  \* attempt -> what was typed, where it is and what it has found
  failures, changes, tries   \* ghost counters

signInVars == <<options, dir, users, attempt, failures, changes, tries>>

Fresh == [step |-> "idle", name |-> None, password |-> None, open |-> FALSE,
          bound |-> None, found |-> None, user |-> None, why |-> "none"]

NewId == Cardinality(users) + 1
Linked(name) == {u \in users : u.uuid = name}
Taken(name)  == \E u \in users : u.username = name

SignInInit ==
  /\ options \in [bind : Modes, autoSignup : BOOLEAN]
  /\ dir \in [Names -> Passwords]
  /\ \E id \in [LocalUsers -> 1..Cardinality(LocalUsers)] :
       /\ \A m, n \in LocalUsers : id[m] = id[n] => m = n
       /\ users = {[id |-> id[n], username |-> n, uuid |-> None] : n \in LocalUsers}
  /\ attempt = [a \in Attempts |-> Fresh]
  /\ failures = 0 /\ changes = 0 /\ tries = 0

\* The directory is administered elsewhere: passwords change, entries go.
Administer(n, p) ==
  /\ changes < MaxChanges
  /\ dir[n] # p
  /\ changes' = changes + 1
  /\ dir' = [dir EXCEPT ![n] = p]
  /\ UNCHANGED <<options, users, attempt, failures, tries>>

------------------------------------------------------------------------------
(* validate                                                                 *)

Goes(a, step)      == attempt' = [attempt EXCEPT ![a].step = step]
\* Every way out of the try block comes to the finally block.
Fails(a, why)      == attempt' = [attempt EXCEPT ![a].step = "unbind", ![a].why = why]
Succeeds(a, user)  == attempt' = [attempt EXCEPT ![a].step = "unbind", ![a].user = user]
Others             == UNCHANGED <<options, dir, users, failures, changes, tries>>

Begin(a, n, p) ==
  /\ attempt[a].step \in {"idle", "done", "failed"} /\ tries < MaxTries
  /\ tries' = tries + 1
  /\ attempt' = [attempt EXCEPT ![a] = [Fresh EXCEPT !.step = "connect", !.name = n, !.password = p,
                                                     !.open = TRUE]]
  /\ UNCHANGED <<options, dir, users, failures, changes>>

\* connect, and which request is the first.
Connect(a) ==
  /\ attempt[a].step = "connect"
  /\ Goes(a, CASE options.bind = "service" -> "bindService"
               [] options.bind = "template" -> "bindLogin"
               [] options.bind = "anonymous" -> "search")
  /\ Others

BindService(a) ==
  /\ attempt[a].step = "bindService"
  /\ attempt' = [attempt EXCEPT ![a].step = "search", ![a].bound = "service"]
  /\ Others

Accepts(name, password) == dir[name] # None /\ dir[name] = password

\* The DN that $login makes is bound before anything is searched.
BindLogin(a) ==
  /\ attempt[a].step = "bindLogin"
  /\ IF Accepts(attempt[a].name, attempt[a].password)
     THEN attempt' = [attempt EXCEPT ![a].step = "search", ![a].bound = attempt[a].name]
     ELSE Fails(a, "credentials")
  /\ Others

\* Mutant of Search: what is found is signed in at once, in every mode.
SearchIsEnough(a) ==
  /\ attempt[a].step = "search"
  /\ IF dir[attempt[a].name] = None THEN Fails(a, "credentials")
     ELSE attempt' = [attempt EXCEPT ![a].found = attempt[a].name, ![a].step = "find"]
  /\ Others

\* findUser: the entry of the login id.
Search(a) ==
  /\ attempt[a].step = "search"
  /\ IF dir[attempt[a].name] = None THEN Fails(a, "credentials")
     ELSE attempt' = [attempt EXCEPT ![a].found = attempt[a].name,
                                     ![a].step = IF options.bind = "template" THEN "find" ELSE "bindUser"]
  /\ Others

\* The DN that was found is bound with the password.
BindUser(a) ==
  /\ attempt[a].step = "bindUser"
  /\ IF Accepts(attempt[a].found, attempt[a].password)
     THEN attempt' = [attempt EXCEPT ![a].step = "find", ![a].bound = attempt[a].found]
     ELSE Fails(a, "credentials")
  /\ Others

\* A request to the server is refused, lost or timed out.
LdapFails(a) ==
  /\ attempt[a].step \in {"connect", "bindService", "bindLogin", "search", "bindUser"}
  /\ failures < MaxFailures
  /\ failures' = failures + 1
  /\ Fails(a, "fault")
  /\ UNCHANGED <<options, dir, users, changes, tries>>

\* handleSignin, findOrCreateUser: the user that is linked to the login id.
FindUser(a) ==
  /\ attempt[a].step = "find"
  /\ \/ \E u \in Linked(attempt[a].found) : Succeeds(a, u.id)
     \/ /\ Linked(attempt[a].found) = {}
        /\ IF options.autoSignup THEN Goes(a, "create") ELSE Fails(a, "unregistered")
  /\ Others

\* Mutant of NewUser: nothing keeps user names apart.
NewUserNotUnique(a) ==
  LET n == attempt[a].found
  IN  /\ attempt[a].step = "create"
      /\ Succeeds(a, NewId)
      /\ users' = users \cup {[id |-> NewId, username |-> n, uuid |-> n]}
      /\ UNCHANGED <<options, dir, failures, changes, tries>>

\* Mutant of NewUser: the user is created without a link.
NewUserNotLinked(a) ==
  LET n == attempt[a].found
  IN  /\ attempt[a].step = "create"
      /\ IF Taken(n) THEN Fails(a, "conflict") /\ UNCHANGED users
         ELSE /\ Succeeds(a, NewId)
              /\ users' = users \cup {[id |-> NewId, username |-> n, uuid |-> None]}
      /\ UNCHANGED <<options, dir, failures, changes, tries>>

\* newUser: user and link in one transaction, unless the user name is taken.
NewUser(a) ==
  LET n == attempt[a].found
  IN  /\ attempt[a].step = "create"
      /\ IF Taken(n) THEN Fails(a, "conflict") /\ UNCHANGED users
         ELSE /\ Succeeds(a, NewId)
              /\ users' = users \cup {[id |-> NewId, username |-> n, uuid |-> n]}
      /\ UNCHANGED <<options, dir, failures, changes, tries>>

\* The transaction is rolled back, for a listener or the database.
NewUserFails(a) ==
  /\ attempt[a].step = "create"
  /\ failures < MaxFailures
  /\ failures' = failures + 1
  /\ Fails(a, "fault")
  /\ UNCHANGED <<options, dir, users, changes, tries>>

\* unbind: whether or not the server answers, the connection is destroyed.
Unbind(a) ==
  /\ attempt[a].step = "unbind"
  /\ attempt' = [attempt EXCEPT ![a].open = FALSE,
                                ![a].step = IF attempt[a].user = None THEN "failed" ELSE "token"]
  /\ Others

------------------------------------------------------------------------------
(* signIn                                                                   *)

\* signNewToken, with its row in issuedTokens.
SignNewToken(a) ==
  /\ attempt[a].step = "token"
  /\ Goes(a, "done")
  /\ Others

SignNewTokenFails(a) ==
  /\ attempt[a].step = "token"
  /\ failures < MaxFailures
  /\ failures' = failures + 1
  /\ attempt' = [attempt EXCEPT ![a].step = "failed", ![a].why = "fault"]
  /\ UNCHANGED <<options, dir, users, changes, tries>>

Progress(a) ==
  \/ Connect(a) \/ BindService(a) \/ BindLogin(a) \/ Search(a) \/ BindUser(a)
  \/ FindUser(a) \/ NewUser(a) \/ Unbind(a) \/ SignNewToken(a)

SignInNext ==
  \/ \E n \in Names, p \in Passwords \cup {None} : Administer(n, p)
  \/ \E a \in Attempts :
       \/ \E n \in Names, p \in Passwords : Begin(a, n, p)
       \/ Progress(a)
       \/ LdapFails(a) \/ NewUserFails(a) \/ SignNewTokenFails(a)

SignInSpec == SignInInit /\ [][SignInNext]_signInVars

------------------------------------------------------------------------------
(* Properties                                                               *)

Steps == {"idle", "connect", "bindService", "bindLogin", "search", "bindUser", "find", "create",
          "unbind", "token", "done", "failed"}

AttemptStates ==
  [step : Steps, name : Names \cup {None}, password : Passwords \cup {None}, open : BOOLEAN,
   bound : Names \cup {None, "service"}, found : Names \cup {None}, user : Nat \cup {None},
   why : {"none", "credentials", "fault", "unregistered", "conflict"}]

\* Types of the directory, the users and the attempts.
SignInTypeOK ==
  /\ options \in [bind : Modes, autoSignup : BOOLEAN]
  /\ dir \in [Names -> Passwords \cup {None}]
  /\ users \subseteq [id : Nat, username : Names, uuid : Names \cup {None}]
  /\ attempt \in [Attempts -> AttemptStates]

\* However attempts of one account overlap, there is one user for it, and all
\* who signed in with it are that user.
OneUserPerAccount ==
  /\ \A u, v \in users : u.uuid # None /\ u.uuid = v.uuid => u = v
  /\ \A a \in Attempts : attempt[a].user # None =>
       \E u \in users : u.id = attempt[a].user /\ u.uuid = attempt[a].name

\* In each mode, a user is found or created only after the server accepted the
\* typed password for the entry that the user is made of.
PasswordWasAccepted ==
  \A a \in Attempts : attempt[a].step \in {"find", "create"} \/ attempt[a].user # None =>
    attempt[a].bound = attempt[a].found /\ attempt[a].found = attempt[a].name

\* The attempt that loses a race for the first sign-in finds the user when it
\* is tried again, unless a user without LDAP has the name.
ConflictIsOverNextTime ==
  \A a \in Attempts : attempt[a].why = "conflict" =>
    Linked(attempt[a].name) # {} \/ attempt[a].name \in LocalUsers

\* No attempt that was answered leaves a connection to the server.
NoConnectionLeft == \A a \in Attempts : attempt[a].step \in {"idle", "token", "done", "failed"} => ~attempt[a].open

\* With autoSignup, an account whose password is accepted signs in, unless the
\* server or the database fails.
AcceptedSignsIn ==
  options.autoSignup => \A a \in Attempts : attempt[a].step = "failed" => attempt[a].why \in {"credentials", "fault"}
===============================================================================
