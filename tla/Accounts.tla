------------------------------ MODULE Accounts ------------------------------
(* Accounts and browser sessions (auth/service.ts).  A password is the number   *)
(* of times it was set: 0 is no account.  Hashing and verifying take long, so a *)
(* handler's reads and writes are steps of their own.                           *)
EXTENDS Naturals, FiniteSets

CONSTANTS
    Emails,         \* users, by their address
    AuthRequests,   \* requests of the auth controller, each served once
    MaxPassword,    \* bound: times a password is set
    MaxAuthCrashes  \* bound: restarts of the API process

VARIABLES
    password,   \* committed users.password_hash of each user
    admins,     \* users with the instance_admin role
    sessions,   \* rows of sessions
    auth,       \* progress of each handler
    outcome     \* what was answered, and restarts, for the properties

authVars == <<password, admins, sessions, auth, outcome>>

NoAuth == [pc |-> "idle"]
Session == [user : Emails, by : AuthRequests, seen : Nat,
            raced : BOOLEAN]  \* the password was being changed when it was inserted
Auth == [pc : {"open", "verified", "hashed", "updated", "emptied", "ended"},
         kind : {"setup", "login", "change", "reset"},
         user : Emails, seen : Nat, gone : SUBSET Session]

AccountsTypeOK ==
    /\ password \in [Emails -> Nat]
    /\ admins \subseteq Emails
    /\ sessions \subseteq Session
    /\ auth \in [AuthRequests -> Auth \cup {NoAuth}]
    /\ outcome \in [changed : [Emails -> Nat], crashes : Nat]

AccountsInit ==
    /\ password = [u \in Emails |-> 0]
    /\ admins = {}
    /\ sessions = {}
    /\ auth = [h \in AuthRequests |-> NoAuth]
    /\ outcome = [changed |-> [u \in Emails |-> 0], crashes |-> 0]

------------------------------------------------------------------------------
Open(h) == auth[h].pc \notin {"idle", "ended"}
At(h, kind, pc) == auth[h] # NoAuth /\ auth[h].kind = kind /\ auth[h].pc = pc

Begin(h, kind, pc, u) ==
    /\ auth[h] = NoAuth
    /\ auth' = [auth EXCEPT ![h] = [pc |-> pc, kind |-> kind, user |-> u,
                   seen |-> password[u], gone |-> {}]]

Close(h) == auth' = [auth EXCEPT ![h].pc = "ended", ![h].gone = {}]

(* A reset holds the row of the user until it commits.                          *)
UserLocked(u) == \E h \in AuthRequests :
                     /\ auth[h] # NoAuth /\ auth[h].kind = "reset"
                     /\ auth[h].pc \in {"updated", "emptied"}
                     /\ auth[h].user = u

SessionsOf(u) == {s \in sessions : s.user = u}

(* setup: isInitialized, then, a hash later, the first account with its         *)
(* workspace, owner and default states.  E-mail addresses are unique.           *)
SetupRead(h, u) ==
    /\ \A v \in Emails : password[v] = 0
    /\ Begin(h, "setup", "open", u)
    /\ UNCHANGED <<password, admins, sessions, outcome>>

SetupCommit(h) ==
    LET u == auth[h].user IN
    /\ At(h, "setup", "open")
    /\ IF password[u] = 0
       THEN /\ password' = [password EXCEPT ![u] = 1]
            /\ admins' = admins \cup {u}
            /\ auth' = [auth EXCEPT ![h].kind = "login", ![h].pc = "verified", ![h].seen = 1]
       ELSE Close(h) /\ UNCHANGED <<password, admins>>
    /\ UNCHANGED <<sessions, outcome>>

(* login: the password is verified against the row read first; the session is   *)
(* inserted whatever the row has become.                                        *)
LoginRead(h, u) ==
    /\ password[u] # 0
    /\ Begin(h, "login", "verified", u)
    /\ UNCHANGED <<password, admins, sessions, outcome>>

(* createSession                                                                *)
LoginInsert(h) ==
    /\ At(h, "login", "verified")
    /\ sessions' = sessions \cup {[user |-> auth[h].user, by |-> h, seen |-> auth[h].seen,
             raced |-> password[auth[h].user] # auth[h].seen \/ UserLocked(auth[h].user)]}
    /\ Close(h)
    /\ UNCHANGED <<password, admins, outcome>>

Logout(s) ==
    /\ s \in sessions
    /\ sessions' = sessions \ {s}
    /\ UNCHANGED <<password, admins, auth, outcome>>

------------------------------------------------------------------------------
(* changePassword: verified against what it read, one UPDATE, then one DELETE.  *)
ChangeRead(h, s) ==
    /\ s \in sessions
    /\ password[s.user] < MaxPassword
    /\ Begin(h, "change", "hashed", s.user)
    /\ UNCHANGED <<password, admins, sessions, outcome>>

ChangeUpdate(h) ==
    LET u == auth[h].user IN
    /\ At(h, "change", "hashed")
    /\ ~UserLocked(u)
    /\ password' = [password EXCEPT ![u] = @ + 1]
    /\ auth' = [auth EXCEPT ![h].pc = "updated", ![h].seen = password[u] + 1]
    /\ UNCHANGED <<admins, sessions, outcome>>

Answered(h) == outcome' = [outcome EXCEPT !.changed[auth[h].user] =
                             IF auth[h].seen > @ THEN auth[h].seen ELSE @]

OlderSessions(h) ==  \* mutant: sessions opened with the replaced password are kept
    {s \in SessionsOf(auth[h].user) : s.seen + 1 < auth[h].seen}
DeletedSessions(h) == SessionsOf(auth[h].user)

ChangeDelete(h) ==
    /\ At(h, "change", "updated")
    /\ sessions' = sessions \ DeletedSessions(h)
    /\ Close(h)
    /\ Answered(h)
    /\ UNCHANGED <<password, admins>>

(* resetPassword: an administrator; UPDATE and DELETE in one transaction.       *)
ResetRead(h, s, u) ==
    /\ s \in sessions /\ s.user \in admins
    /\ password[u] \in 1 .. MaxPassword - 1
    /\ Begin(h, "reset", "hashed", u)
    /\ UNCHANGED <<password, admins, sessions, outcome>>

ResetUpdate(h) ==
    /\ At(h, "reset", "hashed")
    /\ ~UserLocked(auth[h].user)
    /\ auth' = [auth EXCEPT ![h].pc = "updated", ![h].seen = password[auth[h].user] + 1]
    /\ UNCHANGED <<password, admins, sessions, outcome>>

ResetDelete(h) ==
    /\ At(h, "reset", "updated")
    /\ auth' = [auth EXCEPT ![h].pc = "emptied", ![h].gone = DeletedSessions(h)]
    /\ UNCHANGED <<password, admins, sessions, outcome>>

ResetCommit(h) ==
    /\ At(h, "reset", "emptied")
    /\ password' = [password EXCEPT ![auth[h].user] = auth[h].seen]
    /\ sessions' = sessions \ auth[h].gone
    /\ Close(h)
    /\ Answered(h)
    /\ UNCHANGED admins

(* createAccount hashes before its one INSERT.                                  *)
CreateAccount(s, u) ==
    /\ s \in sessions /\ s.user \in admins
    /\ password[u] = 0
    /\ password' = [password EXCEPT ![u] = 1]
    /\ UNCHANGED <<admins, sessions, auth, outcome>>

AuthCrash ==
    /\ outcome.crashes < MaxAuthCrashes
    /\ auth' = [h \in AuthRequests |->
                   IF Open(h) THEN [auth[h] EXCEPT !.pc = "ended", !.gone = {}] ELSE auth[h]]
    /\ outcome' = [outcome EXCEPT !.crashes = @ + 1]
    /\ UNCHANGED <<password, admins, sessions>>

AccountsNext ==
    \/ \E h \in AuthRequests :
          \/ \E u \in Emails : SetupRead(h, u) \/ LoginRead(h, u)
          \/ \E s \in sessions : ChangeRead(h, s) \/ \E u \in Emails : ResetRead(h, s, u)
          \/ SetupCommit(h) \/ LoginInsert(h) \/ ChangeUpdate(h) \/ ChangeDelete(h)
          \/ ResetUpdate(h) \/ ResetDelete(h) \/ ResetCommit(h)
    \/ \E s \in sessions : Logout(s) \/ \E u \in Emails : CreateAccount(s, u)
    \/ AuthCrash

AccountsSpec == AccountsInit /\ [][AccountsNext]_authVars

------------------------------------------------------------------------------
(* When a new password has been answered for, no session opened with an older   *)
(* one is left, but for a login that was inserting it meanwhile.                *)
OldSessionsEnd ==
    \A s \in sessions : s.seen < outcome.changed[s.user] => s.raced
=============================================================================
