------------------------------ MODULE Sessions ------------------------------
(***************************************************************************)
(* Accounts, sessions and verification tokens of packages/auth: register,  *)
(* login, getSession, logout, passwordReset and emailVerification          *)
(* (core/auth.ts) over core/session-manager.ts. Each is an asynchronous    *)
(* function; a step is one query on the three tables with the code up to   *)
(* the next one, so that calls interleave at every await.                  *)
(*                                                                         *)
(* A session token is a JWT of the user's data and of the second it was    *)
(* issued in, nothing random: <<email, second>>. The outcome of hashing    *)
(* and comparing passwords depends on the row that was read alone. A call  *)
(* that throws before it changes anything is a step that is not taken:     *)
(* unknown users, wrong passwords and codes, refusals of the limiter       *)
(* (RateLimiter). The user's callbacks change no table.                    *)
(*                                                                         *)
(* The database is SQLite with the tables of packages/auth/src/schema:     *)
(* sessions and tokens are inserted without an id, which as a primary key  *)
(* of type uuid only SQLite takes, and dates come back as ISO strings.     *)
(***************************************************************************)
EXTENDS Integers, FiniteSets

CONSTANTS
  Emails, Passwords,
  Tokens,     \* verification tokens that can be generated (each once)
  Calls,      \* calls that may be in flight at once
  NoCall, NoUser,
  MaxAge,     \* session.maxAge
  TokenAge,   \* how long a verification token lives
  LastSecond, \* bound on the clock
  MaxUses     \* bound on the resets started with one token

VARIABLES
  strategy,   \* session.strategy
  users,      \* auth_users by its unique email
  sessions,   \* auth_sessions
  tokens,     \* auth_verification_tokens
  second,     \* Date.now()
  call,       \* calls suspended at an await
  generated,  \* history: tokens ever generated
  uses,       \* history: password changes made with a token
  excused,    \* history: tokens found twice before being deleted, or kept by a failure
  halfReset   \* history: emails whose last reset failed after its password change
sessionsVars == <<strategy, users, sessions, tokens, second, call, generated, uses, excused, halfReset>>

Strategies == {"jwt", "database"}

\* version and late are history: how often the password had been changed
\* when the login read it, and whether it was out of date when stored.
Users == [password : Passwords, verified : BOOLEAN, version : Nat]
Sessions == [email : Emails, issued : Nat, expires : Nat, version : Nat, late : BOOLEAN]
TokenRows == [token : Tokens, email : Emails, expires : Nat]

\* The calls in flight, by the await they are at.
Registering == [pc : {"insertUser"}, email : Emails, password : Passwords]
LoggingIn   == [pc : {"issue"}, email : Emails, version : Nat]
Storing     == [pc : {"storeSession"}, email : Emails, issued : Nat, version : Nat]
Reading     == [pc : {"readUser", "revoke"}, op : {"getSession", "logout"}, email : Emails, issued : Nat]
Creating    == [pc : {"insertToken"}, row : TokenRows]
Verifying   == [pc : {"setPassword", "setVerified", "dropToken", "revokeAll"}, row : TokenRows,
                password : Passwords, reset : BOOLEAN]
InFlight    == Registering \cup LoggingIn \cup Storing \cup Reading \cup Creating \cup Verifying

ASSUME SessionsConstantsOK ==
  /\ {MaxAge, TokenAge, LastSecond, MaxUses} \subseteq Nat
  /\ NoUser \notin Users /\ NoCall \notin InFlight

SessionsInit ==
  /\ strategy \in Strategies
  /\ users = [e \in Emails |-> NoUser]
  /\ sessions = {} /\ tokens = {}
  /\ second = 0
  /\ call = [c \in Calls |-> NoCall]
  /\ generated = {} /\ excused = {} /\ halfReset = {}
  /\ uses = [t \in Tokens |-> 0]

Idle(c) == call[c] = NoCall
At(c, pc) == ~Idle(c) /\ call[c].pc = pc
Goto(c, next) == call' = [call EXCEPT ![c] = next]
Return(c) == Goto(c, NoCall)
history == <<generated, uses, excused, halfReset>>

-----------------------------------------------------------------------------
\* register and login.

\* createSession up to its insert: with the jwt strategy that is all.
Issued(e, version) ==
  IF strategy = "jwt" THEN NoCall
  ELSE [pc |-> "storeSession", email |-> e, issued |-> second, version |-> version]

\* register: the email is free.
FindNoUser(c, e, p) ==
  /\ Idle(c) /\ users[e] = NoUser
  /\ Goto(c, [pc |-> "insertUser", email |-> e, password |-> p])
  /\ UNCHANGED <<strategy, users, sessions, tokens, second, history>>

\* The unique email decides between two registrations: the second throws.
InsertUser(c) ==
  /\ At(c, "insertUser")
  /\ LET e == call[c].email
     IN  IF users[e] = NoUser
         THEN /\ users' = [users EXCEPT ![e] =
                             [password |-> call[c].password, verified |-> FALSE, version |-> 0]]
              /\ Goto(c, Issued(e, 0))
         ELSE Return(c) /\ UNCHANGED users
  /\ UNCHANGED <<strategy, sessions, tokens, second, history>>

\* loginWithCredentials: the row is read here, the password (and code)
\* compared with it later.
FindUser(c, e, p) ==
  /\ Idle(c) /\ users[e] # NoUser /\ users[e].password = p
  /\ Goto(c, [pc |-> "issue", email |-> e, version |-> users[e].version])
  /\ UNCHANGED <<strategy, users, sessions, tokens, second, history>>

IssueToken(c) ==
  /\ At(c, "issue")
  /\ Goto(c, Issued(call[c].email, call[c].version))
  /\ UNCHANGED <<strategy, users, sessions, tokens, second, history>>

\* createSession: tokens are unique, and a second login in the same second
\* makes the same token, so its insert fails and the login throws.
StoreSession(c) ==
  /\ At(c, "storeSession")
  /\ LET r == call[c]
         clash == \E s \in sessions : s.email = r.email /\ s.issued = r.issued
     IN  sessions' = IF clash THEN sessions
                     ELSE sessions \cup
                       {[email |-> r.email, issued |-> r.issued, expires |-> r.issued + MaxAge,
                         version |-> r.version, late |-> r.version # users[r.email].version]}
  /\ Return(c)
  /\ UNCHANGED <<strategy, users, tokens, second, history>>

-----------------------------------------------------------------------------
\* getSession and logout.

\* validateSession on the token <<e, i>>: the signature's expiry first, then
\* the row (database strategy), then the user. The query for the row takes
\* its columns from properties the table does not have and does not compile:
\* with the database strategy getSession and logout of a genuine token throw.
Genuine(e, i) == i + MaxAge > second

FindSession(c, op, e, i) ==
  /\ Idle(c) /\ i <= second
  /\ IF Genuine(e, i) THEN strategy = "jwt" ELSE op = "logout"
  /\ Goto(c, [pc |-> IF Genuine(e, i) THEN "readUser" ELSE "revoke", op |-> op, email |-> e, issued |-> i])
  /\ UNCHANGED <<strategy, users, sessions, tokens, second, history>>

\* validateSession's last query; getSession returns, logout calls onLogout
\* and goes on to revokeSession, which does nothing to a JWT.
ReadUser(c) ==
  /\ At(c, "readUser")
  /\ IF call[c].op = "logout" THEN Goto(c, [call[c] EXCEPT !.pc = "revoke"]) ELSE Return(c)
  /\ UNCHANGED <<strategy, users, sessions, tokens, second, history>>

RevokeSession(c) ==
  /\ At(c, "revoke")
  /\ sessions' = IF strategy = "jwt" THEN sessions
                 ELSE {s \in sessions : s.email # call[c].email \/ s.issued # call[c].issued}
  /\ Return(c)
  /\ UNCHANGED <<strategy, users, tokens, second, history>>

-----------------------------------------------------------------------------
\* passwordReset and emailVerification. Both kinds of token are rows of one
\* table, found by the token alone.

\* create of either: the user is there.
FindOwner(c, e) ==
  /\ Idle(c) /\ users[e] # NoUser
  /\ \E t \in Tokens \ generated :
       /\ Goto(c, [pc |-> "insertToken", row |-> [token |-> t, email |-> e, expires |-> second + TokenAge]])
       /\ generated' = generated \cup {t}
  /\ UNCHANGED <<strategy, users, sessions, tokens, second, uses, excused, halfReset>>

InsertToken(c) ==
  /\ At(c, "insertToken")
  /\ tokens' = tokens \cup {call[c].row}
  /\ Return(c)
  /\ UNCHANGED <<strategy, users, sessions, second, history>>

Holding(t) == {c \in Calls : ~Idle(c) /\ call[c].pc \in {"setPassword", "setVerified", "dropToken"}
                                      /\ call[c].row.token = t}

\* verify of either: an unknown token is refused. An expired one is not:
\* compared with a Date, the ISO string of expiresAt is NaN.
FindToken(c, row, then, p) ==
  /\ Idle(c) /\ row \in tokens
  /\ then = "setPassword" => uses[row.token] + Cardinality(Holding(row.token)) < MaxUses
  /\ Goto(c, [pc |-> then, row |-> row, password |-> p, reset |-> then = "setPassword"])
  /\ excused' = IF Holding(row.token) = {} THEN excused ELSE excused \cup {row.token}
  /\ UNCHANGED <<strategy, users, sessions, tokens, second, generated, uses, halfReset>>

SetPassword(c) ==
  /\ At(c, "setPassword")
  /\ LET row == call[c].row
     IN  /\ users' = [users EXCEPT ![row.email].password = call[c].password,
                                   ![row.email].version = @ + 1]
         /\ uses' = [uses EXCEPT ![row.token] = @ + 1]
  /\ Goto(c, [call[c] EXCEPT !.pc = "dropToken"])
  /\ UNCHANGED <<strategy, sessions, tokens, second, generated, excused, halfReset>>

SetVerified(c) ==
  /\ At(c, "setVerified")
  /\ users' = [users EXCEPT ![call[c].row.email].verified = TRUE]
  /\ Goto(c, [call[c] EXCEPT !.pc = "dropToken"])
  /\ UNCHANGED <<strategy, sessions, tokens, second, history>>

\* Fault: the token is left to expire.
DropTokenLater(c) ==
  /\ At(c, "dropToken")
  /\ IF call[c].reset THEN Goto(c, [call[c] EXCEPT !.pc = "revokeAll"]) ELSE Return(c)
  /\ UNCHANGED <<strategy, users, sessions, tokens, second, history>>

DropToken(c) ==
  /\ At(c, "dropToken")
  /\ tokens' = {r \in tokens : r.token # call[c].row.token}
  /\ IF call[c].reset THEN Goto(c, [call[c] EXCEPT !.pc = "revokeAll"]) ELSE Return(c)
  /\ UNCHANGED <<strategy, users, sessions, second, history>>

\* Fault: a reset removes only the sessions that have expired.
RevokeAllExpired(c) ==
  /\ At(c, "revokeAll")
  /\ sessions' = IF strategy = "jwt" THEN sessions
                 ELSE {s \in sessions : s.email # call[c].row.email \/ s.expires > second}
  /\ halfReset' = halfReset \ {call[c].row.email}
  /\ Return(c)
  /\ UNCHANGED <<strategy, users, tokens, second, generated, uses, excused>>

\* verify of a reset ends with revokeAllSessions; the user is read before,
\* but its id never changes.
RevokeAll(c) ==
  /\ At(c, "revokeAll")
  /\ sessions' = IF strategy = "jwt" THEN sessions
                 ELSE {s \in sessions : s.email # call[c].row.email}
  /\ halfReset' = halfReset \ {call[c].row.email}
  /\ Return(c)
  /\ UNCHANGED <<strategy, users, tokens, second, generated, uses, excused>>

-----------------------------------------------------------------------------
\* Any query may fail: the call throws where it stands, and nothing that it
\* has done is undone.
QueryFails(c) ==
  /\ ~Idle(c)
  /\ excused' = IF At(c, "dropToken") THEN excused \cup {call[c].row.token} ELSE excused
  /\ halfReset' = IF (At(c, "dropToken") /\ call[c].reset) \/ At(c, "revokeAll")
                  THEN halfReset \cup {call[c].row.email} ELSE halfReset
  /\ Return(c)
  /\ UNCHANGED <<strategy, users, sessions, tokens, second, generated, uses>>

SecondPasses ==
  /\ second < LastSecond
  /\ second' = second + 1
  /\ UNCHANGED <<strategy, users, sessions, tokens, call, history>>

SessionsNext ==
  \/ \E c \in Calls :
       \/ \E e \in Emails, p \in Passwords : FindNoUser(c, e, p) \/ FindUser(c, e, p)
       \/ InsertUser(c) \/ IssueToken(c) \/ StoreSession(c)
       \/ \E op \in {"getSession", "logout"}, e \in Emails, i \in 0 .. LastSecond : FindSession(c, op, e, i)
       \/ ReadUser(c) \/ RevokeSession(c)
       \/ \E e \in Emails : FindOwner(c, e)
       \/ InsertToken(c)
       \/ \E row \in tokens, p \in Passwords :
            FindToken(c, row, "setPassword", p) \/ FindToken(c, row, "setVerified", p)
       \/ SetPassword(c) \/ SetVerified(c) \/ DropToken(c) \/ RevokeAll(c)
       \/ QueryFails(c)
  \/ SecondPasses

SessionsSpec == SessionsInit /\ [][SessionsNext]_sessionsVars

-----------------------------------------------------------------------------
SessionsTypeOK ==
  /\ strategy \in Strategies
  /\ users \in [Emails -> Users \cup {NoUser}]
  /\ sessions \subseteq Sessions
  /\ tokens \subseteq TokenRows
  /\ second \in 0 .. LastSecond
  /\ call \in [Calls -> InFlight \cup {NoCall}]
  /\ generated \subseteq Tokens /\ excused \subseteq Tokens /\ halfReset \subseteq Emails
  /\ uses \in [Tokens -> Nat]

\* A reset of e has changed the password and has yet to revoke.
Resetting(e) ==
  \E c \in Calls : /\ ~Idle(c) /\ call[c].pc \in {"dropToken", "revokeAll"}
                   /\ call[c].reset /\ call[c].row.email = e

(* A password reset logs out whoever logged in with an older password      *)
(* (auth.ts:553 "Revoke all sessions"): with the database strategy such a  *)
(* session is left only by a login that had read the user before the       *)
(* password changed and stored its session after, or while the reset is    *)
(* under way or after it failed half way.                                  *)
ResetRevokes ==
  strategy = "database" =>
    \A s \in sessions :
      s.version = users[s.email].version \/ s.late \/ Resetting(s.email) \/ s.email \in halfReset

(* A verification token changes a password once: twice only if two calls   *)
(* had found it before one of them deleted it, or deleting it failed.      *)
TokenSpentOnce == \A t \in Tokens : uses[t] <= 1 \/ t \in excused
=============================================================================
