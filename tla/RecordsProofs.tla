--------------------------- MODULE RecordsProofs ----------------------------
(***************************************************************************)
(* What is kept in the application's database under the library's own      *)
(* names: the accounts, sessions, tokens, codes and attempts of            *)
(* authentication (Auth and the modules it extends), and the schema with   *)
(* the log of its migrations (Migrator), which implements MigrationLog.    *)
(***************************************************************************)
EXTENDS Auth, Migrator, SequenceTheorems, TLAPS

-----------------------------------------------------------------------------
(* Sessions                                                                *)

\* Whoever has a session, a token or a call about them is a stored user.
UsersKnown ==
  /\ \A s \in sessions : users[s.email] # NoUser
  /\ \A r \in tokens : users[r.email] # NoUser
  /\ \A c \in Calls :
       /\ call[c] \in LoggingIn \cup Storing => users[call[c].email] # NoUser
       /\ call[c] \in Creating \cup Verifying => users[call[c].row.email] # NoUser

\* A call that will set the password is a reset, and goes on to revoke.
PasswordsReset == \A c \in Calls : At(c, "setPassword") => call[c].reset


LEMMA CallTyped ==
  ASSUME SessionsTypeOK, NEW c \in Calls
  PROVE  /\ At(c, "insertUser") => call[c] \in Registering
         /\ At(c, "issue") => call[c] \in LoggingIn
         /\ At(c, "storeSession") => call[c] \in Storing
         /\ At(c, "readUser") \/ At(c, "revoke") => call[c] \in Reading
         /\ At(c, "insertToken") => call[c] \in Creating
         /\ At(c, "setPassword") \/ At(c, "setVerified") \/ At(c, "dropToken") \/ At(c, "revokeAll") =>
              call[c] \in Verifying
BY DEF SessionsTypeOK, At, Idle, InFlight, Registering, LoggingIn, Storing, Reading, Creating, Verifying

\* The pieces of a row and of a call.
LEMMA RowTyped ==
  ASSUME NEW r \in TokenRows
  PROVE  r.token \in Tokens /\ r.email \in Emails /\ r.expires \in Nat
BY DEF TokenRows

LEMMA RecordsTyped ==
  /\ \A x \in Registering : x.email \in Emails /\ x.password \in Passwords
  /\ \A x \in LoggingIn : x.email \in Emails /\ x.version \in Nat
  /\ \A x \in Storing : x.email \in Emails /\ x.issued \in Nat /\ x.version \in Nat
  /\ \A x \in Reading : x.email \in Emails /\ x.issued \in Nat
  /\ \A x \in Creating : x.row \in TokenRows
  /\ \A x \in Verifying : x.row \in TokenRows /\ x.password \in Passwords /\ x.reset \in BOOLEAN
BY DEF Registering, LoggingIn, Storing, Reading, Creating, Verifying

LEMMA MovesTyped ==
  ASSUME SessionsTypeOK, NEW c \in Calls, NEW next \in InFlight \cup {NoCall}, Goto(c, next)
  PROVE  /\ call' \in [Calls -> InFlight \cup {NoCall}]
         /\ call'[c] = next
         /\ \A d \in Calls \ {c} : call'[d] = call[d]
BY DEF SessionsTypeOK, Goto

LEMMA IssuedTyped ==
  ASSUME SessionsTypeOK, NEW e \in Emails, NEW v \in Nat
  PROVE  Issued(e, v) \in Storing \cup {NoCall} /\ Issued(e, v) \in InFlight \cup {NoCall}
         /\ (Issued(e, v) \in Storing => Issued(e, v).email = e)
<1>1. second \in Nat
  BY SessionsConstantsOK DEF SessionsTypeOK
<1>2. [pc |-> "storeSession", email |-> e, issued |-> second, version |-> v] \in Storing
  BY <1>1 DEF Storing
<1>3. NoCall \notin Storing
  BY SessionsConstantsOK DEF InFlight
<1> QED
  BY <1>2, <1>3 DEF Issued, InFlight

\* A step that moves one call and leaves all else that has a type alone.
LEMMA OnlyCallMoves ==
  ASSUME SessionsTypeOK, NEW c \in Calls, NEW next \in InFlight \cup {NoCall}, Goto(c, next),
         UNCHANGED <<strategy, users, sessions, tokens, second, uses>>,
         generated' \subseteq Tokens, excused' \subseteq Tokens, halfReset' \subseteq Emails
  PROVE  SessionsTypeOK'
BY MovesTyped DEF SessionsTypeOK

\* verify's calls as they go on.
LEMMA VerifyingGoesOn ==
  ASSUME NEW x \in Verifying, NEW pc \in {"setPassword", "setVerified", "dropToken", "revokeAll"}
  PROVE  [x EXCEPT !.pc = pc] \in Verifying /\ [x EXCEPT !.pc = pc] \in InFlight
         /\ [x EXCEPT !.pc = pc].row = x.row /\ [x EXCEPT !.pc = pc].pc = pc /\ [x EXCEPT !.pc = pc].reset = x.reset
BY DEF Verifying, InFlight

LEMMA UserChanged ==
  ASSUME NEW u \in Users, NEW p \in Passwords
  PROVE  [u EXCEPT !.password = p, !.version = @ + 1] \in Users
<1>1. [u EXCEPT !.password = p] \in Users /\ [u EXCEPT !.password = p].version = u.version /\ u.version \in Nat
  BY DEF Users
<1>2. \A w \in Users, n \in Nat : [w EXCEPT !.version = n] \in Users
  BY DEF Users
<1>3. [u EXCEPT !.password = p, !.version = @ + 1] = [[u EXCEPT !.password = p] EXCEPT !.version = u.version + 1]
  BY <1>1 DEF Users
<1>4. u.version + 1 \in Nat
  BY <1>1
<1> QED
  BY <1>1, <1>2, <1>3, <1>4

LEMMA TypeStep == SessionsTypeOK /\ UsersKnown /\ [SessionsNext]_sessionsVars => SessionsTypeOK'
<1> SUFFICES ASSUME SessionsTypeOK, UsersKnown, [SessionsNext]_sessionsVars PROVE SessionsTypeOK'
  OBVIOUS
<1> USE DEF history
<1>0. /\ strategy \in Strategies /\ users \in [Emails -> Users \cup {NoUser}]
      /\ sessions \subseteq Sessions /\ tokens \subseteq TokenRows /\ second \in 0 .. LastSecond /\ second \in Nat
      /\ call \in [Calls -> InFlight \cup {NoCall}]
      /\ generated \subseteq Tokens /\ excused \subseteq Tokens /\ halfReset \subseteq Emails
      /\ uses \in [Tokens -> Nat] /\ LastSecond \in Nat /\ MaxAge \in Nat /\ TokenAge \in Nat
  BY SessionsConstantsOK DEF SessionsTypeOK
<1>1. ASSUME NEW c \in Calls, NEW e \in Emails, NEW p \in Passwords, FindNoUser(c, e, p) PROVE SessionsTypeOK'
  <2>1. [pc |-> "insertUser", email |-> e, password |-> p] \in InFlight
    BY DEF InFlight, Registering
  <2> QED
    BY <1>0, <1>1, <2>1, OnlyCallMoves DEF FindNoUser
<1>2. ASSUME NEW c \in Calls, NEW e \in Emails, NEW p \in Passwords, FindUser(c, e, p) PROVE SessionsTypeOK'
  <2>1. users[e] \in Users
    BY <1>0, <1>2 DEF FindUser
  <2>2. [pc |-> "issue", email |-> e, version |-> users[e].version] \in InFlight
    BY <2>1 DEF InFlight, LoggingIn, Users
  <2> QED
    BY <1>0, <1>2, <2>2, OnlyCallMoves DEF FindUser
<1>3. ASSUME NEW c \in Calls, InsertUser(c) PROVE SessionsTypeOK'
  <2>1. call[c] \in Registering /\ call[c].email \in Emails /\ call[c].password \in Passwords
    BY <1>3, CallTyped, RecordsTyped DEF InsertUser
  <2>2. CASE users[call[c].email] = NoUser
    <3>1. [password |-> call[c].password, verified |-> FALSE, version |-> 0] \in Users
      BY <2>1 DEF Users
    <3>2. users' \in [Emails -> Users \cup {NoUser}]
      BY <1>0, <1>3, <2>1, <2>2, <3>1 DEF InsertUser
    <3>3. Issued(call[c].email, 0) \in InFlight \cup {NoCall}
      BY <2>1, IssuedTyped
    <3>4. call' \in [Calls -> InFlight \cup {NoCall}]
      BY <1>3, <2>2, <3>3, MovesTyped DEF InsertUser
    <3> QED
      BY <1>0, <1>3, <3>2, <3>4 DEF InsertUser, SessionsTypeOK
  <2>3. CASE users[call[c].email] # NoUser
    BY <1>0, <1>3, <2>3, OnlyCallMoves DEF InsertUser, Return
  <2> QED
    BY <2>2, <2>3
<1>4. ASSUME NEW c \in Calls, IssueToken(c) PROVE SessionsTypeOK'
  <2>1. call[c].email \in Emails /\ call[c].version \in Nat
    BY <1>4, CallTyped, RecordsTyped DEF IssueToken
  <2>2. Issued(call[c].email, call[c].version) \in InFlight \cup {NoCall}
    BY <2>1, IssuedTyped
  <2> QED
    BY <1>0, <1>4, <2>2, OnlyCallMoves DEF IssueToken
<1>5. ASSUME NEW c \in Calls, StoreSession(c) PROVE SessionsTypeOK'
  <2> DEFINE r == call[c]
             b == r.version # users[r.email].version
             new == [email |-> r.email, issued |-> r.issued, expires |-> r.issued + MaxAge,
                     version |-> r.version, late |-> b]
  <2>1. r.email \in Emails /\ r.issued \in Nat /\ r.version \in Nat
    BY <1>5, CallTyped, RecordsTyped DEF StoreSession
  <2>2. b \in BOOLEAN
    OBVIOUS
  <2>3. r.issued + MaxAge \in Nat
    BY <1>0, <2>1
  <2>4. sessions' \subseteq sessions \cup {new}
    BY <1>5 DEF StoreSession
  <2>5. new \in Sessions
    <3> HIDE DEF r, b
    <3> QED
      BY <2>1, <2>2, <2>3 DEF Sessions
  <2>6. sessions' \subseteq Sessions
    BY <1>0, <2>4, <2>5
  <2>7. call' \in [Calls -> InFlight \cup {NoCall}]
    BY <1>5, MovesTyped DEF StoreSession, Return
  <2> QED
    BY <1>0, <1>5, <2>6, <2>7 DEF StoreSession, SessionsTypeOK
<1>6. ASSUME NEW c \in Calls, NEW op \in {"getSession", "logout"}, NEW e \in Emails, NEW i \in 0 .. LastSecond,
             FindSession(c, op, e, i)
      PROVE  SessionsTypeOK'
  <2>1. PICK pc \in {"readUser", "revoke"} : Goto(c, [pc |-> pc, op |-> op, email |-> e, issued |-> i])
    BY <1>6 DEF FindSession
  <2>2. [pc |-> pc, op |-> op, email |-> e, issued |-> i] \in InFlight
    BY <1>0 DEF InFlight, Reading
  <2> QED
    BY <1>0, <1>6, <2>1, <2>2, OnlyCallMoves DEF FindSession
<1>7. ASSUME NEW c \in Calls, ReadUser(c) PROVE SessionsTypeOK'
  <2>1. [call[c] EXCEPT !.pc = "revoke"] \in InFlight
    <3>1. call[c] \in Reading
      BY <1>7, CallTyped DEF ReadUser
    <3> QED
      BY <3>1 DEF Reading, InFlight
  <2>2. PICK next \in InFlight \cup {NoCall} : Goto(c, next)
    BY <1>7, <2>1 DEF ReadUser, Return
  <2> QED
    BY <1>0, <1>7, <2>2, OnlyCallMoves DEF ReadUser
<1>8. ASSUME NEW c \in Calls, RevokeSession(c) PROVE SessionsTypeOK'
  <2>1. sessions' \subseteq Sessions
    BY <1>0, <1>8 DEF RevokeSession
  <2>2. call' \in [Calls -> InFlight \cup {NoCall}]
    BY <1>8, MovesTyped DEF RevokeSession, Return
  <2> QED
    BY <1>0, <1>8, <2>1, <2>2 DEF RevokeSession, SessionsTypeOK
<1>9. ASSUME NEW c \in Calls, NEW e \in Emails, FindOwner(c, e) PROVE SessionsTypeOK'
  <2>1. PICK t \in Tokens \ generated :
          /\ Goto(c, [pc |-> "insertToken", row |-> [token |-> t, email |-> e, expires |-> second + TokenAge]])
          /\ generated' = generated \cup {t}
    BY <1>9 DEF FindOwner
  <2>2. [token |-> t, email |-> e, expires |-> second + TokenAge] \in TokenRows
    BY <1>0 DEF TokenRows
  <2>3. [pc |-> "insertToken", row |-> [token |-> t, email |-> e, expires |-> second + TokenAge]] \in InFlight
    BY <2>2 DEF InFlight, Creating
  <2> QED
    BY <1>0, <1>9, <2>1, <2>3, OnlyCallMoves DEF FindOwner
<1>10. ASSUME NEW c \in Calls, InsertToken(c) PROVE SessionsTypeOK'
  <2>1. call[c].row \in TokenRows
    BY <1>10, CallTyped, RecordsTyped DEF InsertToken
  <2>2. call' \in [Calls -> InFlight \cup {NoCall}]
    BY <1>10, MovesTyped DEF InsertToken, Return
  <2> QED
    BY <1>0, <1>10, <2>1, <2>2 DEF InsertToken, SessionsTypeOK
<1>11. ASSUME NEW c \in Calls, NEW row \in tokens, NEW then \in {"setPassword", "setVerified"}, NEW p \in Passwords,
              FindToken(c, row, then, p)
       PROVE  SessionsTypeOK'
  <2> DEFINE b == then = "setPassword"
  <2>1. b \in BOOLEAN
    OBVIOUS
  <2>2. row \in TokenRows /\ row.token \in Tokens
    BY <1>0, RowTyped
  <2>3. Goto(c, [pc |-> then, row |-> row, password |-> p, reset |-> b])
    BY <1>11 DEF FindToken
  <2>4. excused' \subseteq Tokens
    BY <1>0, <1>11, <2>2 DEF FindToken
  <2>5. UNCHANGED <<strategy, users, sessions, tokens, second, generated, uses, halfReset>>
    BY <1>11 DEF FindToken
  <2> HIDE DEF b
  <2>6. [pc |-> then, row |-> row, password |-> p, reset |-> b] \in InFlight
    BY <2>1, <2>2 DEF InFlight, Verifying
  <2> QED
    BY <1>0, <2>3, <2>4, <2>5, <2>6, OnlyCallMoves
<1>12. ASSUME NEW c \in Calls, SetPassword(c) PROVE SessionsTypeOK'
  <2> DEFINE row == call[c].row  u == users[row.email]
  <2>1. call[c] \in Verifying /\ row \in TokenRows /\ row.email \in Emails /\ row.token \in Tokens
        /\ call[c].password \in Passwords
    BY <1>12, CallTyped, RecordsTyped, RowTyped DEF SetPassword
  <2>2. u \in Users
    BY <1>0, <2>1 DEF UsersKnown
  <2>3. users' = [users EXCEPT ![row.email] = [u EXCEPT !.password = call[c].password, !.version = @ + 1]]
    BY <1>0, <1>12 DEF SetPassword
  <2>4. [u EXCEPT !.password = call[c].password, !.version = @ + 1] \in Users
    BY <2>1, <2>2, UserChanged
  <2>5. users' \in [Emails -> Users \cup {NoUser}]
    BY <1>0, <2>1, <2>3, <2>4
  <2>6. uses' \in [Tokens -> Nat]
    BY <1>0, <1>12, <2>1 DEF SetPassword
  <2>7. [call[c] EXCEPT !.pc = "dropToken"] \in InFlight
    BY <2>1, VerifyingGoesOn
  <2>8. call' \in [Calls -> InFlight \cup {NoCall}]
    BY <1>12, <2>7, MovesTyped DEF SetPassword
  <2> QED
    BY <1>0, <1>12, <2>5, <2>6, <2>8 DEF SetPassword, SessionsTypeOK
<1>13. ASSUME NEW c \in Calls, SetVerified(c) PROVE SessionsTypeOK'
  <2> DEFINE row == call[c].row  u == users[row.email]
  <2>1. call[c] \in Verifying /\ row \in TokenRows /\ row.email \in Emails
    BY <1>13, CallTyped, RecordsTyped, RowTyped DEF SetVerified
  <2>2. u \in Users
    BY <1>0, <2>1 DEF UsersKnown
  <2>3. users' = [users EXCEPT ![row.email] = [u EXCEPT !.verified = TRUE]]
    BY <1>0, <1>13 DEF SetVerified
  <2>4. [u EXCEPT !.verified = TRUE] \in Users
    BY <2>2 DEF Users
  <2>5. users' \in [Emails -> Users \cup {NoUser}]
    BY <1>0, <2>1, <2>3, <2>4
  <2>6. [call[c] EXCEPT !.pc = "dropToken"] \in InFlight
    BY <2>1, VerifyingGoesOn
  <2>7. call' \in [Calls -> InFlight \cup {NoCall}]
    BY <1>13, <2>6, MovesTyped DEF SetVerified
  <2> QED
    BY <1>0, <1>13, <2>5, <2>7 DEF SetVerified, SessionsTypeOK
<1>14. ASSUME NEW c \in Calls, DropToken(c) PROVE SessionsTypeOK'
  <2>1. [call[c] EXCEPT !.pc = "revokeAll"] \in InFlight
    BY <1>14, CallTyped, VerifyingGoesOn DEF DropToken
  <2>2. PICK next \in InFlight \cup {NoCall} : Goto(c, next)
    BY <1>14, <2>1 DEF DropToken, Return
  <2>3. call' \in [Calls -> InFlight \cup {NoCall}]
    BY <2>2, MovesTyped
  <2> QED
    BY <1>0, <1>14, <2>3 DEF DropToken, SessionsTypeOK
<1>15. ASSUME NEW c \in Calls, RevokeAll(c) PROVE SessionsTypeOK'
  <2>1. sessions' \subseteq Sessions
    BY <1>0, <1>15 DEF RevokeAll
  <2>2. call' \in [Calls -> InFlight \cup {NoCall}]
    BY <1>15, MovesTyped DEF RevokeAll, Return
  <2> QED
    BY <1>0, <1>15, <2>1, <2>2 DEF RevokeAll, SessionsTypeOK
<1>16. ASSUME NEW c \in Calls, QueryFails(c) PROVE SessionsTypeOK'
  <2>1. At(c, "dropToken") \/ At(c, "revokeAll") => call[c].row.token \in Tokens /\ call[c].row.email \in Emails
    BY CallTyped, RecordsTyped, RowTyped
  <2>2. excused' \subseteq Tokens /\ halfReset' \subseteq Emails
    BY <1>0, <1>16, <2>1 DEF QueryFails
  <2> QED
    BY <1>0, <1>16, <2>2, OnlyCallMoves DEF QueryFails, Return
<1>17. CASE SecondPasses
  <2>1. second' \in 0 .. LastSecond
    BY <1>0, <1>17 DEF SecondPasses
  <2> QED
    BY <1>0, <1>17, <2>1 DEF SecondPasses, SessionsTypeOK
<1>18. CASE UNCHANGED sessionsVars
  BY <1>18 DEF sessionsVars, SessionsTypeOK
<1> QED
  BY <1>1, <1>2, <1>3, <1>4, <1>5, <1>6, <1>7, <1>8, <1>9, <1>10, <1>11, <1>12, <1>13, <1>14, <1>15, <1>16,
     <1>17, <1>18 DEF SessionsNext

-----------------------------------------------------------------------------
\* What one call has to do with a token.
Creates(x, t) == x # NoCall /\ x.pc = "insertToken" /\ x.row.token = t
Holds(x, t) == x # NoCall /\ x.pc \in {"setPassword", "setVerified", "dropToken"} /\ x.row.token = t

\* A token is generated once: until then nothing is known of it, and until
\* its row is stored nobody but its one creator knows it.
KnownOnce(t, rows, calls, use, gen) ==
  /\ t \notin gen => /\ \A r \in rows : r.token # t
                     /\ \A c \in Calls : ~Creates(calls[c], t) /\ ~Holds(calls[c], t)
                     /\ use[t] = 0
  /\ \A c \in Calls : Creates(calls[c], t) =>
       /\ \A r \in rows : r.token # t
       /\ \A d \in Calls : ~Holds(calls[d], t) /\ (Creates(calls[d], t) => c = d)
       /\ use[t] = 0

\* One call at a time holds a token that is not excused; it has not used the
\* token before it comes to delete it, and a used token that is left in the
\* table is still held by the call that will delete it.
UsedOnce(t, rows, calls, use) ==
  /\ \A c, d \in Calls : Holds(calls[c], t) /\ Holds(calls[d], t) => c = d
  /\ \A c \in Calls : Holds(calls[c], t) /\ calls[c].pc # "dropToken" => use[t] = 0
  /\ use[t] <= 1
  /\ use[t] # 0 /\ (\E r \in rows : r.token = t) => \E c \in Calls : Holds(calls[c], t)

TokensHold ==
  \A t \in Tokens :
    /\ KnownOnce(t, tokens, call, uses, generated)
    /\ t \notin excused => UsedOnce(t, tokens, call, uses)

\* A call that moves between states that have nothing to do with tokens, or
\* lets go of one that it has not used.
LEMMA TokensElsewhere ==
  ASSUME SessionsTypeOK, TokensHold, NEW c \in Calls, NEW next \in InFlight \cup {NoCall}, Goto(c, next),
         \A t \in Tokens : ~Creates(next, t) /\ ~Holds(next, t),
         \A t \in Tokens : Holds(call[c], t) => call[c].pc # "dropToken" \/ t \in excused',
         UNCHANGED <<tokens, uses, generated>>, excused \subseteq excused'
  PROVE  TokensHold'
<1>1. call'[c] = next /\ \A d \in Calls \ {c} : call'[d] = call[d]
  BY MovesTyped
<1> SUFFICES ASSUME NEW t \in Tokens
    PROVE  /\ KnownOnce(t, tokens, call', uses, generated)
           /\ t \notin excused' => UsedOnce(t, tokens, call', uses)
  BY DEF TokensHold
<1>2. KnownOnce(t, tokens, call, uses, generated) /\ (t \notin excused => UsedOnce(t, tokens, call, uses))
  BY DEF TokensHold
<1>3. \A d \in Calls : /\ Creates(call'[d], t) => d # c /\ Creates(call[d], t)
                       /\ Holds(call'[d], t) => d # c /\ Holds(call[d], t)
  BY <1>1
<1>4. KnownOnce(t, tokens, call', uses, generated)
  BY <1>2, <1>3 DEF KnownOnce
<1>5. ASSUME t \notin excused' PROVE UsedOnce(t, tokens, call', uses)
  <2>1. UsedOnce(t, tokens, call, uses)
    BY <1>2, <1>5
  <2>2. uses[t] # 0 => ~Holds(call[c], t)
    BY <1>5, <2>1 DEF UsedOnce
  <2> QED
    BY <1>1, <1>3, <2>1, <2>2 DEF UsedOnce
<1> QED
  BY <1>4, <1>5

\* The states that have nothing to do with tokens.
LEMMA Tokenless ==
  ASSUME NEW x, NEW t,
         x \in Registering \cup LoggingIn \cup Storing \cup Reading \cup {NoCall}
           \/ (x \in Verifying /\ x.pc = "revokeAll")
  PROVE  ~Creates(x, t) /\ ~Holds(x, t)
BY DEF Creates, Holds, Registering, LoggingIn, Storing, Reading

LEMMA TokensStep ==
  ASSUME SessionsTypeOK, TokensHold, [SessionsNext]_sessionsVars
  PROVE  TokensHold'
<1> USE DEF history
<1>0. /\ call \in [Calls -> InFlight \cup {NoCall}] /\ uses \in [Tokens -> Nat]
      /\ \A r \in tokens : r \in TokenRows /\ r.token \in Tokens
  BY RowTyped DEF SessionsTypeOK
<1>1. ASSUME NEW c \in Calls, NEW next \in Registering \cup LoggingIn \cup Storing \cup Reading \cup {NoCall},
             Goto(c, next), UNCHANGED <<tokens, uses, generated, excused>>,
             \A t \in Tokens : ~Holds(call[c], t)
      PROVE  TokensHold'
  <2>1. next \in InFlight \cup {NoCall}
    BY DEF InFlight
  <2> QED
    BY <1>1, <2>1, Tokenless, TokensElsewhere
<1>2. ASSUME NEW c \in Calls, call[c] \in Registering \cup LoggingIn \cup Storing \cup Reading \cup {NoCall}
      PROVE  \A t \in Tokens : ~Holds(call[c], t)
  BY <1>2, Tokenless
<1>3. ASSUME NEW c \in Calls, NEW e \in Emails, NEW p \in Passwords, FindNoUser(c, e, p) \/ FindUser(c, e, p)
      PROVE  TokensHold'
  <2>1. PICK next : Goto(c, next) /\ next \in Registering \cup LoggingIn
    <3>1. [pc |-> "insertUser", email |-> e, password |-> p] \in Registering
      BY DEF Registering
    <3>2. users[e] # NoUser => [pc |-> "issue", email |-> e, version |-> users[e].version] \in LoggingIn
      BY DEF LoggingIn, SessionsTypeOK, Users
    <3> QED
      BY <1>3, <3>1, <3>2 DEF FindNoUser, FindUser
  <2>2. UNCHANGED <<tokens, uses, generated, excused>> /\ call[c] = NoCall
    BY <1>3 DEF FindNoUser, FindUser, Idle
  <2> QED
    BY <1>1, <1>2, <2>1, <2>2
<1>4. ASSUME NEW c \in Calls, InsertUser(c) \/ IssueToken(c) \/ StoreSession(c) PROVE TokensHold'
  <2>1. call[c] \in Registering \cup LoggingIn \cup Storing
    BY <1>4, CallTyped DEF InsertUser, IssueToken, StoreSession
  <2>2. \A e \in Emails, v \in Nat : Issued(e, v) \in Storing \cup {NoCall}
    BY IssuedTyped
  <2>3. PICK next \in Storing \cup {NoCall} : Goto(c, next)
    <3>1. CASE InsertUser(c)
      BY <2>2, <3>1, CallTyped, RecordsTyped, 0 \in Nat DEF InsertUser, Return
    <3>2. CASE IssueToken(c)
      BY <2>2, <3>2, CallTyped, RecordsTyped DEF IssueToken
    <3>3. CASE StoreSession(c)
      BY <3>3 DEF StoreSession, Return
    <3> QED
      BY <1>4, <3>1, <3>2, <3>3
  <2>4. UNCHANGED <<tokens, uses, generated, excused>>
    BY <1>4 DEF InsertUser, IssueToken, StoreSession
  <2> QED
    BY <1>1, <1>2, <2>1, <2>3, <2>4
<1>5. ASSUME NEW c \in Calls, NEW op \in {"getSession", "logout"}, NEW e \in Emails, NEW i \in 0 .. LastSecond,
             FindSession(c, op, e, i)
      PROVE  TokensHold'
  <2>1. PICK pc \in {"readUser", "revoke"} : Goto(c, [pc |-> pc, op |-> op, email |-> e, issued |-> i])
    BY <1>5 DEF FindSession
  <2>2. [pc |-> pc, op |-> op, email |-> e, issued |-> i] \in Reading
    BY SessionsConstantsOK DEF Reading
  <2> QED
    BY <1>1, <1>2, <1>5, <2>1, <2>2 DEF FindSession, Idle
<1>6. ASSUME NEW c \in Calls, ReadUser(c) \/ RevokeSession(c) PROVE TokensHold'
  <2>1. call[c] \in Reading
    BY <1>6, CallTyped DEF ReadUser, RevokeSession
  <2>2. [call[c] EXCEPT !.pc = "revoke"] \in Reading
    BY <2>1 DEF Reading
  <2>3. PICK next \in Reading \cup {NoCall} : Goto(c, next)
    BY <1>6, <2>2 DEF ReadUser, RevokeSession, Return
  <2> QED
    BY <1>1, <1>2, <1>6, <2>1, <2>3 DEF ReadUser, RevokeSession
<1>7. ASSUME NEW c \in Calls, NEW e \in Emails, FindOwner(c, e) PROVE TokensHold'
  <2>1. PICK u \in Tokens \ generated :
          /\ Goto(c, [pc |-> "insertToken", row |-> [token |-> u, email |-> e, expires |-> second + TokenAge]])
          /\ generated' = generated \cup {u}
    BY <1>7 DEF FindOwner
  <2>2. UNCHANGED <<tokens, uses, excused>> /\ call[c] = NoCall
    BY <1>7 DEF FindOwner, Idle
  <2>3. ASSUME NEW t \in Tokens, NEW d \in Calls
        PROVE  /\ Creates(call'[d], t) => IF d = c THEN t = u ELSE Creates(call[d], t)
               /\ Holds(call'[d], t) <=> Holds(call[d], t)
               /\ d # c => call'[d] = call[d]
    BY <1>0, <2>1, <2>2 DEF Goto, Creates, Holds
  <2>4. ASSUME NEW t \in Tokens PROVE KnownOnce(t, tokens, call', uses, generated')
    BY <2>1, <2>3 DEF TokensHold, KnownOnce
  <2>5. ASSUME NEW t \in Tokens \ excused PROVE UsedOnce(t, tokens, call', uses)
    <3>1. UsedOnce(t, tokens, call, uses)
      BY DEF TokensHold
    <3>2. \A d \in Calls : Holds(call'[d], t) => d # c
      BY <2>2, <2>3 DEF Holds
    <3> QED
      BY <2>3, <3>1, <3>2 DEF UsedOnce
  <2> QED
    BY <2>2, <2>4, <2>5 DEF TokensHold
<1>8. ASSUME NEW c \in Calls, InsertToken(c) PROVE TokensHold'
  <2> DEFINE u == call[c].row.token
  <2>1. Goto(c, NoCall) /\ UNCHANGED <<uses, excused, generated>> /\ tokens' = tokens \cup {call[c].row}
        /\ Creates(call[c], u)
    BY <1>8 DEF InsertToken, Return, At, Idle, Creates
  <2>2. ASSUME NEW t \in Tokens, NEW d \in Calls
        PROVE  /\ Creates(call'[d], t) => d # c /\ Creates(call[d], t)
               /\ Holds(call'[d], t) => d # c /\ Holds(call[d], t)
               /\ d # c => call'[d] = call[d]
    BY <1>0, <2>1 DEF Goto, Creates, Holds
  <2>3. u \in Tokens
    BY <1>8, CallTyped, RecordsTyped, RowTyped DEF InsertToken
  <2>4. KnownOnce(u, tokens, call, uses, generated)
    BY <2>3 DEF TokensHold
  <2>5. ASSUME NEW t \in Tokens PROVE KnownOnce(t, tokens', call', uses, generated)
    <3>1. KnownOnce(t, tokens, call, uses, generated)
      BY DEF TokensHold
    <3>2. \A r \in tokens' : r.token = t => t = u \/ r \in tokens
      BY <2>1
    <3>3. CASE t = u
      BY <2>1, <2>2, <2>4, <3>3 DEF KnownOnce
    <3>4. CASE t # u
      BY <2>2, <3>1, <3>2, <3>4 DEF KnownOnce
    <3> QED
      BY <3>3, <3>4
  <2>6. ASSUME NEW t \in Tokens \ excused PROVE UsedOnce(t, tokens', call', uses)
    <3>1. UsedOnce(t, tokens, call, uses)
      BY DEF TokensHold
    <3>2. CASE t = u
      <4>1. uses[t] = 0 /\ \A d \in Calls : ~Holds(call[d], t)
        BY <2>1, <2>4, <3>2 DEF KnownOnce
      <4> QED
        BY <2>2, <3>1, <4>1 DEF UsedOnce
    <3>3. CASE t # u
      <4>1. \A r \in tokens' : r.token = t => r \in tokens
        BY <2>1, <3>3
      <4>2. ~Holds(call[c], t)
        BY <2>1 DEF Creates, Holds
      <4> QED
        BY <2>2, <3>1, <4>1, <4>2 DEF UsedOnce
    <3> QED
      BY <3>2, <3>3
  <2> QED
    BY <2>1, <2>5, <2>6 DEF TokensHold
<1>9. ASSUME NEW c \in Calls, NEW row \in tokens, NEW then \in {"setPassword", "setVerified"}, NEW p \in Passwords,
             FindToken(c, row, then, p)
      PROVE  TokensHold'
  <2> DEFINE u == row.token
  <2>1. /\ Goto(c, [pc |-> then, row |-> row, password |-> p, reset |-> then = "setPassword"])
        /\ excused' = IF Holding(u) = {} THEN excused ELSE excused \cup {u}
        /\ UNCHANGED <<tokens, uses, generated>> /\ call[c] = NoCall
    BY <1>9 DEF FindToken, Idle
  <2>2. ASSUME NEW t \in Tokens, NEW d \in Calls
        PROVE  /\ Creates(call'[d], t) => d # c /\ Creates(call[d], t)
               /\ Holds(call'[d], t) => IF d = c THEN t = u ELSE Holds(call[d], t)
               /\ d # c => call'[d] = call[d]
    BY <1>0, <2>1 DEF Goto, Creates, Holds
  <2>3. Holding(u) = {} <=> \A d \in Calls : ~Holds(call[d], u)
    BY DEF Holding, Holds, Idle
  <2>4. u \in Tokens /\ \E r \in tokens : r.token = u
    BY <1>0
  <2>5. ASSUME NEW t \in Tokens PROVE KnownOnce(t, tokens, call', uses, generated)
    BY <2>2, <2>4 DEF TokensHold, KnownOnce
  <2>6. ASSUME NEW t \in Tokens \ excused' PROVE UsedOnce(t, tokens, call', uses)
    <3>1. UsedOnce(t, tokens, call, uses)
      BY <2>1 DEF TokensHold
    <3>2. CASE t = u
      <4>1. \A d \in Calls : ~Holds(call[d], t)
        BY <2>1, <2>3, <3>2
      <4>2. uses[t] = 0
        BY <2>4, <3>1, <3>2, <4>1 DEF UsedOnce
      <4> QED
        BY <2>2, <3>1, <4>1, <4>2 DEF UsedOnce
    <3>3. CASE t # u
      <4>1. ~Holds(call[c], t)
        BY <2>1 DEF Holds
      <4> QED
        BY <2>2, <3>1, <3>3, <4>1 DEF UsedOnce
    <3> QED
      BY <3>2, <3>3
  <2> QED
    BY <2>1, <2>5, <2>6 DEF TokensHold
<1>10. ASSUME NEW c \in Calls, SetPassword(c) \/ SetVerified(c) PROVE TokensHold'
  <2> DEFINE u == call[c].row.token
  <2>1. /\ Goto(c, [call[c] EXCEPT !.pc = "dropToken"]) /\ UNCHANGED <<tokens, excused, generated>>
        /\ Holds(call[c], u) /\ call[c].pc # "dropToken" /\ call[c] \in Verifying /\ u \in Tokens
    BY <1>10, CallTyped, RecordsTyped, RowTyped DEF SetPassword, SetVerified, At, Idle, Holds
  <2>2. \A t \in Tokens \ {u} : uses'[t] = uses[t]
    BY <1>0, <1>10 DEF SetPassword, SetVerified
  <2>3. uses'[u] \in {uses[u], uses[u] + 1}
    BY <1>0, <1>10, <2>1 DEF SetPassword, SetVerified
  <2>4. call'[c].row = call[c].row /\ call'[c].pc = "dropToken" /\ call'[c] # NoCall
        /\ \A d \in Calls \ {c} : call'[d] = call[d]
    <3>1. call' = [call EXCEPT ![c] = [call[c] EXCEPT !.pc = "dropToken"]]
      BY <2>1 DEF Goto
    <3> QED
      BY <1>0, <2>1, <3>1, VerifyingGoesOn, SessionsConstantsOK
  <2>5. ASSUME NEW t \in Tokens, NEW d \in Calls
        PROVE  /\ Creates(call'[d], t) => d # c /\ Creates(call[d], t)
               /\ Holds(call'[d], t) <=> Holds(call[d], t)
               /\ Holds(call'[d], t) /\ d = c => t = u
    BY <2>1, <2>4 DEF Creates, Holds
  <2>6. ASSUME NEW t \in Tokens PROVE KnownOnce(t, tokens, call', uses', generated)
    <3>1. KnownOnce(t, tokens, call, uses, generated)
      BY DEF TokensHold
    <3>2. CASE t = u
      BY <2>1, <2>5, <3>1, <3>2 DEF KnownOnce
    <3>3. CASE t # u
      BY <2>2, <2>5, <3>1, <3>3 DEF KnownOnce
    <3> QED
      BY <3>2, <3>3
  <2>7. ASSUME NEW t \in Tokens \ excused PROVE UsedOnce(t, tokens, call', uses')
    <3>1. UsedOnce(t, tokens, call, uses)
      BY DEF TokensHold
    <3>2. CASE t = u
      <4>1. uses[t] = 0 /\ uses'[t] \in {0, 1} /\ \A d \in Calls : Holds(call[d], t) => d = c
        BY <1>0, <2>1, <2>3, <3>1, <3>2 DEF UsedOnce
      <4>2. Holds(call'[c], t)
        BY <2>1, <2>5, <3>2
      <4> QED
        BY <2>4, <2>5, <4>1, <4>2 DEF UsedOnce
    <3>3. CASE t # u
      BY <2>2, <2>4, <2>5, <3>1, <3>3 DEF UsedOnce
    <3> QED
      BY <3>2, <3>3
  <2> QED
    BY <2>1, <2>6, <2>7 DEF TokensHold
<1>11. ASSUME NEW c \in Calls, DropToken(c) PROVE TokensHold'
  <2> DEFINE u == call[c].row.token
  <2>1. /\ call[c] \in Verifying /\ u \in Tokens /\ Holds(call[c], u) /\ call[c].pc = "dropToken"
        /\ tokens' = {r \in tokens : r.token # u} /\ UNCHANGED <<uses, generated, excused>>
    BY <1>11, CallTyped, RecordsTyped, RowTyped DEF DropToken, At, Idle, Holds
  <2>2. PICK next : /\ Goto(c, next)
                    /\ next = NoCall \/ (next \in Verifying /\ next.pc = "revokeAll")
    <3>1. [call[c] EXCEPT !.pc = "revokeAll"] \in Verifying /\ [call[c] EXCEPT !.pc = "revokeAll"].pc = "revokeAll"
      BY <2>1, VerifyingGoesOn
    <3> QED
      BY <1>11, <3>1 DEF DropToken, Return
  <2>3. \A t \in Tokens : ~Creates(next, t) /\ ~Holds(next, t)
    BY <2>2, Tokenless
  <2>4. ASSUME NEW t \in Tokens, NEW d \in Calls
        PROVE  /\ Creates(call'[d], t) => d # c /\ Creates(call[d], t)
               /\ Holds(call'[d], t) => d # c /\ Holds(call[d], t)
               /\ d # c => call'[d] = call[d]
    BY <1>0, <2>2, <2>3 DEF Goto
  <2>5. ASSUME NEW t \in Tokens PROVE KnownOnce(t, tokens', call', uses, generated)
    BY <2>1, <2>4 DEF TokensHold, KnownOnce
  <2>6. ASSUME NEW t \in Tokens \ excused PROVE UsedOnce(t, tokens', call', uses)
    <3>1. UsedOnce(t, tokens, call, uses)
      BY DEF TokensHold
    <3>2. CASE t = u
      BY <2>1, <2>4, <3>1, <3>2 DEF UsedOnce
    <3>3. CASE t # u
      <4>1. ~Holds(call[c], t)
        BY <2>1, <3>3 DEF Holds
      <4> QED
        BY <2>1, <2>4, <3>1, <4>1 DEF UsedOnce
    <3> QED
      BY <3>2, <3>3
  <2> QED
    BY <2>1, <2>5, <2>6 DEF TokensHold
<1>13. ASSUME NEW c \in Calls, RevokeAll(c) \/ QueryFails(c) PROVE TokensHold'
  <2>1. Goto(c, NoCall) /\ excused \subseteq excused' /\ UNCHANGED <<tokens, uses, generated>>
    BY <1>13 DEF RevokeAll, QueryFails, Return
  <2>2. \A t \in Tokens : Holds(call[c], t) => call[c].pc # "dropToken" \/ t \in excused'
    <3>1. CASE RevokeAll(c)
      BY <3>1 DEF RevokeAll, At, Idle, Holds
    <3>2. CASE QueryFails(c)
      BY <3>2 DEF QueryFails, At, Idle, Holds
    <3> QED
      BY <1>13, <3>1, <3>2
  <2> QED
    BY <2>1, <2>2, Tokenless, TokensElsewhere
<1>14. CASE SecondPasses \/ UNCHANGED sessionsVars
  BY <1>14 DEF SecondPasses, sessionsVars, TokensHold, KnownOnce, UsedOnce
<1> QED
  BY <1>3, <1>4, <1>5, <1>6, <1>7, <1>8, <1>9, <1>10, <1>11, <1>13, <1>14 DEF SessionsNext

-----------------------------------------------------------------------------
\* A step that moves one call to next, once what it newly knows of users and
\* resets is so.
LEMMA KnownMoves ==
  ASSUME SessionsTypeOK, UsersKnown, PasswordsReset, NEW c \in Calls, NEW next \in InFlight \cup {NoCall},
         Goto(c, next),
         \A e \in Emails : users[e] # NoUser => users'[e] # NoUser,
         \A s \in sessions' : s \in sessions \/ users'[s.email] # NoUser,
         \A r \in tokens' : r \in tokens \/ users'[r.email] # NoUser,
         next \in LoggingIn \cup Storing => users'[next.email] # NoUser,
         next \in Creating \cup Verifying => users'[next.row.email] # NoUser,
         next # NoCall /\ next.pc = "setPassword" => next.reset
  PROVE  UsersKnown' /\ PasswordsReset'
<1>1. call'[c] = next /\ \A d \in Calls \ {c} : call'[d] = call[d]
  BY MovesTyped
<1>2. PasswordsReset'
  BY <1>1 DEF PasswordsReset, At, Idle
<1>3. (\A s \in sessions' : users'[s.email] # NoUser) /\ (\A r \in tokens' : users'[r.email] # NoUser)
  <2>1. \A s \in sessions : s.email \in Emails
    BY DEF SessionsTypeOK, Sessions
  <2>2. \A r \in tokens : r.email \in Emails
    BY DEF SessionsTypeOK, TokenRows
  <2> QED
    BY <2>1, <2>2 DEF UsersKnown
<1>4. ASSUME NEW d \in Calls
      PROVE  /\ call'[d] \in LoggingIn \cup Storing => users'[call'[d].email] # NoUser
             /\ call'[d] \in Creating \cup Verifying => users'[call'[d].row.email] # NoUser
  <2>1. CASE d = c
    BY <1>1, <2>1
  <2>2. CASE d # c
    <3>1. call'[d] = call[d]
      BY <1>1, <2>2
    <3>2. call[d] \in LoggingIn \cup Storing => call[d].email \in Emails
      BY RecordsTyped
    <3>3. call[d] \in Creating \cup Verifying => call[d].row.email \in Emails
      BY RecordsTyped, RowTyped
    <3> QED
      BY <3>1, <3>2, <3>3 DEF UsersKnown
  <2> QED
    BY <2>1, <2>2
<1> QED
  BY <1>2, <1>3, <1>4 DEF UsersKnown

\* The calls' states are told apart by their pc.
LEMMA StatesApart ==
  /\ \A x \in Registering : x \notin LoggingIn \cup Storing \cup Creating \cup Verifying /\ x.pc # "setPassword"
  /\ \A x \in Reading : x \notin LoggingIn \cup Storing \cup Creating \cup Verifying /\ x.pc # "setPassword"
  /\ \A x \in LoggingIn \cup Storing : x \notin Creating \cup Verifying /\ x.pc # "setPassword"
  /\ \A x \in Creating : x \notin LoggingIn \cup Storing /\ x.pc # "setPassword"
  /\ \A x \in Verifying : x \notin LoggingIn \cup Storing
  /\ NoCall \notin LoggingIn \cup Storing \cup Creating \cup Verifying
BY SessionsConstantsOK DEF InFlight, Registering, LoggingIn, Storing, Reading, Creating, Verifying

Resets(x, e) == x # NoCall /\ x.pc \in {"dropToken", "revokeAll"} /\ x.reset /\ x.row.email = e

\* What ResetRevokes says of one session.
Excusable(s, us, half) == s.version = us[s.email].version \/ s.late \/ s.email \in half

\* A step that moves one call to next: a session that is left neither up to
\* date nor late is one of a reset that goes on, or that failed half way.
LEMMA RevokesMoves ==
  ASSUME SessionsTypeOK, ResetRevokes, NEW c \in Calls, NEW next \in InFlight \cup {NoCall}, Goto(c, next),
         strategy' = strategy,
         strategy = "database" =>
           \A s \in sessions' :
             \/ Excusable(s, users', halfReset') \/ Resets(next, s.email)
             \/ /\ s \in sessions /\ ~Resets(call[c], s.email)
                /\ users'[s.email].version = users[s.email].version
                /\ s.email \in halfReset => s.email \in halfReset'
  PROVE  ResetRevokes'
<1>1. call'[c] = next /\ \A d \in Calls \ {c} : call'[d] = call[d]
  BY MovesTyped
<1> SUFFICES ASSUME strategy = "database", NEW s \in sessions'
    PROVE  Excusable(s, users', halfReset') \/ \E d \in Calls : Resets(call'[d], s.email)
  BY DEF ResetRevokes, Resetting, Resets, Excusable, Idle
<1>2. CASE Excusable(s, users', halfReset')
  BY <1>2
<1>3. CASE Resets(next, s.email)
  BY <1>1, <1>3
<1>4. CASE /\ s \in sessions /\ ~Resets(call[c], s.email)
           /\ users'[s.email].version = users[s.email].version
           /\ s.email \in halfReset => s.email \in halfReset'
  <2>1. Excusable(s, users, halfReset) \/ \E d \in Calls : Resets(call[d], s.email)
    BY <1>4 DEF ResetRevokes, Resetting, Resets, Excusable, Idle
  <2> QED
    BY <1>1, <1>4, <2>1 DEF Excusable
<1> QED
  BY <1>2, <1>3, <1>4

\* The steps that change neither a password's version nor a reset.
LEMMA RevokesElsewhere ==
  ASSUME SessionsTypeOK, ResetRevokes, NEW c \in Calls, NEW next \in InFlight \cup {NoCall}, Goto(c, next),
         strategy' = strategy, sessions' \subseteq sessions, halfReset \subseteq halfReset',
         \A s \in sessions : users'[s.email].version = users[s.email].version,
         \A e \in Emails : Resets(call[c], e) => Resets(next, e) \/ e \in halfReset'
  PROVE  ResetRevokes'
<1>1. \A s \in sessions : s.email \in Emails
  BY DEF SessionsTypeOK, Sessions
<1> QED
  BY <1>1, RevokesMoves DEF Excusable

LEMMA KnownStep ==
  ASSUME SessionsTypeOK, UsersKnown, PasswordsReset, [SessionsNext]_sessionsVars
  PROVE  UsersKnown' /\ PasswordsReset'
<1> USE DEF history
<1>0. /\ users \in [Emails -> Users \cup {NoUser}] /\ call \in [Calls -> InFlight \cup {NoCall}]
      /\ tokens \subseteq TokenRows /\ NoCall \in InFlight \cup {NoCall}
  BY DEF SessionsTypeOK
<1>1. ASSUME NEW c \in Calls, NEW e \in Emails, NEW p \in Passwords, FindNoUser(c, e, p) \/ FindUser(c, e, p)
      PROVE  UsersKnown' /\ PasswordsReset'
  <2>1. PICK next : /\ Goto(c, next) /\ next \in Registering \cup LoggingIn
                    /\ next \in LoggingIn => users[next.email] # NoUser
    <3>1. [pc |-> "insertUser", email |-> e, password |-> p] \in Registering
      BY DEF Registering
    <3>2. users[e] # NoUser => [pc |-> "issue", email |-> e, version |-> users[e].version] \in LoggingIn
      BY <1>0 DEF LoggingIn, Users
    <3> QED
      BY <1>1, <3>1, <3>2, StatesApart DEF FindNoUser, FindUser
  <2>2. next \in InFlight
    BY <2>1 DEF InFlight
  <2> QED
    BY <1>1, <2>1, <2>2, StatesApart, KnownMoves DEF FindNoUser, FindUser
<1>2. ASSUME NEW c \in Calls, InsertUser(c) PROVE UsersKnown' /\ PasswordsReset'
  <2> DEFINE e == call[c].email
             new == [password |-> call[c].password, verified |-> FALSE, version |-> 0]
  <2>1. e \in Emails /\ call[c].password \in Passwords
    BY <1>2, CallTyped, RecordsTyped DEF InsertUser
  <2>2. CASE users[e] = NoUser
    <3>1. new # NoUser
      <4>1. new \in Users
        BY <2>1 DEF Users
      <4> QED
        BY <4>1, SessionsConstantsOK
    <3>2. users' = [users EXCEPT ![e] = new] /\ Goto(c, Issued(e, 0)) /\ UNCHANGED <<sessions, tokens>>
      BY <1>2, <2>2 DEF InsertUser
    <3>3. Issued(e, 0) \in Storing \cup {NoCall} /\ Issued(e, 0) \in InFlight \cup {NoCall}
          /\ (Issued(e, 0) \in Storing => Issued(e, 0).email = e)
      BY <2>1, IssuedTyped
    <3>4. users'[e] # NoUser /\ \A f \in Emails : users[f] # NoUser => users'[f] # NoUser
      BY <1>0, <2>1, <3>1, <3>2
    <3> HIDE DEF e, new
    <3> QED
      BY <3>2, <3>3, <3>4, StatesApart, KnownMoves
  <2>3. CASE users[e] # NoUser
    BY <1>0, <1>2, <2>3, StatesApart, KnownMoves DEF InsertUser, Return
  <2> QED
    BY <2>2, <2>3
<1>3. ASSUME NEW c \in Calls, IssueToken(c) PROVE UsersKnown' /\ PasswordsReset'
  <2> DEFINE next == Issued(call[c].email, call[c].version)
  <2>1. call[c] \in LoggingIn /\ call[c].email \in Emails /\ call[c].version \in Nat
    BY <1>3, CallTyped, RecordsTyped DEF IssueToken
  <2>2. next \in Storing \cup {NoCall} /\ next \in InFlight \cup {NoCall}
        /\ (next \in Storing => next.email = call[c].email)
    BY <2>1, IssuedTyped
  <2>3. users[call[c].email] # NoUser
    BY <2>1 DEF UsersKnown
  <2>4. Goto(c, next) /\ UNCHANGED <<users, sessions, tokens>>
    BY <1>3 DEF IssueToken
  <2> HIDE DEF next
  <2> QED
    BY <2>2, <2>3, <2>4, StatesApart, KnownMoves
<1>4. ASSUME NEW c \in Calls, StoreSession(c) PROVE UsersKnown' /\ PasswordsReset'
  <2>1. call[c] \in Storing
    BY <1>4, CallTyped DEF StoreSession
  <2>2. users[call[c].email] # NoUser
    BY <2>1 DEF UsersKnown
  <2>3. \A s \in sessions' : s \in sessions \/ s.email = call[c].email
    BY <1>4 DEF StoreSession
  <2> QED
    BY <1>0, <1>4, <2>2, <2>3, StatesApart, KnownMoves DEF StoreSession, Return
<1>5. ASSUME NEW c \in Calls, NEW op \in {"getSession", "logout"}, NEW e \in Emails, NEW i \in 0 .. LastSecond,
             FindSession(c, op, e, i)
      PROVE  UsersKnown' /\ PasswordsReset'
  <2>1. PICK pc \in {"readUser", "revoke"} : Goto(c, [pc |-> pc, op |-> op, email |-> e, issued |-> i])
    BY <1>5 DEF FindSession
  <2>2. [pc |-> pc, op |-> op, email |-> e, issued |-> i] \in Reading
    BY SessionsConstantsOK DEF Reading
  <2>3. [pc |-> pc, op |-> op, email |-> e, issued |-> i] \in InFlight
    BY <2>2 DEF InFlight
  <2> QED
    BY <1>5, <2>1, <2>2, <2>3, StatesApart, KnownMoves DEF FindSession
<1>6. ASSUME NEW c \in Calls, ReadUser(c) \/ RevokeSession(c) PROVE UsersKnown' /\ PasswordsReset'
  <2>1. call[c] \in Reading
    BY <1>6, CallTyped DEF ReadUser, RevokeSession
  <2>2. [call[c] EXCEPT !.pc = "revoke"] \in Reading
    BY <2>1 DEF Reading
  <2>3. PICK next \in Reading \cup {NoCall} : Goto(c, next)
    BY <1>6, <2>2 DEF ReadUser, RevokeSession, Return
  <2>4. next \in InFlight \cup {NoCall}
    BY DEF InFlight
  <2>5. sessions' \subseteq sessions /\ UNCHANGED <<users, tokens>>
    BY <1>6 DEF ReadUser, RevokeSession
  <2> QED
    BY <2>3, <2>4, <2>5, StatesApart, KnownMoves
<1>7. ASSUME NEW c \in Calls, NEW e \in Emails, FindOwner(c, e) PROVE UsersKnown' /\ PasswordsReset'
  <2>1. PICK row \in TokenRows : row.email = e /\ Goto(c, [pc |-> "insertToken", row |-> row])
    <3>1. second + TokenAge \in Nat
      BY SessionsConstantsOK DEF SessionsTypeOK
    <3>2. PICK t \in Tokens : Goto(c, [pc |-> "insertToken", row |-> [token |-> t, email |-> e, expires |-> second + TokenAge]])
      BY <1>7 DEF FindOwner
    <3>3. [token |-> t, email |-> e, expires |-> second + TokenAge] \in TokenRows
      BY <3>1 DEF TokenRows
    <3> QED
      BY <3>2, <3>3
  <2>2. [pc |-> "insertToken", row |-> row] \in Creating /\ [pc |-> "insertToken", row |-> row] \in InFlight
    BY DEF Creating, InFlight
  <2>3. users[e] # NoUser /\ UNCHANGED <<users, sessions, tokens>>
    BY <1>7 DEF FindOwner
  <2> QED
    BY <2>1, <2>2, <2>3, StatesApart, KnownMoves
<1>8. ASSUME NEW c \in Calls, InsertToken(c) PROVE UsersKnown' /\ PasswordsReset'
  <2>1. call[c] \in Creating
    BY <1>8, CallTyped DEF InsertToken
  <2>2. users[call[c].row.email] # NoUser
    BY <2>1 DEF UsersKnown
  <2>3. \A r \in tokens' : r \in tokens \/ r = call[c].row
    BY <1>8 DEF InsertToken
  <2> QED
    BY <1>0, <1>8, <2>2, <2>3, StatesApart, KnownMoves DEF InsertToken, Return
<1>9. ASSUME NEW c \in Calls, NEW row \in tokens, NEW then \in {"setPassword", "setVerified"}, NEW p \in Passwords,
             FindToken(c, row, then, p)
      PROVE  UsersKnown' /\ PasswordsReset'
  <2> DEFINE b == then = "setPassword"
             next == [pc |-> then, row |-> row, password |-> p, reset |-> b]
  <2>1. Goto(c, next) /\ UNCHANGED <<users, sessions, tokens>>
    BY <1>9 DEF FindToken
  <2>2. next.pc = then /\ next.row = row /\ next.reset = b
    OBVIOUS
  <2>3. next \in Verifying
    <3>1. b \in BOOLEAN
      OBVIOUS
    <3> HIDE DEF b
    <3> QED
      BY <1>0, <3>1 DEF Verifying
  <2>4. users[row.email] # NoUser
    BY DEF UsersKnown
  <2>5. next.pc = "setPassword" => next.reset
    BY <2>2
  <2>6. next \in InFlight
    BY <2>3 DEF InFlight
  <2> HIDE DEF next
  <2> QED
    BY <2>1, <2>2, <2>3, <2>4, <2>5, <2>6, StatesApart, KnownMoves
<1>10. ASSUME NEW c \in Calls, SetPassword(c) \/ SetVerified(c) PROVE UsersKnown' /\ PasswordsReset'
  <2> DEFINE e == call[c].row.email  next == [call[c] EXCEPT !.pc = "dropToken"]
  <2>1. call[c] \in Verifying /\ e \in Emails /\ call[c].password \in Passwords
    BY <1>10, CallTyped, RecordsTyped, RowTyped DEF SetPassword, SetVerified
  <2>2. users[e] # NoUser /\ users[e] \in Users
    BY <1>0, <2>1 DEF UsersKnown
  <2>3. PICK new \in Users : users' = [users EXCEPT ![e] = new]
    <3>1. CASE SetPassword(c)
      <4>1. users' = [users EXCEPT ![e] = [users[e] EXCEPT !.password = call[c].password, !.version = @ + 1]]
        BY <1>0, <3>1 DEF SetPassword
      <4> QED
        BY <2>1, <2>2, <4>1, UserChanged
    <3>2. CASE SetVerified(c)
      <4>1. users' = [users EXCEPT ![e] = [users[e] EXCEPT !.verified = TRUE]]
        BY <1>0, <3>2 DEF SetVerified
      <4>2. [users[e] EXCEPT !.verified = TRUE] \in Users
        BY <2>2 DEF Users
      <4> QED
        BY <4>1, <4>2
    <3> QED
      BY <1>10, <3>1, <3>2
  <2>4. new # NoUser
    BY SessionsConstantsOK
  <2>5. \A f \in Emails : users[f] # NoUser => users'[f] # NoUser
    BY <1>0, <2>1, <2>3, <2>4
  <2>6. next \in Verifying /\ next \in InFlight /\ next.row = call[c].row /\ next.pc = "dropToken"
    BY <2>1, VerifyingGoesOn
  <2>7. Goto(c, next) /\ UNCHANGED <<sessions, tokens>>
    BY <1>10 DEF SetPassword, SetVerified
  <2>8. users'[e] # NoUser
    BY <2>1, <2>2, <2>5
  <2> HIDE DEF next
  <2> QED
    BY <2>5, <2>6, <2>7, <2>8, StatesApart, KnownMoves
<1>11. ASSUME NEW c \in Calls, DropToken(c) PROVE UsersKnown' /\ PasswordsReset'
  <2> DEFINE next == [call[c] EXCEPT !.pc = "revokeAll"]
  <2>1. call[c] \in Verifying /\ users[call[c].row.email] # NoUser
    BY <1>11, CallTyped DEF DropToken, UsersKnown
  <2>2. next \in Verifying /\ next \in InFlight /\ next.row = call[c].row /\ next.pc = "revokeAll"
    BY <2>1, VerifyingGoesOn
  <2>3. Goto(c, next) \/ Goto(c, NoCall)
    BY <1>11 DEF DropToken, Return
  <2>4. tokens' \subseteq tokens /\ UNCHANGED <<users, sessions>>
    BY <1>11 DEF DropToken
  <2> HIDE DEF next
  <2>5. CASE Goto(c, next)
    BY <2>1, <2>2, <2>4, <2>5, StatesApart, KnownMoves
  <2>6. CASE Goto(c, NoCall)
    BY <1>0, <2>4, <2>6, StatesApart, KnownMoves
  <2> QED
    BY <2>3, <2>5, <2>6
<1>12. ASSUME NEW c \in Calls, RevokeAll(c) \/ QueryFails(c) PROVE UsersKnown' /\ PasswordsReset'
  <2>1. Goto(c, NoCall) /\ sessions' \subseteq sessions /\ UNCHANGED <<users, tokens>>
    BY <1>12 DEF RevokeAll, QueryFails, Return
  <2> QED
    BY <1>0, <2>1, StatesApart, KnownMoves
<1>13. CASE SecondPasses \/ UNCHANGED sessionsVars
  BY <1>13 DEF SecondPasses, sessionsVars, UsersKnown, PasswordsReset, At, Idle
<1> QED
  BY <1>1, <1>2, <1>3, <1>4, <1>5, <1>6, <1>7, <1>8, <1>9, <1>10, <1>11, <1>12, <1>13 DEF SessionsNext

LEMMA RevokesStep ==
  ASSUME SessionsTypeOK, UsersKnown, PasswordsReset, ResetRevokes, [SessionsNext]_sessionsVars
  PROVE  ResetRevokes'
<1> USE DEF history
<1>0. /\ users \in [Emails -> Users \cup {NoUser}] /\ call \in [Calls -> InFlight \cup {NoCall}]
      /\ NoCall \in InFlight \cup {NoCall}
      /\ \A s \in sessions : s.email \in Emails
  BY DEF SessionsTypeOK, Sessions
<1>1. ASSUME NEW c \in Calls, NEW next \in InFlight \cup {NoCall}, Goto(c, next),
             UNCHANGED <<strategy, users>>, sessions' \subseteq sessions, halfReset' = halfReset,
             \A e \in Emails : ~Resets(call[c], e)
      PROVE  ResetRevokes'
  BY <1>1, RevokesElsewhere
<1>2. ASSUME NEW c \in Calls,
             ~At(c, "dropToken") /\ ~At(c, "revokeAll")
      PROVE  \A e \in Emails : ~Resets(call[c], e)
  BY <1>2 DEF At, Idle, Resets
<1>3. ASSUME NEW c \in Calls, NEW pc, pc \notin {"dropToken", "revokeAll"}, At(c, pc) \/ Idle(c)
      PROVE  ~At(c, "dropToken") /\ ~At(c, "revokeAll")
  BY <1>3 DEF At, Idle
<1>4. ASSUME NEW c \in Calls, NEW e \in Emails, NEW p \in Passwords, FindNoUser(c, e, p) \/ FindUser(c, e, p)
      PROVE  ResetRevokes'
  <2>1. PICK next \in InFlight : Goto(c, next)
    <3>1. [pc |-> "insertUser", email |-> e, password |-> p] \in InFlight
      BY DEF Registering, InFlight
    <3>2. users[e] # NoUser => [pc |-> "issue", email |-> e, version |-> users[e].version] \in InFlight
      BY <1>0 DEF LoggingIn, Users, InFlight
    <3> QED
      BY <1>4, <3>1, <3>2 DEF FindNoUser, FindUser
  <2> QED
    BY <1>1, <1>2, <1>3, <1>4, <2>1 DEF FindNoUser, FindUser
<1>5. ASSUME NEW c \in Calls, InsertUser(c) PROVE ResetRevokes'
  <2> DEFINE e == call[c].email
  <2>1. e \in Emails
    BY <1>5, CallTyped, RecordsTyped DEF InsertUser
  <2>2. \A f \in Emails : ~Resets(call[c], f)
    BY <1>2, <1>3, <1>5 DEF InsertUser
  <2>3. CASE users[e] = NoUser
    <3>1. Goto(c, Issued(e, 0)) /\ UNCHANGED <<strategy, sessions, halfReset>>
          /\ \A f \in Emails \ {e} : users'[f] = users[f]
      BY <1>0, <1>5, <2>3 DEF InsertUser
    <3>2. Issued(e, 0) \in InFlight \cup {NoCall}
      BY <2>1, IssuedTyped
    <3>3. \A s \in sessions : users'[s.email] = users[s.email]
      BY <1>0, <2>3, <3>1 DEF UsersKnown
    <3> QED
      BY <2>2, <3>1, <3>2, <3>3, RevokesElsewhere
  <2>4. CASE users[e] # NoUser
    BY <1>0, <1>1, <1>5, <2>2, <2>4 DEF InsertUser, Return
  <2> QED
    BY <2>3, <2>4
<1>6. ASSUME NEW c \in Calls, IssueToken(c) PROVE ResetRevokes'
  <2>1. Issued(call[c].email, call[c].version) \in InFlight \cup {NoCall}
    BY <1>6, CallTyped, RecordsTyped, IssuedTyped DEF IssueToken
  <2> QED
    BY <1>1, <1>2, <1>3, <1>6, <2>1 DEF IssueToken
<1>7. ASSUME NEW c \in Calls, StoreSession(c) PROVE ResetRevokes'
  <2>1. \A f \in Emails : ~Resets(call[c], f)
    BY <1>2, <1>3, <1>7 DEF StoreSession
  <2>2. ASSUME NEW s \in sessions', s \notin sessions PROVE Excusable(s, users, halfReset)
    <3> DEFINE r == call[c]  b == r.version # users[r.email].version
    <3>1. s = [email |-> r.email, issued |-> r.issued, expires |-> r.issued + MaxAge, version |-> r.version, late |-> b]
      BY <1>7, <2>2 DEF StoreSession
    <3>2. CASE b
      <4>1. s.late = b
        BY <3>1
      <4>2. s.late
        BY <3>2, <4>1
      <4> QED
        BY <4>2 DEF Excusable
    <3>3. CASE ~b
      <4>1. s.email = r.email /\ s.version = r.version
        BY <3>1
      <4> QED
        BY <3>3, <4>1 DEF Excusable
    <3> QED
      BY <3>2, <3>3
  <2>3. Goto(c, NoCall) /\ UNCHANGED <<strategy, users, halfReset>>
    BY <1>7 DEF StoreSession, Return
  <2> QED
    BY <1>0, <2>1, <2>2, <2>3, RevokesMoves
<1>8. ASSUME NEW c \in Calls, NEW op \in {"getSession", "logout"}, NEW e \in Emails, NEW i \in 0 .. LastSecond,
             FindSession(c, op, e, i)
      PROVE  ResetRevokes'
  <2>1. PICK pc \in {"readUser", "revoke"} : Goto(c, [pc |-> pc, op |-> op, email |-> e, issued |-> i])
    BY <1>8 DEF FindSession
  <2>2. [pc |-> pc, op |-> op, email |-> e, issued |-> i] \in InFlight
    BY SessionsConstantsOK DEF Reading, InFlight
  <2> QED
    BY <1>1, <1>2, <1>3, <1>8, <2>1, <2>2 DEF FindSession
<1>9. ASSUME NEW c \in Calls, ReadUser(c) \/ RevokeSession(c) PROVE ResetRevokes'
  <2>1. [call[c] EXCEPT !.pc = "revoke"] \in InFlight
    BY <1>9, CallTyped DEF ReadUser, RevokeSession, Reading, InFlight
  <2>2. PICK next \in InFlight \cup {NoCall} : Goto(c, next)
    BY <1>9, <2>1 DEF ReadUser, RevokeSession, Return
  <2>3. sessions' \subseteq sessions /\ UNCHANGED <<strategy, users, halfReset>>
    BY <1>9 DEF ReadUser, RevokeSession
  <2>4. ~At(c, "dropToken") /\ ~At(c, "revokeAll")
    BY <1>9 DEF ReadUser, RevokeSession, At
  <2> QED
    BY <1>1, <1>2, <2>2, <2>3, <2>4
<1>10. ASSUME NEW c \in Calls, NEW e \in Emails, FindOwner(c, e) PROVE ResetRevokes'
  <2>1. PICK t \in Tokens : Goto(c, [pc |-> "insertToken", row |-> [token |-> t, email |-> e, expires |-> second + TokenAge]])
    BY <1>10 DEF FindOwner
  <2>2. [pc |-> "insertToken", row |-> [token |-> t, email |-> e, expires |-> second + TokenAge]] \in InFlight
    <3>1. second + TokenAge \in Nat
      BY SessionsConstantsOK DEF SessionsTypeOK
    <3>2. [token |-> t, email |-> e, expires |-> second + TokenAge] \in TokenRows
      BY <3>1 DEF TokenRows
    <3> QED
      BY <3>2 DEF Creating, InFlight
  <2> QED
    BY <1>1, <1>2, <1>3, <1>10, <2>1, <2>2 DEF FindOwner
<1>11. ASSUME NEW c \in Calls, InsertToken(c) PROVE ResetRevokes'
  BY <1>0, <1>1, <1>2, <1>3, <1>11 DEF InsertToken, Return
<1>12. ASSUME NEW c \in Calls, NEW row \in tokens, NEW then \in {"setPassword", "setVerified"}, NEW p \in Passwords,
              FindToken(c, row, then, p)
       PROVE  ResetRevokes'
  <2> DEFINE b == then = "setPassword"
  <2>1. b \in BOOLEAN
    OBVIOUS
  <2>2. Goto(c, [pc |-> then, row |-> row, password |-> p, reset |-> b])
        /\ UNCHANGED <<strategy, users, sessions, halfReset>> /\ Idle(c)
    BY <1>12 DEF FindToken
  <2> HIDE DEF b
  <2>3. [pc |-> then, row |-> row, password |-> p, reset |-> b] \in InFlight
    BY <2>1 DEF SessionsTypeOK, InFlight, Verifying
  <2>4. \A e \in Emails : ~Resets(call[c], e)
    BY <2>2 DEF Idle, Resets
  <2> QED
    BY <1>1, <2>2, <2>3, <2>4
<1>13. ASSUME NEW c \in Calls, SetPassword(c) PROVE ResetRevokes'
  <2> DEFINE e == call[c].row.email  next == [call[c] EXCEPT !.pc = "dropToken"]
  <2>1. call[c] \in Verifying /\ e \in Emails /\ call[c].reset
    BY <1>13, CallTyped, RecordsTyped, RowTyped DEF SetPassword, PasswordsReset
  <2>2. /\ next \in InFlight /\ next.row = call[c].row /\ next.pc = "dropToken" /\ next.reset = call[c].reset
        /\ next # NoCall
    BY <2>1, VerifyingGoesOn, SessionsConstantsOK
  <2>3. Goto(c, next) /\ UNCHANGED <<strategy, sessions, halfReset>>
        /\ \A f \in Emails \ {e} : users'[f] = users[f]
    BY <1>0, <1>13 DEF SetPassword
  <2>4. Resets(next, e)
    BY <2>1, <2>2 DEF Resets
  <2>5. \A f \in Emails : ~Resets(call[c], f)
    BY <1>2, <1>3, <1>13 DEF SetPassword
  <2> HIDE DEF next
  <2>6. \A s \in sessions' : Resets(next, s.email) \/ users'[s.email].version = users[s.email].version
    BY <1>0, <2>3, <2>4
  <2> QED
    BY <1>0, <2>2, <2>3, <2>5, <2>6, RevokesMoves
<1>14. ASSUME NEW c \in Calls, SetVerified(c) PROVE ResetRevokes'
  <2> DEFINE e == call[c].row.email  next == [call[c] EXCEPT !.pc = "dropToken"]
  <2>1. call[c] \in Verifying /\ e \in Emails
    BY <1>14, CallTyped, RecordsTyped, RowTyped DEF SetVerified
  <2>2. next \in InFlight
    BY <2>1, VerifyingGoesOn
  <2>3. users[e] \in Users
    BY <1>0, <2>1 DEF UsersKnown
  <2>4. users' = [users EXCEPT ![e] = [users[e] EXCEPT !.verified = TRUE]]
    BY <1>0, <1>14 DEF SetVerified
  <2>5. \A f \in Emails : users'[f].version = users[f].version
    BY <1>0, <2>1, <2>3, <2>4 DEF Users
  <2>6. \A f \in Emails : ~Resets(call[c], f)
    BY <1>2, <1>3, <1>14 DEF SetVerified
  <2> HIDE DEF next
  <2>7. Goto(c, next) /\ UNCHANGED <<strategy, sessions, halfReset>>
    BY <1>14 DEF SetVerified, next
  <2> QED
    BY <1>0, <2>2, <2>5, <2>6, <2>7, RevokesElsewhere
<1>15. ASSUME NEW c \in Calls, DropToken(c) PROVE ResetRevokes'
  <2> DEFINE next == [call[c] EXCEPT !.pc = "revokeAll"]
  <2>1. call[c] \in Verifying
    BY <1>15, CallTyped DEF DropToken
  <2>2. /\ next \in InFlight /\ next.row = call[c].row /\ next.pc = "revokeAll" /\ next.reset = call[c].reset
        /\ next # NoCall
    BY <2>1, VerifyingGoesOn, SessionsConstantsOK
  <2>3. \A e \in Emails : Resets(call[c], e) => Resets(next, e)
    BY <2>2 DEF Resets
  <2>4. UNCHANGED <<strategy, users, sessions, halfReset>>
    BY <1>15 DEF DropToken
  <2>5. CASE call[c].reset
    <3>1. Goto(c, next)
      BY <1>15, <2>5 DEF DropToken
    <3> HIDE DEF next
    <3> QED
      BY <2>2, <2>3, <2>4, <3>1, RevokesElsewhere
  <2>6. CASE ~call[c].reset
    <3>1. Goto(c, NoCall)
      BY <1>15, <2>6 DEF DropToken, Return
    <3>2. \A e \in Emails : ~Resets(call[c], e)
      BY <2>6 DEF Resets
    <3> QED
      BY <1>0, <1>1, <2>4, <3>1, <3>2
  <2> QED
    BY <2>5, <2>6
<1>16. ASSUME NEW c \in Calls, RevokeAll(c) PROVE ResetRevokes'
  <2> DEFINE e == call[c].row.email
  <2>1. strategy = "database" => \A s \in sessions' : s \in sessions /\ s.email # e
    BY <1>16 DEF RevokeAll
  <2>2. Goto(c, NoCall) /\ UNCHANGED <<strategy, users>> /\ halfReset' = halfReset \ {e}
    BY <1>16 DEF RevokeAll, Return
  <2>3. \A f \in Emails : Resets(call[c], f) => f = e
    BY DEF Resets
  <2> HIDE DEF e
  <2> QED
    BY <1>0, <2>1, <2>2, <2>3, RevokesMoves
<1>17. ASSUME NEW c \in Calls, QueryFails(c) PROVE ResetRevokes'
  <2>1. \A e \in Emails : Resets(call[c], e) => e \in halfReset'
    BY <1>17 DEF QueryFails, Resets, At, Idle
  <2>2. Goto(c, NoCall) /\ UNCHANGED <<strategy, users, sessions>> /\ halfReset \subseteq halfReset'
    BY <1>17 DEF QueryFails, Return
  <2> QED
    BY <1>0, <2>1, <2>2, RevokesElsewhere
<1>18. CASE SecondPasses \/ UNCHANGED sessionsVars
  BY <1>18 DEF SecondPasses, sessionsVars, ResetRevokes, Resetting, Idle
<1> QED
  BY <1>4, <1>5, <1>6, <1>7, <1>8, <1>9, <1>10, <1>11, <1>12, <1>13, <1>14, <1>15, <1>16, <1>17, <1>18
  DEF SessionsNext

-----------------------------------------------------------------------------
SessionsIInv == SessionsTypeOK /\ UsersKnown /\ PasswordsReset /\ TokensHold /\ ResetRevokes

LEMMA SessionsStart == SessionsInit => SessionsIInv
<1> SUFFICES ASSUME SessionsInit PROVE SessionsIInv
  OBVIOUS
<1>1. SessionsTypeOK
  BY SessionsConstantsOK DEF SessionsInit, SessionsTypeOK
<1>2. UsersKnown /\ PasswordsReset
  BY StatesApart DEF SessionsInit, UsersKnown, PasswordsReset, At, Idle
<1>3. TokensHold
  BY DEF SessionsInit, TokensHold, KnownOnce, UsedOnce, Creates, Holds
<1>4. ResetRevokes
  BY DEF SessionsInit, ResetRevokes
<1> QED
  BY <1>1, <1>2, <1>3, <1>4 DEF SessionsIInv

LEMMA SessionsInvariant == SessionsSpec => []SessionsIInv
<1>1. SessionsIInv /\ [SessionsNext]_sessionsVars => SessionsIInv'
  BY TypeStep, KnownStep, TokensStep, RevokesStep DEF SessionsIInv
<1> QED
  BY <1>1, SessionsStart, PTL DEF SessionsSpec

(* Users, sessions, tokens and the calls in flight keep their types, for   *)
(* any of them.                                                            *)
THEOREM SessionsTypeCorrect == SessionsSpec => []SessionsTypeOK
<1>1. SessionsIInv => SessionsTypeOK
  BY DEF SessionsIInv
<1> QED
  BY <1>1, SessionsInvariant, PTL

(* A password reset logs everybody out, for any number of logins and       *)
(* resets at once: what is left are sessions of logins that had read the   *)
(* user before, of resets under way, and of resets that failed half way.   *)
THEOREM ResetsRevoke == SessionsSpec => []ResetRevokes
<1>1. SessionsIInv => ResetRevokes
  BY DEF SessionsIInv
<1> QED
  BY <1>1, SessionsInvariant, PTL

(* A verification token changes a password once, for any number of calls   *)
(* at once, unless two of them had found it, or deleting it failed.        *)
THEOREM TokensSpentOnce == SessionsSpec => []TokenSpentOnce
<1>1. SessionsIInv => TokenSpentOnce
  BY DEF SessionsIInv, TokensHold, UsedOnce, TokenSpentOnce
<1> QED
  BY <1>1, SessionsInvariant, PTL

-----------------------------------------------------------------------------
(* TwoFactor                                                               *)

\* An enable in flight has seen a code of the secret it will require and,
\* unless that was replaced meanwhile, of the one in the row.
EnablesProved ==
  \A o \in Owners : checked[o] # NoSecret => checked[o] \in proved /\ (~loose => checked[o] = secret)

TwoFactorIInv == TwoFactorTypeOK /\ EnablesProved /\ RequiredIsProved

LEMMA TwoFactorStarts == TwoFactorInit => TwoFactorIInv
BY DEF TwoFactorInit, TwoFactorIInv, TwoFactorTypeOK, EnablesProved, RequiredIsProved

LEMMA TwoFactorStep == TwoFactorIInv /\ [TwoFactorNext]_twoFactorVars => TwoFactorIInv'
<1> SUFFICES ASSUME TwoFactorIInv, [TwoFactorNext]_twoFactorVars PROVE TwoFactorIInv'
  OBVIOUS
<1> USE TwoFactorConstantsOK DEF TwoFactorIInv, TwoFactorTypeOK, EnablesProved, RequiredIsProved
<1>1. ASSUME NEW s \in Secrets, Generate(s) PROVE TwoFactorIInv'
  BY <1>1 DEF Generate, Enabling
<1>2. ASSUME NEW o \in Owners, NEW code \in Secrets, CheckCode(o, code) PROVE TwoFactorIInv'
  BY <1>2 DEF CheckCode
<1>3. ASSUME NEW o \in Owners, Enable(o) PROVE TwoFactorIInv'
  BY <1>3 DEF Enable
<1>4. ASSUME NEW o \in Owners, EnableFails(o) PROVE TwoFactorIInv'
  BY <1>4 DEF EnableFails
<1>5. CASE Disable
  BY <1>5 DEF Disable, Enabling
<1>6. CASE UNCHANGED twoFactorVars
  BY <1>6 DEF twoFactorVars
<1> QED
  BY <1>1, <1>2, <1>3, <1>4, <1>5, <1>6 DEF TwoFactorNext

LEMMA TwoFactorInvariant == TwoFactorSpec => []TwoFactorIInv
BY TwoFactorStarts, TwoFactorStep, PTL DEF TwoFactorSpec

(* twoFactor keeps its types, for any secrets and calls of enable.         *)
THEOREM TwoFactorTypeCorrect == TwoFactorSpec => []TwoFactorTypeOK
<1>1. TwoFactorIInv => TwoFactorTypeOK
  BY DEF TwoFactorIInv
<1> QED
  BY <1>1, TwoFactorInvariant, PTL

(* Codes are demanded only of a secret that its owner has shown one of, for*)
(* any secrets and any number of enables at once, unless generate or       *)
(* disable ran under an enable or generate replaced a required secret.     *)
THEOREM CodesAreProved == TwoFactorSpec => []RequiredIsProved
<1>1. TwoFactorIInv => RequiredIsProved
  BY DEF TwoFactorIInv
<1> QED
  BY <1>1, TwoFactorInvariant, PTL

-----------------------------------------------------------------------------
(* OAuthAccounts                                                           *)

StateKnown  == [pc : {"dropState"}, state : States]
Exchanging  == [pc : {"exchange"}]
PersonKnown == [pc : {"findUser", "insertUser", "findAccount", "insertAccount", "updateAccount"},
                person : People]

InsertingFor(c, p) == InFlow(c, "insertAccount") /\ flow[c].person = p

\* Whose account is looked for or stored has a row.
UsersFirst ==
  \A c \in Callbacks : \A pc \in {"findAccount", "insertAccount", "updateAccount"} :
    InFlow(c, pc) => flow[c].person \in people

\* One callback at a time is about to store an account, and only the first.
InsertsAlone ==
  \A p \in People : p \notin crossed =>
    /\ \A c, d \in Callbacks : InsertingFor(c, p) /\ InsertingFor(d, p) => c = d
    /\ \A c \in Callbacks : InsertingFor(c, p) => accounts[p] = 0

OAuthIInv == OAuthTypeOK /\ UsersFirst /\ InsertsAlone /\ LinkedOnce

Flows == {NoFlow} \cup StateKnown \cup Exchanging \cup PersonKnown

LEMMA OAuthStarts == OAuthInit => OAuthIInv
<1> SUFFICES ASSUME OAuthInit PROVE OAuthIInv
  OBVIOUS
<1> USE OAuthConstantsOK DEF OAuthInit
<1>1. OAuthTypeOK
  BY DEF OAuthTypeOK
<1>2. \A c \in Callbacks : \A pc : ~InFlow(c, pc)
  BY DEF InFlow
<1>3. UsersFirst /\ InsertsAlone
  BY <1>2 DEF UsersFirst, InsertsAlone, InsertingFor
<1>4. LinkedOnce
  BY DEF LinkedOnce
<1> QED
  BY <1>1, <1>3, <1>4 DEF OAuthIInv

\* A step of one callback that stores no account and comes to no insert.
LEMMA CallbackElsewhere ==
  ASSUME OAuthIInv, NEW c \in Callbacks, NEW next \in Flows,
         flow' = [flow EXCEPT ![c] = next],
         stateRows' \subseteq stateRows, people \subseteq people', people' \subseteq People,
         UNCHANGED <<accounts, drawn, crossed>>,
         next # NoFlow => /\ next.pc # "insertAccount"
                          /\ next.pc \in {"findAccount", "updateAccount"} => next.person \in people'
  PROVE  OAuthIInv'
<1>0. flow \in [Callbacks -> Flows]
  BY DEF OAuthIInv, OAuthTypeOK, Flows, StateKnown, Exchanging, PersonKnown
<1>1. /\ flow'[c] = next /\ \A d \in Callbacks : d # c => flow'[d] = flow[d]
      /\ flow' \in [Callbacks -> Flows]
  BY <1>0
<1>2. OAuthTypeOK'
  <2>1. /\ stateRows' \subseteq States
        /\ people' \subseteq People /\ crossed' \subseteq People /\ drawn' \subseteq States
        /\ accounts' \in [People -> 0 .. MaxRows]
    BY DEF OAuthIInv, OAuthTypeOK
  <2> QED
    BY <1>1, <2>1 DEF OAuthTypeOK, Flows, StateKnown, Exchanging, PersonKnown
<1>3. UsersFirst'
  BY <1>1 DEF OAuthIInv, UsersFirst, InFlow
<1>4. \A p \in People, d \in Callbacks : InsertingFor(d, p)' => InsertingFor(d, p)
  BY <1>1 DEF InsertingFor, InFlow
<1>5. InsertsAlone' /\ LinkedOnce'
  BY <1>4 DEF OAuthIInv, InsertsAlone, LinkedOnce
<1> QED
  BY <1>2, <1>3, <1>5 DEF OAuthIInv

\* A step that leaves the state rows alone.
LEMMA OAuthTypesKept ==
  ASSUME OAuthIInv, NEW c \in Callbacks, NEW next \in Flows, flow' = [flow EXCEPT ![c] = next],
         people' \subseteq People, crossed' \subseteq People, accounts' \in [People -> 0 .. MaxRows],
         UNCHANGED <<stateRows, drawn>>
  PROVE  /\ OAuthTypeOK' /\ flow'[c] = next
         /\ \A d \in Callbacks : d # c => flow'[d] = flow[d]
<1>1. flow \in [Callbacks -> Flows]
  BY DEF OAuthIInv, OAuthTypeOK, Flows, StateKnown, Exchanging, PersonKnown
<1>2. /\ flow'[c] = next /\ \A d \in Callbacks : d # c => flow'[d] = flow[d]
      /\ flow' \in [Callbacks -> Flows]
  BY <1>1
<1>3. /\ stateRows' \subseteq States
      /\ drawn' \subseteq States
  BY DEF OAuthIInv, OAuthTypeOK
<1> QED
  BY <1>2, <1>3 DEF OAuthTypeOK, Flows, StateKnown, Exchanging, PersonKnown

\* The first of two new users stores its person, and inserts its account
\* alone: nobody else gets past a person who has no row.
LEMMA PersonStored ==
  ASSUME OAuthIInv, NEW c \in Callbacks, flow[c] \in PersonKnown, InsertPerson(c)
  PROVE  OAuthIInv'
<1>0. PICK p : p = flow[c].person
  OBVIOUS
<1> DEFINE next == IF p \in people THEN NoFlow ELSE [flow[c] EXCEPT !.pc = "insertAccount"]
<1>1. /\ InFlow(c, "insertUser") /\ people' = people \cup {p} /\ p \in People
      /\ flow' = [flow EXCEPT ![c] = next]
      /\ UNCHANGED <<stateRows, accounts, drawn, crossed>>
  BY <1>0 DEF InsertPerson, Leave, Proceed, PersonKnown
<1>2. CASE p \in people
  BY <1>1, <1>2, CallbackElsewhere DEF OAuthIInv, OAuthTypeOK, Flows
<1>3. CASE p \notin people
  <2>1. next \in PersonKnown /\ next.person = p /\ next.pc = "insertAccount"
    BY <1>0, <1>3 DEF PersonKnown
  <2> HIDE DEF next
  <2>2. /\ OAuthTypeOK' /\ flow'[c] = next
        /\ \A d \in Callbacks : d # c => flow'[d] = flow[d]
    BY <1>1, <2>1, OAuthTypesKept DEF OAuthIInv, OAuthTypeOK, Flows
  <2>3. UsersFirst'
    BY <1>1, <2>1, <2>2 DEF OAuthIInv, UsersFirst, InFlow
  <2>4. /\ \A d \in Callbacks : ~InsertingFor(d, p)
        /\ accounts[p] = 0
    BY <1>1, <1>3 DEF OAuthIInv, OAuthTypeOK, UsersFirst, LinkedOnce, InsertingFor
  <2>5. /\ \A d \in Callbacks : InsertingFor(d, p)' => d = c
        /\ \A d \in Callbacks, q \in People : q # p => (InsertingFor(d, q)' => InsertingFor(d, q))
    BY <2>1, <2>2, <2>4 DEF InsertingFor, InFlow
  <2>6. InsertsAlone'
    BY <1>1, <2>4, <2>5 DEF OAuthIInv, InsertsAlone
  <2>7. LinkedOnce'
    BY <1>1 DEF OAuthIInv, LinkedOnce
  <2> QED
    BY <2>2, <2>3, <2>6, <2>7 DEF OAuthIInv
<1> QED
  BY <1>2, <1>3

\* Who finds no account goes on to insert one; if another is about to, the
\* two have crossed.
LEMMA AccountFound ==
  ASSUME OAuthIInv, NEW c \in Callbacks, flow[c] \in PersonKnown, FindAccount(c)
  PROVE  OAuthIInv'
<1>0. PICK p : p = flow[c].person
  OBVIOUS
<1> DEFINE next == [flow[c] EXCEPT !.pc = IF accounts[p] = 0 THEN "insertAccount" ELSE "updateAccount"]
<1>1. /\ InFlow(c, "findAccount") /\ p \in People /\ p \in people
      /\ crossed' = IF accounts[p] = 0 /\ Inserting(p) THEN crossed \cup {p} ELSE crossed
      /\ flow' = [flow EXCEPT ![c] = next]
      /\ UNCHANGED <<stateRows, people, accounts, drawn>>
  BY <1>0 DEF FindAccount, Proceed, PersonKnown, OAuthIInv, UsersFirst
<1>2. /\ next \in PersonKnown /\ next.person = p
      /\ next.pc = "insertAccount" => accounts[p] = 0
      /\ next.pc \in {"insertAccount", "updateAccount"}
  BY <1>0 DEF PersonKnown
<1> HIDE DEF next
<1>3. /\ OAuthTypeOK' /\ flow'[c] = next
      /\ \A d \in Callbacks : d # c => flow'[d] = flow[d]
  BY <1>1, <1>2, OAuthTypesKept DEF OAuthIInv, OAuthTypeOK, Flows
<1>4. UsersFirst'
  BY <1>1, <1>2, <1>3 DEF OAuthIInv, UsersFirst, InFlow
<1>5. InsertsAlone'
  <2> SUFFICES ASSUME NEW q \in People, q \notin crossed'
               PROVE  /\ \A d, e \in Callbacks : InsertingFor(d, q)' /\ InsertingFor(e, q)' => d = e
                      /\ \A d \in Callbacks : InsertingFor(d, q)' => accounts[q] = 0
    BY <1>1 DEF InsertsAlone
  <2>0. q \notin crossed
    BY <1>1
  <2>1. CASE q = p
    <3>1. CASE accounts[p] = 0
      <4>1. \A d \in Callbacks : ~InsertingFor(d, p)
        BY <1>1, <2>1, <3>1 DEF Inserting, InsertingFor
      <4>2. \A d \in Callbacks : InsertingFor(d, p)' => d = c
        BY <1>3, <4>1 DEF InsertingFor, InFlow
      <4> QED
        BY <2>1, <3>1, <4>2
    <3>2. CASE accounts[p] # 0
      <4>1. \A d \in Callbacks : InsertingFor(d, p)' => InsertingFor(d, p)
        BY <1>2, <1>3, <3>2 DEF InsertingFor, InFlow
      <4> QED
        BY <2>0, <2>1, <4>1 DEF OAuthIInv, InsertsAlone
    <3> QED
      BY <3>1, <3>2
  <2>2. CASE q # p
    <3>1. \A d \in Callbacks : InsertingFor(d, q)' => InsertingFor(d, q)
      BY <1>2, <1>3, <2>2 DEF InsertingFor, InFlow
    <3> QED
      BY <2>0, <3>1 DEF OAuthIInv, InsertsAlone
  <2> QED
    BY <2>1, <2>2
<1>6. LinkedOnce'
  BY <1>1 DEF OAuthIInv, LinkedOnce
<1> QED
  BY <1>3, <1>4, <1>5, <1>6 DEF OAuthIInv

LEMMA AccountStored ==
  ASSUME OAuthIInv, NEW c \in Callbacks, flow[c] \in PersonKnown, InsertAccount(c)
  PROVE  OAuthIInv'
<1> USE OAuthConstantsOK
<1> DEFINE p == flow[c].person
<1>1. /\ InsertingFor(c, p) /\ p \in People /\ p \in people /\ accounts[p] < MaxRows
      /\ accounts' = [accounts EXCEPT ![p] = @ + 1] /\ flow' = [flow EXCEPT ![c] = NoFlow]
      /\ UNCHANGED <<stateRows, people, drawn, crossed>>
  BY DEF InsertAccount, Leave, Proceed, PersonKnown, OAuthIInv, UsersFirst, InsertingFor
<1>2. /\ accounts' \in [People -> 0 .. MaxRows] /\ accounts'[p] = accounts[p] + 1
      /\ \A q \in People : q # p => accounts'[q] = accounts[q]
  BY <1>1 DEF OAuthIInv, OAuthTypeOK
<1>3. /\ OAuthTypeOK' /\ flow'[c] = NoFlow
      /\ \A d \in Callbacks : d # c => flow'[d] = flow[d]
  BY <1>1, <1>2, OAuthTypesKept DEF OAuthIInv, OAuthTypeOK, Flows
<1>4. UsersFirst'
  BY <1>1, <1>3 DEF OAuthIInv, UsersFirst, InFlow
<1>5. \A d \in Callbacks, q \in People : InsertingFor(d, q)' => InsertingFor(d, q) /\ d # c
  BY <1>3 DEF InsertingFor, InFlow
<1>6. InsertsAlone'
  BY <1>1, <1>2, <1>5 DEF OAuthIInv, InsertsAlone
<1>7. LinkedOnce'
  BY <1>1, <1>2 DEF OAuthIInv, InsertsAlone, LinkedOnce
<1> QED
  BY <1>3, <1>4, <1>6, <1>7 DEF OAuthIInv

LEMMA OAuthStep == OAuthIInv /\ [OAuthNext]_oauthVars => OAuthIInv'
<1> SUFFICES ASSUME OAuthIInv, [OAuthNext]_oauthVars PROVE OAuthIInv'
  OBVIOUS
<1> USE OAuthConstantsOK
<1>0. /\ flow \in [Callbacks -> Flows] /\ OAuthTypeOK
      /\ \A c \in Callbacks : \A pc \in {"findUser", "insertUser", "findAccount", "insertAccount", "updateAccount"} :
           InFlow(c, pc) => flow[c] \in PersonKnown
  BY DEF OAuthIInv, OAuthTypeOK, Flows, StateKnown, Exchanging, PersonKnown, InFlow
<1>1. ASSUME NEW s \in States, SignIn(s) PROVE OAuthIInv'
  <2>1. OAuthTypeOK'
    BY <1>0, <1>1 DEF SignIn, OAuthTypeOK
  <2> QED
    BY <1>1, <2>1 DEF SignIn, OAuthIInv, UsersFirst, InsertsAlone, LinkedOnce, InsertingFor, InFlow
<1>2. ASSUME NEW c \in Callbacks, NEW s \in stateRows, FindState(c, s) PROVE OAuthIInv'
  <2>1. [pc |-> "dropState", state |-> s] \in Flows
    BY <1>0 DEF Flows, StateKnown, OAuthTypeOK
  <2> QED
    BY <1>0, <1>2, <2>1, CallbackElsewhere DEF FindState, Proceed, OAuthTypeOK
<1>3. ASSUME NEW c \in Callbacks, SkipState(c) PROVE OAuthIInv'
  <2>1. [pc |-> "exchange"] \in Flows
    BY DEF Flows, Exchanging
  <2> QED
    BY <1>0, <1>3, <2>1, CallbackElsewhere DEF SkipState, Proceed, OAuthTypeOK
<1>4. ASSUME NEW c \in Callbacks, DropState(c) PROVE OAuthIInv'
  <2>1. [pc |-> "exchange"] \in Flows
    BY DEF Flows, Exchanging
  <2> QED
    BY <1>0, <1>4, <2>1, CallbackElsewhere DEF DropState, Proceed, OAuthTypeOK
<1>5. ASSUME NEW c \in Callbacks, NEW p \in People, Exchange(c, p) PROVE OAuthIInv'
  <2>1. [pc |-> "findUser", person |-> p] \in Flows
    BY DEF Flows, PersonKnown
  <2> QED
    BY <1>0, <1>5, <2>1, CallbackElsewhere DEF Exchange, Proceed, OAuthTypeOK
<1>6. ASSUME NEW c \in Callbacks, FindPerson(c) PROVE OAuthIInv'
  <2> DEFINE next == [flow[c] EXCEPT !.pc = IF flow[c].person \in people THEN "findAccount" ELSE "insertUser"]
  <2>1. next \in PersonKnown /\ next.person = flow[c].person /\ next.pc \in {"findAccount", "insertUser"}
        /\ (next.pc = "findAccount" => next.person \in people)
    BY <1>0, <1>6 DEF FindPerson, PersonKnown
  <2> HIDE DEF next
  <2>2. flow' = [flow EXCEPT ![c] = next]
    BY <1>6 DEF FindPerson, Proceed, next
  <2> QED
    BY <1>0, <1>6, <2>1, <2>2, CallbackElsewhere DEF FindPerson, OAuthTypeOK, Flows
<1>7. ASSUME NEW c \in Callbacks, InsertPerson(c) PROVE OAuthIInv'
  BY <1>0, <1>7, PersonStored DEF InsertPerson
<1>8. ASSUME NEW c \in Callbacks, FindAccount(c) PROVE OAuthIInv'
  BY <1>0, <1>8, AccountFound DEF FindAccount
<1>9. ASSUME NEW c \in Callbacks, InsertAccount(c) PROVE OAuthIInv'
  BY <1>0, <1>9, AccountStored DEF InsertAccount
<1>10. ASSUME NEW c \in Callbacks, UpdateAccount(c) \/ CallbackFails(c) PROVE OAuthIInv'
  <2>1. NoFlow \in Flows
    BY DEF Flows
  <2> QED
    BY <1>0, <1>10, <2>1, CallbackElsewhere DEF UpdateAccount, CallbackFails, Leave, Proceed, OAuthTypeOK
<1>11. CASE UNCHANGED oauthVars
  BY <1>11 DEF oauthVars, OAuthIInv, OAuthTypeOK, UsersFirst, InsertsAlone, LinkedOnce, InsertingFor, InFlow
<1> QED
  BY <1>1, <1>2, <1>3, <1>4, <1>5, <1>6, <1>7, <1>8, <1>9, <1>10, <1>11 DEF OAuthNext

LEMMA OAuthInvariant == OAuthSpec => []OAuthIInv
BY OAuthStarts, OAuthStep, PTL DEF OAuthSpec

(* handleCallback keeps its types, for any persons, states and callbacks.  *)
THEOREM OAuthTypeCorrect == OAuthSpec => []OAuthTypeOK
<1>1. OAuthIInv => OAuthTypeOK
  BY DEF OAuthIInv
<1> QED
  BY <1>1, OAuthInvariant, PTL

(* An account is linked once, and to a stored user, for any persons and    *)
(* callbacks at once, unless two callbacks looked for it together.         *)
THEOREM AccountsLinkedOnce == OAuthSpec => []LinkedOnce
<1>1. OAuthIInv => LinkedOnce
  BY DEF OAuthIInv
<1> QED
  BY <1>1, OAuthInvariant, PTL

-----------------------------------------------------------------------------
(* RateLimiter                                                             *)

Lesser(a, b) == IF a < b THEN a ELSE b
\* Upto, of the history of one key.
CountAt(h, t) == IF t < 0 THEN 0 ELSE IF t > LastTime THEN h[LastTime] ELSE h[t]

\* The requests let through by an instant only grow, and stand still from now.
Grows(h, now) ==
  \A s, t \in 0 .. LastTime :
    /\ s <= t => h[s] <= h[t]
    /\ t >= now => h[t] = h[now]

Stretch(h, from, to) == CountAt(h, to) - CountAt(h, from - 1)

\* A window has counted what was let through since it opened, and the
\* stretch before it, as long as a window, held no more than the limit.
WindowCounts(h, entry, now) ==
  LET opened == entry.resetAt - WindowMs
  IN  /\ opened \in 0 .. now /\ entry.count >= 1
      /\ Stretch(h, opened, now) = Lesser(entry.count, MaxRequests)
      /\ Stretch(h, opened - WindowMs, opened - 1) <= MaxRequests

\* Where the next request opens a window, this instant has let none through,
\* and the last windowMs no more than the limit.
Quiet(h, now) ==
  /\ Stretch(h, now, now) = 0
  /\ Stretch(h, now - WindowMs, now) <= MaxRequests

AtMostTwice(h) == \A t \in 0 .. LastTime : Stretch(h, t, t + WindowMs) <= 2 * MaxRequests

KeyHolds(h, entry, now) ==
  /\ Grows(h, now) /\ AtMostTwice(h)
  /\ entry # NoEntry => WindowCounts(h, entry, now)
  /\ entry = NoEntry \/ now > entry.resetAt => Quiet(h, now)

RefusedHolds(h, now) == Stretch(h, now - WindowMs, now) >= MaxRequests

LimiterIInv ==
  /\ RateLimiterTypeOK
  /\ \A k \in Clients : KeyHolds(admitted[k], store[k], time)
  /\ \A k \in refusal : RefusedHolds(admitted[k], time)

LEMMA AtNat ==
  ASSUME NEW h \in [0 .. LastTime -> Nat], NEW t \in Int
  PROVE  CountAt(h, t) \in Nat
BY LimiterConstantsOK DEF CountAt

LEMMA AtGrows ==
  ASSUME NEW h \in [0 .. LastTime -> Nat], NEW now \in 0 .. LastTime, Grows(h, now),
         NEW s \in Int, NEW t \in Int
  PROVE  /\ s <= t => CountAt(h, s) <= CountAt(h, t)
         /\ s >= now => CountAt(h, s) = CountAt(h, now)
<1> USE LimiterConstantsOK
<1>1. ASSUME s <= t PROVE CountAt(h, s) <= CountAt(h, t)
  <2>1. CASE s < 0
    BY <1>1, <2>1, AtNat DEF CountAt
  <2>2. CASE s \in 0 .. LastTime /\ t \in 0 .. LastTime
    BY <1>1, <2>2 DEF CountAt, Grows
  <2>3. CASE s \in 0 .. LastTime /\ t > LastTime
    <3>1. h[s] <= h[LastTime]
      BY <2>3 DEF Grows
    <3> QED
      BY <2>3, <3>1 DEF CountAt
  <2>4. CASE s > LastTime
    BY <1>1, <2>4 DEF CountAt
  <2> QED
    BY <1>1, <2>1, <2>2, <2>3, <2>4
<1>2. ASSUME s >= now PROVE CountAt(h, s) = CountAt(h, now)
  <2>1. CASE s <= LastTime
    BY <1>2, <2>1 DEF CountAt, Grows
  <2>2. CASE s > LastTime
    <3>1. h[LastTime] = h[now]
      BY DEF Grows
    <3> QED
      BY <2>2, <3>1 DEF CountAt
  <2> QED
    BY <2>1, <2>2
<1> QED
  BY <1>1, <1>2

\* One more request let through now.
LetThrough(h, now) == [t \in 0 .. LastTime |-> IF t < now THEN h[t] ELSE h[t] + 1]

LEMMA AtLetThrough ==
  ASSUME NEW h \in [0 .. LastTime -> Nat], NEW now \in 0 .. LastTime, NEW t \in Int
  PROVE  CountAt(LetThrough(h, now), t) = CountAt(h, t) + (IF t >= now THEN 1 ELSE 0)
BY LimiterConstantsOK DEF CountAt, LetThrough

LEMMA GrowsLetThrough ==
  ASSUME NEW h \in [0 .. LastTime -> Nat], NEW now \in 0 .. LastTime, Grows(h, now)
  PROVE  LetThrough(h, now) \in [0 .. LastTime -> Nat] /\ Grows(LetThrough(h, now), now)
<1>1. LetThrough(h, now) \in [0 .. LastTime -> Nat]
  BY LimiterConstantsOK DEF LetThrough
<1>2. \A s, t \in 0 .. LastTime :
        /\ s <= t => LetThrough(h, now)[s] <= LetThrough(h, now)[t]
        /\ t >= now => LetThrough(h, now)[t] = LetThrough(h, now)[now]
  BY LimiterConstantsOK DEF LetThrough, Grows
<1> QED
  BY <1>1, <1>2 DEF Grows

LEMMA GrowsLater ==
  ASSUME NEW h \in [0 .. LastTime -> Nat], NEW now \in 0 .. LastTime, Grows(h, now), now < LastTime
  PROVE  Grows(h, now + 1)
BY LimiterConstantsOK DEF Grows

LEMMA StretchWithin ==
  ASSUME NEW h \in [0 .. LastTime -> Nat], NEW now \in 0 .. LastTime, Grows(h, now),
         NEW a \in Int, NEW b \in Int, NEW c \in Int, NEW d \in Int,
         c <= a, b <= d \/ now <= d
  PROVE  /\ Stretch(h, a, b) \in Int
         /\ Stretch(h, a, b) <= Stretch(h, c, d)
         /\ d >= now => Stretch(h, a, d) = Stretch(h, a, now)
<1>1. CountAt(h, b) \in Nat /\ CountAt(h, d) \in Nat /\ CountAt(h, a - 1) \in Nat /\ CountAt(h, c - 1) \in Nat /\ CountAt(h, now) \in Nat
  <2>1. a - 1 \in Int /\ c - 1 \in Int /\ now \in Int
    BY LimiterConstantsOK
  <2> QED
    BY <2>1, AtNat
<1>2. CountAt(h, c - 1) <= CountAt(h, a - 1)
  BY AtGrows, c - 1 \in Int, a - 1 \in Int, c - 1 <= a - 1
<1>3. d >= now => CountAt(h, d) = CountAt(h, now)
  BY AtGrows
<1>4. CountAt(h, b) <= CountAt(h, d)
  <2>1. CASE b <= d
    BY <2>1, AtGrows
  <2>2. CASE b > d
    BY <2>2, AtGrows, <1>3
  <2> QED
    BY <2>1, <2>2
<1> QED
  BY <1>1, <1>2, <1>3, <1>4 DEF Stretch

LEMMA StretchLetThrough ==
  ASSUME NEW h \in [0 .. LastTime -> Nat], NEW now \in 0 .. LastTime,
         NEW a \in Int, NEW b \in Int
  PROVE  /\ a <= now /\ now <= b => Stretch(LetThrough(h, now), a, b) = Stretch(h, a, b) + 1
         /\ a <= now /\ b < now => Stretch(LetThrough(h, now), a, b) = Stretch(h, a, b)
         /\ now < a /\ now <= b => Stretch(LetThrough(h, now), a, b) = Stretch(h, a, b)
<1> DEFINE x == CountAt(h, b)  y == CountAt(h, a - 1)
<1>1. x \in Nat /\ y \in Nat /\ now \in Int
  BY AtNat, LimiterConstantsOK
<1>2. CountAt(LetThrough(h, now), b) = x + (IF b >= now THEN 1 ELSE 0)
  BY AtLetThrough
<1>3. CountAt(LetThrough(h, now), a - 1) = y + (IF a - 1 >= now THEN 1 ELSE 0)
  BY AtLetThrough, a - 1 \in Int
<1>4. Stretch(LetThrough(h, now), a, b)
        = (x + (IF b >= now THEN 1 ELSE 0)) - (y + (IF a - 1 >= now THEN 1 ELSE 0))
  BY <1>2, <1>3 DEF Stretch
<1>5. Stretch(h, a, b) = x - y
  BY DEF Stretch
<1> HIDE DEF x, y
<1> QED
  BY <1>1, <1>4, <1>5

\* The history and the entry of one key, step by step. The entries:
Entries == [count : 0 .. CountCap, resetAt : Int]

LEMMA KeyOpens ==
  ASSUME NEW h \in [0 .. LastTime -> Nat], NEW entry \in Entries, NEW now \in 0 .. LastTime,
         KeyHolds(h, entry, now), entry = NoEntry \/ now > entry.resetAt
  PROVE  KeyHolds(LetThrough(h, now), [count |-> 1, resetAt |-> now + WindowMs], now)
<1> USE LimiterConstantsOK
<1> DEFINE g == LetThrough(h, now)  next == [count |-> 1, resetAt |-> now + WindowMs]
<1>1. now \in Int /\ now - WindowMs \in Int /\ now - 1 \in Int /\ next # NoEntry /\ ~(now > next.resetAt)
  BY DEF NoEntry
<1>2. Grows(h, now) /\ AtMostTwice(h) /\ Quiet(h, now)
  BY DEF KeyHolds
<1>3. Grows(g, now)
  BY <1>2, GrowsLetThrough
<1>4. \A a, b \in Int :
        /\ a <= now /\ now <= b => Stretch(g, a, b) = Stretch(h, a, b) + 1
        /\ a <= now /\ b < now => Stretch(g, a, b) = Stretch(h, a, b)
        /\ now < a /\ now <= b => Stretch(g, a, b) = Stretch(h, a, b)
        /\ Stretch(h, a, b) \in Int
  <2> SUFFICES ASSUME NEW a \in Int, NEW b \in Int
      PROVE  /\ a <= now /\ now <= b => Stretch(g, a, b) = Stretch(h, a, b) + 1
             /\ a <= now /\ b < now => Stretch(g, a, b) = Stretch(h, a, b)
             /\ now < a /\ now <= b => Stretch(g, a, b) = Stretch(h, a, b)
             /\ Stretch(h, a, b) \in Int
    OBVIOUS
  <2>1. Stretch(h, a, b) \in Int
    BY <1>1, <1>2, StretchWithin
  <2> QED
    BY <2>1, StretchLetThrough
<1> HIDE DEF g
<1>5. AtMostTwice(g)
  <2> SUFFICES ASSUME NEW t \in 0 .. LastTime PROVE Stretch(g, t, t + WindowMs) <= 2 * MaxRequests
    BY DEF AtMostTwice
  <2>1. t \in Int /\ t + WindowMs \in Int /\ Stretch(h, t, t + WindowMs) <= 2 * MaxRequests
    BY <1>2 DEF AtMostTwice
  <2>2. ASSUME t <= now, now <= t + WindowMs PROVE Stretch(h, t, t + WindowMs) <= MaxRequests
    <3>1. now - WindowMs <= t
      BY <1>1, <2>1, <2>2
    <3>2. Stretch(h, t, t + WindowMs) <= Stretch(h, now - WindowMs, now)
      BY <1>1, <1>2, <2>1, <3>1, StretchWithin
    <3> QED
      <4>1. Stretch(h, t, t + WindowMs) \in Int /\ Stretch(h, now - WindowMs, now) \in Int
        BY <1>1, <1>4, <2>1
      <4> QED
        BY <1>2, <3>2, <4>1 DEF Quiet
  <2>3. Stretch(h, t, t + WindowMs) \in Int
    BY <1>4, <2>1
  <2>4. CASE t <= now /\ now <= t + WindowMs
    <3>1. Stretch(g, t, t + WindowMs) = Stretch(h, t, t + WindowMs) + 1
      BY <1>4, <2>1, <2>4
    <3> QED
      BY <2>2, <2>3, <2>4, <3>1
  <2>5. CASE ~(t <= now /\ now <= t + WindowMs)
    <3>1. Stretch(g, t, t + WindowMs) = Stretch(h, t, t + WindowMs)
      <4>1. (t <= now /\ t + WindowMs < now) \/ (now < t /\ now <= t + WindowMs)
        BY <1>1, <2>1, <2>5
      <4> QED
        BY <1>4, <2>1, <4>1
    <3> QED
      BY <2>1, <3>1
  <2> QED
    BY <2>4, <2>5
<1>6. WindowCounts(g, next, now)
  <2>1. Stretch(g, now, now) = 1
    BY <1>1, <1>2, <1>4 DEF Quiet
  <2>2. Stretch(h, now - WindowMs, now - 1) <= Stretch(h, now - WindowMs, now)
    BY <1>1, <1>2, StretchWithin
  <2>3. Stretch(g, now - WindowMs, now - 1) = Stretch(h, now - WindowMs, now - 1)
    BY <1>1, <1>4
  <2>4. Stretch(g, now - WindowMs, now - 1) <= MaxRequests
    <3>1. Stretch(h, now - WindowMs, now) \in Int /\ Stretch(h, now - WindowMs, now - 1) \in Int
      BY <1>1, <1>4
    <3> QED
      BY <1>2, <2>2, <2>3, <3>1 DEF Quiet
  <2>5. next.resetAt - WindowMs = now /\ next.count = 1
    BY <1>1
  <2> QED
    BY <1>1, <2>1, <2>4, <2>5 DEF WindowCounts, Lesser
<1> QED
  BY <1>1, <1>3, <1>5, <1>6 DEF KeyHolds, g

LEMMA KeyCounts ==
  ASSUME NEW h \in [0 .. LastTime -> Nat], NEW entry \in Entries, NEW now \in 0 .. LastTime,
         KeyHolds(h, entry, now), entry # NoEntry, ~(now > entry.resetAt),
         Counted(entry).count <= MaxRequests
  PROVE  KeyHolds(LetThrough(h, now), Counted(entry), now)
<1> USE LimiterConstantsOK
<1> DEFINE g == LetThrough(h, now)  next == Counted(entry)  opened == entry.resetAt - WindowMs
<1>1. now \in Int /\ opened \in Int /\ opened - WindowMs \in Int /\ opened - 1 \in Int /\ entry.count \in Int
  BY DEF Entries
<1>2. next.count = entry.count + 1 /\ next.count <= MaxRequests /\ next.resetAt = entry.resetAt
  BY <1>1 DEF Counted, CountCap, Entries
<1>3. Grows(h, now) /\ AtMostTwice(h) /\ WindowCounts(h, entry, now)
  BY DEF KeyHolds
<1>4. Grows(g, now)
  BY <1>3, GrowsLetThrough
<1>5. \A a, b \in Int :
        /\ a <= now /\ now <= b => Stretch(g, a, b) = Stretch(h, a, b) + 1
        /\ a <= now /\ b < now => Stretch(g, a, b) = Stretch(h, a, b)
        /\ now < a /\ now <= b => Stretch(g, a, b) = Stretch(h, a, b)
        /\ Stretch(h, a, b) \in Int
  <2> SUFFICES ASSUME NEW a \in Int, NEW b \in Int
      PROVE  /\ a <= now /\ now <= b => Stretch(g, a, b) = Stretch(h, a, b) + 1
             /\ a <= now /\ b < now => Stretch(g, a, b) = Stretch(h, a, b)
             /\ now < a /\ now <= b => Stretch(g, a, b) = Stretch(h, a, b)
             /\ Stretch(h, a, b) \in Int
    OBVIOUS
  <2>1. Stretch(h, a, b) \in Int
    BY <1>1, <1>3, StretchWithin
  <2> QED
    BY <2>1, StretchLetThrough
<1>6. /\ opened \in 0 .. now /\ entry.count >= 1 /\ Stretch(h, opened, now) = entry.count
      /\ Stretch(h, opened - WindowMs, opened - 1) <= MaxRequests
  BY <1>1, <1>2, <1>3 DEF WindowCounts, Lesser
<1>7. next # NoEntry /\ ~(now > next.resetAt)
  BY <1>1, <1>2, <1>6 DEF NoEntry
<1> HIDE DEF g, next, opened
<1>8. AtMostTwice(g)
  <2> SUFFICES ASSUME NEW t \in 0 .. LastTime PROVE Stretch(g, t, t + WindowMs) <= 2 * MaxRequests
    BY DEF AtMostTwice
  <2>1. t \in Int /\ t + WindowMs \in Int /\ Stretch(h, t, t + WindowMs) <= 2 * MaxRequests
    BY <1>3 DEF AtMostTwice
  <2>2. ASSUME t <= now, now <= t + WindowMs PROVE Stretch(h, t, t + WindowMs) < 2 * MaxRequests
    <3>1. opened - WindowMs <= t
      BY <1>1, <1>6, <2>1, <2>2
    <3>2. Stretch(h, t, t + WindowMs) <= Stretch(h, opened - WindowMs, now)
      <4>1. now \in Int /\ opened - WindowMs \in Int /\ now <= now
        BY <1>1
      <4> QED
        BY <1>3, <2>1, <3>1, <4>1, StretchWithin
    <3>3. Stretch(h, opened - WindowMs, now)
            = Stretch(h, opened - WindowMs, opened - 1) + Stretch(h, opened, now)
      <4>1. CountAt(h, now) \in Nat /\ CountAt(h, opened - 1) \in Nat /\ CountAt(h, (opened - WindowMs) - 1) \in Nat
        <5>1. (opened - WindowMs) - 1 \in Int
          BY <1>1
        <5> QED
          BY <1>1, <5>1, AtNat
      <4> QED
        BY <4>1 DEF Stretch
    <3> QED
      <4>1. Stretch(h, t, t + WindowMs) \in Int /\ Stretch(h, opened - WindowMs, opened - 1) \in Int
        BY <1>1, <1>5, <2>1
      <4>2. entry.count + 1 <= MaxRequests /\ entry.count \in Int /\ MaxRequests \in Int
        BY <1>1, <1>2
      <4>3. \A x, y, m \in Int : x <= m /\ y + 1 <= m => x + y \in Int /\ x + y < 2 * m
        OBVIOUS
      <4>4. Stretch(h, opened - WindowMs, now) \in Int /\ Stretch(h, opened - WindowMs, now) < 2 * MaxRequests
        BY <1>6, <3>3, <4>1, <4>2, <4>3
      <4> QED
        BY <3>2, <4>1, <4>2, <4>4
  <2>3. Stretch(h, t, t + WindowMs) \in Int
    BY <1>5, <2>1
  <2>4. CASE t <= now /\ now <= t + WindowMs
    <3>1. Stretch(g, t, t + WindowMs) = Stretch(h, t, t + WindowMs) + 1
      BY <1>5, <2>1, <2>4
    <3> QED
      BY <2>2, <2>3, <2>4, <3>1
  <2>5. CASE ~(t <= now /\ now <= t + WindowMs)
    <3>1. Stretch(g, t, t + WindowMs) = Stretch(h, t, t + WindowMs)
      <4>1. (t <= now /\ t + WindowMs < now) \/ (now < t /\ now <= t + WindowMs)
        BY <1>1, <2>1, <2>5
      <4> QED
        BY <1>5, <2>1, <4>1
    <3> QED
      BY <2>1, <3>1
  <2> QED
    BY <2>4, <2>5
<1>9. WindowCounts(g, next, now)
  <2>0. opened \in Int /\ opened <= now /\ now <= now
    BY <1>1, <1>6
  <2>1. Stretch(g, opened, now) = entry.count + 1
    <3>1. Stretch(g, opened, now) = Stretch(h, opened, now) + 1
      BY <1>5, <2>0, now \in Int
    <3> QED
      BY <1>6, <3>1
  <2>2. Stretch(g, opened - WindowMs, opened - 1) = Stretch(h, opened - WindowMs, opened - 1)
    BY <1>1, <1>5, <1>6
  <2>3. next.resetAt - WindowMs = opened
    BY <1>2 DEF opened
  <2>4. Lesser(next.count, MaxRequests) = entry.count + 1 /\ next.count >= 1
    <3>1. next.count \in Int /\ MaxRequests \in Int /\ next.count <= MaxRequests /\ next.count = entry.count + 1
      BY <1>1, <1>2
    <3>2. entry.count \in Int /\ entry.count >= 1
      BY <1>1, <1>6
    <3>3. Lesser(next.count, MaxRequests) = next.count
      BY <3>1 DEF Lesser
    <3> QED
      BY <3>1, <3>2, <3>3
  <2> QED
    BY <1>6, <2>1, <2>2, <2>3, <2>4 DEF WindowCounts
<1> QED
  BY <1>4, <1>7, <1>8, <1>9 DEF KeyHolds, g, next

LEMMA KeyRefuses ==
  ASSUME NEW h \in [0 .. LastTime -> Nat], NEW entry \in Entries, NEW now \in 0 .. LastTime,
         KeyHolds(h, entry, now), entry # NoEntry, ~(now > entry.resetAt),
         Counted(entry).count > MaxRequests
  PROVE  KeyHolds(h, Counted(entry), now) /\ RefusedHolds(h, now)
<1> USE LimiterConstantsOK
<1> DEFINE next == Counted(entry)  opened == entry.resetAt - WindowMs
<1>1. now \in Int /\ opened \in Int /\ now - WindowMs \in Int /\ entry.count \in Int /\ entry.resetAt \in Int
  BY DEF Entries
<1>2. next.count \in Int /\ next.count >= MaxRequests /\ next.resetAt = entry.resetAt /\ entry.count >= MaxRequests
  BY <1>1 DEF Counted, CountCap, Entries
<1>3. Grows(h, now) /\ AtMostTwice(h) /\ WindowCounts(h, entry, now)
  BY DEF KeyHolds
<1>4. opened \in 0 .. now /\ Stretch(h, opened, now) = MaxRequests
  BY <1>1, <1>2, <1>3 DEF WindowCounts, Lesser
<1>5. next # NoEntry /\ ~(now > next.resetAt)
  BY <1>1, <1>2, <1>4 DEF NoEntry
<1> HIDE DEF next
<1>6. WindowCounts(h, next, now)
  BY <1>1, <1>2, <1>3, <1>4 DEF WindowCounts, Lesser
<1>7. RefusedHolds(h, now)
  <2>1. now - WindowMs <= opened
    BY <1>1
  <2>2. Stretch(h, opened, now) <= Stretch(h, now - WindowMs, now)
    BY <1>1, <1>3, <2>1, StretchWithin
  <2> QED
    BY <1>4, <2>2 DEF RefusedHolds
<1> QED
  BY <1>3, <1>5, <1>6, <1>7 DEF KeyHolds, next

LEMMA RefusedStays ==
  ASSUME NEW h \in [0 .. LastTime -> Nat], NEW now \in 0 .. LastTime, RefusedHolds(h, now), Grows(h, now)
  PROVE  RefusedHolds(LetThrough(h, now), now)
<1>1. now \in Int /\ now - WindowMs \in Int
  BY LimiterConstantsOK
<1>2. Stretch(h, now - WindowMs, now) \in Int
  BY <1>1, StretchWithin
<1>3. Stretch(LetThrough(h, now), now - WindowMs, now) = Stretch(h, now - WindowMs, now) + 1
  BY <1>1, <1>2, StretchLetThrough, LimiterConstantsOK
<1> QED
  BY <1>2, <1>3, LimiterConstantsOK DEF RefusedHolds

LEMMA KeySwept ==
  ASSUME NEW h, NEW entry \in Entries, NEW now, KeyHolds(h, entry, now), now > entry.resetAt
  PROVE  KeyHolds(h, NoEntry, now)
BY DEF KeyHolds

LEMMA KeyLater ==
  ASSUME NEW h \in [0 .. LastTime -> Nat], NEW entry \in Entries, NEW now \in 0 .. LastTime,
         now < LastTime, KeyHolds(h, entry, now)
  PROVE  KeyHolds(h, entry, now + 1)
<1> USE LimiterConstantsOK
<1> DEFINE opened == entry.resetAt - WindowMs
<1>1. /\ now \in Int /\ opened \in Int /\ now - WindowMs \in Int /\ entry.count \in Int /\ entry.resetAt \in Int
      /\ now + 1 \in 0 .. LastTime /\ (now + 1) - WindowMs \in Int /\ now + 1 \in Int
  <2>1. entry.count \in Int /\ entry.resetAt \in Int
    BY DEF Entries
  <2>2. now \in Int /\ WindowMs \in Int
    OBVIOUS
  <2> QED
    BY <2>1, <2>2
<1>2. Grows(h, now) /\ AtMostTwice(h) /\ Grows(h, now + 1)
  BY GrowsLater DEF KeyHolds
<1>3. ASSUME NEW a \in Int PROVE Stretch(h, a, now + 1) = Stretch(h, a, now)
  <2>1. now <= now /\ now <= now + 1
    BY <1>1
  <2> QED
    BY <1>1, <1>2, <2>1, StretchWithin
<1>4. ASSUME entry # NoEntry PROVE WindowCounts(h, entry, now + 1)
  <2>1. WindowCounts(h, entry, now)
    BY <1>4 DEF KeyHolds
  <2> QED
    <3>1. Stretch(h, opened, now + 1) = Stretch(h, opened, now)
      BY <1>1, <1>3
    <3>2. opened \in 0 .. now + 1
      BY <1>1, <2>1 DEF WindowCounts
    <3> QED
      BY <2>1, <3>1, <3>2 DEF WindowCounts
<1>5. ASSUME entry = NoEntry \/ now + 1 > entry.resetAt PROVE Quiet(h, now + 1)
  <2>1. Stretch(h, now + 1, now + 1) = 0
    <3>1. CountAt(h, now) \in Nat
      BY <1>1, AtNat
    <3>3. CountAt(h, now + 1) = CountAt(h, now)
      BY <1>1, <1>2, AtGrows
    <3>2. (now + 1) - 1 = now
      BY <1>1
    <3> QED
      BY <3>1, <3>2, <3>3 DEF Stretch
  <2>2. PICK a \in Int : a <= (now + 1) - WindowMs /\ Stretch(h, a, now) <= MaxRequests
    <3>1. CASE entry = NoEntry \/ now > entry.resetAt
      BY <1>1, <3>1 DEF KeyHolds, Quiet
    <3>2. CASE entry # NoEntry /\ ~(now > entry.resetAt)
      <4>1. WindowCounts(h, entry, now)
        BY <3>2 DEF KeyHolds
      <4>2. Stretch(h, opened, now) <= MaxRequests
        BY <1>1, <4>1 DEF WindowCounts, Lesser
      <4>3. opened <= (now + 1) - WindowMs
        BY <1>1, <1>5, <3>2
      <4> QED
        BY <1>1, <4>2, <4>3
    <3> QED
      BY <3>1, <3>2
  <2>3. Stretch(h, (now + 1) - WindowMs, now) <= Stretch(h, a, now)
    BY <1>1, <1>2, <2>2, now <= now, StretchWithin
  <2>4. Stretch(h, (now + 1) - WindowMs, now) \in Int /\ Stretch(h, a, now) \in Int
    BY <1>1, <1>2, StretchWithin
  <2> QED
    BY <1>1, <1>3, <2>1, <2>2, <2>3, <2>4 DEF Quiet
<1> QED
  BY <1>2, <1>4, <1>5 DEF KeyHolds

\* Both classes decide alike.
Opens(k) == store[k] = NoEntry \/ Over(store[k])
CheckStep(k, next, allowed) ==
  /\ store' = [store EXCEPT ![k] = next]
  /\ admitted' = IF allowed THEN [admitted EXCEPT ![k] = LetThrough(@, time)] ELSE admitted
  /\ refusal' = IF allowed THEN refusal ELSE refusal \cup {k}
  /\ limiter' = limiter /\ time' = time

LEMMA CheckIs ==
  ASSUME RateLimiterTypeOK, NEW k \in Clients, Check(k)
  PROVE  \/ Opens(k) /\ CheckStep(k, OpenWindow, TRUE)
         \/ ~Opens(k) /\ Counted(store[k]).count <= MaxRequests /\ CheckStep(k, Counted(store[k]), TRUE)
         \/ ~Opens(k) /\ Counted(store[k]).count > MaxRequests /\ CheckStep(k, Counted(store[k]), FALSE)
<1> USE LimiterConstantsOK
<1>1. PICK entry : entry = store[k]
  OBVIOUS
<1>2. entry \in [count : 0 .. CountCap, resetAt : Int] /\ time \in Nat
  BY <1>1 DEF RateLimiterTypeOK
<1>3. Counted(entry).count \in Int
  BY <1>2 DEF Counted, CountCap
<1>4. Counted([OpenWindow EXCEPT !.count = 0]) = OpenWindow
  <2>1. [OpenWindow EXCEPT !.count = 0] = [count |-> 0, resetAt |-> time + WindowMs]
    BY DEF OpenWindow
  <2>2. Counted([count |-> 0, resetAt |-> time + WindowMs])
          = [[count |-> 0, resetAt |-> time + WindowMs] EXCEPT !.count = 1]
    BY DEF Counted
  <2> QED
    BY <2>1, <2>2 DEF OpenWindow
<1>5. (entry.resetAt < time) <=> Over(entry)
  BY <1>2 DEF Over
<1>6. PICK verdict :
        /\ verdict = IF limiter = "logins" THEN CheckLogin(k) ELSE CheckAddress(k)
        /\ store' = [store EXCEPT ![k] = verdict.entry]
        /\ verdict.allowed => admitted' = [admitted EXCEPT ![k] = LetThrough(@, time)] /\ refusal' = refusal
        /\ ~verdict.allowed => admitted' = admitted /\ refusal' = refusal \cup {k}
        /\ limiter' = limiter /\ time' = time
  BY DEF Check, LetThrough
<1>7. CASE Opens(k)
  <2>1. verdict.entry = OpenWindow
    BY <1>1, <1>4, <1>5, <1>6, <1>7 DEF CheckLogin, CheckAddress, Opens
  <2>2. OpenWindow.count <= MaxRequests
    BY DEF OpenWindow
  <2>3. verdict.allowed
    BY <1>1, <1>4, <1>5, <1>6, <1>7, <2>2 DEF CheckLogin, CheckAddress, Opens
  <2> QED
    BY <1>6, <1>7, <2>1, <2>3 DEF CheckStep
<1>8. CASE ~Opens(k)
  <2>1. verdict.entry = Counted(store[k])
    BY <1>1, <1>5, <1>6, <1>8 DEF CheckLogin, CheckAddress, Opens
  <2>2. verdict.allowed <=> Counted(store[k]).count <= MaxRequests
    BY <1>1, <1>5, <1>6, <1>8 DEF CheckLogin, CheckAddress, Opens
  <2>3. CASE verdict.allowed
    BY <1>6, <1>8, <2>1, <2>2, <2>3 DEF CheckStep
  <2>4. CASE ~verdict.allowed
    <3>1. Counted(store[k]).count > MaxRequests
      BY <1>1, <1>3, <2>2, <2>4
    <3>2. CheckStep(k, Counted(store[k]), FALSE)
      BY <1>6, <2>1, <2>4 DEF CheckStep
    <3> QED
      BY <1>8, <3>1, <3>2
  <2> QED
    BY <2>3, <2>4
<1> QED
  BY <1>7, <1>8

LEMMA LimiterStarts == RateLimiterInit => LimiterIInv
<1> SUFFICES ASSUME RateLimiterInit PROVE LimiterIInv
  OBVIOUS
<1> USE LimiterConstantsOK
<1>1. RateLimiterTypeOK
  <2>1. NoEntry \in [count : 0 .. CountCap, resetAt : Int]
    BY DEF NoEntry, CountCap
  <2> QED
    BY <2>1 DEF RateLimiterInit, RateLimiterTypeOK
<1>2. ASSUME NEW k \in Clients PROVE KeyHolds(admitted[k], store[k], time)
  <2>1. admitted[k] = [t \in 0 .. LastTime |-> 0] /\ store[k] = NoEntry /\ time = 0
    BY <1>2 DEF RateLimiterInit
  <2>2. \A a, b \in Int : Stretch(admitted[k], a, b) = 0
    BY <2>1 DEF Stretch, CountAt
  <2>3. Grows(admitted[k], 0)
    BY <2>1 DEF Grows
  <2> QED
    BY <2>1, <2>2, <2>3 DEF KeyHolds, AtMostTwice, Quiet
<1> QED
  BY <1>1, <1>2 DEF LimiterIInv, RateLimiterInit

LEMMA LimiterStep == LimiterIInv /\ [RateLimiterNext]_limiterVars => LimiterIInv'
<1> SUFFICES ASSUME LimiterIInv, [RateLimiterNext]_limiterVars PROVE LimiterIInv'
  OBVIOUS
<1> USE LimiterConstantsOK
<1>1. /\ store \in [Clients -> Entries] /\ admitted \in [Clients -> [0 .. LastTime -> Nat]]
      /\ time \in 0 .. LastTime /\ refusal \subseteq Clients /\ limiter \in {"logins", "addresses"}
      /\ \A k \in Clients : KeyHolds(admitted[k], store[k], time)
      /\ \A k \in refusal : RefusedHolds(admitted[k], time)
  BY DEF LimiterIInv, RateLimiterTypeOK, Entries
<1>2. ASSUME NEW k \in Clients, Check(k) PROVE LimiterIInv'
  <2>1. KeyHolds(admitted[k], store[k], time) /\ Grows(admitted[k], time)
    BY <1>1 DEF KeyHolds
  <2>2. ASSUME NEW next \in Entries, CheckStep(k, next, TRUE), KeyHolds(LetThrough(admitted[k], time), next, time)
        PROVE  LimiterIInv'
    <3>1. LetThrough(admitted[k], time) \in [0 .. LastTime -> Nat]
      BY <1>1, <2>1, GrowsLetThrough
    <3>2. \A j \in refusal : RefusedHolds(admitted'[j], time)
      BY <1>1, <2>1, <2>2, RefusedStays DEF CheckStep
    <3>3. \A j \in Clients : KeyHolds(admitted'[j], store'[j], time)
      BY <1>1, <2>2 DEF CheckStep
    <3> QED
      BY <1>1, <2>2, <3>1, <3>2, <3>3 DEF CheckStep, LimiterIInv, RateLimiterTypeOK, Entries
  <2>3. ASSUME NEW next \in Entries, CheckStep(k, next, FALSE), KeyHolds(admitted[k], next, time),
               RefusedHolds(admitted[k], time)
        PROVE  LimiterIInv'
    <3>1. \A j \in refusal' : RefusedHolds(admitted'[j], time)
      BY <1>1, <2>3 DEF CheckStep
    <3>2. \A j \in Clients : KeyHolds(admitted'[j], store'[j], time)
      BY <1>1, <2>3 DEF CheckStep
    <3> QED
      BY <1>1, <2>3, <3>1, <3>2 DEF CheckStep, LimiterIInv, RateLimiterTypeOK, Entries
  <2>4. OpenWindow \in Entries /\ Counted(store[k]) \in Entries
    <3>1. OpenWindow \in Entries
      BY <1>1 DEF OpenWindow, Entries, CountCap
    <3>2. Counted(store[k]) \in Entries
      BY <1>1 DEF Counted, Entries, CountCap
    <3> QED
      BY <3>1, <3>2
  <2>5. CASE Opens(k) /\ CheckStep(k, OpenWindow, TRUE)
    <3>1. KeyHolds(LetThrough(admitted[k], time), OpenWindow, time)
      BY <1>1, <2>1, <2>5, KeyOpens DEF Opens, Over, OpenWindow
    <3> QED
      BY <2>2, <2>4, <2>5, <3>1
  <2>6. CASE ~Opens(k) /\ Counted(store[k]).count <= MaxRequests /\ CheckStep(k, Counted(store[k]), TRUE)
    <3>1. KeyHolds(LetThrough(admitted[k], time), Counted(store[k]), time)
      BY <1>1, <2>1, <2>6, KeyCounts DEF Opens, Over
    <3> QED
      BY <2>2, <2>4, <2>6, <3>1
  <2>7. CASE ~Opens(k) /\ Counted(store[k]).count > MaxRequests /\ CheckStep(k, Counted(store[k]), FALSE)
    <3>1. KeyHolds(admitted[k], Counted(store[k]), time) /\ RefusedHolds(admitted[k], time)
      BY <1>1, <2>1, <2>7, KeyRefuses DEF Opens, Over
    <3> QED
      BY <2>3, <2>4, <2>7, <3>1
  <2> QED
    BY <1>2, <2>5, <2>6, <2>7, CheckIs DEF LimiterIInv
<1>3. CASE Cleanup
  <2>1. NoEntry \in Entries
    BY DEF NoEntry, Entries, CountCap
  <2>2. \A k \in Clients : KeyHolds(admitted[k], store'[k], time)
    BY <1>1, <1>3, KeySwept DEF Cleanup, Swept, Over
  <2> QED
    BY <1>1, <1>3, <2>1, <2>2 DEF Cleanup, Swept, LimiterIInv, RateLimiterTypeOK, Entries
<1>4. CASE LimiterTick
  <2>1. \A k \in Clients : KeyHolds(admitted[k], store[k], time + 1)
    BY <1>1, <1>4, KeyLater DEF LimiterTick
  <2> QED
    BY <1>1, <1>4, <2>1 DEF LimiterTick, LimiterIInv, RateLimiterTypeOK, Entries
<1>5. CASE UNCHANGED limiterVars
  BY <1>5 DEF limiterVars, LimiterIInv, RateLimiterTypeOK
<1> QED
  BY <1>2, <1>3, <1>4, <1>5 DEF RateLimiterNext

LEMMA LimiterInvariant == RateLimiterSpec => []LimiterIInv
BY LimiterStarts, LimiterStep, PTL DEF RateLimiterSpec

(* The limiters keep their types, for any keys, limits and windows.        *)
THEOREM LimiterTypeCorrect == RateLimiterSpec => []RateLimiterTypeOK
<1>1. LimiterIInv => RateLimiterTypeOK
  BY DEF LimiterIInv
<1> QED
  BY <1>1, LimiterInvariant, PTL

(* Both limiters let at most twice the limit through in any stretch of     *)
(* windowMs, and refuse only who had the limit let through in the last     *)
(* one, for any limit, any length of a window and any keys.                *)
THEOREM LimitersAdmitByWindow == RateLimiterSpec => []AdmitsByWindow
<1>1. ASSUME NEW k \in Clients, NEW a \in Int, NEW b \in Int
      PROVE  Between(k, a, b) = Stretch(admitted[k], a, b)
  BY DEF Between, Upto, Stretch, CountAt
<1>2. LimiterIInv => AdmitsByWindow
  <2> SUFFICES ASSUME LimiterIInv PROVE AdmitsByWindow
    OBVIOUS
  <2>1. \A t \in 0 .. LastTime : t \in Int /\ t + WindowMs \in Int
    BY LimiterConstantsOK
  <2>2. time \in Int /\ time - WindowMs \in Int /\ refusal \subseteq Clients
    BY LimiterConstantsOK DEF LimiterIInv, RateLimiterTypeOK
  <2> QED
    BY <1>1, <2>1, <2>2 DEF LimiterIInv, AdmitsByWindow, KeyHolds, AtMostTwice, RefusedHolds
<1> QED
  BY <1>2, LimiterInvariant, PTL

-----------------------------------------------------------------------------
(* Authentication                                                          *)

(* All components of packages/auth keep their types.                       *)
THEOREM AuthTypesCorrect ==
  SessionsSpec /\ TwoFactorSpec /\ OAuthSpec /\ RateLimiterSpec => []AuthTypesOK
BY SessionsTypeCorrect, TwoFactorTypeCorrect, OAuthTypeCorrect, LimiterTypeCorrect,
   PTL DEF AuthTypesOK

-----------------------------------------------------------------------------
(* Migrator                                                                *)

Made(m) == ToSet(Makes[m])

-----------------------------------------------------------------------------
(* Sequences of distinct names.                                            *)

LEMMA Appended ==
  ASSUME NEW S, NEW s \in Seq(S), NEW e \in S, ~Contains(s, e), IsInjective(s)
  PROVE  /\ Append(s, e) \in Seq(S) /\ IsInjective(Append(s, e))
         /\ ToSet(Append(s, e)) = ToSet(s) \cup {e}
<1>1. /\ Append(s, e) \in Seq(S)
      /\ Len(Append(s, e)) = Len(s) + 1
      /\ \A i \in 1 .. Len(s) : Append(s, e)[i] = s[i]
      /\ Append(s, e)[Len(s) + 1] = e
      /\ Len(s) \in Nat
      /\ DOMAIN s = 1 .. Len(s) /\ DOMAIN Append(s, e) = 1 .. Len(s) + 1
  BY AppendProperties, LenProperties
<1>2. IsInjective(Append(s, e))
  BY <1>1 DEF IsInjective, Contains
<1>3. ToSet(Append(s, e)) = ToSet(s) \cup {e}
  BY <1>1 DEF ToSet
<1> QED
  BY <1>1, <1>2, <1>3

LEMMA Removed ==
  ASSUME NEW S, NEW s \in Seq(S), NEW k \in 1 .. Len(s), IsInjective(s)
  PROVE  /\ RemoveAt(s, k) \in Seq(S) /\ IsInjective(RemoveAt(s, k))
         /\ ToSet(RemoveAt(s, k)) = ToSet(s) \ {s[k]}
<1> DEFINE a == SubSeq(s, 1, k - 1)
           b == SubSeq(s, k + 1, Len(s))
<1>1. Len(s) \in Nat /\ DOMAIN s = 1 .. Len(s) /\ k \in Nat
  BY LenProperties
<1>2. /\ a \in Seq(S) /\ Len(a) = k - 1
      /\ \A i \in 1 .. k - 1 : a[i] = s[i]
  <2>1. /\ \A i \in 1 .. k - 1 : s[i] \in S
        /\ 1 \in Int /\ k - 1 \in Int
    BY <1>1, ElementOfSeq
  <2> QED
    BY <1>1, <2>1, SubSeqProperties
<1>3. /\ b \in Seq(S) /\ Len(b) = Len(s) - k
      /\ \A i \in 1 .. Len(s) - k : b[i] = s[k + i]
  <2>1. /\ \A i \in k + 1 .. Len(s) : s[i] \in S
        /\ k + 1 \in Int /\ Len(s) \in Int
    BY <1>1, ElementOfSeq
  <2>2. /\ b \in Seq(S)
        /\ Len(b) = IF k + 1 <= Len(s) THEN Len(s) - (k + 1) + 1 ELSE 0
        /\ \A i \in 1 .. Len(s) - (k + 1) + 1 : b[i] = s[k + 1 + i - 1]
    BY <2>1, SubSeqProperties
  <2> HIDE DEF b
  <2>3. ASSUME NEW i \in 1 .. Len(s) - k PROVE b[i] = s[k + i]
    <3>1. i \in 1 .. Len(s) - (k + 1) + 1 /\ k + 1 + i - 1 = k + i
      BY <1>1
    <3> QED
      BY <2>2, <3>1
  <2>4. Len(b) = Len(s) - k
    <3> DEFINE n == Len(s)
    <3>1. n \in Nat /\ k \in 1 .. n /\ Len(b) = IF k + 1 <= n THEN n - (k + 1) + 1 ELSE 0
      BY <1>1, <2>2
    <3> HIDE DEF n
    <3>2. Len(b) = n - k
      BY <3>1
    <3> QED
      BY <3>2 DEF n
  <2> QED
    BY <2>2, <2>3, <2>4
<1> DEFINE t == RemoveAt(s, k)
<1>4. /\ t \in Seq(S)
      /\ Len(t) = Len(s) - 1
      /\ \A i \in 1 .. Len(s) - 1 : t[i] = IF i < k THEN s[i] ELSE s[i + 1]
  <2>1. t = a \o b
    BY DEF RemoveAt
  <2> HIDE DEF a, b, t
  <2>2. /\ t \in Seq(S) /\ Len(t) = Len(a) + Len(b)
        /\ \A i \in 1 .. Len(a) + Len(b) : t[i] = IF i <= Len(a) THEN a[i] ELSE b[i - Len(a)]
    BY <1>2, <1>3, <2>1, ConcatProperties
  <2>3. Len(t) = Len(s) - 1
    BY <1>1, <1>2, <1>3, <2>2, LenProperties
  <2>4. ASSUME NEW i \in 1 .. Len(s) - 1 PROVE t[i] = IF i < k THEN s[i] ELSE s[i + 1]
    <3>0. i \in 1 .. Len(a) + Len(b) /\ i \in Nat
      BY <1>1, <1>2, <1>3
    <3>1. CASE i < k
      <4>1. i <= Len(a) /\ i \in 1 .. k - 1
        BY <1>1, <1>2, <3>0, <3>1
      <4>2. t[i] = a[i]
        BY <2>2, <3>0, <4>1
      <4> QED
        BY <1>2, <3>1, <4>1, <4>2
    <3>2. CASE ~(i < k)
      <4>1. i - Len(a) \in 1 .. Len(s) - k /\ k + (i - Len(a)) = i + 1 /\ ~(i <= Len(a))
        BY <1>1, <1>2, <3>2
      <4>2. t[i] = b[i - Len(a)]
        BY <2>2, <3>0, <4>1
      <4> QED
        BY <1>3, <3>2, <4>1, <4>2
    <3> QED
      BY <3>1, <3>2
  <2> QED
    BY <2>2, <2>3, <2>4
<1> HIDE DEF t
<1>5. DOMAIN t = 1 .. Len(s) - 1
  BY <1>4, LenProperties
<1>6. IsInjective(t)
  <2>1. \A i, j \in 1 .. Len(s) : s[i] = s[j] => i = j
    BY <1>1 DEF IsInjective
  <2>2. ASSUME NEW i \in 1 .. Len(s) - 1, NEW j \in 1 .. Len(s) - 1, t[i] = t[j] PROVE i = j
    <3>1. /\ i \in 1 .. Len(s) /\ i + 1 \in 1 .. Len(s)
          /\ j \in 1 .. Len(s) /\ j + 1 \in 1 .. Len(s)
      BY <1>1
    <3>2. t[i] = (IF i < k THEN s[i] ELSE s[i + 1]) /\ t[j] = (IF j < k THEN s[j] ELSE s[j + 1])
      BY <1>4
    <3>3. (IF i < k THEN i ELSE i + 1) = (IF j < k THEN j ELSE j + 1)
      BY <2>1, <2>2, <3>1, <3>2
    <3> QED
      BY <1>1, <3>3
  <2> QED
    BY <1>5, <2>2 DEF IsInjective
<1>7. ToSet(t) = ToSet(s) \ {s[k]}
  <2>1. ASSUME NEW x \in ToSet(t) PROVE x \in ToSet(s) \ {s[k]}
    <3>1. PICK i \in 1 .. Len(s) - 1 : x = t[i]
      BY <1>5 DEF ToSet
    <3>2. PICK j \in 1 .. Len(s) : x = s[j] /\ j # k
      <4>1. i \in 1 .. Len(s) /\ i + 1 \in 1 .. Len(s) /\ (i < k \/ i + 1 # k)
        BY <1>1, <3>1
      <4>2. x = (IF i < k THEN s[i] ELSE s[i + 1])
        BY <1>4, <3>1
      <4>3. CASE i < k
        <5>1. i # k /\ x = s[i]
          BY <1>1, <4>2, <4>3
        <5> QED
          BY <4>1, <5>1
      <4>4. CASE ~(i < k)
        <5>1. i + 1 # k /\ x = s[i + 1]
          BY <4>1, <4>2, <4>4
        <5> QED
          BY <4>1, <5>1
      <4> QED
        BY <4>3, <4>4
    <3> QED
      BY <1>1, <3>2 DEF ToSet, IsInjective
  <2>2. ASSUME NEW x \in ToSet(s) \ {s[k]} PROVE x \in ToSet(t)
    <3>1. PICK j \in 1 .. Len(s) : x = s[j] /\ j # k
      BY <1>1 DEF ToSet
    <3>2. PICK i \in 1 .. Len(s) - 1 : x = t[i]
      <4>1. CASE j < k
        BY <1>1, <1>4, <3>1, <4>1
      <4>2. CASE j > k
        <5>1. j - 1 \in 1 .. Len(s) - 1 /\ t[j - 1] = s[j]
          BY <1>1, <1>4, <3>1, <4>2
        <5> QED
          BY <3>1, <5>1
      <4> QED
        BY <1>1, <3>1, <4>1, <4>2
    <3> QED
      BY <1>5, <3>2 DEF ToSet
  <2> QED
    BY <2>1, <2>2
<1> QED
  BY <1>4, <1>6, <1>7 DEF t

LEMMA Deleted ==
  ASSUME NEW S, NEW s \in Seq(S), NEW e, IsInjective(s)
  PROVE  /\ Log!Without(s, e) \in Seq(S) /\ IsInjective(Log!Without(s, e))
         /\ ToSet(Log!Without(s, e)) = ToSet(s) \ {e}
<1>1. Len(s) \in Nat /\ DOMAIN s = 1 .. Len(s)
  BY LenProperties
<1>2. CASE Contains(s, e)
  <2> DEFINE k == CHOOSE i \in DOMAIN s : s[i] = e
  <2>1. k \in 1 .. Len(s) /\ s[k] = e
    BY <1>1, <1>2 DEF Contains
  <2> HIDE DEF k
  <2>2. Log!Without(s, e) = RemoveAt(s, k)
    BY <1>2 DEF Log!Without, Log!Contains, Log!RemoveAt, Contains, RemoveAt, k
  <2> QED
    BY <2>1, <2>2, Removed
<1>3. CASE ~Contains(s, e)
  BY <1>1, <1>3 DEF Log!Without, Log!Contains, Contains, ToSet
<1> QED
  BY <1>2, <1>3

LEMMA Listed ==
  ASSUME NEW S, NEW s \in Seq(S), NEW e
  PROVE  Contains(s, e) <=> e \in ToSet(s)
BY LenProperties DEF Contains, ToSet

-----------------------------------------------------------------------------
ProcType == [pc : {"idle", "asked", "run", "commit", "rollback"}, down : BOOLEAN,
             step : Steps \cup {Null}, record : Steps \cup {Null}, next : Nat]

(* The objects whose statements have run.                                  *)
Done(p) == {Statements(p)[i] : i \in 1 .. proc[p].next - 1}

(* What a call is about, and how far its transaction is: until the first   *)
(* statement it has no lock, and from the record to the end it has one.    *)
ProgressOf(p) ==
  /\ proc[p].pc # "idle" => proc[p].step \in Steps
  /\ proc[p].pc \notin {"idle", "asked"} => proc[p].record \in Steps
  /\ proc[p].pc \notin {"idle", "asked"} /\ ~proc[p].down => proc[p].record = proc[p].step
  /\ proc[p].pc = "run" => proc[p].next \in 1 .. Len(Statements(p)) + 1
  /\ proc[p].pc = "run" /\ writer # p => proc[p].next = 1
  /\ writer = p => proc[p].pc \notin {"idle", "asked"}

(* The draft is the database with the statements done so far, all of which *)
(* changed something, and from "commit" on with the whole step and record. *)
DraftObjs(p, done) == IF proc[p].down THEN db.objs \ done ELSE db.objs \cup done
Effective(p, done) == IF proc[p].down THEN done \subseteq db.objs ELSE done \cap db.objs = {}
DraftedOf(p) ==
  /\ writer = p /\ proc[p].pc = "run" =>
       draft.objs = DraftObjs(p, Done(p)) /\ Effective(p, Done(p)) /\ draft.recs = db.recs
  /\ proc[p].pc = "commit" =>
       /\ draft.objs = DraftObjs(p, Made(proc[p].step)) /\ Effective(p, Made(proc[p].step))
       /\ IF proc[p].down THEN draft.recs = Log!Without(db.recs, proc[p].record)
                          ELSE /\ ~Contains(db.recs, proc[p].record)
                               /\ draft.recs = Append(db.recs, proc[p].record)

IInv == TypeOK /\ WholeUnlessMixed /\ \A p \in Procs : ProgressOf(p) /\ DraftedOf(p)

LEMMA InitIInv == Init => IInv
<1> SUFFICES ASSUME Init PROVE IInv
  OBVIOUS
<1>1. TypeOK
  <2>1. Empty \in Databases /\ IsInjective(Empty.recs)
    BY EmptySeq DEF Databases, Empty, IsInjective
  <2>2. proc \in [Procs -> ProcType] /\ \A p \in Procs : ~Reached(p, "commit")
    BY DEF Init, NoMigration, ProcType, Reached
  <2> QED
    BY <2>1, <2>2 DEF Init, TypeOK, ProcType
<1>2. WholeUnlessMixed
  <2>1. db.objs = {} /\ ToSet(db.recs) = {}
    BY DEF Init, Empty, ToSet
  <2> QED
    BY <2>1 DEF WholeUnlessMixed, Whole
<1>3. \A p \in Procs : ProgressOf(p) /\ DraftedOf(p)
  BY MigratorOK DEF Init, ProgressOf, DraftedOf, NoMigration
<1> QED
  BY <1>1, <1>2, <1>3 DEF IInv

(* Forward and down, all statements of a step make or drop its objects.    *)
LEMMA Scripts ==
  ASSUME NEW m \in Steps
  PROVE  /\ Up(m) \in Seq(Objects) /\ Down(m) \in Seq(Objects)
         /\ {Up(m)[i] : i \in 1 .. Len(Up(m))} = Made(m)
         /\ {Down(m)[i] : i \in 1 .. Len(Down(m))} = Made(m)
         /\ Made(m) \subseteq Objects
<1> DEFINE s == Makes[m]
<1>1. /\ s \in Seq(Objects) /\ Len(s) \in Nat /\ DOMAIN s = 1 .. Len(s)
      /\ \A i \in 1 .. Len(s) : s[i] \in Objects
  BY MigratorOK, LenProperties, ElementOfSeq
<1>2. /\ Down(m) = [i \in 1 .. Len(s) |-> s[Len(s) - i + 1]]
      /\ \A i \in 1 .. Len(s) : Len(s) - i + 1 \in 1 .. Len(s)
  BY <1>1 DEF Down, Reverse
<1>3. Down(m) \in Seq(Objects) /\ Len(Down(m)) = Len(s)
  BY <1>1, <1>2, IsASeq, LenProperties
<1>4. {Down(m)[i] : i \in 1 .. Len(s)} = {s[i] : i \in 1 .. Len(s)}
  <2>1. ASSUME NEW i \in 1 .. Len(s)
        PROVE  \E j \in 1 .. Len(s) : Down(m)[j] = s[i]
    <3>1. Len(s) - i + 1 \in 1 .. Len(s) /\ Len(s) - (Len(s) - i + 1) + 1 = i
      BY <1>1
    <3> QED
      BY <1>2, <3>1
  <2>2. ASSUME NEW i \in 1 .. Len(s)
        PROVE  \E j \in 1 .. Len(s) : s[j] = Down(m)[i]
    BY <1>2
  <2>3. \A x : x \in {Down(m)[i] : i \in 1 .. Len(s)} <=> x \in {s[i] : i \in 1 .. Len(s)}
    <3> HIDE DEF s
    <3> QED
      BY <2>1, <2>2
  <2> QED
    BY <2>3
<1> QED
  BY <1>1, <1>3, <1>4 DEF Up, Made, ToSet

-----------------------------------------------------------------------------
(* A process that is not in its transaction does not see the others'.      *)
LEMMA Others ==
  ASSUME IInv, NEW p \in Procs,
         \A q \in Procs \ {p} : proc'[q] = proc[q],
         UNCHANGED <<db, writer, draft>> \/ (writer \in {p, Null} /\ writer' \in {p, Null})
  PROVE  \A q \in Procs \ {p} : ProgressOf(q)' /\ DraftedOf(q)'
<1> SUFFICES ASSUME NEW q \in Procs \ {p} PROVE ProgressOf(q)' /\ DraftedOf(q)'
  OBVIOUS
<1>1. proc'[q] = proc[q] /\ Statements(q)' = Statements(q)
  BY DEF Statements
<1>2. ProgressOf(q) /\ DraftedOf(q)
  BY DEF IInv
<1>3. CASE UNCHANGED <<db, writer, draft>>
  BY <1>1, <1>2, <1>3 DEF ProgressOf, DraftedOf, DraftObjs, Effective, Done
<1>4. CASE writer \in {p, Null} /\ writer' \in {p, Null}
  <2>1. writer # q /\ writer' # q /\ proc[q].pc # "commit"
    BY <1>4, MigratorOK DEF IInv, TypeOK, Reached
  <2> QED
    BY <1>1, <1>2, <2>1 DEF ProgressOf, DraftedOf
<1> QED
  BY <1>3, <1>4

(* A step of one process that leaves the file alone.                       *)
LEMMA FileKept ==
  ASSUME IInv, NEW p \in Procs,
         UNCHANGED <<db, mixed>>,
         UNCHANGED <<writer, draft>> \/ (writer \in {p, Null} /\ writer' \in {p, Null}),
         draft' \in Databases, IsInjective(draft'.recs), writer' = Null => draft' = Empty,
         proc' \in [Procs -> ProcType],
         \A q \in Procs \ {p} : proc'[q] = proc[q],
         proc'[p].pc = "commit" => writer' = p,
         ProgressOf(p)', DraftedOf(p)'
  PROVE  IInv'
<1>1. \A q \in Procs \ {p} : ProgressOf(q)' /\ DraftedOf(q)'
  BY Others
<1>2. WholeUnlessMixed'
  BY DEF IInv, WholeUnlessMixed, Whole
<1>3. \A q \in Procs : Reached(q, "commit")' => writer' = q
  BY MigratorOK DEF IInv, TypeOK, Reached
<1>4. TypeOK'
  BY <1>3 DEF IInv, TypeOK, ProcType
<1> QED
  BY <1>1, <1>2, <1>4 DEF IInv

(* The calls up to BEGIN, and the failures that lead to ROLLBACK.          *)
LEMMA CallStep ==
  ASSUME IInv, NEW p \in Procs, Call(p) \/ RollbackLast(p)
  PROVE  IInv'
<1>1. /\ proc[p].pc \in {"idle", "asked"}
      /\ UNCHANGED <<db, writer, draft, mixed>>
  BY DEF Call, Apply, ApplyDown, AskRollback, RollbackLast, Reached
<1>2. db.recs \in Seq(Steps) /\ (db.recs # <<>> => Last(db.recs) \in Steps)
  BY LenProperties, ElementOfSeq, EmptySeq DEF IInv, TypeOK, Databases, Last
<1>3. \E r \in ProcType :
        /\ proc' = [proc EXCEPT ![p] = r]
        /\ r.pc \in {"idle", "asked", "run"}
        /\ r.pc # "idle" => r.step \in Steps
        /\ r.pc = "run" => r.record \in Steps /\ r.next = 1 /\ (~r.down => r.record = r.step)
  <2>1. \A down \in BOOLEAN, m, n \in Steps :
          [pc |-> "run", down |-> down, step |-> m, record |-> n, next |-> 1] \in ProcType
    BY DEF ProcType
  <2>2. CASE \E m \in Steps : Apply(p, m) \/ ApplyDown(p, m)
    BY <2>1, <2>2 DEF Apply, ApplyDown, Begin
  <2>3. CASE AskRollback(p)
    <3> DEFINE r == [pc |-> "asked", down |-> TRUE, step |-> Last(db.recs), record |-> Null, next |-> 0]
    <3>1. r \in ProcType /\ r.pc = "asked" /\ r.step \in Steps
      BY <1>2, <2>3 DEF AskRollback, ProcType
    <3>2. proc' = [proc EXCEPT ![p] = r]
      BY <2>3 DEF AskRollback
    <3> HIDE DEF r
    <3> QED
      BY <3>1, <3>2
  <2>4. CASE RollbackLast(p)
    <3>1. proc[p].step \in Steps
      BY <2>4 DEF RollbackLast, Reached, IInv, ProgressOf
    <3>2. CASE db.recs = <<>> \/ Down(proc[p].step) = <<>>
      <4>1. NoMigration \in ProcType /\ NoMigration.pc = "idle"
        BY DEF NoMigration, ProcType
      <4> QED
        BY <2>4, <3>2, <4>1 DEF RollbackLast
    <3>3. CASE ~(db.recs = <<>> \/ Down(proc[p].step) = <<>>)
      BY <1>2, <2>1, <2>4, <3>1, <3>3 DEF RollbackLast, Begin
    <3> QED
      BY <3>2, <3>3
  <2> QED
    BY <2>2, <2>3, <2>4 DEF Call
<1>4. PICK r \in ProcType :
        /\ proc' = [proc EXCEPT ![p] = r]
        /\ r.pc \in {"idle", "asked", "run"}
        /\ r.pc # "idle" => r.step \in Steps
        /\ r.pc = "run" => r.record \in Steps /\ r.next = 1 /\ (~r.down => r.record = r.step)
  BY <1>3
<1>5. /\ proc' \in [Procs -> ProcType] /\ proc'[p] = r
      /\ \A q \in Procs \ {p} : proc'[q] = proc[q]
  BY <1>4 DEF IInv, TypeOK, ProcType
<1>6. writer # p
  BY <1>1 DEF IInv, ProgressOf
<1>7. ProgressOf(p)'
  <2>1. r.pc = "run" => Len(Statements(p)') \in Nat
    BY <1>4, <1>5, Scripts, LenProperties DEF Statements
  <2> QED
    BY <1>1, <1>4, <1>5, <1>6, <2>1 DEF ProgressOf
<1>8. DraftedOf(p)'
  BY <1>1, <1>4, <1>5, <1>6 DEF DraftedOf
<1>9. draft' \in Databases /\ IsInjective(draft'.recs) /\ (writer' = Null => draft' = Empty)
  BY <1>1 DEF IInv, TypeOK
<1> QED
  BY <1>1, <1>4, <1>5, <1>7, <1>8, <1>9, FileKept

LEMMA FailStep ==
  ASSUME IInv, NEW p \in Procs, Refused(p) \/ CommitFails(p)
  PROVE  IInv'
<1>1. /\ proc[p].pc \in {"run", "commit"}
      /\ proc' = [proc EXCEPT ![p].pc = "rollback"]
      /\ UNCHANGED <<db, writer, draft, mixed>>
  BY DEF Refused, CommitFails, Reached
<1>2. proc \in [Procs -> ProcType]
  BY DEF IInv, TypeOK, ProcType
<1>3. /\ proc' \in [Procs -> ProcType]
      /\ \A q \in Procs \ {p} : proc'[q] = proc[q]
      /\ proc'[p].pc = "rollback" /\ proc'[p].step = proc[p].step
      /\ proc'[p].record = proc[p].record /\ proc'[p].down = proc[p].down
  BY <1>1, <1>2 DEF ProcType
<1>4. ProgressOf(p)' /\ DraftedOf(p)'
  BY <1>1, <1>3 DEF IInv, ProgressOf, DraftedOf
<1>5. draft' \in Databases /\ IsInjective(draft'.recs) /\ (writer' = Null => draft' = Empty)
  BY <1>1 DEF IInv, TypeOK
<1> QED
  BY <1>1, <1>3, <1>4, <1>5, FileKept

LEMMA EmptyOK == Empty \in Databases /\ IsInjective(Empty.recs)
BY EmptySeq DEF Databases, Empty, IsInjective

(* ROLLBACK, and the death of a process: the lock is let go.               *)
LEMMA AbandonStep ==
  ASSUME IInv, NEW p \in Procs, Rollback(p) \/ Crash(p)
  PROVE  IInv'
<1>1. /\ proc' = [proc EXCEPT ![p] = NoMigration]
      /\ IF writer = p THEN writer' = Null /\ draft' = Empty ELSE UNCHANGED <<writer, draft>>
      /\ UNCHANGED <<db, mixed>>
  BY DEF Rollback, Crash, Abandon
<1>2. NoMigration \in ProcType /\ NoMigration.pc = "idle"
  BY DEF NoMigration, ProcType
<1>3. /\ proc' \in [Procs -> ProcType] /\ proc'[p].pc = "idle"
      /\ \A q \in Procs \ {p} : proc'[q] = proc[q]
  BY <1>1, <1>2 DEF IInv, TypeOK, ProcType
<1>4. writer' # p
  BY <1>1, MigratorOK
<1>5. ProgressOf(p)' /\ DraftedOf(p)'
  BY <1>3, <1>4 DEF ProgressOf, DraftedOf
<1>6. draft' \in Databases /\ IsInjective(draft'.recs) /\ (writer' = Null => draft' = Empty)
  BY <1>1, EmptyOK DEF IInv, TypeOK
<1> QED
  BY <1>1, <1>3, <1>5, <1>6, FileKept

(* What a statement that is accepted finds.                                *)
LEMMA InRun ==
  ASSUME IInv, NEW p \in Procs, Reached(p, "run"), writer \in {p, Null}
  PROVE  /\ proc[p] \in ProcType
         /\ proc[p].step \in Steps /\ proc[p].record \in Steps
         /\ ~proc[p].down => proc[p].record = proc[p].step
         /\ Statements(p) \in Seq(Objects) /\ Len(Statements(p)) \in Nat
         /\ {Statements(p)[i] : i \in 1 .. Len(Statements(p))} = Made(proc[p].step)
         /\ proc[p].next \in 1 .. Len(Statements(p)) + 1
         /\ View(p) \in Databases /\ IsInjective(View(p).recs)
         /\ View(p).objs = DraftObjs(p, Done(p)) /\ Effective(p, Done(p))
         /\ View(p).recs = db.recs
<1>1. /\ proc[p] \in ProcType
      /\ proc[p].step \in Steps /\ proc[p].record \in Steps
      /\ ~proc[p].down => proc[p].record = proc[p].step
      /\ proc[p].next \in 1 .. Len(Statements(p)) + 1
  BY DEF IInv, TypeOK, ProcType, ProgressOf, Reached
<1>2. /\ Statements(p) \in Seq(Objects) /\ Len(Statements(p)) \in Nat
      /\ {Statements(p)[i] : i \in 1 .. Len(Statements(p))} = Made(proc[p].step)
  BY <1>1, Scripts, LenProperties DEF Statements
<1>3. View(p) \in Databases /\ IsInjective(View(p).recs)
  BY DEF IInv, TypeOK, View
<1>4. CASE writer = p
  BY <1>1, <1>2, <1>3, <1>4 DEF IInv, DraftedOf, View, Reached
<1>5. CASE writer = Null
  <2>1. writer # p
    BY <1>5, MigratorOK
  <2>2. proc[p].next = 1
    BY <2>1 DEF IInv, ProgressOf, Reached
  <2>3. Done(p) = {}
    BY <2>2 DEF Done
  <2> QED
    BY <1>1, <1>2, <1>3, <2>1, <2>3 DEF View, DraftObjs, Effective
<1> QED
  BY <1>4, <1>5

LEMMA ExecuteStep ==
  ASSUME IInv, NEW p \in Procs, Execute(p)
  PROVE  IInv'
<1> DEFINE o == Current(p)
           v == View(p)
           new == IF proc[p].down THEN [v EXCEPT !.objs = @ \ {o}] ELSE [v EXCEPT !.objs = @ \cup {o}]
<1>1. /\ Reached(p, "run") /\ writer \in {p, Null} /\ More(p)
      /\ (o \in v.objs) = proc[p].down
      /\ writer' = p /\ draft' = new
      /\ proc' = [proc EXCEPT ![p].next = @ + 1]
      /\ UNCHANGED <<db, mixed>>
  BY DEF Execute, Accepted, Write
<1>2. /\ proc[p] \in ProcType
      /\ proc[p].step \in Steps /\ proc[p].record \in Steps
      /\ ~proc[p].down => proc[p].record = proc[p].step
      /\ Statements(p) \in Seq(Objects) /\ Len(Statements(p)) \in Nat
      /\ proc[p].next \in 1 .. Len(Statements(p)) + 1
      /\ v \in Databases /\ IsInjective(v.recs)
      /\ v.objs = DraftObjs(p, Done(p)) /\ Effective(p, Done(p))
      /\ v.recs = db.recs
  BY <1>1, InRun
<1>3. proc[p].next \in 1 .. Len(Statements(p)) /\ o \in Objects
  BY <1>1, <1>2, ElementOfSeq DEF More, Current
<1>4. /\ new \in Databases /\ new.recs = v.recs
      /\ new.objs = IF proc[p].down THEN v.objs \ {o} ELSE v.objs \cup {o}
  <2> HIDE DEF v, o
  <2> QED
    BY <1>2, <1>3 DEF Databases
<1>5. /\ proc' \in [Procs -> ProcType]
      /\ \A q \in Procs \ {p} : proc'[q] = proc[q]
      /\ proc'[p].pc = "run" /\ proc'[p].step = proc[p].step /\ proc'[p].down = proc[p].down
      /\ proc'[p].record = proc[p].record /\ proc'[p].next = proc[p].next + 1
  <2>1. proc \in [Procs -> ProcType] /\ proc[p].next + 1 \in Nat /\ proc[p].pc = "run"
    BY <1>1, <1>2 DEF IInv, TypeOK, ProcType, Reached
  <2> QED
    BY <1>1, <2>1 DEF ProcType
<1>6. Statements(p)' = Statements(p)
  BY <1>5 DEF Statements
<1>7. Done(p)' = Done(p) \cup {o}
  <2>1. 1 .. proc'[p].next - 1 = (1 .. proc[p].next - 1) \cup {proc[p].next}
    BY <1>3, <1>5
  <2>2. Done(p)' = {Statements(p)[i] : i \in (1 .. proc[p].next - 1) \cup {proc[p].next}}
    BY <1>6, <2>1 DEF Done
  <2> QED
    BY <2>2 DEF Done, Current
<1>8. ProgressOf(p)'
  BY <1>1, <1>2, <1>3, <1>5, <1>6 DEF ProgressOf
<1>9. DraftedOf(p)'
  <2> HIDE DEF new, v, o
  <2>1. draft'.objs = DraftObjs(p, Done(p))' /\ Effective(p, Done(p))'
    <3>1. CASE proc[p].down
      BY <1>1, <1>2, <1>4, <1>5, <1>7, <3>1 DEF DraftObjs, Effective
    <3>2. CASE ~proc[p].down
      BY <1>1, <1>2, <1>4, <1>5, <1>7, <3>2 DEF DraftObjs, Effective
    <3> QED
      BY <3>1, <3>2
  <2>2. draft'.recs = db'.recs
    BY <1>1, <1>2, <1>4
  <2> QED
    BY <1>5, <2>1, <2>2 DEF DraftedOf
<1>10. draft' \in Databases /\ IsInjective(draft'.recs) /\ writer' # Null
  BY <1>1, <1>2, <1>4, MigratorOK
<1> QED
  BY <1>1, <1>5, <1>8, <1>9, <1>10, FileKept

LEMMA RecordStep ==
  ASSUME IInv, NEW p \in Procs, Record(p)
  PROVE  IInv'
<1> DEFINE v == View(p)
           m == proc[p].record
           recs == IF proc[p].down THEN Log!Without(v.recs, m) ELSE Append(v.recs, m)
<1>1. /\ Reached(p, "run") /\ writer \in {p, Null} /\ ~More(p)
      /\ ~proc[p].down => ~Contains(v.recs, m)
      /\ writer' = p /\ draft' = [v EXCEPT !.recs = recs]
      /\ proc' = [proc EXCEPT ![p].pc = "commit"]
      /\ UNCHANGED <<db, mixed>>
  BY DEF Record, Accepted, Write
<1>2. /\ proc[p] \in ProcType
      /\ proc[p].step \in Steps /\ m \in Steps
      /\ ~proc[p].down => m = proc[p].step
      /\ Len(Statements(p)) \in Nat
      /\ {Statements(p)[i] : i \in 1 .. Len(Statements(p))} = Made(proc[p].step)
      /\ proc[p].next \in 1 .. Len(Statements(p)) + 1
      /\ v \in Databases /\ IsInjective(v.recs)
      /\ v.objs = DraftObjs(p, Done(p)) /\ Effective(p, Done(p))
      /\ v.recs = db.recs
  BY <1>1, InRun
<1>3. Done(p) = Made(proc[p].step)
  <2>1. proc[p].next - 1 = Len(Statements(p))
    BY <1>1, <1>2 DEF More
  <2> QED
    BY <1>2, <2>1 DEF Done
<1>4. recs \in Seq(Steps) /\ IsInjective(recs)
  <2>1. v.recs \in Seq(Steps)
    BY <1>2 DEF Databases
  <2> HIDE DEF v, m
  <2> QED
    BY <1>1, <1>2, <2>1, Appended, Deleted
<1>5. draft' \in Databases /\ draft'.recs = recs /\ draft'.objs = v.objs
  <2> HIDE DEF v, recs
  <2> QED
    BY <1>1, <1>2, <1>4 DEF Databases
<1>6. /\ proc' \in [Procs -> ProcType]
      /\ \A q \in Procs \ {p} : proc'[q] = proc[q]
      /\ proc'[p].pc = "commit" /\ proc'[p].step = proc[p].step
      /\ proc'[p].down = proc[p].down /\ proc'[p].record = m
  BY <1>1, <1>2 DEF IInv, TypeOK, ProcType
<1>7. ProgressOf(p)'
  BY <1>1, <1>2, <1>6 DEF ProgressOf
<1>8. DraftedOf(p)'
  <2> HIDE DEF v, m
  <2>1. draft'.objs = DraftObjs(p, Made(proc[p].step))' /\ Effective(p, Made(proc[p].step))'
    BY <1>1, <1>2, <1>3, <1>5, <1>6 DEF DraftObjs, Effective
  <2>2. IF proc[p].down THEN draft'.recs = Log!Without(db.recs, m)
                        ELSE ~Contains(db.recs, m) /\ draft'.recs = Append(db.recs, m)
    BY <1>1, <1>2, <1>5
  <2> QED
    BY <1>1, <1>6, <2>1, <2>2 DEF DraftedOf
<1>9. IsInjective(draft'.recs) /\ writer' # Null
  BY <1>1, <1>4, <1>5, MigratorOK
<1> QED
  BY <1>1, <1>5, <1>6, <1>7, <1>8, <1>9, FileKept

(* What COMMIT makes of the file.                                          *)
LEMMA Committed ==
  ASSUME IInv, NEW p \in Procs, Commit(p)
  PROVE  /\ writer = p /\ db' = draft /\ db \in Databases /\ IsInjective(db.recs)
         /\ proc[p].step \in Steps /\ proc[p].record \in Steps
         /\ db'.objs = DraftObjs(p, Made(proc[p].step)) /\ Effective(p, Made(proc[p].step))
         /\ proc[p].down => db'.recs = Log!Without(db.recs, proc[p].record)
         /\ ~proc[p].down => /\ proc[p].record = proc[p].step
                             /\ ~Contains(db.recs, proc[p].record)
                             /\ db'.recs = Append(db.recs, proc[p].record)
<1>1. proc[p].pc = "commit" /\ db' = draft
  BY DEF Commit, Reached
<1> QED
  BY <1>1 DEF IInv, TypeOK, Reached, ProgressOf, DraftedOf

LEMMA CommitStep ==
  ASSUME IInv, NEW p \in Procs, Commit(p)
  PROVE  IInv'
<1> DEFINE m == proc[p].step
           n == proc[p].record
<1>1. /\ db' = draft /\ writer' = Null /\ draft' = Empty
      /\ proc' = [proc EXCEPT ![p] = NoMigration]
      /\ mixed' = (mixed \/ (proc[p].down /\ ~(m = n /\ Contains(db.recs, n))))
  BY DEF Commit
<1>2. /\ writer = p /\ db \in Databases /\ IsInjective(db.recs)
      /\ m \in Steps /\ n \in Steps
      /\ db'.objs = DraftObjs(p, Made(m)) /\ Effective(p, Made(m))
      /\ proc[p].down => db'.recs = Log!Without(db.recs, n)
      /\ ~proc[p].down => n = m /\ ~Contains(db.recs, n) /\ db'.recs = Append(db.recs, n)
  BY Committed
<1>3. NoMigration \in ProcType /\ NoMigration.pc = "idle"
  BY DEF NoMigration, ProcType
<1>4. /\ proc' \in [Procs -> ProcType] /\ proc'[p].pc = "idle"
      /\ \A q \in Procs \ {p} : proc'[q] = proc[q]
  BY <1>1, <1>3 DEF IInv, TypeOK, ProcType
<1>5. TypeOK'
  <2>1. \A q \in Procs : ~Reached(q, "commit")'
    BY <1>1, <1>2, <1>4 DEF IInv, TypeOK, Reached
  <2>2. db' \in Databases /\ IsInjective(db'.recs) /\ mixed' \in BOOLEAN
    BY <1>1 DEF IInv, TypeOK
  <2> QED
    BY <1>1, <1>4, <2>1, <2>2, EmptyOK DEF TypeOK, ProcType
<1>6. ProgressOf(p)' /\ DraftedOf(p)'
  BY <1>1, <1>4, MigratorOK DEF ProgressOf, DraftedOf, IInv, TypeOK
<1>7. \A q \in Procs \ {p} : ProgressOf(q)' /\ DraftedOf(q)'
  BY <1>1, <1>2, <1>4, Others
<1>8. ASSUME ~mixed' PROVE Whole'
  <2>1. ~mixed /\ (proc[p].down => m = n /\ Contains(db.recs, n))
    BY <1>1, <1>8 DEF IInv, TypeOK
  <2>2. /\ db.objs = UNION {Made(k) : k \in ToSet(db.recs)}
        /\ \A k, l \in ToSet(db.recs) : k # l => Made(k) \cap Made(l) = {}
    BY <2>1 DEF IInv, WholeUnlessMixed, Whole, Made
  <2>3. db.recs \in Seq(Steps)
    BY <1>2 DEF Databases
  <2>4. CASE proc[p].down
    <3>1. ToSet(db'.recs) = ToSet(db.recs) \ {m} /\ m \in ToSet(db.recs)
      BY <1>2, <2>1, <2>3, <2>4, Deleted, Listed
    <3>2. db'.objs = db.objs \ Made(m)
      BY <1>2, <2>4 DEF DraftObjs
    <3>3. db'.objs = UNION {Made(k) : k \in ToSet(db'.recs)}
      <4> HIDE DEF m
      <4> QED
        BY <2>2, <3>1, <3>2
    <3> QED
      BY <2>2, <3>1, <3>3 DEF Whole, Made
  <2>5. CASE ~proc[p].down
    <3>1. ToSet(db'.recs) = ToSet(db.recs) \cup {m}
      <4>1. /\ m \in Steps /\ ~Contains(db.recs, m) /\ IsInjective(db.recs)
            /\ db'.recs = Append(db.recs, m)
        BY <1>2, <2>5
      <4> HIDE DEF m
      <4> QED
        BY <2>3, <4>1, Appended
    <3>2. db'.objs = db.objs \cup Made(m) /\ Made(m) \cap db.objs = {}
      BY <1>2, <2>5 DEF DraftObjs, Effective
    <3>3. db'.objs = UNION {Made(k) : k \in ToSet(db'.recs)}
      <4> HIDE DEF m
      <4> QED
        BY <2>2, <3>1, <3>2
    <3>4. \A k \in ToSet(db.recs) : Made(k) \cap Made(m) = {}
      BY <2>2, <3>2
    <3> QED
      BY <2>2, <3>1, <3>3, <3>4 DEF Whole, Made
  <2> QED
    BY <2>4, <2>5
<1> QED
  BY <1>5, <1>6, <1>7, <1>8 DEF IInv, WholeUnlessMixed

-----------------------------------------------------------------------------
LEMMA NextIInv == IInv /\ [Next]_vars => IInv'
<1> SUFFICES ASSUME IInv, [Next]_vars PROVE IInv'
  OBVIOUS
<1>1. CASE UNCHANGED vars
  <2>1. TypeOK'
    BY <1>1 DEF IInv, vars, TypeOK, Reached
  <2>2. WholeUnlessMixed'
    BY <1>1 DEF IInv, vars, WholeUnlessMixed, Whole
  <2>3. ASSUME NEW p \in Procs PROVE ProgressOf(p)' /\ DraftedOf(p)'
    <3>1. Statements(p)' = Statements(p)
      BY <1>1 DEF vars, Statements
    <3>2. Done(p)' = Done(p)
      BY <1>1, <3>1 DEF vars, Done
    <3> QED
      BY <1>1, <3>1, <3>2 DEF IInv, vars, ProgressOf, DraftedOf, DraftObjs, Effective
  <2> QED
    BY <2>1, <2>2, <2>3 DEF IInv
<1>2. ASSUME NEW p \in Procs, Call(p) \/ Advance(p) \/ Crash(p) PROVE IInv'
  <2>1. CASE Call(p) \/ RollbackLast(p)
    BY <2>1, CallStep
  <2>2. CASE Execute(p)
    BY <2>2, ExecuteStep
  <2>3. CASE Record(p)
    BY <2>3, RecordStep
  <2>4. CASE Refused(p) \/ CommitFails(p)
    BY <2>4, FailStep
  <2>5. CASE Commit(p)
    BY <2>5, CommitStep
  <2>6. CASE Rollback(p) \/ Crash(p)
    BY <2>6, AbandonStep
  <2> QED
    BY <1>2, <2>1, <2>2, <2>3, <2>4, <2>5, <2>6 DEF Advance
<1> QED
  BY <1>1, <1>2 DEF Next

LEMMA SpecIInv == Spec => []IInv
BY InitIInv, NextIInv, PTL DEF Spec

(* The write lock is with one process, the names recorded are distinct in  *)
(* the file and in the draft (the table's UNIQUE, migrator.ts:44-49).      *)
THEOREM MigratorTypeCorrect == Spec => []TypeOK
<1>1. IInv => TypeOK
  BY DEF IInv
<1> QED
  BY <1>1, SpecIInv, PTL

(* However many processes migrate, fail and die between the statements of  *)
(* apply and applyDown (migrator.ts:76-132), the schema is what the        *)
(* recorded steps made, until a rollback deletes the record of another     *)
(* step than it undoes.                                                    *)
THEOREM RecordsTellSchema == Spec => []WholeUnlessMixed
<1>1. IInv => WholeUnlessMixed
  BY DEF IInv
<1> QED
  BY <1>1, SpecIInv, PTL

(* A step of a process changes the file by one whole step or not at all.   *)
LEMMA StepKeepsLog ==
  ASSUME IInv, [Next]_vars
  PROVE  [Log!Next]_<<db.objs, db.recs>>
<1>1. CASE \E p \in Procs : Commit(p)
  <2>1. PICK p \in Procs : Commit(p)
    BY <1>1
  <2> DEFINE m == proc[p].step
             n == proc[p].record
  <2>2. /\ m \in Steps /\ n \in Steps
        /\ db'.objs = DraftObjs(p, Made(m)) /\ Effective(p, Made(m))
        /\ proc[p].down => db'.recs = Log!Without(db.recs, n)
        /\ ~proc[p].down => n = m /\ ~Contains(db.recs, n) /\ db'.recs = Append(db.recs, n)
    BY <2>1, Committed
  <2>3. CASE proc[p].down
    <3>1. Log!Revert(m, n)
      BY <2>2, <2>3 DEF Log!Revert, DraftObjs, Effective, Made, Log!ToSet, ToSet
    <3> QED
      BY <2>2, <3>1 DEF Log!Next
  <2>4. CASE ~proc[p].down
    <3>1. Log!Apply(m)
      BY <2>2, <2>4 DEF Log!Apply, DraftObjs, Effective, Made, Log!ToSet, ToSet, Log!Contains, Contains
    <3> QED
      BY <2>2, <3>1 DEF Log!Next
  <2> QED
    BY <2>3, <2>4
<1>2. CASE ~\E p \in Procs : Commit(p)
  <2>1. db' = db
    BY <1>2 DEF Next, vars, Call, Apply, ApplyDown, AskRollback, Advance, RollbackLast, Execute,
                Record, Write, Refused, CommitFails, Rollback, Crash, Abandon
  <2> QED
    BY <2>1
<1> QED
  BY <1>1, <1>2

(* Migrator implements MigrationLog: steps of apply and applyDown become   *)
(* visible whole, with their record, whatever fails and however processes  *)
(* interleave (migrator.ts:88: no advisory lock is held).                  *)
THEOREM StepsStayWhole == Spec => KeepsLog
<1>1. Init => Log!Init
  BY DEF Init, Empty, Log!Init
<1>2. IInv /\ [Next]_vars => [Log!Next]_<<db.objs, db.recs>>
  BY StepKeepsLog
<1> QED
  BY <1>1, <1>2, SpecIInv, PTL DEF Spec, KeepsLog, Log!Spec
=============================================================================
