--------------------------- MODULE OAuthAccounts ---------------------------
(***************************************************************************)
(* signIn and handleCallback of packages/auth/src/core/auth.ts for one     *)
(* provider: the state row that a sign-in stores and its callback takes,   *)
(* and the find-or-create of the user and of the linked account, one query *)
(* at a time. The exchange with the provider is an external call that      *)
(* answers with a person or fails; the session that follows is the one of  *)
(* Sessions. As there, the database is SQLite: accounts have no id, and an *)
(* expired state is not refused, so that no clock is needed.               *)
(***************************************************************************)
EXTENDS Integers, FiniteSets

CONSTANTS
  People,     \* persons at the provider, by their verified email
  States,     \* OAuth states that can be generated (each once)
  Callbacks,  \* callbacks that may be in flight at once
  NoFlow,     \* no callback
  MaxRows     \* bound on the accounts of one person

ASSUME OAuthConstantsOK == MaxRows \in Nat

VARIABLES
  stateRows,  \* verification rows "state:<state>"
  people,     \* persons with a row in auth_users
  accounts,   \* rows of auth_accounts per person
  flow,       \* callbacks suspended at an await
  drawn,      \* history: states ever generated
  crossed     \* history: persons with two callbacks looking for an account at once
oauthVars == <<stateRows, people, accounts, flow, drawn, crossed>>

OAuthInit ==
  /\ stateRows = {} /\ people = {} /\ drawn = {} /\ crossed = {}
  /\ accounts = [p \in People |-> 0]
  /\ flow = [c \in Callbacks |-> NoFlow]

InFlow(c, pc) == flow[c] # NoFlow /\ flow[c].pc = pc
Proceed(c, next) == flow' = [flow EXCEPT ![c] = next]
Leave(c) == Proceed(c, NoFlow)

\* signIn stores a state and sends its user to the provider.
SignIn(s) ==
  /\ s \notin drawn
  /\ drawn' = drawn \cup {s}
  /\ stateRows' = stateRows \cup {s}
  /\ UNCHANGED <<people, accounts, flow, crossed>>

\* handleCallback with a state: an unknown one is refused.
FindState(c, s) ==
  /\ flow[c] = NoFlow /\ s \in stateRows
  /\ Proceed(c, [pc |-> "dropState", state |-> s])
  /\ UNCHANGED <<stateRows, people, accounts, drawn, crossed>>

\* A callback without a state is not asked for one.
SkipState(c) ==
  /\ flow[c] = NoFlow
  /\ Proceed(c, [pc |-> "exchange"])
  /\ UNCHANGED <<stateRows, people, accounts, drawn, crossed>>

DropState(c) ==
  /\ InFlow(c, "dropState")
  /\ stateRows' = stateRows \ {flow[c].state}
  /\ Proceed(c, [pc |-> "exchange"])
  /\ UNCHANGED <<people, accounts, drawn, crossed>>

\* exchangeCode and getUserInfo.
Exchange(c, p) ==
  /\ InFlow(c, "exchange")
  /\ Proceed(c, [pc |-> "findUser", person |-> p])
  /\ UNCHANGED <<stateRows, people, accounts, drawn, crossed>>

FindPerson(c) ==
  /\ InFlow(c, "findUser")
  /\ Proceed(c, [flow[c] EXCEPT !.pc = IF flow[c].person \in people THEN "findAccount" ELSE "insertUser"])
  /\ UNCHANGED <<stateRows, people, accounts, drawn, crossed>>

\* The unique email refuses the second of two new users; the first goes on
\* to insert its account without looking for one.
InsertPerson(c) ==
  /\ InFlow(c, "insertUser")
  /\ people' = people \cup {flow[c].person}
  /\ IF flow[c].person \in people THEN Leave(c)
     ELSE Proceed(c, [flow[c] EXCEPT !.pc = "insertAccount"])
  /\ UNCHANGED <<stateRows, accounts, drawn, crossed>>

\* Another callback is about to insert an account of p.
Inserting(p) == \E c \in Callbacks : InFlow(c, "insertAccount") /\ flow[c].person = p

\* Fault: a known user's account is inserted without being looked for.
FindAccountNever(c) ==
  /\ InFlow(c, "findAccount")
  /\ crossed' = IF Inserting(flow[c].person) THEN crossed \cup {flow[c].person} ELSE crossed
  /\ Proceed(c, [flow[c] EXCEPT !.pc = "insertAccount"])
  /\ UNCHANGED <<stateRows, people, accounts, drawn>>

FindAccount(c) ==
  /\ InFlow(c, "findAccount")
  /\ LET p == flow[c].person
     IN  /\ crossed' = IF accounts[p] = 0 /\ Inserting(p) THEN crossed \cup {p} ELSE crossed
         /\ Proceed(c, [flow[c] EXCEPT !.pc = IF accounts[p] = 0 THEN "insertAccount" ELSE "updateAccount"])
  /\ UNCHANGED <<stateRows, people, accounts, drawn>>

\* Nothing makes (user, provider) unique.
InsertAccount(c) ==
  /\ InFlow(c, "insertAccount") /\ accounts[flow[c].person] < MaxRows
  /\ accounts' = [accounts EXCEPT ![flow[c].person] = @ + 1]
  /\ Leave(c)
  /\ UNCHANGED <<stateRows, people, drawn, crossed>>

\* The account's tokens would be replaced where its id is NULL: nowhere.
UpdateAccount(c) ==
  /\ InFlow(c, "updateAccount")
  /\ Leave(c)
  /\ UNCHANGED <<stateRows, people, accounts, drawn, crossed>>

\* A query or the provider fails; what was stored stays.
CallbackFails(c) ==
  /\ flow[c] # NoFlow
  /\ Leave(c)
  /\ UNCHANGED <<stateRows, people, accounts, drawn, crossed>>

OAuthNext ==
  \/ \E s \in States : SignIn(s)
  \/ \E c \in Callbacks :
       \/ \E s \in stateRows : FindState(c, s)
       \/ SkipState(c) \/ DropState(c)
       \/ \E p \in People : Exchange(c, p)
       \/ FindPerson(c) \/ InsertPerson(c) \/ FindAccount(c) \/ InsertAccount(c) \/ UpdateAccount(c)
       \/ CallbackFails(c)

OAuthSpec == OAuthInit /\ [][OAuthNext]_oauthVars

-----------------------------------------------------------------------------
OAuthTypeOK ==
  /\ stateRows \subseteq States
  /\ people \subseteq People /\ crossed \subseteq People /\ drawn \subseteq States
  /\ accounts \in [People -> 0 .. MaxRows]
  /\ flow \in [Callbacks -> {NoFlow} \cup [pc : {"dropState"}, state : States] \cup [pc : {"exchange"}]
                \cup [pc : {"findUser", "insertUser", "findAccount", "insertAccount", "updateAccount"},
                      person : People]]

(* A person's account at the provider is linked once: a second row appears *)
(* only when two callbacks looked for it before either had stored it, and  *)
(* an account belongs to a stored user.                                    *)
LinkedOnce ==
  \A p \in People : /\ accounts[p] <= 1 \/ p \in crossed
                    /\ accounts[p] > 0 => p \in people
=============================================================================
