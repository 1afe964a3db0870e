----------------------------- MODULE ExampleApp -----------------------------
(***************************************************************************)
(* The Express example on Postgres, examples/express-app/src/index.ts:     *)
(* which handler a request gets, and the points of the users, which PUT,   *)
(* DELETE and POST /transfer-points change. The transfer runs in           *)
(* db.transaction, but tx.query goes to the pool (see PoolTransactions):   *)
(* each of its statements is executed and durable by itself, and ROLLBACK  *)
(* undoes none. That a statement waits for a connection is left to that    *)
(* module, too; here it may fail at any time.                              *)
(***************************************************************************)
EXTENDS Integers, FiniteSets, Sequences, FiniteSetsExt, Sums

CONSTANTS
  Account,        \* users
  Opening,        \* their points, at first and in the bodies of PUT
  Payers,         \* requests for a transfer that may be served at once
  Amounts,
  MostPoints      \* bound: no transfer begins to a user who has as many

ASSUME ExampleConstantsOK ==
  /\ Opening \subseteq Nat /\ Amounts \subseteq Nat /\ MostPoints \in Nat
  /\ IsFiniteSet(Account) /\ IsFiniteSet(Payers)

VARIABLES
  points,         \* of the users there are
  transfers,      \* payer -> how far its handler is
  handled,        \* the last request for a route and the one that served it, or NotHandled
  total,          \* history: the points that there should be
  disturbed       \* history: a transfer was cut short, or overtaken by a write to its row
exampleVars == <<points, transfers, handled, total, disturbed>>

-----------------------------------------------------------------------------
\* Routes in the order of their registration, with the tables they write.
Get(path) == <<"GET", path, {}>>
UserRoutes == <<
  Get(<<"health">>), Get(<<"users">>), Get(<<"users", ":id">>), <<"POST", <<"users">>, {"users"}>>,
  <<"PUT", <<"users", ":id">>, {"users"}>>, <<"DELETE", <<"users", ":id">>, {"users"}>> >>
PostRoutes == <<
  Get(<<"posts">>), Get(<<"posts", ":id">>), <<"POST", <<"posts">>, {"posts"}>>,
  <<"PUT", <<"posts", ":id">>, {"posts"}>>, <<"DELETE", <<"posts", ":id">>, {"posts"}>> >>
CommentRoutes == <<Get(<<"comments">>), <<"POST", <<"comments">>, {"comments"}>> >>
StatsRoutes == <<
  Get(<<"stats", "posts">>), Get(<<"stats", "users", ":id">>),
  Get(<<"analytics", "posts", "ranking">>), Get(<<"analytics", "posts", "lag">>),
  Get(<<"analytics", "posts", "by-status">>), Get(<<"analytics", "posts", "by-author">>),
  Get(<<"analytics", "posts", "select-expr">>), Get(<<"analytics", "posts", "set">>) >>
WriteRoutes == <<
  <<"POST", <<"categories">>, {"categories"}>>, <<"POST", <<"users", "ensure">>, {"users"}>>,
  <<"POST", <<"posts", ":id", "publish">>, {"posts"}>>, <<"POST", <<"transfer-points">>, {"users"}>> >>
SearchRoutes == <<
  Get(<<"analytics", "posts", "cte">>), Get(<<"analytics", "posts", "distinct-on">>),
  Get(<<"posts", "advanced">>), Get(<<"posts", "recent">>),
  Get(<<"analytics", "posts", "raw-sql">>), Get(<<"analytics", "custom">>),
  Get(<<"search", "posts">>), Get(<<"users", ":id", "metadata">>), Get(<<"users", "cursor", ":id">>) >>
LastRoutes == << <<"POST", <<"batch">>, {"any"}>>, <<"POST", <<"posts", "bulk">>, {"posts"}>>, Get(<< >>) >>
RouteTable ==
  UserRoutes \o PostRoutes \o CommentRoutes \o StatsRoutes \o WriteRoutes \o SearchRoutes \o LastRoutes

\* A segment of a route that begins with a colon matches any.
PathFits(pattern, path) ==
  Len(pattern) = Len(path) /\ \A i \in DOMAIN path : pattern[i] \in {":id", path[i]}
RouteFits(r, method, path) == RouteTable[r][1] = method /\ PathFits(RouteTable[r][2], path)
\* Express calls the first that fits.
Dispatched(method, path) == Min({r \in DOMAIN RouteTable : RouteFits(r, method, path)})
SomeId == "1d"
Filled(pattern) == [i \in DOMAIN pattern |-> IF pattern[i] = ":id" THEN SomeId ELSE pattern[i]]

NoTransfer == [pc |-> "none", from |-> "none", to |-> "none", amount |-> 0, seen |-> 0]
NotHandled == [wanted |-> 0, by |-> 0]
Ask ==
  \* Bound: which handler is called does not depend on the transfers.
  /\ \A c \in Payers : transfers[c] = NoTransfer
  /\ \E r \in DOMAIN RouteTable :
       handled' = [wanted |-> r, by |-> Dispatched(RouteTable[r][1], Filled(RouteTable[r][2]))]
  /\ UNCHANGED <<points, transfers, total, disturbed>>

-----------------------------------------------------------------------------
ExampleInit ==
  /\ points \in [Account -> Opening]
  /\ transfers = [c \in Payers |-> NoTransfer]
  /\ handled = NotHandled /\ disturbed = FALSE
  /\ total = SumOf(points, Account)

\* Another transfer has read u's points and is going to write them.
Overtakes(u) == \E c \in Payers : \/ transfers[c].pc = "checked" /\ transfers[c].from = u
                                  \/ transfers[c].pc = "found" /\ transfers[c].to = u
OthersOvertaken(c, u) ==
  \E d \in Payers \ {c} : \/ transfers[d].pc = "checked" /\ transfers[d].from = u
                          \/ transfers[d].pc = "found" /\ transfers[d].to = u
TransferAt(c, pc) == transfers[c].pc = pc
TransferGoesTo(c, pc) == transfers' = [transfers EXCEPT ![c].pc = pc]
EndRequest(c) == transfers' = [transfers EXCEPT ![c] = NoTransfer]

\* connect and BEGIN.
BeginTransfer(c) ==
  /\ TransferAt(c, "none")
  /\ \E from, to \in Account, amount \in Amounts :
       /\ to \in DOMAIN points => points[to] < MostPoints
       /\ transfers' = [transfers EXCEPT ![c] =
            [pc |-> "begun", from |-> from, to |-> to, amount |-> amount, seen |-> 0]]
  /\ UNCHANGED <<points, total, disturbed>>

\* NOT_FOUND and "Insufficient points" are thrown before anything is written.
ReadSender(c) ==
  /\ TransferAt(c, "begun")
  /\ LET t == transfers[c]
     IN  IF t.from \in DOMAIN points /\ points[t.from] >= t.amount
         THEN transfers' = [transfers EXCEPT ![c].pc = "checked", ![c].seen = points[t.from]]
         ELSE EndRequest(c)
  /\ UNCHANGED <<points, total, disturbed>>

\* UPDATE users SET points = the number read, plus or minus, WHERE id = u.
StorePoints(c, u, n) ==
  IF u \in DOMAIN points
  THEN points' = [points EXCEPT ![u] = n] /\ disturbed' = (disturbed \/ OthersOvertaken(c, u))
  ELSE disturbed' = TRUE /\ UNCHANGED points

Debit(c) ==
  /\ TransferAt(c, "checked")
  /\ StorePoints(c, transfers[c].from, transfers[c].seen - transfers[c].amount)
  /\ TransferGoesTo(c, "debited") /\ UNCHANGED total

\* A recipient who is gone is a TypeError, of which the sender has the loss.
ReadRecipient(c) ==
  /\ TransferAt(c, "debited")
  /\ IF transfers[c].to \in DOMAIN points
     THEN /\ transfers' = [transfers EXCEPT ![c].pc = "found", ![c].seen = points[transfers[c].to]]
          /\ UNCHANGED disturbed
     ELSE EndRequest(c) /\ disturbed' = TRUE
  /\ UNCHANGED <<points, total>>

Credit(c) ==
  /\ TransferAt(c, "found")
  /\ StorePoints(c, transfers[c].to, transfers[c].seen + transfers[c].amount)
  /\ TransferGoesTo(c, "credited") /\ UNCHANGED total

\* COMMIT of nothing, which may fail as well.
EndTransfer(c) == TransferAt(c, "credited") /\ EndRequest(c) /\ UNCHANGED <<points, total, disturbed>>

TransferFails(c) ==
  /\ transfers[c].pc \in {"begun", "checked", "debited", "found"}
  /\ EndRequest(c) /\ disturbed' = (disturbed \/ transfers[c].pc \in {"debited", "found"})
  /\ UNCHANGED <<points, total>>

\* PUT /users/:id with points in its body, and DELETE.
PutUser(u) ==
  /\ u \in DOMAIN points
  /\ \E n \in Opening : points' = [points EXCEPT ![u] = n] /\ total' = total + n - points[u]
  /\ disturbed' = (disturbed \/ Overtakes(u)) /\ UNCHANGED transfers
DeleteUser(u) ==
  /\ u \in DOMAIN points
  /\ points' = [v \in DOMAIN points \ {u} |-> points[v]] /\ total' = total - points[u]
  /\ UNCHANGED <<transfers, disturbed>>

ExampleNext ==
  \/ Ask
  \/ /\ \/ \E c \in Payers : \/ BeginTransfer(c) \/ ReadSender(c) \/ Debit(c) \/ ReadRecipient(c)
                             \/ Credit(c) \/ EndTransfer(c) \/ TransferFails(c)
        \/ \E u \in Account : PutUser(u) \/ DeleteUser(u)
     /\ handled' = NotHandled
     \* Bound: what follows upon a disturbance is not looked at.
     /\ ~disturbed

ExampleSpec == ExampleInit /\ [][ExampleNext]_exampleVars

-----------------------------------------------------------------------------
ExampleTypeOK ==
  /\ DOMAIN points \subseteq Account /\ \A u \in DOMAIN points : points[u] \in Nat
  /\ total \in Int /\ disturbed \in BOOLEAN
  /\ \A c \in Payers : transfers[c].pc \in {"none", "begun", "checked", "debited", "found", "credited"}

InTransit == {c \in Payers : transfers[c].pc \in {"debited", "found"}}
Amount == [c \in Payers |-> transfers[c].amount]

(* There are as many points as PUT and DELETE left, those under way        *)
(* included, as long as no transfer failed after its first write or was    *)
(* overtaken by a write to a row that it had read: a transfer to oneself,  *)
(* and transfers that use the same users one after the other, lose and     *)
(* make none (index.ts:308-317). examples/express-app/README.md:90 says    *)
(* "atomic", without the exceptions.                                       *)
PointsKept == ~disturbed => SumOf(points, DOMAIN points) + SumOf(Amount, InTransit) = total

(* Every route is served as the example's README lists it (lines 44-92),   *)
(* but the two that come after /posts/:id (index.ts:114), which takes their*)
(* requests; and none is served by one that writes a table it does not.    *)
RoutesServeOrHidden ==
  handled # NotHandled =>
    /\ \/ handled.wanted = handled.by
       \/ RouteTable[handled.wanted][2] \in {<<"posts", "advanced">>, <<"posts", "recent">>}
    /\ RouteTable[handled.by][3] \subseteq RouteTable[handled.wanted][3]
=============================================================================
