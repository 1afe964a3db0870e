------------------------------ MODULE LazyPool ------------------------------
(***************************************************************************)
(* The pool that MysqlDriver opens with its first statement: get in the    *)
(* constructor, close and ping of packages/driver-mysql/src/index.ts. Its  *)
(* import of mysql2 is awaited between the look for a pool and the store   *)
(* of a new one. (PoolTransactions begins with the pool there is.)         *)
(***************************************************************************)
EXTENDS Integers, FiniteSets

CONSTANTS Statements   \* what the program sends, in any order

ASSUME LazyPoolOK == IsFiniteSet(Statements)

VARIABLES
  installed,   \* whether mysql2 can be imported
  pool,        \* `created`: 0 while undefined
  broken,      \* `initError` is set
  opened,      \* the pools there are, by number
  ended,
  trip,        \* Statements -> [pc, on]: where it is, and its pool
  hurried      \* history: get or close ran while a pool was on its way
poolVars == <<installed, pool, broken, opened, ended, trip, hurried>>

NotSent == [pc |-> "notSent", on |-> 0]

LazyPoolInit ==
  /\ installed \in BOOLEAN
  /\ pool = 0 /\ broken = FALSE /\ opened = {} /\ ended = {} /\ hurried = FALSE
  /\ trip = [s \in Statements |-> NotSent]

-----------------------------------------------------------------------------
OnItsWay == \E s \in Statements : trip[s].pc = "loading"

\* execute, getConnection or ping: get() looks at initError, then at created.
Use(s) ==
  /\ trip[s].pc = "notSent"
  /\ trip' = [trip EXCEPT ![s] =
       [pc |-> IF broken THEN "refused" ELSE IF pool = 0 THEN "loading" ELSE "sent", on |-> pool]]
  /\ hurried' = (hurried \/ (~broken /\ pool = 0 /\ OnItsWay))
  /\ UNCHANGED <<installed, pool, broken, opened, ended>>

\* The import resolves, and createPool follows, whoever has been here since;
\* or it fails, for good.
Loaded(s) ==
  LET new == Cardinality(opened) + 1
  IN  /\ trip[s].pc = "loading"
      /\ IF installed
         THEN /\ opened' = opened \cup {new} /\ pool' = new /\ broken' = broken
              /\ trip' = [trip EXCEPT ![s] = [pc |-> "sent", on |-> new]]
         ELSE /\ broken' = TRUE
              /\ trip' = [trip EXCEPT ![s].pc = "refused"]
              /\ UNCHANGED <<opened, pool>>
      /\ UNCHANGED <<installed, ended, hurried>>

\* The pool runs the statement, unless it was ended.
RunsOn(s) ==
  /\ trip[s].pc = "sent"
  /\ trip' = [trip EXCEPT ![s].pc = IF trip[s].on \in ended THEN "refused" ELSE "answered"]
  /\ UNCHANGED <<installed, pool, broken, opened, ended, hurried>>

\* close() ends the pool there is. `created` stays, and a pool that is on its
\* way is none.
Close ==
  /\ ended' = IF pool = 0 THEN ended ELSE ended \cup {pool}
  /\ hurried' = (hurried \/ OnItsWay)
  /\ UNCHANGED <<installed, pool, broken, opened, trip>>

LazyPoolNext ==
  \/ \E s \in Statements : Use(s) \/ Loaded(s) \/ RunsOn(s)
  \/ Close

LazyPoolSpec == LazyPoolInit /\ [][LazyPoolNext]_poolVars

-----------------------------------------------------------------------------
LazyPoolTypeOK ==
  /\ installed \in BOOLEAN /\ broken \in BOOLEAN /\ hurried \in BOOLEAN
  /\ pool \in 0 .. Cardinality(Statements)
  /\ opened \subseteq 1 .. Cardinality(Statements) /\ ended \subseteq opened
  /\ trip \in [Statements -> [pc : {"notSent", "loading", "sent", "answered", "refused"},
                                   on : 0 .. Cardinality(Statements)]]

(* The driver opens one pool, and close() reaches it: any other came of    *)
(* statements that were sent while the first was waiting for the import,   *)
(* or of a close() in that time; such a pool is never ended. And only a    *)
(* close() keeps statements from their answers when mysql2 is there.       *)
PoolReachable ==
  /\ ~hurried => opened \subseteq {pool}
  /\ installed /\ (\E s \in Statements : trip[s].pc = "refused") => ended # {}
=============================================================================
