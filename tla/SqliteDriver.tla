---------------------------- MODULE SqliteDriver ----------------------------
(***************************************************************************)
(* query and transaction of packages/driver-sqlite/src/index.ts: all       *)
(* callers share one connection and node:sqlite is synchronous, so a query *)
(* is one step; a transaction is BEGIN, the caller's function (whose       *)
(* awaits let everybody else run), and COMMIT or ROLLBACK. What SQLite     *)
(* does with a statement is external. batch of packages/core/src/index.ts  *)
(* is a series of queries outside a transaction.                           *)
(***************************************************************************)
EXTENDS Integers, FiniteSets, Sequences, SequencesExt

CONSTANTS
  Clients,       \* callers of transaction
  Writes,        \* statements, each made at most once
  MaxSavepoints  \* bound on the savepoints open at once

ASSUME SqliteConstantsOK == MaxSavepoints \in Nat

VARIABLES
  durable,     \* writes outside any transaction, or committed
  open,        \* the connection is in a transaction
  staged,      \* its writes
  savepoints,  \* its savepoints: the writes there were at each
  inside,      \* clients whose function is running
  outcome,     \* client -> how its last transaction ended
  made,        \* history: client -> the writes its last transaction made
  amid,        \* history: client -> the writes staged at its commit
  byHand       \* history: a function has ended a transaction itself
sqliteVars == <<durable, open, staged, savepoints, inside, outcome, made, amid, byHand>>

SqliteInit ==
  /\ durable = {} /\ open = FALSE /\ staged = {} /\ savepoints = << >>
  /\ inside = {} /\ outcome = [c \in Clients |-> "none"]
  /\ made = [c \in Clients |-> {}] /\ amid = [c \in Clients |-> {}]
  /\ byHand = FALSE

Fresh(w) == w \notin durable \cup staged \cup UNION {made[c] : c \in Clients}

\* query: in whatever transaction the connection is in.
Execute(w) ==
  /\ durable' = IF open THEN durable ELSE durable \cup {w}
  /\ staged'  = IF open THEN staged \cup {w} ELSE staged
  /\ UNCHANGED <<open, savepoints, inside, outcome, amid, byHand>>

\* A query outside any function, of db.query or of a batch.
PlainQuery(w) == Fresh(w) /\ Execute(w) /\ UNCHANGED made

\* tx.query
TxQuery(c, w) ==
  /\ c \in inside /\ Fresh(w)
  /\ Execute(w)
  /\ made' = [made EXCEPT ![c] = @ \cup {w}]

\* Fault: BEGIN is in the try, so that its failure rolls back.
BeginThenRollBack(c) ==
  /\ c \notin inside
  /\ made' = [made EXCEPT ![c] = {}] /\ amid' = [amid EXCEPT ![c] = {}]
  /\ IF open THEN /\ outcome' = [outcome EXCEPT ![c] = "threw"]
                  /\ open' = FALSE /\ staged' = {} /\ savepoints' = << >>
                  /\ UNCHANGED inside
     ELSE /\ open' = TRUE /\ inside' = inside \cup {c}
          /\ outcome' = [outcome EXCEPT ![c] = "none"]
          /\ UNCHANGED <<staged, savepoints>>
  /\ UNCHANGED <<durable, byHand>>

\* transaction: BEGIN fails when the connection is in a transaction, and
\* nothing is rolled back then.
Begin(c) ==
  /\ c \notin inside
  /\ made' = [made EXCEPT ![c] = {}] /\ amid' = [amid EXCEPT ![c] = {}]
  /\ IF open THEN /\ outcome' = [outcome EXCEPT ![c] = "threw"]
                  /\ UNCHANGED <<open, inside>>
     ELSE /\ open' = TRUE /\ inside' = inside \cup {c}
          /\ outcome' = [outcome EXCEPT ![c] = "none"]
  /\ UNCHANGED <<durable, staged, savepoints, byHand>>

\* The statements COMMIT and ROLLBACK, for a connection in a transaction.
Committed == /\ durable' = durable \cup staged
             /\ staged' = {} /\ savepoints' = << >> /\ open' = FALSE
RolledBack == /\ staged' = {} /\ savepoints' = << >> /\ open' = FALSE
              /\ UNCHANGED durable

End(c, how) == inside' = inside \ {c} /\ outcome' = [outcome EXCEPT ![c] = how]

\* The function returned. A COMMIT without a transaction fails, and so does
\* the ROLLBACK after it; one that fails otherwise is rolled back.
FunctionReturns(c) ==
  /\ c \in inside
  /\ \/ open /\ Committed /\ End(c, "committed") /\ amid' = [amid EXCEPT ![c] = staged]
     \/ open /\ RolledBack /\ End(c, "threw") /\ UNCHANGED amid
     \/ ~open /\ End(c, "threw") /\ UNCHANGED <<durable, open, staged, savepoints, amid>>
  /\ UNCHANGED <<made, byHand>>

FunctionThrows(c) ==
  /\ c \in inside
  /\ IF open THEN RolledBack ELSE UNCHANGED <<durable, open, staged, savepoints>>
  /\ End(c, "threw")
  /\ UNCHANGED <<made, amid, byHand>>

\* tx.commit and tx.rollback, called by the function.
EndByHand(c) ==
  /\ c \in inside /\ open
  /\ Committed \/ RolledBack
  /\ byHand' = TRUE
  /\ UNCHANGED <<inside, outcome, made, amid>>

\* tx.savepoint, tx.rollbackTo (the savepoint stays) and tx.release. What
\* rollbackTo undoes is no longer a write of the transaction.
SetSavepoint(c) ==
  /\ c \in inside /\ open /\ Len(savepoints) < MaxSavepoints
  /\ savepoints' = Append(savepoints, staged)
  /\ UNCHANGED <<durable, open, staged, inside, outcome, made, amid, byHand>>

RollbackTo(c) ==
  /\ c \in inside /\ open /\ savepoints # << >>
  /\ staged' = Last(savepoints)
  /\ made' = [made EXCEPT ![c] = @ \ (staged \ staged')]
  /\ UNCHANGED <<durable, open, savepoints, inside, outcome, amid, byHand>>

ReleaseSavepoint(c) ==
  /\ c \in inside /\ open /\ savepoints # << >>
  /\ savepoints' = Front(savepoints)
  /\ UNCHANGED <<durable, open, staged, inside, outcome, made, amid, byHand>>

SqliteNext ==
  \/ \E w \in Writes : PlainQuery(w)
  \/ \E c \in Clients :
       \/ \E w \in Writes : TxQuery(c, w)
       \/ Begin(c) \/ FunctionReturns(c) \/ FunctionThrows(c) \/ EndByHand(c)
       \/ SetSavepoint(c) \/ RollbackTo(c) \/ ReleaseSavepoint(c)

SqliteSpec == SqliteInit /\ [][SqliteNext]_sqliteVars

-----------------------------------------------------------------------------
SqliteTypeOK ==
  /\ durable \subseteq Writes /\ staged \subseteq Writes
  /\ {open, byHand} \subseteq BOOLEAN
  /\ inside \subseteq Clients
  /\ outcome \in [Clients -> {"none", "committed", "threw"}]
  /\ made \in [Clients -> SUBSET Writes] /\ amid \in [Clients -> SUBSET Writes]
  /\ savepoints \in Seq(SUBSET Writes) /\ Len(savepoints) <= MaxSavepoints

(* The writes of a transaction become durable with its commit or not at    *)
(* all, although one connection serves everybody (driver-sqlite:180), and  *)
(* one commit takes along whatever others wrote meanwhile: unless some     *)
(* function has ended a transaction by hand, after which the next COMMIT   *)
(* or ROLLBACK may meet another one's transaction.                         *)
SqliteAllOrNothing ==
  ~byHand =>
    \A c \in Clients :
      /\ outcome[c] = "committed" => made[c] \subseteq amid[c] /\ amid[c] \subseteq durable
      /\ outcome[c] # "committed" => made[c] \cap durable = {}
=============================================================================
