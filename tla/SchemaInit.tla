----------------------------- MODULE SchemaInit -----------------------------
(***************************************************************************)
(* How processes bring the database up to their schemas when they start:   *)
(* mountsqli and createDb of packages/core/src/index.ts, which wait for    *)
(* init of the drivers (packages/driver-sqlite, -postgres and -mysql), and *)
(* createTableSQL of packages/schema. The processes share a database and   *)
(* may run different versions of the program; each statement is a step,    *)
(* may fail, and is durable at once. A process may die and start again.    *)
(*                                                                         *)
(* A foreign key is one that the server keeps: MySQL before version 9      *)
(* ignores REFERENCES of a column, so that there it is one of foreignKeys. *)
(* A configuration that gives one table twice is left out.                 *)
(***************************************************************************)
EXTENDS Integers, FiniteSets, Sequences

CONSTANTS
  Processes,
  Order,        \* process -> its tables, in the order of its configuration
  Fields,       \* process -> its tables -> their columns
  Required,     \* the columns <<table, column>> that are NOT NULL without default
  References,   \* the tables' foreign keys, <<from, column, to>>
  Legacy,       \* the tables a database may have from before, numbered by hand -> their columns
  Attempts      \* the values of maxRetries

\* normalize refuses a configuration without tables (config.ts:272-276).
ASSUME SchemaInitConstantsOK ==
  /\ Attempts \subseteq Nat /\ References \subseteq STRING \X STRING \X STRING
  /\ \A p \in Processes : Order[p] \in Seq(STRING) /\ Order[p] # << >>

VARIABLES
  server,      \* "sqlite", "postgres" or "mysql"
  maxRetries,
  older,       \* history: the database had the Legacy tables
  columns,     \* table -> its columns, for the tables there are
  strict,      \* the columns that refuse a row without them
  numbered,    \* the tables whose key is AUTO_INCREMENT (MySQL)
  links,       \* the foreign keys there are
  unkeyed,     \* history: the foreign keys that their columns came without
  at           \* process -> where it is: [pc, attempt, table, seen, byHand]
initVars == <<server, maxRetries, older, columns, strict, numbered, links, unkeyed, at>>
Database == <<columns, strict, numbered, links, unkeyed>>

Away == [pc |-> "away", attempt |-> 0, table |-> 0, seen |-> {}, byHand |-> FALSE]
NoTables == [t \in {} |-> {}]
\* The keys and the NOT NULLs that an older table may have or lack.
Had(S) == {s \in S : s[1] \in DOMAIN Legacy /\ s[2] \in Legacy[s[1]]}

SchemaInitInit ==
  /\ server \in {"sqlite", "postgres", "mysql"} /\ maxRetries \in Attempts /\ older \in BOOLEAN
  /\ columns = IF older THEN Legacy ELSE NoTables
  /\ numbered = {}
  /\ strict \in IF older THEN SUBSET Had(Required) ELSE {{}}
  /\ links \in IF older THEN SUBSET Had(References) ELSE {{}}
  /\ unkeyed = IF older THEN Had(References) \ links ELSE {}
  /\ at = [p \in Processes |-> Away]

-----------------------------------------------------------------------------
Goto(p, pc) == at' = [at EXCEPT ![p].pc = pc]
Table(p) == Order[p][at[p].table]
Wanted(p) == Fields[p][Table(p)]

\* mountsqli, createDb and the constructors. MySQL's ping reports what it
\* finds as its result, which nobody looks at. Without attempts, Postgres's
\* init has nothing to do and nothing to report.
Launch(p) ==
  /\ at[p].pc = "away"
  /\ at' = [at EXCEPT ![p] = [Away EXCEPT !.attempt = 1, !.table = 1,
              !.pc = CASE server # "postgres" -> "create"
                       [] server = "postgres" /\ maxRetries = 0 -> "ready"
                       [] OTHER -> "connect"]]
  /\ UNCHANGED Database

\* The catch of an attempt of Postgres: the next one, or the error. The
\* other drivers make one attempt. The finally of Postgres releases the client.
Failed(p) ==
  at' = [at EXCEPT ![p] =
    IF server = "postgres" /\ at[p].attempt < maxRetries
    THEN [Away EXCEPT !.pc = "connect", !.attempt = at[p].attempt + 1, !.table = 1]
    ELSE [Away EXCEPT !.pc = "refused"]]

\* Fault: a connection that could not be made is not remembered as an error.
ConnectForgotten(p) ==
  /\ at[p].pc = "connect"
  /\ \/ Goto(p, "create")
     \/ at[p].attempt < maxRetries /\ Failed(p)
     \/ at[p].attempt = maxRetries /\ Goto(p, "ready")
  /\ UNCHANGED Database

\* pool.connect
Connect(p) ==
  /\ at[p].pc = "connect"
  /\ Goto(p, "create") \/ Failed(p)
  /\ UNCHANGED Database

\* Any statement may fail: the connection is lost, the database is locked,
\* another process was faster. (Of number and unlink see below.)
StatementFails(p) ==
  /\ at[p].pc \in {"create", "describe", "add", "renumber", "default"}
  /\ Failed(p)
  /\ UNCHANGED Database

\* The next table; after the last one init resolves.
NextTable(p) ==
  at' = [at EXCEPT ![p] =
    IF @.table < Len(Order[p]) THEN [@ EXCEPT !.pc = "create", !.table = at[p].table + 1, !.seen = {}]
    ELSE [Away EXCEPT !.pc = "ready"]]

\* CREATE TABLE IF NOT EXISTS. SQLite takes a reference to a table that does
\* not exist yet, the others do not.
Create(p) ==
  LET t == Table(p)
      own == {r \in References : r[1] = t /\ r[2] \in Wanted(p)}
      absent == t \notin DOMAIN columns
  IN  /\ at[p].pc = "create"
      /\ absent /\ server # "sqlite" => \A r \in own : r[3] \in DOMAIN columns \cup {t}
      /\ IF absent
         THEN /\ columns' = [u \in DOMAIN columns \cup {t} |->
                               IF u = t THEN Wanted(p) ELSE columns[u]]
              /\ strict' = strict \cup {s \in Required : s[1] = t /\ s[2] \in Wanted(p)}
              /\ numbered' = IF server = "mysql" THEN numbered \cup {t} ELSE numbered
              /\ links' = links \cup own /\ UNCHANGED unkeyed
         ELSE UNCHANGED Database
      /\ IF server = "sqlite" THEN NextTable(p) ELSE Goto(p, "describe")

\* information_schema.columns, or DESCRIBE.
Describe(p) ==
  /\ at[p].pc = "describe"
  /\ at' = [at EXCEPT ![p].seen = columns[Table(p)], ![p].pc = "add",
                      ![p].byHand = server = "mysql" /\ Table(p) \notin numbered]
  /\ UNCHANGED Database

\* ALTER TABLE ADD COLUMN, which fails on a column that is there by now.
\* What is added may be NULL, and refers to nothing, whatever the schema says.
AddColumn(p) ==
  /\ at[p].pc = "add"
  /\ \E c \in Wanted(p) \ at[p].seen :
       /\ c \notin columns[Table(p)]
       /\ columns' = [columns EXCEPT ![Table(p)] = @ \cup {c}]
       /\ unkeyed' = unkeyed \cup {r \in References : r[1] = Table(p) /\ r[2] = c}
       /\ at' = [at EXCEPT ![p].seen = @ \cup {c}]
  /\ UNCHANGED <<strict, numbered, links>>

\* MODIFY COLUMN ... AUTO_INCREMENT, refused while a key refers to the
\* column. Whatever it fails of, the keys that refer to it are dropped.
Modify(p) ==
  /\ \A r \in links : r[3] # Table(p)
  /\ numbered' = numbered \cup {Table(p)}
  /\ at' = [at EXCEPT ![p].pc = "add", ![p].byHand = FALSE]
  /\ UNCHANGED <<columns, strict, links, unkeyed>>

NumberKey(p) ==
  /\ at[p].pc = "add" /\ at[p].byHand
  /\ Modify(p) \/ (Goto(p, "unlink") /\ UNCHANGED Database)

\* The loop over the keys, whose failures are ignored; its query may fail.
Unlink(p) ==
  /\ at[p].pc = "unlink"
  /\ \/ /\ links' \in {links \ gone : gone \in SUBSET {r \in links : r[3] = Table(p)}}
        /\ Goto(p, "renumber")
     \/ links' = links /\ Failed(p)
  /\ UNCHANGED <<columns, strict, numbered, unkeyed>>

Renumber(p) == at[p].pc = "renumber" /\ Modify(p)

\* All columns are there: the next table, or the last step of MySQL.
Added(p) ==
  /\ at[p].pc = "add" /\ Wanted(p) \subseteq at[p].seen /\ ~at[p].byHand
  /\ IF server = "mysql" THEN Goto(p, "default") ELSE NextTable(p)
  /\ UNCHANGED Database

\* It gives a default to every column that DESCRIBE listed as NOT NULL
\* without one. (A key that was numbered just now is among them, and the
\* server may refuse that default.)
Default(p) ==
  /\ at[p].pc = "default"
  /\ LET bare == {s \in strict : s[1] = Table(p)}
     IN  IF bare = {} THEN strict' = strict /\ NextTable(p)
         ELSE (\E s \in bare : strict' = strict \ {s}) /\ at' = at
  /\ UNCHANGED <<columns, numbered, links, unkeyed>>

\* The process ends, or dies in the middle, and its connections with it.
Exit(p) ==
  /\ at[p].pc # "away"
  /\ at' = [at EXCEPT ![p] = Away]
  /\ UNCHANGED Database

InitSteps(p) ==
  \/ Launch(p) \/ Connect(p) \/ StatementFails(p) \/ Create(p) \/ Describe(p) \/ AddColumn(p)
  \/ Added(p) \/ NumberKey(p) \/ Unlink(p) \/ Renumber(p) \/ Default(p) \/ Exit(p)
SchemaInitNext == (\E p \in Processes : InitSteps(p)) /\ UNCHANGED <<server, maxRetries, older>>

SchemaInitSpec == SchemaInitInit /\ [][SchemaInitNext]_initVars

-----------------------------------------------------------------------------
SchemaInitTypeOK ==
  /\ server \in {"sqlite", "postgres", "mysql"} /\ maxRetries \in Attempts
  /\ numbered \subseteq DOMAIN columns /\ strict \subseteq Required
  /\ links \subseteq References /\ unkeyed \subseteq References
  /\ \A p \in Processes : /\ at[p].attempt \in Nat /\ at[p].byHand \in BOOLEAN
                         /\ at[p].table \in 0 .. Len(Order[p])
                         /\ at[p].pc \in {"away", "connect", "create", "describe", "add", "unlink",
                                         "renumber", "default", "ready", "refused"}

TablesOf(p) == {Order[p][i] : i \in DOMAIN Order[p]}
Tried == server = "postgres" => maxRetries > 0

(* A process whose mountsqli() has resolved finds its tables and columns,  *)
(* whatever failed before and whoever else was at it: with SQLite without  *)
(* the columns a table did not have when it was there before, and with     *)
(* Postgres if it was to make an attempt at all. A column that was created *)
(* with its table has its foreign key, and keeps it, but that MySQL drops  *)
(* those to a key that it had to number, for good (driver-mysql:229-247);  *)
(* what ALTER added has none (driver-postgres:198-205,                     *)
(* driver-mysql:223-228), nor is one made that an older table lacks.       *)
InitLeavesSchema ==
  /\ \A p \in Processes : at[p].pc = "ready" /\ Tried =>
       \A t \in TablesOf(p) :
         /\ t \in DOMAIN columns
         /\ server # "sqlite" => Fields[p][t] \subseteq columns[t]
         /\ server = "mysql" => t \in numbered /\ \A s \in strict : s[1] # t
  /\ \A r \in References \ (links \cup unkeyed) :
       \/ r[1] \notin DOMAIN columns
       \/ r[2] \notin columns[r[1]]
       \/ server = "mysql" /\ older /\ r[3] \in DOMAIN Legacy
=============================================================================
