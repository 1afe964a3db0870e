----------------------------- MODULE SchemaSync -----------------------------
(***************************************************************************)
(* The schema commands: mount migrate apply and down (packages/cli         *)
(* lib.ts), which read the schema of the database (introspect.ts of        *)
(* packages/migration), compare it with the configured one (diff.ts) and   *)
(* run the statements generated from the difference (generate.ts). A       *)
(* migration runs in one transaction (see Migrator, where the order of     *)
(* concurrent runs is modelled); here it either runs or changes nothing.   *)
(*                                                                         *)
(* A schema maps its tables to their columns, and these to definitions     *)
(* [type, nullable, unique, extra]: extra is "default" (a number, which    *)
(* introspection reports as it was given), "check" (a check or the default *)
(* of a text, which it reports differently or not at all) or "none". Every *)
(* table also has a primary key, the same in all schemas.                  *)
(***************************************************************************)
EXTENDS Integers, Sequences, SequencesExt, FiniteSets

CONSTANTS
  TableNames, ColumnNames,
  Definitions,   \* the column definitions that schemas are made of
  MaxRecords     \* bound on the migrations recorded

\* No schema has the table of the log.
ASSUME SchemaSyncConstantsOK == MaxRecords \in Nat /\ "_mount_migrations" \notin TableNames

VARIABLES
  dialect,    \* "sqlite" or "postgres"
  target,     \* cfg.tables
  stored,     \* the schema of the database
  records,    \* how many migrations _mount_migrations lists
  report      \* of the last command
syncVars == <<dialect, target, stored, records, report>>

Schemas == UNION {[S -> UNION {[C -> Definitions] : C \in SUBSET ColumnNames}] : S \in SUBSET TableNames}
Empty == [t \in {} |-> << >>]
LogTable == "_mount_migrations"

SyncInit ==
  /\ dialect \in {"sqlite", "postgres"} /\ target \in Schemas
  /\ stored = Empty /\ records = 0 /\ report = "none"

-----------------------------------------------------------------------------
\* introspect: a bool is stored as an INTEGER by SQLite and read as an int;
\* the Postgres reader lists the table of the log.
SeenColumn(def) ==
  [def EXCEPT !.type  = IF @ = "bool" THEN "int" ELSE @,
              !.extra = IF @ = "check" THEN "none" ELSE @]
Introspected ==
  [t \in DOMAIN stored \cup (IF dialect = "postgres" THEN {LogTable} ELSE {}) |->
    IF t = LogTable THEN << >> ELSE [c \in DOMAIN stored[t] |-> SeenColumn(stored[t][c])]]

\* diffSchemas, as sets of changes: all of a kind, in any order.
ChangeOf(kind, t, c) == [kind |-> kind, table |-> t, column |-> c]
Both(before, after) == DOMAIN before \cap DOMAIN after
ColumnChanges(before, after, t) ==
       {ChangeOf("add_column", t, c) : c \in DOMAIN after[t] \ DOMAIN before[t]}
  \cup {ChangeOf("drop_column", t, c) : c \in DOMAIN before[t] \ DOMAIN after[t]}
  \cup {ChangeOf("alter_column", t, c) :
       c \in {d \in Both(before[t], after[t]) : before[t][d] # after[t][d]}}
  \cup {ChangeOf("add_index", t, c) :
       c \in {d \in DOMAIN after[t] : /\ after[t][d].unique
                                      /\ d \in DOMAIN before[t] => ~before[t][d].unique}}

\* Fault: tables that the configuration no longer has stay.
DiffWithoutDrops(before, after) ==
       {ChangeOf("create_table", t, "all") : t \in DOMAIN after \ DOMAIN before}
  \cup (UNION {ColumnChanges(before, after, t) : t \in Both(before, after)})

diffSchemas(before, after) ==
       {ChangeOf("create_table", t, "all") : t \in DOMAIN after \ DOMAIN before}
  \cup (UNION {ColumnChanges(before, after, t) : t \in Both(before, after)})
  \cup {ChangeOf("drop_table", t, "all") : t \in DOMAIN before \ DOMAIN after}

Destructive(changes) ==
  \E ch \in changes : ch.kind \in {"drop_table", "drop_column", "alter_column"}

-----------------------------------------------------------------------------
\* What SQLite does with the statements of a change (generate.ts): it has no
\* ALTER COLUMN, adds no column that is unique or that is NOT NULL without a
\* default, drops none that is unique, and has no uq_ index on a column that
\* was made unique.
Addable(def) == ~def.unique /\ (def.nullable \/ def.extra = "default")
Runs(ch) ==
  CASE ch.kind \in {"create_table", "drop_table"} -> ch.table # LogTable
    [] ch.kind = "add_column" -> Addable(target[ch.table][ch.column])
    [] ch.kind = "drop_column" -> ~stored[ch.table][ch.column].unique
    [] OTHER -> FALSE

\* What up makes of a schema when all its statements run: they create and
\* drop tables and columns.
Up == [t \in DOMAIN target |->
  IF t \notin DOMAIN stored THEN target[t]
  ELSE [c \in DOMAIN target[t] |-> IF c \in DOMAIN stored[t] THEN stored[t][c] ELSE target[t][c]]]

\* cmdGenerate, and the first part of cmdAnalyze: what apply would do.
Inspect ==
  LET changes == diffSchemas(Introspected, target)
  IN  /\ report' = IF changes = {} THEN "inSync" ELSE IF Destructive(changes) THEN "review" ELSE "safe"
      /\ UNCHANGED <<stored, records>>

\* cmdApply. Without the log the record cannot be written.
Apply(allowDestructive) ==
  LET changes == diffSchemas(Introspected, target)
      refused == Destructive(changes) /\ ~allowDestructive
  IN  \/ /\ changes = {} \/ refused \/ \E ch \in changes : ~Runs(ch)
         /\ report' = IF changes = {} THEN "inSync" ELSE IF refused THEN "refused" ELSE "failed"
         /\ UNCHANGED <<stored, records>>
      \/ /\ changes # {} /\ ~refused /\ \A ch \in changes : Runs(ch)
         /\ records < MaxRecords
         /\ stored' = Up /\ records' = records + 1
         /\ report' = "applied"

\* cmdDown runs the down statements of the changes from the configuration to
\* the database: what the database has and the configuration lacks is
\* dropped. A drop is undone by a comment, which may be refused for a statement.
UndoRuns(ch) ==
  \/ ch.kind \in {"create_table", "drop_table", "drop_column"}
  \/ ch.kind = "add_column" /\ ~stored[ch.table][ch.column].unique
Kept(t) == DOMAIN stored[t] \cap DOMAIN target[t]
Down ==
  LET changes == diffSchemas(target, Introspected)
  IN  \/ /\ records = 0 \/ changes = {}
         /\ report' = "nothing"
         /\ UNCHANGED <<stored, records>>
      \/ /\ records > 0 /\ \E ch \in changes : ~UndoRuns(ch) \/ ch.kind \in {"drop_table", "drop_column"}
         /\ report' = "failed"
         /\ UNCHANGED <<stored, records>>
      \/ /\ records > 0 /\ changes # {} /\ \A ch \in changes : UndoRuns(ch)
         /\ stored' = [t \in Both(stored, target) |-> [c \in Kept(t) |-> stored[t][c]]]
         /\ records' = records - 1
         /\ report' = "down"

EditConfig ==
  /\ target' \in Schemas \ {target}
  /\ report' = "none"
  /\ UNCHANGED <<stored, records>>

SyncNext ==
  /\ \/ EditConfig /\ UNCHANGED dialect
     \/ (Inspect \/ Down \/ \E allow \in BOOLEAN : Apply(allow)) /\ UNCHANGED <<dialect, target>>

SyncSpec == SyncInit /\ [][SyncNext]_syncVars

-----------------------------------------------------------------------------
SyncTypeOK ==
  /\ dialect \in {"sqlite", "postgres"} /\ {target, stored} \subseteq Schemas
  /\ records \in 0 .. MaxRecords
  /\ report \in {"none", "inSync", "refused", "failed", "applied", "nothing", "down", "review", "safe"}

Shape(schema) == [t \in DOMAIN schema |-> DOMAIN schema[t]]
\* A column is what the configuration says, or is read so.
AsConfigured(t, c) == target[t][c] \in {stored[t][c], SeenColumn(stored[t][c])}

(* What the commands report is true: after apply, or when it finds the     *)
(* schema in sync, the database has the tables and columns of the          *)
(* configuration, as far as introspection can tell; what it calls safe     *)
(* loses no table or column and alters none; after down it has none that   *)
(* the configuration lacks, and what it has is as configured (it does      *)
(* not bring back what was before the last migration: lib.ts:118). On      *)
(* Postgres no migration is ever recorded, since the log itself is taken   *)
(* for a table to drop (introspect.ts:55).                                 *)
ReportsHold ==
  /\ report \in {"applied", "inSync"} => Shape(stored) = Shape(target)
  /\ report = "safe" => \A t \in DOMAIN stored :
       /\ t \in DOMAIN target /\ DOMAIN stored[t] \subseteq DOMAIN target[t]
       /\ \A c \in DOMAIN stored[t] : AsConfigured(t, c)
  /\ report = "down" => \A t \in DOMAIN stored :
       t \in DOMAIN target /\ DOMAIN stored[t] \subseteq DOMAIN target[t]
  /\ report \in {"applied", "inSync", "down"} =>
       \A t \in DOMAIN stored : \A c \in DOMAIN stored[t] : AsConfigured(t, c)
  /\ dialect = "postgres" => records = 0
=============================================================================
