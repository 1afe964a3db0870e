------------------------------ MODULE Migrator ------------------------------
(***************************************************************************)
(* Migrator (packages/migration/src/migrator.ts) on a SQLite file that     *)
(* several processes migrate, each over a NodeSqliteDriver                 *)
(* (packages/driver-sqlite/src/index.ts), from code or from the command    *)
(* line (packages/cli/src/lib.ts).                                         *)
(*                                                                         *)
(* A step creates schema objects (tables, columns, indexes) one statement  *)
(* at a time. Two steps may create the same object: cmdApply computes its  *)
(* step from the schema it saw. SQLite lets one transaction write at a     *)
(* time, from its first writing statement on, and refuses the others.      *)
(* Dry runs, and destructive steps that are not allowed, change nothing.   *)
(***************************************************************************)
EXTENDS Naturals, Sequences, SequencesExt, FiniteSets

CONSTANTS
  Procs,
  Steps,    \* names of migrations
  Objects,  \* what they create
  Makes,    \* step -> sequence of objects
  Null

ASSUME MigratorOK ==
  /\ Makes \in [Steps -> Seq(Objects)]
  /\ \A m \in Steps : IsInjective(Makes[m])
  /\ Null \notin Procs \cup Steps

VARIABLES
  db,      \* committed: the schema's objects, and the recorded names by id
  writer,  \* process whose transaction holds the write lock
  draft,   \* the database as that transaction sees it
  proc,
  mixed    \* history: a rollback deleted no record, or another step's

vars == <<db, writer, draft, proc, mixed>>

Log == INSTANCE MigrationLog WITH objs <- db.objs, recs <- db.recs

Empty == [objs |-> {}, recs |-> <<>>]

\* step: whose statements run, forward or down; record: the name recorded or
\* deleted with them; next: the statement that is next.
NoMigration == [pc |-> "idle", down |-> FALSE, step |-> Null, record |-> Null, next |-> 0]

Init ==
  /\ db = Empty
  /\ writer = Null
  /\ draft = Empty
  /\ proc = [p \in Procs |-> NoMigration]
  /\ mixed = FALSE

Reached(p, pc) == proc[p].pc = pc

\* generateMigrationSQL: down undoes the changes in reverse order.
Up(m) == Makes[m]
Down(m) == Reverse(Makes[m])
Statements(p) == IF proc[p].down THEN Down(proc[p].step) ELSE Up(proc[p].step)

-----------------------------------------------------------------------------
(* The calls, up to BEGIN, which takes no lock.                            *)

Begin(p, down, step, record) ==
  proc' = [proc EXCEPT ![p] = [pc |-> "run", down |-> down, step |-> step, record |-> record, next |-> 1]]

\* No look at what is applied: statements or the record's unique name refuse a
\* step that is.
Apply(p, m) ==
  /\ Reached(p, "idle")
  /\ Begin(p, FALSE, m, m)
  /\ UNCHANGED <<db, writer, draft, mixed>>

\* applyDown does not look either; its caller picks a step it sees applied.
ApplyDown(p, m) ==
  /\ Reached(p, "idle")
  /\ Contains(db.recs, m)
  /\ Begin(p, TRUE, m, m)
  /\ UNCHANGED <<db, writer, draft, mixed>>

\* A caller of rollbackLast, cmdDown for one, takes the down SQL of the step
\* that is last as it looks.
AskRollback(p) ==
  /\ Reached(p, "idle")
  /\ db.recs # <<>>
  /\ proc' = [proc EXCEPT ![p] =
       [pc |-> "asked", down |-> TRUE, step |-> Last(db.recs), record |-> Null, next |-> 0]]
  /\ UNCHANGED <<db, writer, draft, mixed>>

\* rollbackLast reads the records again and takes the name that is last now;
\* without any, or without down SQL, it does nothing.
RollbackLast(p) ==
  /\ Reached(p, "asked")
  /\ IF db.recs = <<>> \/ Down(proc[p].step) = <<>>
       THEN proc' = [proc EXCEPT ![p] = NoMigration]
       ELSE Begin(p, TRUE, proc[p].step, Last(db.recs))
  /\ UNCHANGED <<db, writer, draft, mixed>>

-----------------------------------------------------------------------------
(* The transaction.                                                        *)

View(p) == IF writer = p THEN draft ELSE db
More(p) == proc[p].next <= Len(Statements(p))
Current(p) == Statements(p)[proc[p].next]

\* Fault: the record's name is not unique.
AcceptedTwice(p) ==
  /\ writer \in {p, Null}
  /\ More(p) => (Current(p) \in View(p).objs) = proc[p].down

\* CREATE of what exists, DROP of what does not and a second record of a name
\* are errors, and so is writing while another transaction does (SQLITE_BUSY).
Accepted(p) ==
  /\ writer \in {p, Null}
  /\ IF More(p) THEN (Current(p) \in View(p).objs) = proc[p].down
                ELSE ~proc[p].down => ~Contains(View(p).recs, proc[p].record)

Write(p, view) == writer' = p /\ draft' = view /\ UNCHANGED db

\* Fault: the statement goes to the driver and not to the transaction.
ExecuteOutside(p) ==
  LET o == Current(p)
  IN  /\ Reached(p, "run")
      /\ More(p)
      /\ Accepted(p)
      /\ db' = IF proc[p].down THEN [db EXCEPT !.objs = @ \ {o}] ELSE [db EXCEPT !.objs = @ \cup {o}]
      /\ proc' = [proc EXCEPT ![p].next = @ + 1]
      /\ UNCHANGED <<writer, draft, mixed>>

Execute(p) ==
  LET o == Current(p)
      v == View(p)
  IN  /\ Reached(p, "run")
      /\ More(p)
      /\ Accepted(p)
      /\ Write(p, IF proc[p].down THEN [v EXCEPT !.objs = @ \ {o}] ELSE [v EXCEPT !.objs = @ \cup {o}])
      /\ proc' = [proc EXCEPT ![p].next = @ + 1]
      /\ UNCHANGED mixed

\* Fault: a rollback leaves its record.
RecordKept(p) ==
  /\ Reached(p, "run")
  /\ ~More(p)
  /\ Accepted(p)
  /\ Write(p, IF proc[p].down THEN View(p) ELSE [View(p) EXCEPT !.recs = Append(@, proc[p].record)])
  /\ proc' = [proc EXCEPT ![p].pc = "commit"]
  /\ UNCHANGED mixed

\* INSERT or DELETE of the record; nobody looks how many rows were deleted.
Record(p) ==
  LET v == View(p)
      m == proc[p].record
  IN  /\ Reached(p, "run")
      /\ ~More(p)
      /\ Accepted(p)
      /\ Write(p, [v EXCEPT !.recs = IF proc[p].down THEN Log!Without(@, m) ELSE Append(@, m)])
      /\ proc' = [proc EXCEPT ![p].pc = "commit"]
      /\ UNCHANGED mixed

\* A statement fails: it is not accepted, or SQLite cannot carry it out.
Refused(p) ==
  /\ Reached(p, "run")
  /\ proc' = [proc EXCEPT ![p].pc = "rollback"]
  /\ UNCHANGED <<db, writer, draft, mixed>>

Commit(p) ==
  /\ Reached(p, "commit")
  /\ db' = draft
  /\ writer' = Null
  /\ draft' = Empty
  /\ proc' = [proc EXCEPT ![p] = NoMigration]
  /\ mixed' = (mixed \/ (proc[p].down /\ ~(proc[p].step = proc[p].record /\ Contains(db.recs, proc[p].record))))

CommitFails(p) ==
  /\ Reached(p, "commit")
  /\ proc' = [proc EXCEPT ![p].pc = "rollback"]
  /\ UNCHANGED <<db, writer, draft, mixed>>

\* SQLite drops the draft.
Abandon(p) ==
  /\ proc' = [proc EXCEPT ![p] = NoMigration]
  /\ IF writer = p THEN writer' = Null /\ draft' = Empty ELSE UNCHANGED <<writer, draft>>
  /\ UNCHANGED <<db, mixed>>

\* Fault: an error leaves the transaction open.
RollbackForgotten(p) ==
  /\ Reached(p, "rollback")
  /\ proc' = [proc EXCEPT ![p] = NoMigration]
  /\ UNCHANGED <<db, writer, draft, mixed>>

Rollback(p) == Reached(p, "rollback") /\ Abandon(p)

\* The process dies at any point of a call.
Crash(p) == ~Reached(p, "idle") /\ Abandon(p)

-----------------------------------------------------------------------------
Call(p) == AskRollback(p) \/ \E m \in Steps : Apply(p, m) \/ ApplyDown(p, m)

Advance(p) ==
  \/ RollbackLast(p) \/ Execute(p) \/ Record(p) \/ Refused(p)
  \/ Commit(p) \/ CommitFails(p) \/ Rollback(p)

Next == \E p \in Procs : Call(p) \/ Advance(p) \/ Crash(p)

Spec == Init /\ [][Next]_vars

\* SQLite answers every statement at once; a call then goes on.
FairSpec == Spec /\ \A p \in Procs : WF_vars(Advance(p))

-----------------------------------------------------------------------------
Databases == [objs : SUBSET Objects, recs : Seq(Steps)]
TypeOK ==
  /\ db \in Databases /\ draft \in Databases
  /\ IsInjective(db.recs) /\ IsInjective(draft.recs)
  /\ writer \in Procs \cup {Null}
  /\ proc \in [Procs -> [pc : {"idle", "asked", "run", "commit", "rollback"}, down : BOOLEAN,
                          step : Steps \cup {Null}, record : Steps \cup {Null}, next : Nat]]
  /\ mixed \in BOOLEAN
  /\ writer = Null => draft = Empty
  /\ \A p \in Procs : Reached(p, "commit") => writer = p

(* The schema is what the recorded steps made, and no two of them made the *)
(* same object: rollbackLast "will NOT silently delete the tracking record *)
(* without reverting schema changes (that would corrupt state)"            *)
(* (packages/migration/src/migrator.ts:104-108).                           *)
Whole ==
  /\ db.objs = UNION {ToSet(Makes[m]) : m \in ToSet(db.recs)}
  /\ \A m, n \in ToSet(db.recs) : m # n => ToSet(Makes[m]) \cap ToSet(Makes[n]) = {}

(* Whatever crashes and whoever else migrates, the records tell what the   *)
(* schema holds, as long as every rollback deletes the record of the step  *)
(* it undoes (apply and applyDown of migrator.ts).                         *)
WholeUnlessMixed == mixed \/ Whole

(* Every change of the file is one whole step, applied or reverted with    *)
(* its record, although statements, commits and processes fail in between  *)
(* and there is no advisory lock (migrator.ts:88).                         *)
KeepsLog == Log!Spec

(* A transaction lets go of the write lock whichever way it ends, so that  *)
(* no process is refused for ever.                                         *)
LockLetGo == \A p \in Procs : writer = p ~> writer # p
=============================================================================
