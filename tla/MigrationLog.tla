---------------------------- MODULE MigrationLog ----------------------------
(***************************************************************************)
(* What the Migrator promises (packages/migration/src/migrator.ts, apply   *)
(* and applyDown): a step is applied or reverted wholly or not at all, its *)
(* record with it.                                                         *)
(***************************************************************************)
EXTENDS Sequences, SequencesExt

CONSTANTS Steps, Makes  \* step -> sequence of the schema objects it creates

VARIABLES
  objs,  \* objects of the schema
  recs   \* names in _mount_migrations, by id

\* Names are unique.
Without(names, m) ==
  IF Contains(names, m) THEN RemoveAt(names, CHOOSE i \in DOMAIN names : names[i] = m) ELSE names

Init == objs = {} /\ recs = <<>>

Apply(m) ==
  /\ ~Contains(recs, m)
  /\ ToSet(Makes[m]) \cap objs = {}
  /\ objs' = objs \cup ToSet(Makes[m])
  /\ recs' = Append(recs, m)

\* The down SQL is the caller's: it undoes one step, the record may be another's.
Revert(undone, name) ==
  /\ ToSet(Makes[undone]) \subseteq objs
  /\ objs' = objs \ ToSet(Makes[undone])
  /\ recs' = Without(recs, name)

Next == \E m \in Steps : Apply(m) \/ \E undone \in Steps : Revert(undone, m)

Spec == Init /\ [][Next]_<<objs, recs>>
=============================================================================
