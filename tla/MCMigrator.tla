----------------------------- MODULE MCMigrator -----------------------------
EXTENDS Migrator, TLC

CONSTANTS a, b, c, first, second, rival

\* rival is what another process's diff makes of the same schema.
MCMakes == (first :> <<a, b>>) @@ (rival :> <<b, c>>) @@ (second :> <<c>>)

Symmetry == Permutations(Procs)
=============================================================================
