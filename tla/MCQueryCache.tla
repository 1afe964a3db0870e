---------------------------- MODULE MCQueryCache ----------------------------
(* Instances of QueryCache for TLC: queries on one table.                  *)
EXTENDS QueryCache, TLC

CONSTANTS t1,
  MaxHeld    \* bound: rows held by the L1s, by L2, by reads and on the way to L2

MCTableOf == [q \in Queries |-> t1]
Symmetry == Permutations(Procs) \cup Permutations(Calls)

\* Rows come and go (Forget, failing sets): what matters of a state with many
\* of them arises in one with few.
FewHeld ==
  Cardinality({<<p, k>> \in Procs \X Keys : l1[p][k] # Null})
    + Cardinality({k \in Keys : l2[k] # Null})
    + Cardinality({c \in Calls : call[c].rows # Null})
    + Cardinality({p \in Procs : \E i \in DOMAIN wire[p] : wire[p][i].op = "set"}) <= MaxHeld
=============================================================================
