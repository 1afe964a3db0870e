---------------------------- MODULE Transactions ----------------------------
(***************************************************************************)
(* What a driver's query and transaction promise                           *)
(* (packages/driver/src/index.ts, Driver and Transaction): a write outside *)
(* a transaction is durable at once, the writes of a transaction become    *)
(* durable together or not at all, and a caller is told that its writes    *)
(* succeeded only if they are durable.                                     *)
(***************************************************************************)
CONSTANTS Callers, Writes

VARIABLES
  durable,  \* writes every later reader sees
  staged,   \* caller -> writes of its open transaction
  told      \* writes whose caller was told they succeeded

Init ==
  /\ durable = {}
  /\ staged = [c \in Callers |-> {}]
  /\ told = {}

\* The answer may be lost on the way.
Apply(w) ==
  /\ durable' = durable \cup {w}
  /\ told' \in {told, told \cup {w}}
  /\ UNCHANGED staged

Stage(c, w) ==
  /\ staged' = [staged EXCEPT ![c] = @ \cup {w}]
  /\ UNCHANGED <<durable, told>>

\* Part of a transaction is undone (a savepoint), or all of it.
Undo(c, kept) ==
  /\ staged' = [staged EXCEPT ![c] = kept]
  /\ UNCHANGED <<durable, told>>

Commit(c, acknowledged) ==
  /\ durable' = durable \cup staged[c]
  /\ staged' = [staged EXCEPT ![c] = {}]
  /\ told' = told \cup acknowledged

Next ==
  \/ \E w \in Writes : Apply(w)
  \/ \E c \in Callers, w \in Writes : Stage(c, w)
  \/ \E c \in Callers : \E kept \in SUBSET staged[c] : Undo(c, kept)
  \/ \E c \in Callers : \E ws \in SUBSET staged[c] : Commit(c, ws)

Spec == Init /\ [][Next]_<<durable, staged, told>>
=============================================================================
