---------------------------- MODULE RowSecurity ----------------------------
(***************************************************************************)
(* Row-level security of the query builder, packages/query/src/index.ts:   *)
(* builders that are never changed, only forked; policies, which the host  *)
(* applies to a builder and which its forks inherit; and the gate assertRls*)
(* before some of the operations. A row stands for its owner, and every    *)
(* table has rows of everybody. What packages/compiler makes of a plan is  *)
(* modelled by the rows it reaches.                                        *)
(***************************************************************************)
EXTENDS Integers, FiniteSets, Sequences

CONSTANTS
  RowTables,    \* the tables ...
  Guarded,      \* ... and those the registry has a policy for
  Owners,       \* whom rows belong to
  Subjects,     \* those a policy is compiled for
  Allows,       \* subject -> the owners its policy's filters let through
  Denied,       \* the subjects that the policy denies
  MaxBuilders

ASSUME RowSecurityConstantsOK == MaxBuilders \in Nat

VARIABLES
  enforce,      \* driver.rls, there only if the configuration was given inline
  builders,     \* the builders, in the order they were made
  result        \* what the last operation did, or NoResult
rowVars == <<enforce, builders, result>>

NoResult == [how |-> "nothing"]
Everything == RowTables \X Owners
TheRows(t) == {t} \X Owners

\* A builder's plan, whether it is bound to a transaction (TxQueryBuilder),
\* and, as history, the subjects whose policies it got on its way and
\* whether it got an unsafe(). owners is what its filters let through, and
\* terms what the texts of whereExpr do, cut at their ORs.
emptyBuilder(t, tx) ==
  [table |-> t, owners |-> Owners, terms |-> <<Owners>>, source |-> TheRows(t), beside |-> {},
   deny |-> FALSE, rlsApplied |-> FALSE, rlsUnsafe |-> FALSE, tx |-> tx,
   policies |-> {}, opted |-> FALSE]

RowSecurityInit == enforce \in BOOLEAN /\ builders = << >> /\ result = NoResult

-----------------------------------------------------------------------------
\* buildWhere: the filters, then the texts, joined by AND and without
\* parentheses, so that what follows an OR is a term beside the filters.
Split(b) == Len(b.terms) > 1
LetThrough(b) ==
  (b.owners \cap b.terms[1]) \cup UNION {b.terms[k] : k \in 2 .. Len(b.terms)}

\* A read: nothing at all if denied, and what the set operations add.
OwnRows(b) == IF b.deny THEN {} ELSE {r \in b.source : r[2] \in LetThrough(b)}
Reached(b) == IF b.deny THEN {} ELSE OwnRows(b) \cup b.beside

\* An UPDATE or DELETE: neither deny nor the sources come into it.
Touched(b) == {r \in TheRows(b.table) : r[2] \in LetThrough(b)}

\* Fault: the parent is patched along with the fork.
ForkInPlace(i, b) ==
  /\ Len(builders) < MaxBuilders
  /\ builders' = Append([builders EXCEPT ![i] = [b EXCEPT !.policies = @ \cap builders[i].policies,
                                                          !.opted = builders[i].opted]],
                        [b EXCEPT !.tx = FALSE])

\* fork: a new builder on the pool, whatever the parent was bound to.
ForkBuilder(i, b) ==
  /\ Len(builders) < MaxBuilders
  /\ builders' = Append(builders, [b EXCEPT !.tx = FALSE])

\* tableQuery, or the constructor of TxQueryBuilder.
NewBuilder ==
  /\ Len(builders) < MaxBuilders
  /\ \E t \in RowTables, tx \in BOOLEAN : builders' = Append(builders, emptyBuilder(t, tx))

\* where, cursor and the rest that narrows, whereExpr aside.
Narrow(i) ==
  \E o \in Owners : ForkBuilder(i, [builders[i] EXCEPT !.owners = @ \cap {o}])

\* whereExpr: the text of a condition, or of two with an OR between them.
WithText(terms, more) == [terms EXCEPT ![Len(terms)] = @ \cap more[1]] \o Tail(more)
WhereExpr(i) ==
  \E more \in {<<{o}>> : o \in Owners} \cup {<<{o}, Owners \ {o}>> : o \in Owners} :
    ForkBuilder(i, [builders[i] EXCEPT !.terms = WithText(@, more)])

\* The host applies a policy: it compiles it (compilePolicy), pushes down
\* its filters (withFilters) or denies (deny), and says so (withRlsApplied).
ApplyPolicy(i) ==
  \E s \in Subjects :
    ForkBuilder(i, [builders[i] EXCEPT !.owners = IF s \in Denied THEN @ ELSE @ \cap Allows[s],
                                !.deny = @ \/ s \in Denied,
                                !.rlsApplied = TRUE, !.policies = @ \cup {s}])

Unsafe(i) == ForkBuilder(i, [builders[i] EXCEPT !.rlsUnsafe = TRUE, !.opted = TRUE])

\* union and subquery take the plan of another builder as it stands, and
\* its part of the query is never asked for a policy.
Combine(i) ==
  \E k \in DOMAIN builders :
    LET other == Reached(builders[k])
    IN  \/ ForkBuilder(i, [builders[i] EXCEPT !.beside = @ \cup other])
        \/ ForkBuilder(i, [builders[i] EXCEPT !.source = other])

Build == NewBuilder \/ \E i \in DOMAIN builders :
                         \/ Narrow(i) \/ WhereExpr(i) \/ ApplyPolicy(i)
                         \/ Unsafe(i) \/ Combine(i)

-----------------------------------------------------------------------------
\* assertRls
Passes(b) == enforce => b.rlsUnsafe \/ b.table \notin Guarded \/ b.rlsApplied

Done(how, b, own, rows) ==
  result' = [how |-> how, table |-> b.table, own |-> own, rows |-> rows, denied |-> b.deny,
             policies |-> b.policies, opted |-> b.opted, split |-> Split(b)]

\* select, and findOne through run; a transaction's builder has its own,
\* which do not ask.
Select(b) ==
  IF b.tx THEN Done("unasked", b, OwnRows(b), Reached(b))
  ELSE IF Passes(b) THEN Done("read", b, OwnRows(b), Reached(b))
  ELSE result' = [how |-> "forbidden"]
\* findMany does not ask either (and is on the pool even in a transaction).
FindManyRows(b) == Done("unasked", b, OwnRows(b), Reached(b))
\* update and delete; insert and insertIgnore have no rows to reach.
ChangeRows(b) == Done("changed", b, Touched(b), Touched(b))
\* upsert: the row it conflicts with, if there is one, whatever the filters.
Upsert(b) == \E rows \in {{}} \cup {{r} : r \in TheRows(b.table)} : Done("upserted", b, rows, rows)

Execute1 == \E i \in DOMAIN builders :
              \/ Select(builders[i]) \/ FindManyRows(builders[i])
              \/ ChangeRows(builders[i]) \/ Upsert(builders[i])

RowSecurityNext ==
  /\ \/ Build /\ result' = NoResult
     \/ Execute1 /\ UNCHANGED builders
  /\ UNCHANGED enforce

RowSecuritySpec == RowSecurityInit /\ [][RowSecurityNext]_rowVars

-----------------------------------------------------------------------------
RowSecurityTypeOK ==
  /\ enforce \in BOOLEAN /\ Len(builders) <= MaxBuilders
  /\ \A i \in DOMAIN builders :
       /\ builders[i].table \in RowTables /\ builders[i].owners \subseteq Owners
       /\ builders[i].terms \in Seq(SUBSET Owners)
       /\ builders[i].source \cup builders[i].beside \subseteq Everything

Ran == result.how \in {"read", "unasked", "changed"}
\* What all the policies let through.
Agreed(policies) == {o \in Owners : \A s \in policies : s \notin Denied /\ o \in Allows[s]}

(* A read that was asked for a policy had one, applied to its own builder  *)
(* or one that it was forked from and nowhere else, or an unsafe(); and no *)
(* read with policies reaches a row of its own that one of them hides,     *)
(* through whatever forks it came, unless it has a whereExpr with an OR    *)
(* (compiler/src/plan.ts:230-237). Neither does an update or a delete,     *)
(* except that it does not mind a denial (compiler/src/plan.ts:493-512).   *)
(* An upsert changes the row it conflicts with, hidden or not              *)
(* (compiler/src/plan.ts:465-471).                                         *)
RowsGuarded ==
  /\ result.how = "read" /\ enforce /\ result.table \in Guarded =>
       result.opted \/ result.policies # {}
  /\ Ran /\ ~result.split /\ (result.how = "changed" => ~result.denied) =>
       \A r \in result.own : result.policies # {} => r[2] \in Agreed(result.policies)
=============================================================================
