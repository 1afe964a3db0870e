----------------------------- MODULE Relations -----------------------------
(***************************************************************************)
(* Relations loaded in batches: findMany and resolveRelationsDeep of       *)
(* packages/query/src/index.ts, and resolveRelations of packages/schema    *)
(* (the same walk over every relation, to a depth). Each relation is one   *)
(* query of its own, an await after the rows were read, and what is nested *)
(* below it one query per row; others write the table in between.          *)
(*                                                                         *)
(* One table that refers to itself, people(id, parent), with the relations *)
(* parent (belongsTo), children (hasMany) and heir (hasOne). Row objects   *)
(* are named by the order in which they were made.                         *)
(***************************************************************************)
EXTENDS Integers, Sequences, SequencesExt, FiniteSets, FiniteSetsExt, Functions

CONSTANTS
  Ids,        \* keys; 0 is one that JavaScript takes for false
  NoKey,      \* the foreign key that is NULL
  Nodes,      \* relations to load: [rel, below], below a sequence of others
  Trees,      \* what is asked for: sequences of them, each relation once, and
              \* at most five deep (the code goes no deeper)
  MaxWrites   \* bound on the writes to the table

Names == {"parent", "children", "heir"}

ASSUME RelationsConstantsOK ==
  /\ Ids \subseteq Nat /\ IsFiniteSet(Ids) /\ NoKey \notin Ids /\ MaxWrites \in Nat
  /\ \A node \in Nodes : node.rel \in Names /\ node.below \in Seq(Nodes)
  /\ \A tree \in Trees :
       /\ tree \in Seq(Nodes) /\ tree # << >>
       /\ \A i, j \in DOMAIN tree : tree[i].rel = tree[j].rel => i = j

VARIABLES
  people,     \* the table: the rows there are, id |-> parent
  writes,     \* how often it was written
  objects,    \* the rows the call made: [id, parent, loaded], loaded of [rel, rows]
  tasks,      \* what is to load, innermost last: [on, tree], on objects
  progress,   \* of the call: "idle", "running", "done"
  asked,      \* the task it was called with
  loads       \* history: the queries for relations, [rel, on, table]
relationsVars == <<people, writes, objects, tasks, progress, asked, loads>>

Tables == UNION {[S -> Ids \cup {NoKey}] : S \in SUBSET Ids}

RelationsInit ==
  /\ people \in Tables /\ writes = 0
  /\ objects = << >> /\ tasks = << >> /\ loads = {}
  /\ progress = "idle" /\ asked = [on |-> << >>, tree |-> << >>]

\* Somebody else inserts, changes or deletes a row between two queries.
WritePeople ==
  /\ writes < MaxWrites /\ progress = "running"
  /\ people' \in Tables \ {people}
  /\ Cardinality({id \in Ids : \/ id \in DOMAIN people \cap DOMAIN people' /\ people[id] # people'[id]
                               \/ id \in SymDiff(DOMAIN people, DOMAIN people')}) = 1
  /\ writes' = writes + 1
  /\ UNCHANGED <<objects, tasks, progress, asked, loads>>

\* The numbers of a set in ascending order.
Ascending(S) ==
  CHOOSE s \in [1 .. Cardinality(S) -> S] : \A i, j \in 1 .. Cardinality(S) : i < j => s[i] < s[j]

\* The rows of a result as objects, in the order of their ids.
Fetched(ids) ==
  LET order == Ascending(ids)
  IN  [i \in 1 .. Len(order) |->
        [id |-> order[i], parent |-> people[order[i]], loaded |-> {}]]
New(ids) == [i \in 1 .. Cardinality(ids) |-> Len(objects) + i]

\* findMany: the rows, filtered or not; a result that is empty is returned.
FindMany(where) ==
  /\ progress = "idle"
  /\ \E tree \in Trees :
       /\ asked' = [on |-> New(where), tree |-> tree]
       /\ objects' = Fetched(where)
       /\ IF where = {} THEN progress' = "done" /\ UNCHANGED tasks
          ELSE progress' = "running" /\ tasks' = <<asked'>>
  /\ UNCHANGED <<people, writes, loads>>

-----------------------------------------------------------------------------
\* resolveRelationsDeep, one relation of the innermost task.

\* The column of the rows at hand that is looked up, and the one it is found in.
KeyOf(rel, obj) == IF rel = "parent" THEN obj.parent ELSE obj.id
FoundBy(rel, id) == IF rel = "parent" THEN id ELSE people[id]

Truthy(key) == key \notin {NoKey, 0}
KeysOf(rel, on) == {KeyOf(rel, objects[o]) : o \in Range(on)}

\* Fault: the rows of a result are grouped by their own ids.
AttachedById(rel, key, found, made) ==
  LET mine == Ascending({f \in Range(found) : made[f].id = key})
  IN  IF rel = "children" \/ mine = << >> THEN mine ELSE <<mine[1]>>

\* What the row with that key gets of a result: all that match, or the first.
Attached(rel, key, found, made) ==
  LET mine == Ascending({f \in Range(found) : key = IF rel = "parent" THEN made[f].id ELSE made[f].parent})
  IN  IF rel = "children" \/ mine = << >> THEN mine ELSE <<mine[1]>>

\* The task when a relation of it is loaded, and one for each row attached
\* (in the order of their ids; the code takes children group by group).
Rest(task) ==
  IF Len(task.tree) = 1 THEN << >> ELSE <<[task EXCEPT !.tree = Tail(@)]>>
Below(rows1, below) ==
  IF below = << >> THEN << >>
  ELSE [i \in 1 .. Len(rows1) |-> [on |-> <<rows1[Len(rows1) + 1 - i]>>, tree |-> below]]
Continue(todo) ==
  /\ tasks' = todo
  /\ progress' = IF todo = << >> THEN "done" ELSE "running"

\* No row has a key: the relation is passed over, and the rows lack it.
SkipRelation ==
  /\ progress = "running"
  /\ LET task == Last(tasks)
     IN  /\ \A key \in KeysOf(Head(task.tree).rel, task.on) : ~Truthy(key)
         /\ Continue(Front(tasks) \o Rest(task))
  /\ UNCHANGED <<people, writes, objects, asked, loads>>

LoadRelation ==
  /\ progress = "running"
  /\ LET task  == Last(tasks)
         rel   == Head(task.tree).rel
         keys  == {key \in KeysOf(rel, task.on) : Truthy(key)}
         ids   == {id \in DOMAIN people : FoundBy(rel, id) \in keys}
         found == New(ids)
         made  == objects \o Fetched(ids)
         gets(o) == [rel |-> rel, rows |-> Attached(rel, KeyOf(rel, made[o]), found, made)]
         kept  == UNION {Range(gets(o).rows) : o \in Range(task.on)}
     IN  /\ keys # {}
         /\ objects' = [o \in DOMAIN made |->
              IF o \in Range(task.on) THEN [made[o] EXCEPT !.loaded = @ \cup {gets(o)}] ELSE made[o]]
         /\ loads' = loads \cup {[rel |-> rel, on |-> Range(task.on), table |-> people]}
         /\ Continue(Front(tasks) \o Rest(task) \o Below(Ascending(kept), Head(task.tree).below))
  /\ UNCHANGED <<people, writes, asked>>

RelationsNext ==
  \/ WritePeople \/ SkipRelation \/ LoadRelation
  \/ \E where \in SUBSET DOMAIN people : FindMany(where)

RelationsSpec == RelationsInit /\ [][RelationsNext]_relationsVars

-----------------------------------------------------------------------------
RelationsTypeOK ==
  /\ people \in Tables /\ writes \in 0 .. MaxWrites
  /\ \A o \in DOMAIN objects :
       /\ objects[o].id \in Ids /\ objects[o].parent \in Ids \cup {NoKey}
       /\ \A l \in objects[o].loaded : l.rel \in Names /\ Range(l.rows) \subseteq DOMAIN objects
  /\ progress \in {"idle", "running", "done"}
  /\ progress = "running" <=> tasks # << >>

\* The rows of a table that belong to a row, by the definition of the relation.
Related(table, rel, obj) ==
  {id \in DOMAIN table : IF rel = "parent" THEN id = obj.parent ELSE table[id] = obj.id}
Under(o, rel) == UNION {Range(l.rows) : l \in {m \in objects[o].loaded : m.rel = rel}}
\* What was to be loaded: for the rows read first, and below each row loaded for them.
AllTasks ==
  {asked} \cup
  UNION {{[on |-> <<r>>, tree |-> node.below] : r \in UNION {Under(o, node.rel) : o \in Range(asked.on)}} :
         node \in Range(asked.tree)}
Lacks(o, rel) == \A l \in objects[o].loaded : l.rel # rel

(* Every row got, under each relation that was loaded for it, the rows     *)
(* that belonged to it when the query of the relation ran, heir one of     *)
(* them, and none when its key is NULL or one that filter(Boolean) takes   *)
(* for false (query index.ts:844); the rows lack a relation only if none   *)
(* of those it was loaded for had a key; and when nobody wrote the table,  *)
(* a child's parent is the row it is listed under.                         *)
RelationsComplete ==
  /\ \A query \in loads : \A o \in query.on : \E l \in objects[o].loaded :
       LET mine == {objects[r].id : r \in Range(l.rows)}
           all  == IF Truthy(KeyOf(query.rel, objects[o]))
                     THEN Related(query.table, query.rel, objects[o]) ELSE {}
       IN  /\ l.rel = query.rel /\ mine \subseteq all
           /\ IF query.rel = "children" THEN mine = all ELSE all # {} => mine # {}
           /\ \A r \in Range(l.rows) : objects[r].parent = query.table[objects[r].id]
  /\ progress = "done" => \A task \in AllTasks : \A node \in Range(task.tree), o \in Range(task.on) :
       Lacks(o, node.rel) => \A p \in Range(task.on) : ~Truthy(KeyOf(node.rel, objects[p]))
  /\ writes = 0 => \A o \in DOMAIN objects : \A c \in Under(o, "children") : \A up \in Under(c, "parent") :
       objects[up].id = objects[o].id /\ objects[up].parent = objects[o].parent
=============================================================================
