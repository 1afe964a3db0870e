------------------------------- MODULE Studio -------------------------------
(***************************************************************************)
(* The Studio dashboard and the servers behind it: the page of             *)
(* packages/studio/src/dashboard.ts, whose answers may arrive out of       *)
(* order; handleStudio and the controller, which turn its requests (and    *)
(* those of other clients) into statements; and the REST requests of the   *)
(* merged server (serve.ts) and of the dev server (packages/cli), whose    *)
(* bodies go into a copy of the route's plan. A statement is described by  *)
(* its condition and the columns it sets. What rows there are is left out: *)
(* a grid may show any.                                                    *)
(***************************************************************************)
EXTENDS Integers, FiniteSets, Sequences, SequencesExt

CONSTANTS
  Grids,        \* table -> [columns, key]: its columns and its primary key's, in order
  RowKeys,      \* values of keys
  MaxAnswers    \* bound on answers the page waits for

ASSUME StudioConstantsOK == "none" \notin DOMAIN Grids /\ MaxAnswers \in Nat

VARIABLES
  page,         \* "tables" or "other"
  selected,     \* state.table, or NoTable
  shown,        \* the table whose grid is in the page, or NoTable
  editing,      \* the key of the row with an open cell, or NoKeyYet
  answers,      \* the loads under way, in the order they were sent: [table, late]
  crossed,      \* history: the grid is of a load that a later one had overtaken
  writing,      \* the write the page waits for, or NoRequest
  statement,    \* the statement that ran last, or NoStatement
  routeValues   \* table -> the columns in the values of its route's plan
studioVars == <<page, selected, shown, editing, answers, crossed, writing, statement, routeValues>>
pageVars == <<page, selected, shown, editing, answers, crossed>>

NoTable == "none"
NoKeyYet == 0
NoRow == [table |-> NoTable, key |-> NoKeyYet, stale |-> FALSE]
Foreign == "foreign"   \* what is a column of no table
NoRequest == [op |-> "none"]
NoStatement == [by |-> "nobody"]
GridNames == DOMAIN Grids

StudioInit ==
  /\ page = "tables" /\ selected = NoTable /\ shown = NoTable /\ editing = NoKeyYet
  /\ answers = << >> /\ crossed = FALSE /\ writing = NoRequest /\ statement = NoStatement
  /\ routeValues = [t \in GridNames |-> {}]

-----------------------------------------------------------------------------
\* The controller.

\* The first column of the key (primaryKeyOf).
PrimaryKeyOf(t) == IF Grids[t].key = << >> THEN "id" ELSE Grids[t].key[1]
\* What a grid is made of: tableData, but for the rows and their number.
TableData(t) == [columns |-> Grids[t].columns, primaryKey |-> PrimaryKeyOf(t)]
Editable(t) == TableData(t).columns \ {TableData(t).primaryKey}
PickColumns(t, given, skip) == (given \cap Grids[t].columns) \ skip

\* updateRow, deleteRow and insertRow of a key and a body's columns. Without
\* a column to set there is nothing to run.
RowStatement(op, t, key, given) ==
  LET picked == PickColumns(t, given, IF op = "update" THEN {PrimaryKeyOf(t)} ELSE {})
  IN  IF op # "delete" /\ picked = {} THEN NoStatement
      ELSE [by |-> "studio", op |-> op, table |-> t, sets |-> IF op = "delete" THEN {} ELSE picked,
            where |-> IF op = "insert" THEN << >> ELSE <<PrimaryKeyOf(t), key>>,
            asked |-> [table |-> t, key |-> key, columns |-> given, row |-> NoRow]]

\* handleStudio: the key is id or else _pk of the body, and neither is a value.
KeyOfBody(body) == IF "id" \in DOMAIN body THEN body.id ELSE body._pk
HasKey(body) == {"id", "_pk"} \cap DOMAIN body # {}
StudioWrite(op, t, body) ==
  IF op = "insert" THEN RowStatement(op, t, NoKeyYet, DOMAIN body)
  ELSE RowStatement(op, t, KeyOfBody(body), DOMAIN body \ {"id", "_pk"})

\* Any other client of Studio's API.
StudioRequest ==
  /\ \E t \in GridNames, op \in {"insert", "update", "delete"}, k \in RowKeys :
     \E given \in SUBSET (Grids[t].columns \cup {"id", "_pk", Foreign}) :
       LET body == [c \in given |-> k]
       IN  /\ op = "insert" \/ HasKey(body)
           /\ statement' = StudioWrite(op, t, body)
  /\ UNCHANGED <<pageVars, writing, routeValues>>

\* runSql, after classifySql has refused what starts with a destructive
\* word. A text that has with, pragma or explain anywhere is taken for a
\* query, which reports no changes.
Console(word, mentions) ==
  /\ word \notin {"drop", "alter", "truncate", "rename"}
  /\ statement' = [by |-> "console", word |-> word,
                   mode |-> IF word \in {"select", "with"} \/ mentions THEN "many" ELSE "run"]
  /\ UNCHANGED <<pageVars, writing, routeValues>>

-----------------------------------------------------------------------------
\* REST requests: crudRoutes, bound by createRestHandler.

\* Fault: the body goes into the values of the route itself.
MergedIntoRoute(t, given) == routeValues' = [routeValues EXCEPT ![t] = @ \cup given]

\* { ...plan.values, ...body } of a copy of the plan.
Merged1(t, given) == UNCHANGED routeValues

RestRequest ==
  /\ \E t \in GridNames, op \in {"insert", "update"}, k \in RowKeys :
     \E given \in SUBSET (Grids[t].columns \cup {Foreign}) :
       /\ Merged1(t, given)
       /\ statement' = [by |-> "rest", op |-> op, table |-> t, sets |-> routeValues[t] \cup given,
                        where |-> IF op = "insert" THEN << >> ELSE <<PrimaryKeyOf(t), k>>,
                        asked |-> [table |-> t, key |-> k, columns |-> given, row |-> NoRow]]
  /\ UNCHANGED <<pageVars, writing>>

-----------------------------------------------------------------------------
\* The page.

\* loadData: the answer will be for the table that is selected now.
Loading(t) == Append(answers, [table |-> t, late |-> FALSE])
CanLoad == Len(answers) < MaxAnswers

\* render: the page is emptied first.
Render(p, t) ==
  /\ page' = p /\ selected' = t /\ shown' = NoTable /\ editing' = NoKeyYet
  /\ answers' = IF p = "tables" /\ t # NoTable THEN Loading(t) ELSE answers
  /\ crossed' = FALSE

\* A click on a table; a click on a page of the dashboard.
openTable(t) == CanLoad /\ Render("tables", t) /\ UNCHANGED <<writing, routeValues>>
nav(p) == CanLoad /\ Render(p, selected) /\ UNCHANGED <<writing, routeValues>>

\* Refresh, a search, a sorted column, another page of rows, Escape.
Reload ==
  /\ CanLoad /\ shown # NoTable /\ answers' = Loading(selected)
  /\ UNCHANGED <<page, selected, shown, editing, crossed, writing, routeValues>>

\* An answer is not newer than those sent before it.
Without(i) ==
  [k \in 1 .. Len(answers) - 1 |->
     IF k < i THEN [answers[k] EXCEPT !.late = TRUE] ELSE answers[k + 1]]

\* renderGrid, whatever page is open: the rows of the answer, whichever table
\* is selected by now. An open cell is gone with its grid.
Arrive(i) ==
  /\ shown' = answers[i].table
  /\ editing' = NoKeyYet /\ answers' = Without(i) /\ crossed' = answers[i].late
  /\ UNCHANGED <<page, selected, writing, routeValues>>

\* A load fails: a message.
LoadFails(i) ==
  /\ answers' = Without(i) /\ crossed' = (crossed \/ i = Len(answers))
  /\ UNCHANGED <<page, selected, shown, editing, writing, routeValues>>

\* A cell is opened with a double click.
editCell(k) ==
  /\ shown # NoTable /\ editing' = k
  /\ UNCHANGED <<page, selected, shown, answers, crossed, writing, routeValues>>

\* The write names the key that is shown and the table that is selected by
\* now. stale (history): the grid may be of another one. One at a time.
Send(op, k, body) ==
  /\ writing = NoRequest
  /\ writing' = [op |-> op, table |-> selected, body |-> body, ran |-> FALSE,
              row |-> [table |-> shown, key |-> k, stale |-> answers # << >> \/ crossed]]
  /\ UNCHANGED <<pageVars, routeValues>>

ClickDelete(k) == shown # NoTable /\ Send("delete", k, [c \in {"id"} |-> k])

\* commit, on Enter and again when the cell loses the focus: the key, under
\* the name id, and the cell, which takes its place where it has that name.
Commit ==
  /\ shown # NoTable /\ editing # NoKeyYet
  /\ \E c \in Editable(shown), value \in RowKeys :
       Send("update", editing, [d \in {"id", c} |-> IF d = c THEN value ELSE editing])

\* showAddRow: the columns of the grid's table.
AddRow ==
  /\ shown # NoTable
  /\ Send("insert", NoKeyYet, [c \in Editable(shown) |-> NoKeyYet])

\* The server gets to it.
RunSent ==
  /\ writing # NoRequest /\ ~writing.ran
  /\ LET s == StudioWrite(writing.op, writing.table, writing.body)
     IN  statement' = IF s = NoStatement THEN s ELSE [s EXCEPT !.asked.row = writing.row]
  /\ writing' = [writing EXCEPT !.ran = TRUE]
  /\ UNCHANGED <<pageVars, routeValues>>

\* The answer, or an error before or after the statement ran: load again, but
\* not after an insert or a deletion that failed.
Answered ==
  /\ writing # NoRequest /\ CanLoad
  /\ answers' = Loading(selected) \/ (writing.op # "update" /\ UNCHANGED answers)
  /\ writing' = NoRequest
  /\ UNCHANGED <<page, selected, shown, editing, crossed, routeValues>>

BrowserStep ==
  \/ \E t \in GridNames : openTable(t)
  \/ \E p \in {"tables", "other"} : nav(p)
  \/ Reload
  \/ \E i \in DOMAIN answers : Arrive(i) \/ LoadFails(i)
  \/ \E k \in RowKeys : editCell(k) \/ ClickDelete(k)
  \/ Commit \/ AddRow \/ Answered

PageNext == (BrowserStep /\ statement' = NoStatement) \/ RunSent
ClientNext ==
  \/ StudioRequest \/ RestRequest
  \/ \E word \in {"select", "with", "delete", "drop"}, mentions \in BOOLEAN : Console(word, mentions)

StudioNext == PageNext \/ ClientNext

StudioSpec == StudioInit /\ [][StudioNext]_studioVars

-----------------------------------------------------------------------------
StudioTypeOK ==
  /\ page \in {"tables", "other"} /\ {selected, shown} \subseteq GridNames \cup {NoTable}
  /\ editing \in RowKeys \cup {NoKeyYet} /\ Len(answers) <= MaxAnswers
  /\ \A t \in GridNames : routeValues[t] \subseteq Grids[t].columns \cup {Foreign}

IsWrite == statement.by \in {"studio", "rest"}

(* An UPDATE or DELETE is for the key that its request named, and sets     *)
(* nothing but what this request, and no other before it, brought; through *)
(* Studio it leaves the key alone. A write of the page is for the row that *)
(* was clicked, unless at the click the page still waited for an answer,   *)
(* or had shown an older one last: the grid shows the selected table once  *)
(* all answers came, if they came in order and the last one did not fail.  *)
StudioTouchesAddressed ==
  /\ IsWrite => /\ statement.sets \subseteq statement.asked.columns
                /\ statement.op # "insert" =>
                     statement.where = <<PrimaryKeyOf(statement.table), statement.asked.key>>
                /\ statement.by = "studio" /\ statement.op = "update" =>
                     PrimaryKeyOf(statement.table) \notin statement.sets
  /\ IsWrite /\ statement.asked.row # NoRow =>
       LET row == statement.asked.row
       IN  /\ statement.op # "insert" => statement.where[2] = row.key
           /\ row.table # statement.table => row.stale
  /\ shown # NoTable /\ answers = << >> /\ ~crossed => shown = selected
=============================================================================
