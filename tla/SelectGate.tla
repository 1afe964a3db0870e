----------------------------- MODULE SelectGate -----------------------------
(***************************************************************************)
(* The gate of packages/ai/src/index.ts between a model's reply and the    *)
(* database: nlToSql cuts a statement out of the reply, and parseSafeSelect*)
(* reads its tokens, one a step, to see whether it has the shape of a      *)
(* SELECT. What the reply goes on with is chosen as it is read. What the   *)
(* prompt says, and the names in the statement, are left out.              *)
(***************************************************************************)
EXTENDS Integers, Sequences

CONSTANTS
  MaxColumns    \* bound on the columns of a reply

VARIABLES
  semicolons,   \* [inner, last]: those inside and those at the end, once cut out
  phase,        \* what parseSafeSelect looks for next
  verdict,      \* "none", "ok" or "refused"
  head,         \* history: the tokens up to FROM, as Noted ...
  clauses,      \* ... and the keywords its clauses were entered by ...
  beyond        \* ... and how many tokens came after LIMIT
gateVars == <<semicolons, phase, verdict, head, clauses, beyond>>

\* The clauses in the order of the grammar.
Clauses == <<"WHERE", "GROUP", "HAVING", "ORDER", "LIMIT">>
ClauseWords == {Clauses[k] : k \in DOMAIN Clauses}
JoinWords == {"JOIN", "INNER"}   \* INNER for LEFT, RIGHT and CROSS as well
\* AND stands for the other keywords that the gate does not look for.
Keywords == ClauseWords \cup JoinWords \cup {"SELECT", "DISTINCT", "FROM", "BY", "AS", "ON", "AND"}
\* WITH is not in isKeyword's list; "name" stands for names, values and operators.
Tokens == Keywords \cup {"WITH", "star", "comma", "bracket", "name"}

SelectGateInit ==
  /\ semicolons = [inner |-> 0, last |-> 0]
  /\ phase = "reply" /\ verdict = "none"
  /\ head = << >> /\ clauses = << >> /\ beyond = 0

Go(p) == phase' = p /\ UNCHANGED verdict
RefuseText == phase' = "done" /\ verdict' = "refused"

-----------------------------------------------------------------------------
\* EXTRACT_SQL: a fence's content, or from a SELECT to the first semicolon, or
\* else the whole reply, of which a semicolon at the end is taken off.
Cut(inner, last, found) ==
  IF found THEN [inner |-> 0, last |-> 0]
  ELSE [inner |-> inner, last |-> IF last = 0 THEN 0 ELSE last - 1]

\* The count of the semicolons that are left.
OneStatement(s) == s.inner + s.last = 0 \/ (s.inner + s.last = 1 /\ s.last = 1)

nlToSql ==
  /\ phase = "reply"
  /\ \E inner, last \in 0 .. 2, found \in BOOLEAN :
       /\ found => last > 0
       /\ semicolons' = Cut(inner, last, found)
  /\ IF OneStatement(semicolons') THEN Go("select") ELSE RefuseText
  /\ UNCHANGED <<head, clauses, beyond>>

-----------------------------------------------------------------------------
Noted(t) == IF t \in {"SELECT", "DISTINCT", "star", "comma", "FROM"} THEN t ELSE "other"

\* SELECT [DISTINCT] and * or columns, each any token at all (consumeIdent's
\* answer is not looked at), up to FROM.
SelectToken(t) ==
  /\ head' = Append(head, Noted(t)) /\ UNCHANGED <<semicolons, clauses, beyond>>
  /\ \/ phase = "select" /\ IF t = "SELECT" THEN Go("distinct") ELSE RefuseText
     \/ phase = "distinct" /\ t = "DISTINCT" /\ Go("columns")
     \/ /\ phase = "columns" \/ (phase = "distinct" /\ t # "DISTINCT")
        /\ Go(IF t = "star" THEN "from" ELSE "listed")
     \/ phase = "column" /\ Go("listed")
     \/ /\ phase = "listed" /\ t = "comma" /\ Len(head) < 2 * MaxColumns
        /\ Go("column")
     \/ phase \in {"listed", "from"} /\ t = "FROM" /\ Go("table")
     \/ /\ phase \in {"listed", "from"} /\ t # "FROM" /\ (t = "comma" => phase = "from")
        /\ RefuseText

\* From one clause to a later one: whatever is not its keyword is swallowed.
Later(k) == {Clauses[j] : j \in k + 1 .. Len(Clauses)}
CurrentClause == IF clauses = << >> \/ clauses[Len(clauses)] = "JOIN" THEN 0
                 ELSE CHOOSE k \in DOMAIN Clauses : Clauses[k] = clauses[Len(clauses)]
Enter(t) ==
  /\ clauses' = Append(clauses, t)
  /\ Go(IF t \in {"GROUP", "ORDER"} THEN "by" ELSE IF t = "LIMIT" THEN "limit" ELSE "body")

\* The table, any token, and its alias. After that there is a join, a clause
\* or the end.
TableToken(t) ==
  /\ UNCHANGED <<semicolons, head, beyond>>
  /\ \/ phase = "table" /\ Go("alias") /\ UNCHANGED clauses
     \/ phase = "alias" /\ t \notin Keywords \cup {"comma"} /\ Go("tail") /\ UNCHANGED clauses
     \/ /\ phase \in {"alias", "tail"} /\ t \in JoinWords
        /\ clauses' = Append(clauses, "JOIN")
        /\ Go(IF t = "JOIN" THEN "joined" ELSE "join")
     \/ phase \in {"alias", "tail"} /\ t \in ClauseWords /\ Enter(t)
     \/ /\ phase = "tail" \/ (phase = "alias" /\ t \in Keywords \cup {"comma"})
        /\ t \notin JoinWords \cup ClauseWords
        /\ RefuseText /\ UNCHANGED clauses

\* A join up to its ON; a second one is swallowed by the condition of the first.
JoinToken(t) ==
  /\ UNCHANGED <<semicolons, head, clauses, beyond>>
  /\ \/ phase = "join" /\ IF t = "JOIN" THEN Go("joined") ELSE RefuseText
     \/ phase = "joined" /\ Go("as")
     \/ phase = "as" /\ t = "AS" /\ Go("name")
     \/ phase \in {"as", "name"} /\ t \notin Keywords /\ Go("on")
     \/ /\ phase = "on" \/ (phase \in {"as", "name"} /\ t \in Keywords)
        /\ phase = "as" => t # "AS"
        /\ IF t = "ON" THEN Go("body") ELSE RefuseText

ClauseToken(t) ==
  /\ UNCHANGED <<semicolons, head>>
  /\ \/ /\ phase = "by" /\ (IF t = "BY" THEN Go("body") ELSE RefuseText)
        /\ UNCHANGED <<clauses, beyond>>
     \/ phase = "body" /\ t \in Later(CurrentClause) /\ Enter(t) /\ UNCHANGED beyond
     \/ /\ phase = "body" /\ t \notin Later(CurrentClause)
        /\ UNCHANGED <<phase, verdict, clauses, beyond>>
     \/ phase = "limit" /\ Go("limited") /\ beyond' = beyond + 1 /\ UNCHANGED clauses
     \/ phase = "limited" /\ RefuseText /\ beyond' = beyond + 1 /\ UNCHANGED clauses

Ends == {"table", "alias", "tail", "body", "limit", "limited"}
\* The statement ends: it may where nothing is expected any more, or the table.
EndOfText ==
  /\ phase \notin {"reply", "done"} /\ phase' = "done"
  /\ verdict' = IF phase \in Ends THEN "ok" ELSE "refused"
  /\ UNCHANGED <<semicolons, head, clauses, beyond>>

SelectGateNext ==
  \/ nlToSql \/ EndOfText
  \/ \E t \in Tokens : SelectToken(t) \/ TableToken(t) \/ JoinToken(t) \/ ClauseToken(t)

SelectGateSpec == SelectGateInit /\ [][SelectGateNext]_gateVars

-----------------------------------------------------------------------------
SelectGateTypeOK ==
  /\ verdict \in {"none", "ok", "refused"} /\ beyond \in 0 .. 2
  /\ \A k \in DOMAIN clauses : clauses[k] \in ClauseWords \cup {"JOIN"}

Place(c) == IF c = "JOIN" THEN 0 ELSE CHOOSE k \in DOMAIN Clauses : Clauses[k] = c
Even(n) == n % 2 = 0

(* What the gate lets through is one statement that begins with SELECT,    *)
(* reads a star alone or columns with one comma between two, and then FROM;*)
(* its clauses come in the grammar's order, none of them twice, with one   *)
(* join; and after LIMIT comes at most one token.                          *)
QuestionsOnlySelect ==
  verdict = "ok" =>
    /\ semicolons.inner = 0 /\ head[1] = "SELECT" /\ head[Len(head)] = "FROM"
    /\ LET first == IF head[2] = "DISTINCT" THEN 3 ELSE 2
           list == SubSeq(head, first, Len(head) - 1)
       IN  /\ ~Even(Len(list))
           /\ \A k \in DOMAIN list : Even(k) => list[k] = "comma"
           /\ list[1] = "star" => Len(list) = 1
    /\ \A j, k \in DOMAIN clauses : j < k => Place(clauses[j]) < Place(clauses[k])
    /\ beyond <= 1
=============================================================================
