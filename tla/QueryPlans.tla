----------------------------- MODULE QueryPlans -----------------------------
(***************************************************************************)
(* The query builder (packages/query/src/index.ts) and compilePlan         *)
(* (packages/compiler/src/plan.ts), as far as values go: every value given *)
(* to a method ends in a hole of the SQL text, and the driver binds holes  *)
(* to the params array, by their order (? of SQLite and MySQL) or by their *)
(* numbers ($n of Postgres, whose driver numbers the ? it finds in raw SQL *)
(* on its own). Text is the sequence of its holes; methods that carry no   *)
(* value are left out, and so is what they put between.                    *)
(*                                                                         *)
(* A clause is a sequence of nodes: of values, or of a sub-plan, which is  *)
(* represented by what compilePlan makes of it on its own (that depends on *)
(* nothing else). Values are numbered in the order they are given, and a   *)
(* builder is embedded once, so that no two values of a plan are equal.    *)
(***************************************************************************)
EXTENDS Integers, Sequences, SequencesExt, Functions

CONSTANTS MaxValues   \* bound on the values given

ASSUME QueryPlansConstantsOK == MaxValues \in Nat

VARIABLES
  plan,   \* the plan of the builder at hand
  other,  \* another builder, to be embedded, as compiled
  given   \* how many values have been given
plansVars == <<plan, other, given>>

Nothing == [text |-> << >>, params |-> << >>]
emptyPlan ==
  [jsonOps |-> << >>, fromSubquery |-> << >>, fts |-> << >>, fts5 |-> FALSE, filters |-> << >>,
   rawFilters |-> << >>, having |-> << >>, unions |-> << >>, with |-> << >>, deny |-> FALSE]

PlansInit == plan = emptyPlan /\ other = Nothing /\ given = 0

-----------------------------------------------------------------------------
\* compilePlan.

Holes(vals, start) == [i \in 1 .. Len(vals) |-> [val |-> vals[i], num |-> start + i]]
Marks(vals) == [i \in 1 .. Len(vals) |-> [val |-> vals[i], num |-> 0]]   \* ? in raw SQL

\* The values of one filter, or of raw SQL, as nodes.
Values(vals) == [kind |-> "values", code |-> [text |-> Holes(vals, 0), params |-> vals]]
RawValues(vals) == [kind |-> "raw", code |-> [text |-> Marks(vals), params |-> vals]]
SubPlan(kind) == [kind |-> kind, code |-> other]   \* kind: "plan", or "union"

\* What a node adds to the text and to the params so far. A sub-plan's holes
\* keep the numbers they had on their own, but those of a union are shifted.
Shifted(text, offset) ==
  [i \in 1 .. Len(text) |-> [text[i] EXCEPT !.num = IF @ = 0 THEN 0 ELSE @ + offset]]
NodeText(node, start) ==
  IF node.kind \in {"values", "union"} THEN Shifted(node.code.text, start) ELSE node.code.text
Add(code, node) ==
  [text |-> code.text \o NodeText(node, Len(code.params)), params |-> code.params \o node.code.params]

\* The text of a clause, and the params with the clause's behind.
Clause(params, nodes) ==
  LET code[n \in 0 .. Len(nodes)] ==
        IF n = 0 THEN [text |-> << >>, params |-> params] ELSE Add(code[n - 1], nodes[n])
  IN  code[Len(nodes)]

\* Fault: the params of the WITH clause go first, but with their own numbers
\* for nobody else.
CompileSelectWithFirst(p) ==
  LET with   == Clause(<< >>, p.with)
      json   == Clause(with.params, p.jsonOps)
      from   == Clause(json.params, p.fromSubquery)
      where  == Clause(from.params, p.filters \o p.rawFilters)
      fts    == Clause(where.params, p.fts)
      having == Clause(fts.params, p.having)
      unions == Clause(having.params, p.unions)
  IN  IF p.deny THEN [text |-> json.text, params |-> << >>]
      ELSE [text |-> with.text \o json.text \o (IF p.fts5 THEN << >> ELSE from.text)
                       \o where.text \o fts.text \o having.text \o unions.text,
            params |-> unions.params]

\* op "select": the clauses in the order in which their params are pushed,
\* and their texts in the order in which they are put together. FTS5 takes
\* the place of the FROM source; a denied plan returns no params.
CompileSelect(p) ==
  LET json   == Clause(<< >>, p.jsonOps)
      from   == Clause(json.params, p.fromSubquery)
      fts    == Clause(from.params, p.fts)
      where  == Clause(fts.params, p.filters \o p.rawFilters)
      having == Clause(where.params, p.having)
      unions == Clause(having.params, p.unions)
      with   == Clause(unions.params, p.with)
  IN  IF p.deny THEN [text |-> json.text, params |-> << >>]
      ELSE [text |-> with.text \o json.text \o (IF p.fts5 THEN << >> ELSE from.text)
                       \o where.text \o fts.text \o having.text \o unions.text,
            params |-> with.params]

\* op "update" and op "delete".
CompileUpdate(p, sets) == Clause(<< >>, <<Values(sets)>> \o p.filters \o p.rawFilters)
CompileDelete(p) == Clause(<< >>, p.filters \o p.rawFilters)

\* op "insert", with the columns of its first row for all, and the values to
\* set on conflict behind. A row is a sequence: columns are positions.
CompileInsert(rows, set) ==
  LET columns == Len(rows[1])
      cells   == [i \in 1 .. Len(rows) |-> [k \in 1 .. columns |-> IF k <= Len(rows[i]) THEN rows[i][k] ELSE 0]]
  IN  Clause(<< >>, [i \in 1 .. Len(cells) |-> Values(cells[i])] \o <<Values(set)>>)

-----------------------------------------------------------------------------
\* The builder: every method returns a new builder.

Fork(clause, node) ==
  /\ given + Len(node.code.params) <= MaxValues
  /\ plan' = [plan EXCEPT ![clause] = Append(@, node)]
  /\ given' = given + Len(node.code.params)
  /\ UNCHANGED other
Next1 == <<given + 1>>
Embed(clause, kind) ==
  /\ other # Nothing
  /\ plan' = [plan EXCEPT ![clause] = Append(@, SubPlan(kind))]
  /\ other' = Nothing
  /\ UNCHANGED given

\* where, withFilters and cursor with one value; "between".
Where == Fork("filters", Values(Next1))
WhereBetween == Fork("filters", Values(<<given + 1, given + 2>>))
WhereSubquery == Len(plan.filters) < 2 /\ Embed("filters", "plan")
whereExpr == Fork("rawFilters", RawValues(Next1))
having == Fork("having", Values(Next1))
jsonSet == Fork("jsonOps", Values(Next1))
union == plan.unions = << >> /\ Embed("unions", "union")
with == plan.with = << >> /\ Embed("with", "plan")

\* These replace what was there.
subquery ==
  /\ other # Nothing
  /\ plan' = [plan EXCEPT !.fromSubquery = <<SubPlan("plan")>>]
  /\ other' = Nothing
  /\ UNCHANGED given
ftsSearch(fts5) ==
  /\ given < MaxValues
  /\ plan' = [plan EXCEPT !.fts = <<Values(Next1)>>, !.fts5 = fts5]
  /\ given' = given + 1
  /\ UNCHANGED other
deny ==
  /\ plan' = [plan EXCEPT !.deny = TRUE]
  /\ UNCHANGED <<other, given>>

\* The builder at hand becomes the other one, and a new one is begun.
StartAnother ==
  /\ other' = CompileSelect(plan) /\ plan' = emptyPlan
  /\ UNCHANGED given

PlansNext ==
  \/ Where \/ WhereBetween \/ WhereSubquery \/ whereExpr \/ having \/ jsonSet
  \/ union \/ with \/ subquery \/ (\E fts5 \in BOOLEAN : ftsSearch(fts5)) \/ deny
  \/ StartAnother

PlansSpec == PlansInit /\ [][PlansNext]_plansVars

-----------------------------------------------------------------------------
Styles == {"positional", "numbered"}

\* pgSql: the i-th hole, when it is a ?, has the number of ?s up to it.
Number(text, i) ==
  IF text[i].num # 0 THEN text[i].num ELSE Cardinality({k \in 1 .. i : text[k].num = 0})

\* The driver binds every hole to the value that was given for it.
Bound(code, style) ==
  /\ Len(code.text) = Len(code.params)
  /\ \A i \in 1 .. Len(code.text) :
       LET at == IF style = "positional" THEN i ELSE Number(code.text, i)
       IN  at \in DOMAIN code.params /\ code.params[at] = code.text[i].val

\* The nodes of a plan in the order of their params.
SelectNodes(p) ==
  p.jsonOps \o p.fromSubquery \o p.fts \o p.filters \o p.rawFilters \o p.having \o p.unions \o p.with
Holding(nodes) == \E i \in 1 .. Len(nodes) : nodes[i].code.params # << >>
HasNumbers(node) == \E hole \in Range(node.code.text) : hole.num # 0
HasMarks(node) == \E hole \in Range(node.code.text) : hole.num = 0

\* A sub-plan with numbers behind any value, raw SQL behind a numbered one.
Renumbered(nodes) ==
  \E i \in 1 .. Len(nodes) :
    LET before == SubSeq(nodes, 1, i - 1)
    IN  \/ nodes[i].kind = "plan" /\ HasNumbers(nodes[i]) /\ Holding(before)
        \/ HasMarks(nodes[i]) /\ \E node \in Range(before) : HasNumbers(node)
WrongSub(nodes, style) == \E node \in Range(nodes) : ~Bound(node.code, style)
Astray(nodes, style) == WrongSub(nodes, style) \/ (style = "numbered" /\ Renumbered(nodes))

\* The plans whose values go astray.
Misplaced(p, style) ==
  IF p.deny THEN p.jsonOps # << >>
  ELSE LET nodes == SelectNodes([p EXCEPT !.fromSubquery = IF p.fts5 THEN << >> ELSE @])
       IN  \/ Astray(nodes, style)
           \/ p.fts5 /\ Holding(p.fromSubquery)
           \/ Holding(p.with) /\ Holding(SelectNodes([p EXCEPT !.with = << >>]))
           \/ style = "positional" /\ p.fts # << >> /\ Holding(p.filters \o p.rawFilters)

PlansTypeOK ==
  /\ given \in 0 .. MaxValues /\ {plan.deny, plan.fts5} \subseteq BOOLEAN
  /\ \A i \in 1 .. Len(SelectNodes(plan)) :
       LET node == SelectNodes(plan)[i]
       IN  /\ node.kind \in {"values", "raw", "plan", "union"}
           /\ Range(node.code.params) \subseteq 1 .. given
  /\ Range(other.params) \subseteq 1 .. given

(* Every value of a plan is bound where it was meant, in both styles, but  *)
(* in exactly these selects: a WITH clause with values beside any other    *)
(* (plan.ts:227 "in the order they appear"); a full text search with       *)
(* filters, when holes are positional; when they are numbered, a sub-plan  *)
(* with values after other values, which only a union survives, and raw    *)
(* SQL after numbered holes; a FROM sub-plan replaced by FTS5; a denied    *)
(* plan that sets JSON; and whatever embeds one of them. Updates and       *)
(* deletes go wrong only by what stands in their filters; inserts never,   *)
(* and they lose no value when the rows name the same columns.             *)
PlansBindValues ==
  LET filters == plan.filters \o plan.rawFilters
      fresh(n) == [i \in 1 .. n |-> given + i]
      pairs   == {fresh(1), fresh(2)} \X {<<given + 3>>, <<given + 3, given + 4>>}
  IN  given > 0 => \A style \in Styles :
        /\ Bound(CompileSelect(plan), style) <=> ~Misplaced(plan, style)
        /\ \A n \in 0 .. 2 :
             Bound(CompileUpdate(plan, fresh(n)), style) <=> ~Astray(<<Values(fresh(n))>> \o filters, style)
        /\ Bound(CompileDelete(plan), style) <=> ~Astray(filters, style)
        /\ \A pair \in pairs, set \in {<< >>, <<given + 5>>} :
             /\ Bound(CompileInsert(pair, set), style)
             /\ Len(pair[1]) = Len(pair[2]) =>
                  Range(pair[1] \o pair[2] \o set) = Range(CompileInsert(pair, set).params)
=============================================================================
