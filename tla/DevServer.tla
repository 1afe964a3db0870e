------------------------------ MODULE DevServer ------------------------------
(***************************************************************************)
(* REST requests to the development server, packages/cli/src/server.ts:    *)
(* the rate limit, the body, the REST handler (see Api, of which this has  *)
(* the routes of crudRoutes alone) and, for reads, the filters, order and  *)
(* page that parseFilterQuery of packages/api/src/index.ts finds in the    *)
(* query string, and the SELECT that SQLite makes of them; paginationMeta  *)
(* on the same query string, and the builder's paginate. A table has the   *)
(* column age beside its key.                                              *)
(***************************************************************************)
EXTENDS Integers, FiniteSets, Sequences, SequencesExt, FiniteSetsExt

CONSTANTS
  RowSets,      \* the contents of the table: key -> age
  AgeValues,
  Sizes,        \* the values of page and per_page; 0 for those not taken
  MaxPerPage,   \* the largest page of paginationMeta and paginate, 100 in the code
  MaxParams,    \* bound on the parameters of a query string
  MaxChecks     \* the limiter's maximum per window

\* A table's keys are numbers.
ASSUME DevServerConstantsOK ==
  /\ Sizes \cup {MaxParams, MaxPerPage, MaxChecks} \subseteq Nat
  /\ \A table \in RowSets : DOMAIN table \subseteq Nat /\ IsFiniteSet(DOMAIN table)

VARIABLES
  contents,     \* of the table
  checks,       \* how often the limiter has let the client pass in this window
  response      \* the last one, and what it answers, or NoResponse
devVars == <<contents, checks, response>>

NoResponse == [status |-> 0]

DevServerInit == contents \in RowSets /\ checks = 0 /\ response = NoResponse

-----------------------------------------------------------------------------
\* parseFilterQuery, one parameter after the other.

\* No name comes twice: the first occurrence has the value of the last.
Params ==
       [name : {"filter"}, op : {"eq", "gt"}, value : AgeValues]
  \cup [name : {"sort"}, dir : {"asc", "desc"}]
  \cup [name : {"page", "per_page"}, size : Sizes]
QueryStrings ==
  {q \in UNION {[1 .. n -> Params] : n \in 0 .. MaxParams} :
     \A j, k \in DOMAIN q : q[j].name = q[k].name => j = k}

DefaultSize == 10
NoLimit == 0

\* page takes the limit that there is by now.
Page(parsed, p) ==
  [parsed EXCEPT !.offset = (p - 1) * (IF parsed.limit = NoLimit THEN DefaultSize ELSE parsed.limit)]

Parameter(parsed, param) ==
  CASE param.name = "filter" -> [parsed EXCEPT !.filters = @ \cup {param}]
    [] param.name = "sort" -> [parsed EXCEPT !.dir = param.dir]
    [] param.name = "page" /\ param.size > 0 -> Page(parsed, param.size)
    [] param.name = "per_page" /\ param.size > 0 -> [parsed EXCEPT !.limit = param.size]
    [] OTHER -> parsed

parseFilterQuery(q) ==
  LET parsed[n \in 0 .. Len(q)] ==
        IF n = 0 THEN [filters |-> {}, dir |-> "asc", limit |-> NoLimit, offset |-> 0]
        ELSE Parameter(parsed[n - 1], q[n])
  IN  parsed[Len(q)]

Given(q, name) == {i \in DOMAIN q : q[i].name = name /\ (name \in {"page", "per_page"} => q[i].size > 0)}
SizeOf(q, name, default) == IF Given(q, name) = {} THEN default ELSE q[CHOOSE i \in Given(q, name) : TRUE].size

\* What an application tells of the page, with the number of rows there are.
paginationMeta(q, total) ==
  LET page    == SizeOf(q, "page", 1)
      perPage == Min({MaxPerPage, SizeOf(q, "per_page", DefaultSize)})
  IN  [hasNext |-> page * perPage < total, hasPrev |-> page > 1]

\* QueryBuilder.paginate.
paginate(page, perPage) ==
  LET p  == Max({1, page})
      pp == Max({1, Min({MaxPerPage, perPage})})
  IN  [limit |-> pp, offset |-> (p - 1) * pp]

-----------------------------------------------------------------------------
\* runPlan of a select.

Holds(filter, age) == IF filter.op = "eq" THEN age = filter.value ELSE age > filter.value
Before(dir, j, k) == IF dir = "asc" THEN j < k ELSE k < j
\* All, by key (which is also the order of a table without ORDER BY).
Listing(keys, dir) ==
  CHOOSE list \in [1 .. Cardinality(keys) -> keys] :
    \A i, j \in 1 .. Cardinality(keys) : i < j => Before(dir, list[i], list[j])
\* LIMIT and OFFSET, of which an offset of 0 is left out. SQLite has no OFFSET
\* without LIMIT.
IsStatement(p) == p.limit = NoLimit => p.offset = 0
Sliced(list, p) ==
  SubSeq(list, p.offset + 1, IF p.limit = NoLimit THEN Len(list) ELSE Min({Len(list), p.offset + p.limit}))

\* The list route, or the one of a key: findPk finds no route, so that the
\* query string applies there, too.
Selected(p, keys) ==
  Listing({k \in keys : \A f \in p.filters : Holds(f, contents[k])}, p.dir)
Read(q, keys) ==
  LET p == parseFilterQuery(q)
  IN  IF IsStatement(p) THEN [status |-> 200, list |-> Sliced(Selected(p, keys), p)]
      ELSE [status |-> 500, list |-> << >>]

\* handle asks the limiter, and the REST handler asks it again.
Admitted(n) == checks' = IF checks + n > MaxChecks THEN MaxChecks ELSE checks + n
RestRead ==
  /\ response = NoResponse
  /\ \E q \in QueryStrings, item \in DOMAIN contents, one \in BOOLEAN :
       LET keys == IF one THEN {item} ELSE DOMAIN contents
           out  == IF checks + 2 > MaxChecks THEN [status |-> 429, list |-> << >>] ELSE Read(q, keys)
       IN  response' = [status |-> out.status, list |-> out.list, keys |-> keys, query |-> q,
                        seen |-> contents]
  /\ Admitted(2) /\ UNCHANGED contents

\* A write. Behind startDevServer the copy of the request has no method on,
\* and reading the body fails before the REST handler is called.
RestWrite(behindServer) ==
  /\ response = NoResponse
  /\ IF behindServer
     THEN /\ response' = [status |-> IF checks = MaxChecks THEN 429 ELSE 500] /\ Admitted(1)
          /\ UNCHANGED contents
     ELSE /\ Admitted(2)
          /\ IF checks + 2 > MaxChecks THEN response' = [status |-> 429] /\ UNCHANGED contents
             ELSE response' = [status |-> 201] /\ contents' \in RowSets

\* The client has its response. The limiter's window ends.
Forget == response # NoResponse /\ response' = NoResponse /\ UNCHANGED <<contents, checks>>
NextWindow == response = NoResponse /\ checks' = 0 /\ UNCHANGED <<contents, response>>

DevServerNext ==
  RestRead \/ (\E behindServer \in BOOLEAN : RestWrite(behindServer)) \/ Forget \/ NextWindow

DevServerSpec == DevServerInit /\ [][DevServerNext]_devVars

-----------------------------------------------------------------------------
DevServerTypeOK ==
  /\ contents \in RowSets /\ checks \in 0 .. MaxChecks
  /\ response.status \in {0, 200, 201, 429, 500}

PageFirst(q) == \E i \in Given(q, "page"), j \in Given(q, "per_page") : i < j
Descending(q) == \E i \in DOMAIN q : q[i].name = "sort" /\ q[i].dir = "desc"

(* What a read answers are the rows that its filters let through, each     *)
(* where the number of those before it in the order asked for puts it: a   *)
(* page begins where the one before it ended, except that a page named     *)
(* before its size begins as if sizes were ten (api index.ts:393). A page  *)
(* above the first without a size is an error, for all lengths of a list.  *)
(* paginationMeta says truly whether there are rows before and behind the  *)
(* page, if it has a size, not above the largest, and is not one of those. *)
ReadsTile ==
  response.status \in {200, 500} /\ response # [status |-> 500] =>
    LET q     == response.query
        rows1 == {k \in response.keys : \A i \in DOMAIN q :
                    q[i].name = "filter" => Holds(q[i], response.seen[k])}
        rank(k) == Cardinality({j \in rows1 : Before(IF Descending(q) THEN "desc" ELSE "asc", j, k)})
        page1 == SizeOf(q, "page", 1)
        size  == SizeOf(q, "per_page", 10)
        sized == Given(q, "per_page") # {}
        start == (page1 - 1) * (IF PageFirst(q) THEN 10 ELSE size)
        meta  == paginationMeta(q, Cardinality(rows1))
    IN  /\ response.status = 500 <=> page1 > 1 /\ ~sized
        /\ response.status = 200 =>
             /\ \A i \in DOMAIN response.list : /\ response.list[i] \in rows1
                                                /\ rank(response.list[i]) = start + i - 1
             /\ ~sized => Len(response.list) = Cardinality(rows1)
             /\ sized => Len(response.list) = Min({size, Max({0, Cardinality(rows1) - start})})
             /\ sized /\ size <= MaxPerPage /\ ~PageFirst(q) =>
                  /\ meta.hasNext <=> \E k \in rows1 : rank(k) >= start + size
                  /\ meta.hasPrev <=> start > 0

(* The pages that a builder's paginate makes of a table, one after the     *)
(* other, are the table, for sizes that are no sizes and too large as well.*)
PagesTile ==
  \A size \in Sizes :
    LET list  == Listing(DOMAIN contents, "asc")
        pages == [p \in 1 .. Len(list) |-> Sliced(list, paginate(p, size))]
    IN  FlattenSeq(pages) = list
=============================================================================
