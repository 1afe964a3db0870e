----------------------------- MODULE QueryCache -----------------------------
(***************************************************************************)
(* The two-level query cache: CacheBridge over CacheManager                *)
(* (packages/cache/src/bridge.ts, manager.ts) with an in-process L1 in     *)
(* every process, an L2 shared by all of them (redis.ts) and the database  *)
(* behind both.                                                            *)
(*                                                                         *)
(* Rows are the query that produced them and the version of the table they *)
(* were read at. L1 is reduced to what MemoryCache promises: it holds what *)
(* was set, until it is deleted, expires or is evicted (Forget), and its   *)
(* tag index leads to an entry unless that was stored while its tag was    *)
(* being invalidated (loose; MemoryCache's IndexedUnlessRaced and          *)
(* InvalidateTagDropsAll). A call runs from one await to the next;         *)
(* commands for L2 travel in order per process and may fail, which the     *)
(* manager swallows.                                                       *)
(***************************************************************************)
EXTENDS Integers, Sequences, FiniteSets

CONSTANTS
  Procs, Tables, Queries,
  Calls,        \* calls in progress at once, in all processes
  TableOf,      \* the table a query selects from
  Null,
  MaxVersion,   \* bound: writes per table
  MaxWire       \* bound: L2 commands under way per process

\* A plan is cached under its table alone; a caller of resolve names its key.
Keys == Tables \cup Queries

\* raced: the rows were in flight, or in L2, while a write to their table was
\* committed and not yet invalidated.
Rows  == [query : Queries, version : Nat, raced : BOOLEAN]

\* loose: the tags under invalidation in the process when the entry was stored;
\* their Sets in the tag index may have lost it.
Entry == [rows : Rows, tags : SUBSET Tables, loose : SUBSET Tables]

ASSUME QueryCacheOK ==
  /\ TableOf \in [Queries -> Tables]
  /\ Null \notin Keys \cup Procs \cup Rows \cup Entry
  /\ Queries \cap Tables = {}
  /\ MaxVersion \in Nat /\ MaxWire \in Nat

VARIABLES
  db,       \* table -> version
  l1,       \* process -> key -> entry
  l2,       \* key -> rows
  wire,     \* process -> L2 commands sent and not yet executed
  call,     \* calls, each suspended at an await
  settled,  \* history: process -> table -> last write it has invalidated
  mixed     \* history: a read has returned the rows of another query

vars == <<db, l1, l2, wire, call, settled, mixed>>

Idle == [op |-> "idle", pc |-> "idle", proc |-> Null, query |-> Null, table |-> Null,
         key |-> Null, tags |-> {}, rows |-> Null, version |-> 0]

Active(c) == call[c].op # "idle"

Go(c, pc) == call' = [call EXCEPT ![c].pc = pc]

\* A read of q returns.
Yield(c, q, rows) ==
  /\ call' = [call EXCEPT ![c] = Idle]
  /\ mixed' = (mixed \/ rows.query # q)

Invalidating(t) == \E c \in Calls : call[c].op = "write" /\ call[c].table = t

\* The loop of L1's invalidateTag(t) is under way in process p.
Dropping(p, t) == \E c \in Calls : call[c].pc = "drop" /\ call[c].proc = p /\ call[c].table = t

Stored(p, rows, tags) ==
  [rows |-> rows, tags |-> tags, loose |-> {t \in tags : Dropping(p, t)}]

\* The entries that the tag index of p leads to from t, come what may.
Led(p, t) == {k \in Keys : l1[p][k] # Null /\ t \in l1[p][k].tags \ l1[p][k].loose}

Room(p) == Len(wire[p]) < MaxWire

-----------------------------------------------------------------------------
Init ==
  /\ db = [t \in Tables |-> 0]
  /\ l1 = [p \in Procs |-> [k \in Keys |-> Null]]
  /\ l2 = [k \in Keys |-> Null]
  /\ wire = [p \in Procs |-> <<>>]
  /\ call = [c \in Calls |-> Idle]
  /\ settled = [p \in Procs |-> [t \in Tables |-> 0]]
  /\ mixed = FALSE

\* An L1 or L2 entry expires or is evicted.
Forget ==
  /\ \/ \E p \in Procs, k \in Keys :
          l1[p][k] # Null /\ l1' = [l1 EXCEPT ![p][k] = Null] /\ UNCHANGED l2
     \/ \E k \in Keys : l2[k] # Null /\ l2' = [l2 EXCEPT ![k] = Null] /\ UNCHANGED l1
  /\ UNCHANGED <<db, wire, call, settled, mixed>>

-----------------------------------------------------------------------------
(* Reads: bridge.resolvePlan and manager.resolve.                          *)

\* A read looks into L1 in the turn it is called in.
Begin(c, p, q, key, tags) ==
  /\ ~Active(c)
  /\ IF l1[p][key] # Null
     THEN Yield(c, q, l1[p][key].rows)
     ELSE /\ call' = [call EXCEPT ![c] = [Idle EXCEPT !.op = "read", !.pc = "ask", !.proc = p,
                                            !.query = q, !.key = key, !.tags = tags]]
          /\ UNCHANGED mixed
  /\ UNCHANGED <<db, l1, l2, wire, settled>>

\* resolvePlan: one key per table; the tags are the plan's tables unless the
\* caller gave a ttl or options of its own.
PlanKey(q) == TableOf[q]

ResolvePlan(c, p, q) ==
  \E tags \in {{}, {TableOf[q]}} : Begin(c, p, q, PlanKey(q), tags)

\* resolve, with a key and tags of the caller's choice.
Resolve(c, p, q) == Begin(c, p, q, q, {TableOf[q]})

\* bypass, or a plan the analyzer finds uncacheable.
Bypass(c, q) ==
  /\ ~Active(c)
  /\ call' = [call EXCEPT ![c] = [Idle EXCEPT !.op = "read", !.pc = "fetch", !.query = q]]
  /\ UNCHANGED <<db, l1, l2, wire, settled, mixed>>

AskL2(c) ==
  LET p == call[c].proc
  IN  /\ call[c].pc = "ask"
      /\ Room(p)
      /\ wire' = [wire EXCEPT ![p] = Append(@, [op |-> "get", key |-> call[c].key, by |-> c])]
      /\ Go(c, "asked")
      /\ UNCHANGED <<db, l1, l2, settled, mixed>>

\* Fault: a miss in L2 is stored like a hit.
TakeAnswer(c) ==
  LET p == call[c].proc
  IN  /\ call[c].pc = "answered"
      /\ l1' = [l1 EXCEPT ![p][call[c].key] = Stored(p, call[c].rows, {})]
      /\ call' = [call EXCEPT ![c] = Idle]
      /\ UNCHANGED <<db, l2, wire, settled, mixed>>

\* manager.get passes on the options it was given, and gets none: what comes
\* from L2 enters L1 without tags.
TakeFromL2(c) ==
  LET p == call[c].proc
  IN  /\ call[c].pc = "answered"
      /\ call[c].rows # Null
      /\ l1' = [l1 EXCEPT ![p][call[c].key] = Stored(p, call[c].rows, {})]
      /\ Yield(c, call[c].query, call[c].rows)
      /\ UNCHANGED <<db, l2, wire, settled>>

\* The database answers the query: this is the moment the rows are read.
Fetch(c) ==
  /\ \/ call[c].pc = "fetch"
     \/ call[c].pc = "answered" /\ call[c].rows = Null
  /\ call' = [call EXCEPT ![c].pc = "fetched",
                          ![c].rows = [query |-> call[c].query,
                                       version |-> db[TableOf[call[c].query]], raced |-> FALSE]]
  /\ UNCHANGED <<db, l1, l2, wire, settled, mixed>>

\* manager.set: L1 at once, L2 after the await.
Fill(c) ==
  LET p == call[c].proc
  IN  /\ call[c].pc = "fetched"
      /\ IF call[c].key = Null
         THEN UNCHANGED l1 /\ Yield(c, call[c].query, call[c].rows)
         ELSE /\ l1' = [l1 EXCEPT ![p][call[c].key] = Stored(p, call[c].rows, call[c].tags)]
              /\ call' = [call EXCEPT ![c].pc = "share", ![c].tags = {}]
              /\ UNCHANGED mixed
      /\ UNCHANGED <<db, l2, wire, settled>>

\* Nobody waits for the answer.
Share(c) ==
  LET p == call[c].proc
  IN  /\ call[c].pc = "share"
      /\ Room(p)
      /\ wire' = [wire EXCEPT ![p] = Append(@, [op |-> "set", key |-> call[c].key,
                                                rows |-> call[c].rows])]
      /\ Yield(c, call[c].query, call[c].rows)
      /\ UNCHANGED <<db, l1, l2, settled>>

-----------------------------------------------------------------------------
(* Writes, and the calls that delete.                                      *)

\* The rows in flight when a write to t commits may be stored at any time.
Raced(rows, t) == IF rows # Null /\ TableOf[rows.query] = t THEN [rows EXCEPT !.raced = TRUE] ELSE rows

RaceCalls(t) == [c \in Calls |-> [call[c] EXCEPT !.rows = Raced(@, t)]]

RaceWire(t) ==
  [p \in Procs |-> [i \in 1 .. Len(wire[p]) |->
     IF wire[p][i].op = "set" THEN [wire[p][i] EXCEPT !.rows = Raced(@, t)] ELSE wire[p][i]]]

\* A write commits; the application calls invalidateAfterWrite when it hears.
Write(c, p, t) ==
  /\ ~Active(c)
  /\ db[t] < MaxVersion
  /\ db' = [db EXCEPT ![t] = @ + 1]
  /\ call' = [RaceCalls(t) EXCEPT ![c] =
               [Idle EXCEPT !.op = "write", !.pc = "written", !.proc = p, !.table = t, !.key = t,
                  !.version = db[t] + 1]]
  /\ wire' = RaceWire(t)
  /\ UNCHANGED <<l1, l2, settled, mixed>>

InvalidateAfterWrite(c) ==
  /\ call[c].pc = "written"
  /\ Go(c, "drop")
  /\ UNCHANGED <<db, l1, l2, wire, settled, mixed>>

\* invalidateTag alone.
InvalidateTag(c, p, t) ==
  /\ ~Active(c)
  /\ call' = [call EXCEPT ![c] = [Idle EXCEPT !.op = "invalidateTag", !.pc = "drop", !.proc = p, !.table = t]]
  /\ UNCHANGED <<db, l1, l2, wire, settled, mixed>>

\* manager.delete alone.
Delete(c, p, k) ==
  /\ ~Active(c)
  /\ l1' = [l1 EXCEPT ![p][k] = Null]
  /\ call' = [call EXCEPT ![c] = [Idle EXCEPT !.op = "delete", !.pc = "unshare", !.proc = p, !.key = k]]
  /\ UNCHANGED <<db, l2, wire, settled, mixed>>

\* clear(): L1 at once; what the L2 driver's scan finds to delete is its affair.
Clear(p) ==
  /\ l1' = [l1 EXCEPT ![p] = [k \in Keys |-> Null]]
  /\ \E kept \in SUBSET Keys : l2' = [k \in Keys |-> IF k \in kept THEN l2[k] ELSE Null]
  /\ UNCHANGED <<db, wire, call, settled, mixed>>

\* L1's invalidateTag drops the tagged entries one by one. It need not come
\* upon a loose one.
DropTagged(c) ==
  LET p == call[c].proc
  IN  /\ call[c].pc = "drop"
      /\ \E k \in Keys : /\ l1[p][k] # Null
                         /\ call[c].table \in l1[p][k].tags
                         /\ l1' = [l1 EXCEPT ![p][k] = Null]
      /\ UNCHANGED <<db, l2, wire, call, settled, mixed>>

\* The loop is over when no key is left that the index leads to.
TagDropped(c) ==
  /\ call[c].pc = "drop"
  /\ Led(call[c].proc, call[c].table) = {}
  /\ Go(c, IF call[c].op = "write" THEN "delete" ELSE "done")
  /\ UNCHANGED <<db, l1, l2, wire, settled, mixed>>

\* Fault: only tagged entries leave L1.
DeleteNoKey(c) ==
  /\ call[c].pc = "delete"
  /\ Go(c, "unshare")
  /\ UNCHANGED <<db, l1, l2, wire, settled, mixed>>

\* Then a write deletes the plan's own key, from L1 ...
DeleteKey(c) ==
  LET p == call[c].proc
  IN  /\ call[c].pc = "delete"
      /\ l1' = [l1 EXCEPT ![p][call[c].key] = Null]
      /\ Go(c, "unshare")
      /\ UNCHANGED <<db, l2, wire, settled, mixed>>

\* Fault: the tag reaches no further than L1.
UnshareNothing(c) ==
  /\ call[c].pc = "unshare"
  /\ Go(c, "done")
  /\ UNCHANGED <<db, l1, l2, wire, settled, mixed>>

\* ... and from L2.
Unshare(c) ==
  LET p == call[c].proc
  IN  /\ call[c].pc = "unshare"
      /\ Room(p)
      /\ wire' = [wire EXCEPT ![p] = Append(@, [op |-> "del", key |-> call[c].key, by |-> c])]
      /\ Go(c, "unsharing")
      /\ UNCHANGED <<db, l1, l2, settled, mixed>>

\* A deleting call returns. A write is settled when its invalidation returns.
Return(c) ==
  LET p == call[c].proc
      t == call[c].table
  IN  /\ call[c].pc = "done"
      /\ call' = [call EXCEPT ![c] = Idle]
      /\ settled' = IF call[c].op = "write" /\ call[c].version > settled[p][t]
                    THEN [settled EXCEPT ![p][t] = call[c].version] ELSE settled
      /\ UNCHANGED <<db, l1, l2, wire, mixed>>

-----------------------------------------------------------------------------
(* L2 executes the oldest command of a process, or the command fails: then *)
(* get finds nothing and set and delete do nothing.                        *)

\* Rows that L2 hands out between a write and the end of its invalidation.
HandedOut(k) ==
  IF l2[k] # Null /\ Invalidating(TableOf[l2[k].query]) THEN [l2[k] EXCEPT !.raced = TRUE] ELSE l2[k]

ServeGet(m, ok) ==
  /\ m.op = "get"
  /\ call' = [call EXCEPT ![m.by].pc = "answered", ![m.by].rows = IF ok THEN HandedOut(m.key) ELSE Null]
  /\ UNCHANGED l2

ServeSet(m, ok) ==
  /\ m.op = "set"
  /\ l2' = IF ok THEN [l2 EXCEPT ![m.key] = m.rows] ELSE l2
  /\ UNCHANGED call

\* A failed delete leaves rows that nothing will take away before they expire.
ServeDel(m, ok) ==
  /\ m.op = "del"
  /\ l2' = [l2 EXCEPT ![m.key] =
             IF ok \/ @ = Null THEN Null ELSE [@ EXCEPT !.raced = TRUE]]
  /\ Go(m.by, "done")

Serve(p) ==
  /\ wire[p] # <<>>
  /\ wire' = [wire EXCEPT ![p] = Tail(@)]
  /\ \E ok \in BOOLEAN :
       LET m == Head(wire[p])
       IN  ServeGet(m, ok) \/ ServeSet(m, ok) \/ ServeDel(m, ok)
  /\ UNCHANGED <<db, l1, settled, mixed>>

Next ==
  \/ Forget
  \/ \E c \in Calls, q \in Queries : Bypass(c, q)
  \/ \E c \in Calls, p \in Procs, q \in Queries : ResolvePlan(c, p, q) \/ Resolve(c, p, q)
  \/ \E c \in Calls, p \in Procs, t \in Tables : Write(c, p, t) \/ InvalidateTag(c, p, t)
  \/ \E c \in Calls, p \in Procs, k \in Keys : Delete(c, p, k)
  \/ \E p \in Procs : Clear(p) \/ Serve(p)
  \/ \E c \in Calls :
       \/ AskL2(c) \/ TakeFromL2(c) \/ Fetch(c) \/ Fill(c) \/ Share(c)
       \/ InvalidateAfterWrite(c) \/ DropTagged(c) \/ TagDropped(c)
       \/ DeleteKey(c) \/ Unshare(c) \/ Return(c)

Spec == Init /\ [][Next]_vars

-----------------------------------------------------------------------------
Command == [op : {"get", "del"}, key : Keys, by : Calls] \cup [op : {"set"}, key : Keys, rows : Rows]

CallState ==
  [op : {"idle", "read", "write", "invalidateTag", "delete"},
   pc : {"idle", "ask", "asked", "answered", "fetch", "fetched", "share", "written",
         "drop", "delete", "unshare", "unsharing", "done"},
   proc : Procs \cup {Null}, query : Queries \cup {Null}, table : Tables \cup {Null},
   key : Keys \cup {Null}, tags : SUBSET Tables, rows : Rows \cup {Null},
   version : Nat]

TypeOK ==
  /\ db \in [Tables -> Nat]
  /\ l1 \in [Procs -> [Keys -> Entry \cup {Null}]]
  /\ l2 \in [Keys -> Rows \cup {Null}]
  /\ wire \in [Procs -> Seq(Command)]
  /\ call \in [Calls -> CallState]
  /\ settled \in [Procs -> [Tables -> Nat]]
  /\ mixed \in BOOLEAN

\* Rows that no write overtook are as fresh as the process knows the table.
FreshFor(p, rows) == rows.raced \/ rows.version >= settled[p][TableOf[rows.query]]

(* Once invalidateAfterWrite has returned (bridge.ts:86-95), what is still *)
(* in L1 under a table's tag or a plan's key is as new as the write, unless *)
(* its rows were on their way into the cache while the write was being     *)
(* invalidated, or it was stored while some invalidation of the tag was    *)
(* under way, the only entries a later invalidation may miss.              *)
L1Fresh ==
  \A p \in Procs, k \in Keys :
    LET e == l1[p][k]
    IN  e # Null /\ (k \in Tables \/ TableOf[e.rows.query] \in e.tags \ e.loose) => FreshFor(p, e.rows)

(* The same of plan keys in L2, which every process shares, with regard to *)
(* a write invalidated in any process, unless an L2 delete failed.         *)
L2Fresh == \A p \in Procs, t \in Tables : l2[t] # Null => FreshFor(p, l2[t])

(* "two queries with different params get different entries"               *)
(* (docs/src/content/docs/cache/analyzer.mdx:29-30): a read never yields   *)
(* the rows of another query.                                              *)
RowsAreOwn == ~mixed
=============================================================================
