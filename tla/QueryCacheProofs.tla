-------------------------- MODULE QueryCacheProofs --------------------------
(* The two-level cache keeps what it promises of fresh rows, for any       *)
(* processes, tables, queries and calls, and for any bounds.               *)
EXTENDS QueryCache, TLAPS

KeyFits(k, rows) == k \in Tables => TableOf[rows.query] = k
AsNew(rows, v) == rows.raced \/ rows.version >= v
UpToDate(rows, versions) == AsNew(rows, versions[TableOf[rows.query]])

\* An entry of L1 that a write to its table takes away: the tag index leads to
\* it, or it is under the plan's key.
Tagged(e) == TableOf[e.rows.query] \in e.tags \ e.loose
Covered(k, e) == (k \in Tables) \/ Tagged(e)

\* It is to be gone from a write that has come as far as pc.
Cleared(pc, k, e) ==
  \/ k \in Tables /\ pc \notin {"written", "drop", "delete"}
  \/ Tagged(e) /\ pc \notin {"written", "drop"}

Reading == {"ask", "asked", "answered", "fetch", "fetched", "share"}
Deleting == {"written", "drop", "delete", "unshare", "unsharing", "done"}

(* What a read carries. Rows from the database, and those L2 had under a   *)
(* plan's key, are as new as the table, unless a write overtook them; those*)
(* under a key of the caller's choice need not be.                         *)
ReadFits(x, versions) ==
  /\ x.pc \in Reading => (x.op = "read" /\ x.query \in Queries)
  /\ (x.pc \in Reading /\ x.key # Null) => (x.proc \in Procs /\ (x.key \in Tables => TableOf[x.query] = x.key))
  /\ x.pc \in {"ask", "asked", "answered", "share"} => x.key # Null
  /\ x.pc \in {"fetched", "share"} => (x.rows # Null /\ UpToDate(x.rows, versions) /\ x.rows.query = x.query)
  /\ (x.pc = "answered" /\ x.rows # Null) =>
       (KeyFits(x.key, x.rows) /\ (x.key \in Tables => UpToDate(x.rows, versions)))

(* What a deleting call carries: a write knows a version of its table that *)
(* has been committed, and deletes the table's plan key.                   *)
DeleteFits(x, versions) ==
  /\ (x.op = "idle") <=> (x.pc = "idle")
  /\ x.pc \in Deleting => x.proc \in Procs
  /\ x.op = "write" => (x.pc \in Deleting /\ x.table \in Tables /\ x.key = x.table /\ x.version <= versions[x.table])
  /\ x.pc \in {"unshare", "unsharing"} => x.key # Null
  /\ x.pc = "delete" => x.op = "write"

CallsFit == \A c \in Calls : ReadFits(call[c], db) /\ DeleteFits(call[c], db)

(* A command under way, sent by p, belongs to a call that waits for it, or *)
(* stores rows as new as their table.                                      *)
Sent(m, p, calls, versions) ==
  IF m.op = "set"
  THEN KeyFits(m.key, m.rows) /\ UpToDate(m.rows, versions)
  ELSE /\ calls[m.by].proc = p /\ calls[m.by].key = m.key
       /\ calls[m.by].pc = IF m.op = "get" THEN "asked" ELSE "unsharing"

WaitedFor(s, i, j) == (s[i].op # "set" /\ s[j].op # "set" /\ s[i].by = s[j].by) => i = j

WireFits ==
  \A p \in Procs :
    /\ \A i \in 1 .. Len(wire[p]) : Sent(wire[p][i], p, call, db)
    /\ \A i, j \in 1 .. Len(wire[p]) : WaitedFor(wire[p], i, j)

CachesFit ==
  /\ \A p \in Procs, k \in Keys : l1[p][k] # Null => KeyFits(k, l1[p][k].rows)
  /\ \A k \in Keys : l2[k] # Null => KeyFits(k, l2[k])

Known == \A p \in Procs, t \in Tables : settled[p][t] <= db[t]

(* The last write to a table is being invalidated or some process has      *)
(* settled it: what L2 hands out while no invalidation of the table is     *)
(* under way is as new as the table.                                       *)
Pursued ==
  \A t \in Tables :
    \/ db[t] = 0
    \/ \E p \in Procs : settled[p][t] = db[t]
    \/ \E c \in Calls : call[c].op = "write" /\ call[c].table = t /\ call[c].version = db[t]

(* What a write has taken away already does not come back: in L1 from the  *)
(* end of its dropping or deleting on, in L2 from the end of its delete.   *)
L1Kept ==
  \A c \in Calls, k \in Keys :
    LET e == l1[call[c].proc][k]
    IN  (/\ call[c].op = "write" /\ e # Null /\ Cleared(call[c].pc, k, e)
         /\ TableOf[e.rows.query] = call[c].table)
          => AsNew(e.rows, call[c].version)

L2Kept ==
  \A c \in Calls :
    (call[c].op = "write" /\ call[c].pc = "done" /\ l2[call[c].table] # Null)
      => AsNew(l2[call[c].table], call[c].version)

IInv ==
  /\ TypeOK /\ CallsFit /\ WireFits /\ CachesFit /\ Known /\ Pursued
  /\ L1Kept /\ L2Kept /\ L1Fresh /\ L2Fresh

-----------------------------------------------------------------------------
(* What most steps do to a call, to L1 and to L2.                          *)

\* Nothing of its table is left that a write, come from x to y, is to have
\* cleared from L1 by now; nothing is left for it to delete from L2.
DroppedAll(x, y) ==
  \A k \in Keys :
    LET e == l1'[y.proc][k]
    IN  (e # Null /\ Cleared(y.pc, k, e) /\ ~Cleared(x.pc, k, e)) => TableOf[e.rows.query] # y.table

DeletedAll(x) == l2'[x.table] # Null => l2'[x.table].raced

SameWrite(x, y) ==
  /\ x.op = "write" <=> y.op = "write"
  /\ y.op = "write" =>
       /\ y.proc = x.proc /\ y.table = x.table /\ y.version = x.version
       /\ x.pc = y.pc \/ DroppedAll(x, y)
       /\ y.pc = "done" => (x.pc = "done" \/ DeletedAll(y))

CallsGo ==
  /\ call' \in [Calls -> CallState]
  /\ \A c \in Calls : /\ ReadFits(call'[c], db) /\ DeleteFits(call'[c], db)
                      /\ SameWrite(call[c], call'[c])

\* One call goes on.
Alone(c) == call' \in [Calls -> CallState] /\ \A d \in Calls : d # c => call'[d] = call[d]

L1Goes ==
  /\ l1' \in [Procs -> [Keys -> Entry \cup {Null}]]
  /\ \A p \in Procs, k \in Keys :
       \/ l1'[p][k] \in {Null, l1[p][k]}
       \/ KeyFits(k, l1'[p][k].rows) /\ (Covered(k, l1'[p][k]) => UpToDate(l1'[p][k].rows, db))

L2Goes ==
  /\ l2' \in [Keys -> Rows \cup {Null}]
  /\ \A k \in Keys :
       \/ l2'[k] \in {Null, l2[k]}
       \/ KeyFits(k, l2'[k]) /\ UpToDate(l2'[k], db)

LEMMA Versions ==
  ASSUME IInv
  PROVE  /\ \A rows \in Rows : rows.version \in Nat /\ TableOf[rows.query] \in Tables
         /\ \A t \in Tables : db[t] \in Nat
         /\ \A p \in Procs, t \in Tables : settled[p][t] \in Nat /\ settled[p][t] <= db[t]
         /\ \A c \in Calls : call[c].op = "write" =>
              (call[c].version \in Nat /\ call[c].table \in Tables /\ call[c].proc \in Procs
               /\ call[c].version <= db[call[c].table])
<1>1. \A rows \in Rows : rows.version \in Nat /\ TableOf[rows.query] \in Tables
  BY QueryCacheOK DEF Rows
<1>2. /\ \A t \in Tables : db[t] \in Nat
      /\ \A p \in Procs, t \in Tables : settled[p][t] \in Nat /\ settled[p][t] <= db[t]
  BY DEF IInv, TypeOK, Known
<1>3. \A c \in Calls : call[c].version \in Nat
  BY DEF IInv, TypeOK, CallState
<1>4. \A c \in Calls : call[c].op = "write" =>
        (call[c].table \in Tables /\ call[c].proc \in Procs /\ call[c].version <= db[call[c].table])
  BY DEF IInv, CallsFit, DeleteFits
<1> QED
  BY <1>1, <1>2, <1>3, <1>4

LEMMA CallStep ==
  ASSUME IInv, CallsGo, UNCHANGED <<db, settled>>
  PROVE  CallsFit' /\ Known' /\ Pursued'
<1>1. CallsFit'
  BY DEF CallsFit, CallsGo
<1>2. Known'
  BY DEF IInv, Known
<1>3. Pursued'
  <2>1. ASSUME NEW d \in Calls, call[d].op = "write"
        PROVE  call'[d].op = "write" /\ call'[d].table = call[d].table /\ call'[d].version = call[d].version
    BY <2>1 DEF CallsGo, SameWrite
  <2> QED
    BY <2>1 DEF IInv, Pursued
<1> QED
  BY <1>1, <1>2, <1>3

LEMMA L1Step ==
  ASSUME IInv, CallsGo, L1Goes, UNCHANGED <<db, settled>>
  PROVE  /\ \A p \in Procs, k \in Keys : l1'[p][k] # Null => KeyFits(k, l1'[p][k].rows)
         /\ L1Kept' /\ L1Fresh'
<1>1. ASSUME NEW p \in Procs, NEW k \in Keys, l1'[p][k] # Null
      PROVE  KeyFits(k, l1'[p][k].rows)
  BY <1>1 DEF IInv, CachesFit, L1Goes
<1>2. ASSUME NEW p \in Procs, NEW k \in Keys, NEW v \in Nat, l1'[p][k] # Null, Covered(k, l1'[p][k]),
             v <= db[TableOf[l1'[p][k].rows.query]],
             (l1'[p][k] = l1[p][k]) => AsNew(l1[p][k].rows, v)
      PROVE  AsNew(l1'[p][k].rows, v)
  <2>1. l1'[p][k].rows \in Rows
    BY <1>2 DEF L1Goes, Entry
  <2>2. CASE l1'[p][k] = l1[p][k]
    BY <2>2, <1>2
  <2>3. CASE UpToDate(l1'[p][k].rows, db)
    BY <2>1, <2>3, <1>2, Versions DEF UpToDate, AsNew
  <2> QED
    BY <2>2, <2>3, <1>2 DEF L1Goes
<1>3. L1Fresh'
  <2> SUFFICES ASSUME NEW p \in Procs, NEW k \in Keys, l1'[p][k] # Null, Covered(k, l1'[p][k])
               PROVE  AsNew(l1'[p][k].rows, settled[p][TableOf[l1'[p][k].rows.query]])
    BY DEF L1Fresh, FreshFor, AsNew, Covered, Tagged
  <2> DEFINE t == TableOf[l1'[p][k].rows.query]
  <2>1. t \in Tables
    BY Versions DEF L1Goes, Entry
  <2>2. settled[p][t] \in Nat /\ settled[p][t] <= db[t]
    BY <2>1, Versions
  <2>3. (l1'[p][k] = l1[p][k]) => AsNew(l1[p][k].rows, settled[p][t])
    BY DEF IInv, L1Fresh, FreshFor, AsNew, Covered, Tagged
  <2> QED
    BY <2>2, <2>3, <1>2
<1>4. L1Kept'
  <2> SUFFICES ASSUME NEW d \in Calls, NEW k \in Keys, call'[d].op = "write",
                      l1'[call'[d].proc][k] # Null, Cleared(call'[d].pc, k, l1'[call'[d].proc][k]),
                      TableOf[l1'[call'[d].proc][k].rows.query] = call'[d].table
               PROVE  AsNew(l1'[call'[d].proc][k].rows, call'[d].version)
    BY DEF L1Kept
  <2>1. /\ call[d].op = "write" /\ call'[d].proc = call[d].proc
        /\ call'[d].table = call[d].table /\ call'[d].version = call[d].version
        /\ Cleared(call[d].pc, k, l1'[call[d].proc][k])
    BY DEF CallsGo, SameWrite, DroppedAll
  <2>2. /\ call[d].proc \in Procs /\ call[d].version \in Nat
        /\ call[d].version <= db[TableOf[l1'[call[d].proc][k].rows.query]]
    BY <2>1, Versions
  <2>3. (l1'[call[d].proc][k] = l1[call[d].proc][k]) => AsNew(l1[call[d].proc][k].rows, call[d].version)
    BY <2>1 DEF IInv, L1Kept
  <2>4. Covered(k, l1'[call[d].proc][k])
    BY <2>1 DEF Cleared, Covered
  <2> QED
    BY <2>1, <2>2, <2>3, <2>4, <1>2
<1> QED
  BY <1>1, <1>3, <1>4

LEMMA L2Step ==
  ASSUME IInv, CallsGo, L2Goes, UNCHANGED <<db, settled>>
  PROVE  /\ \A k \in Keys : l2'[k] # Null => KeyFits(k, l2'[k])
         /\ L2Kept' /\ L2Fresh'
<1>1. ASSUME NEW k \in Keys, l2'[k] # Null
      PROVE  KeyFits(k, l2'[k])
  BY <1>1 DEF IInv, CachesFit, L2Goes
<1>2. ASSUME NEW t \in Tables, NEW v \in Nat, l2'[t] # Null, v <= db[t], (l2'[t] = l2[t]) => AsNew(l2[t], v)
      PROVE  AsNew(l2'[t], v)
  <2>1. t \in Keys
    BY DEF Keys
  <2>2. l2'[t] \in Rows /\ TableOf[l2'[t].query] = t
    BY <2>1, <1>1, <1>2 DEF L2Goes, KeyFits
  <2>3. CASE l2'[t] = l2[t]
    BY <2>3, <1>2
  <2>4. CASE UpToDate(l2'[t], db)
    BY <2>2, <2>4, <1>2, Versions DEF UpToDate, AsNew
  <2> QED
    BY <2>1, <2>3, <2>4, <1>2 DEF L2Goes
<1>3. L2Fresh'
  <2> SUFFICES ASSUME NEW p \in Procs, NEW t \in Tables, l2'[t] # Null
               PROVE  AsNew(l2'[t], settled[p][TableOf[l2'[t].query]])
    BY DEF L2Fresh, FreshFor, AsNew
  <2>1. TableOf[l2'[t].query] = t
    BY <1>1 DEF Keys, KeyFits
  <2>2. (l2'[t] = l2[t]) => AsNew(l2[t], settled[p][t])
    BY <2>1 DEF IInv, L2Fresh, FreshFor, AsNew
  <2> QED
    BY <2>1, <2>2, <1>2, Versions
<1>4. L2Kept'
  <2> SUFFICES ASSUME NEW d \in Calls, call'[d].op = "write", call'[d].pc = "done", l2'[call'[d].table] # Null
               PROVE  AsNew(l2'[call'[d].table], call'[d].version)
    BY DEF L2Kept
  <2>1. /\ call[d].op = "write" /\ (call[d].pc = "done" \/ DeletedAll(call'[d]))
        /\ call'[d].table = call[d].table /\ call'[d].version = call[d].version
    BY DEF CallsGo, SameWrite
  <2>2. CASE DeletedAll(call'[d])
    BY <2>2 DEF DeletedAll, AsNew
  <2>3. CASE call[d].pc = "done"
    <3>1. (l2'[call[d].table] = l2[call[d].table]) => AsNew(l2[call[d].table], call[d].version)
      BY <2>1, <2>3 DEF IInv, L2Kept
    <3> QED
      BY <2>1, <3>1, <1>2, Versions
  <2> QED
    BY <2>1, <2>2, <2>3
<1> QED
  BY <1>1, <1>3, <1>4

(* The commands under way, when a call that waits for none of them goes on,*)
(* sends one, or takes the answer of the oldest.                           *)
LEMMA WireStands ==
  ASSUME IInv, NEW c \in Calls, Alone(c), call[c].pc \notin {"asked", "unsharing"}, UNCHANGED <<db, wire>>
  PROVE  WireFits'
<1> SUFFICES ASSUME NEW p \in Procs, NEW i \in 1 .. Len(wire[p])
             PROVE  Sent(wire[p][i], p, call', db')
  BY DEF IInv, WireFits, WaitedFor
<1>1. Sent(wire[p][i], p, call, db) /\ wire[p][i] \in Command
  BY DEF IInv, WireFits, TypeOK
<1>2. CASE wire[p][i].op = "set"
  BY <1>1, <1>2 DEF Sent
<1>3. CASE wire[p][i].op # "set"
  <2>1. wire[p][i].by \in Calls /\ wire[p][i].by # c
    BY <1>1, <1>3 DEF Sent, Command
  <2> QED
    BY <2>1, <1>1, <1>3 DEF Sent, Alone
<1> QED
  BY <1>2, <1>3

LEMMA Appended ==
  ASSUME NEW S, NEW s \in Seq(S), NEW m \in S
  PROVE  /\ Append(s, m) \in Seq(S) /\ Len(Append(s, m)) = Len(s) + 1
         /\ \A i \in 1 .. Len(Append(s, m)) : (i \in 1 .. Len(s) /\ Append(s, m)[i] = s[i])
                                              \/ (i = Len(s) + 1 /\ Append(s, m)[i] = m)
OBVIOUS

LEMMA Shifted ==
  ASSUME NEW S, NEW s \in Seq(S), s # <<>>
  PROVE  /\ Head(s) \in S /\ Tail(s) \in Seq(S) /\ Len(Tail(s)) = Len(s) - 1
         /\ Len(s) \in Nat /\ 1 \in 1 .. Len(s) /\ Head(s) = s[1]
         /\ \A i \in 1 .. Len(Tail(s)) : i + 1 \in 1 .. Len(s) /\ Tail(s)[i] = s[i + 1] /\ i + 1 # 1
OBVIOUS

LEMMA WireGrows ==
  ASSUME IInv, NEW c \in Calls, NEW p \in Procs, NEW m \in Command, Alone(c),
         call[c].pc \notin {"asked", "unsharing"}, db' = db,
         wire' = [wire EXCEPT ![p] = Append(@, m)],
         m.op # "set" => m.by = c,
         Sent(m, p, call', db')
  PROVE  WireFits' /\ wire' \in [Procs -> Seq(Command)]
<1> DEFINE s == wire[p]
<1>1. s \in Seq(Command) /\ wire'[p] = Append(s, m) /\ \A r \in Procs : r # p => wire'[r] = wire[r]
  BY DEF IInv, TypeOK
<1>2. wire' \in [Procs -> Seq(Command)]
  BY <1>1, Appended DEF IInv, TypeOK
<1>3. ASSUME NEW r \in Procs, NEW i \in 1 .. Len(wire[r])
      PROVE  /\ Sent(wire[r][i], r, call', db')
             /\ (wire[r][i].op # "set") => (wire[r][i].by # c)
  <2>1. Sent(wire[r][i], r, call, db) /\ wire[r][i] \in Command
    BY DEF IInv, WireFits, TypeOK
  <2>2. CASE wire[r][i].op = "set"
    BY <2>1, <2>2 DEF Sent
  <2>3. CASE wire[r][i].op # "set"
    <3>1. wire[r][i].by \in Calls /\ wire[r][i].by # c
      BY <2>1, <2>3 DEF Sent, Command
    <3> QED
      BY <3>1, <2>1, <2>3 DEF Sent, Alone
  <2> QED
    BY <2>2, <2>3
<1>4. ASSUME NEW r \in Procs
      PROVE  /\ \A i \in 1 .. Len(wire'[r]) : Sent(wire'[r][i], r, call', db')
             /\ \A i, j \in 1 .. Len(wire'[r]) : WaitedFor(wire'[r], i, j)
  <2>1. CASE r # p
    <3>1. wire'[r] = wire[r] /\ \A i, j \in 1 .. Len(wire[r]) : WaitedFor(wire[r], i, j)
      BY <2>1, <1>1 DEF IInv, WireFits
    <3> QED
      BY <3>1, <1>3 DEF WaitedFor
  <2>2. CASE r = p
    <3>1. \A i \in 1 .. Len(wire'[p]) : (i \in 1 .. Len(s) /\ wire'[p][i] = s[i])
                                        \/ (i = Len(s) + 1 /\ wire'[p][i] = m)
      BY <1>1, Appended
    <3>2. \A i \in 1 .. Len(wire'[p]) : Sent(wire'[p][i], p, call', db')
      BY <3>1, <1>3
    <3>3. ASSUME NEW i \in 1 .. Len(wire'[p]), NEW j \in 1 .. Len(wire'[p])
          PROVE  WaitedFor(wire'[p], i, j)
      <4>1. CASE i \in 1 .. Len(s) /\ j \in 1 .. Len(s)
        BY <4>1, <3>1, <1>1 DEF IInv, WireFits, WaitedFor
      <4>2. CASE i = Len(s) + 1 /\ j = Len(s) + 1
        BY <4>2 DEF WaitedFor
      <4>3. CASE i \in 1 .. Len(s) /\ j = Len(s) + 1 /\ wire'[p][i] = s[i] /\ wire'[p][j] = m
        BY <4>3, <1>3 DEF WaitedFor
      <4>4. CASE j \in 1 .. Len(s) /\ i = Len(s) + 1 /\ wire'[p][j] = s[j] /\ wire'[p][i] = m
        BY <4>4, <1>3 DEF WaitedFor
      <4> QED
        BY <3>1, <4>1, <4>2, <4>3, <4>4
    <3> QED
      BY <2>2, <3>2, <3>3
  <2> QED
    BY <2>1, <2>2
<1> QED
  BY <1>2, <1>4 DEF WireFits

LEMMA WireShrinks ==
  ASSUME IInv, NEW p \in Procs, wire[p] # <<>>, db' = db,
         wire' = [wire EXCEPT ![p] = Tail(@)],
         call' \in [Calls -> CallState],
         \A d \in Calls : (Head(wire[p]).op = "set" \/ d # Head(wire[p]).by) => call'[d] = call[d]
  PROVE  WireFits' /\ wire' \in [Procs -> Seq(Command)]
<1> DEFINE s == wire[p]
<1>1. s \in Seq(Command) /\ wire'[p] = Tail(s) /\ \A r \in Procs : r # p => wire'[r] = wire[r]
  BY DEF IInv, TypeOK
<1>2. wire' \in [Procs -> Seq(Command)]
  BY <1>1, Shifted DEF IInv, TypeOK
<1>3. /\ Head(s) = s[1] /\ 1 \in 1 .. Len(s) /\ s[1] \in Command
      /\ \A i \in 1 .. Len(wire'[p]) : i + 1 \in 1 .. Len(s) /\ wire'[p][i] = s[i + 1] /\ i + 1 # 1
  <2>1. s # <<>>
    OBVIOUS
  <2>2. /\ Head(s) = s[1] /\ 1 \in 1 .. Len(s) /\ Head(s) \in Command
        /\ \A i \in 1 .. Len(Tail(s)) : i + 1 \in 1 .. Len(s) /\ Tail(s)[i] = s[i + 1] /\ i + 1 # 1
    BY <1>1, <2>1, Shifted
  <2> QED
    BY <1>1, <2>2
<1>4. ASSUME NEW r \in Procs, NEW i \in 1 .. Len(wire[r]), r # p \/ i # 1
      PROVE  Sent(wire[r][i], r, call', db')
  <2>1. Sent(wire[r][i], r, call, db) /\ wire[r][i] \in Command /\ Sent(s[1], p, call, db)
    BY <1>3 DEF IInv, WireFits, TypeOK
  <2>2. CASE wire[r][i].op = "set"
    BY <2>1, <2>2 DEF Sent
  <2>3. CASE wire[r][i].op # "set"
    <3>1. wire[r][i].by \in Calls
      BY <2>1, <2>3 DEF Command
    <3>2. s[1].op = "set" \/ wire[r][i].by # s[1].by
      <4>1. CASE r # p
        BY <4>1, <2>1, <2>3 DEF Sent
      <4>2. CASE r = p
        <5>1. WaitedFor(wire[p], i, 1)
          BY <4>2, <1>3 DEF IInv, WireFits
        <5> QED
          BY <5>1, <4>2, <2>3, <1>4 DEF WaitedFor
      <4> QED
        BY <4>1, <4>2
    <3>3. call'[wire[r][i].by] = call[wire[r][i].by]
      BY <3>1, <3>2, <1>3
    <3> QED
      BY <3>3, <2>1, <2>3 DEF Sent
  <2> QED
    BY <2>2, <2>3
<1>5. ASSUME NEW r \in Procs
      PROVE  /\ \A i \in 1 .. Len(wire'[r]) : Sent(wire'[r][i], r, call', db')
             /\ \A i, j \in 1 .. Len(wire'[r]) : WaitedFor(wire'[r], i, j)
  <2>1. CASE r # p
    <3>1. wire'[r] = wire[r] /\ \A i, j \in 1 .. Len(wire[r]) : WaitedFor(wire[r], i, j)
      BY <2>1, <1>1 DEF IInv, WireFits
    <3> QED
      BY <3>1, <2>1, <1>4 DEF WaitedFor
  <2>2. CASE r = p
    <3>1. \A i \in 1 .. Len(wire'[p]) : Sent(wire'[p][i], p, call', db')
      BY <1>3, <1>4
    <3>2. ASSUME NEW i \in 1 .. Len(wire'[p]), NEW j \in 1 .. Len(wire'[p])
          PROVE  WaitedFor(wire'[p], i, j)
      <4>1. wire'[p][i] = wire[p][i + 1] /\ wire'[p][j] = wire[p][j + 1]
        BY <1>3
      <4>2. WaitedFor(wire[p], i + 1, j + 1)
        BY <1>3 DEF IInv, WireFits
      <4>3. i \in Int /\ j \in Int /\ (i + 1 = j + 1 => i = j)
        OBVIOUS
      <4> QED
        BY <4>1, <4>2, <4>3 DEF WaitedFor
    <3> QED
      BY <2>2, <3>1, <3>2
  <2> QED
    BY <2>1, <2>2
<1> QED
  BY <1>2, <1>5 DEF WireFits

LEMMA Gathered ==
  ASSUME IInv, CallsGo, L1Goes, L2Goes, UNCHANGED <<db, settled>>,
         WireFits', wire' \in [Procs -> Seq(Command)], mixed' \in BOOLEAN
  PROVE  IInv'
<1>1. TypeOK'
  BY DEF IInv, TypeOK, CallsGo, L1Goes, L2Goes
<1>2. CachesFit'
  BY L1Step, L2Step DEF CachesFit
<1> QED
  BY <1>1, <1>2, CallStep, L1Step, L2Step DEF IInv

LEMMA Still ==
  ASSUME IInv
  PROVE  /\ UNCHANGED l1 => L1Goes
         /\ UNCHANGED l2 => L2Goes
         /\ UNCHANGED wire => wire' \in [Procs -> Seq(Command)]
         /\ UNCHANGED mixed => mixed' \in BOOLEAN
BY DEF IInv, TypeOK, L1Goes, L2Goes

LEMMA OneGoes ==
  ASSUME IInv, NEW c \in Calls, Alone(c), ReadFits(call'[c], db), DeleteFits(call'[c], db),
         SameWrite(call[c], call'[c])
  PROVE  CallsGo
<1>1. ASSUME NEW d \in Calls, d # c
      PROVE  ReadFits(call'[d], db) /\ DeleteFits(call'[d], db) /\ SameWrite(call[d], call'[d])
  BY <1>1 DEF IInv, CallsFit, Alone, SameWrite
<1> QED
  BY <1>1 DEF CallsGo, Alone

LEMMA IdleCall == Idle \in CallState /\ Idle.op = "idle" /\ Idle.pc = "idle"
BY QueryCacheOK DEF Idle, CallState

LEMMA Yielded ==
  ASSUME IInv, NEW c \in Calls, call' = [call EXCEPT ![c] = Idle], call[c].op # "write"
  PROVE  Alone(c) /\ CallsGo
<1>1. Alone(c) /\ call'[c] = Idle
  BY IdleCall DEF IInv, TypeOK, Alone
<1>2. ReadFits(call'[c], db) /\ DeleteFits(call'[c], db) /\ SameWrite(call[c], call'[c])
  BY <1>1, IdleCall DEF ReadFits, DeleteFits, SameWrite, Reading, Deleting
<1> QED
  BY <1>1, <1>2, OneGoes

LEMMA MixedOK ==
  ASSUME IInv, NEW q, NEW rows, mixed' = (mixed \/ rows.query # q)
  PROVE  mixed' \in BOOLEAN
<1>1. (mixed \/ rows.query # q) \in BOOLEAN
  OBVIOUS
<1> QED
  BY <1>1

LEMMA Gone ==
  ASSUME IInv, NEW c \in Calls, NEW pc, Go(c, pc),
         pc \in {"idle", "ask", "asked", "answered", "fetch", "fetched", "share", "written", "drop",
                 "delete", "unshare", "unsharing", "done"}
  PROVE  /\ Alone(c) /\ call'[c].pc = pc /\ call'[c].op = call[c].op /\ call'[c].proc = call[c].proc
         /\ call'[c].query = call[c].query /\ call'[c].table = call[c].table /\ call'[c].key = call[c].key
         /\ call'[c].tags = call[c].tags /\ call'[c].rows = call[c].rows /\ call'[c].version = call[c].version
<1>1. call[c] \in CallState /\ call'[c] = [call[c] EXCEPT !.pc = pc]
  BY DEF IInv, TypeOK, Go
<1>2. call'[c] \in CallState
  BY <1>1 DEF CallState
<1>3. Alone(c)
  BY <1>2 DEF IInv, TypeOK, Go, Alone
<1> QED
  BY <1>1, <1>3 DEF CallState

-----------------------------------------------------------------------------
(* One lemma for each kind of step.                                        *)

LEMMA ForgetKeeps == IInv /\ Forget => IInv'
<1> SUFFICES ASSUME IInv, Forget PROVE IInv'
  OBVIOUS
<1>1. L1Goes
  <2>1. CASE UNCHANGED l1
    BY <2>1, Still
  <2>2. ASSUME NEW p \in Procs, NEW k \in Keys, l1' = [l1 EXCEPT ![p][k] = Null]
        PROVE  L1Goes
    BY <2>2 DEF IInv, TypeOK, L1Goes
  <2> QED
    BY <2>1, <2>2 DEF Forget
<1>2. L2Goes
  BY DEF Forget, IInv, TypeOK, L2Goes
<1>3. CallsGo
  BY DEF Forget, IInv, TypeOK, CallsFit, CallsGo, SameWrite
<1>4. WireFits'
  BY DEF Forget, IInv, WireFits
<1> QED
  BY <1>1, <1>2, <1>3, <1>4, Still, Gathered DEF Forget

LEMMA ClearKeeps == ASSUME NEW p \in Procs PROVE IInv /\ Clear(p) => IInv'
<1> SUFFICES ASSUME IInv, Clear(p) PROVE IInv'
  OBVIOUS
<1>1. L1Goes
  BY DEF Clear, IInv, TypeOK, L1Goes
<1>2. L2Goes
  BY DEF Clear, IInv, TypeOK, L2Goes
<1>3. CallsGo
  BY DEF Clear, IInv, TypeOK, CallsFit, CallsGo, SameWrite
<1>4. WireFits'
  BY DEF Clear, IInv, WireFits
<1> QED
  BY <1>1, <1>2, <1>3, <1>4, Still, Gathered DEF Clear

\* A call that is not under way starts as x.
LEMMA Started ==
  ASSUME IInv, NEW c \in Calls, ~Active(c), NEW x \in CallState, call' = [call EXCEPT ![c] = x],
         x.op # "write", ReadFits(x, db), DeleteFits(x, db)
  PROVE  Alone(c) /\ CallsGo /\ call[c].pc = "idle"
<1>1. Alone(c) /\ call'[c] = x
  BY DEF IInv, TypeOK, Alone
<1>2. call[c].op # "write" /\ call[c].pc = "idle"
  BY DEF Active, IInv, CallsFit, DeleteFits
<1> QED
  BY <1>1, <1>2, OneGoes DEF SameWrite

LEMMA BeginKeeps ==
  ASSUME IInv, NEW c \in Calls, NEW p \in Procs, NEW q \in Queries, NEW key \in Keys, NEW tags \in SUBSET Tables,
         key \in Tables => TableOf[q] = key, Begin(c, p, q, key, tags)
  PROVE  IInv'
<1>1. ~Active(c) /\ call[c].pc = "idle" /\ call[c].op # "write"
  BY DEF Begin, Active, IInv, CallsFit, DeleteFits
<1>2. CASE l1[p][key] # Null
  <2>1. Yield(c, q, l1[p][key].rows) /\ UNCHANGED <<db, l1, l2, wire, settled>>
    BY <1>2 DEF Begin
  <2> QED
    BY <2>1, <1>1, Yielded, MixedOK, Still, WireStands, Gathered DEF Yield
<1>3. CASE ~(l1[p][key] # Null)
  <2> DEFINE x == [op |-> "read", pc |-> "ask", proc |-> p, query |-> q, table |-> Null,
                   key |-> key, tags |-> tags, rows |-> Null, version |-> 0]
  <2>1. call' = [call EXCEPT ![c] = x] /\ UNCHANGED <<db, l1, l2, wire, settled, mixed>>
    BY <1>3 DEF Begin, Idle
  <2>2. x \in CallState
    BY DEF CallState
  <2>3. ReadFits(x, db) /\ DeleteFits(x, db)
    BY QueryCacheOK DEF ReadFits, DeleteFits, Reading, Deleting
  <2> QED
    <3> HIDE DEF x
    <3>1. x.op # "write"
      BY DEF x
    <3> QED
      BY <1>1, <2>1, <2>2, <2>3, <3>1, Started, Still, WireStands, Gathered
<1> QED
  BY <1>2, <1>3

LEMMA ReadsBegin ==
  ASSUME IInv, NEW c \in Calls, NEW p \in Procs, NEW q \in Queries, ResolvePlan(c, p, q) \/ Resolve(c, p, q)
  PROVE  IInv'
<1>1. TableOf[q] \in Tables /\ q \notin Tables /\ TableOf[q] \in Keys /\ q \in Keys
  BY QueryCacheOK DEF Keys
<1>2. CASE ResolvePlan(c, p, q)
  <2>1. PICK tags \in {{}, {TableOf[q]}} : Begin(c, p, q, TableOf[q], tags)
    BY <1>2 DEF ResolvePlan, PlanKey
  <2>2. tags \in SUBSET Tables
    BY <1>1
  <2> QED
    BY <1>1, <2>1, <2>2, BeginKeeps
<1>3. CASE Resolve(c, p, q)
  <2>1. {TableOf[q]} \in SUBSET Tables /\ Begin(c, p, q, q, {TableOf[q]})
    BY <1>1, <1>3 DEF Resolve
  <2> QED
    BY <1>1, <2>1, BeginKeeps
<1> QED
  BY <1>2, <1>3

LEMMA BypassKeeps ==
  ASSUME IInv, NEW c \in Calls, NEW q \in Queries, Bypass(c, q)
  PROVE  IInv'
<1> DEFINE x == [Idle EXCEPT !.op = "read", !.pc = "fetch", !.query = q]
<1>1. ~Active(c) /\ call' = [call EXCEPT ![c] = x] /\ UNCHANGED <<db, l1, l2, wire, settled, mixed>>
  BY DEF Bypass
<1>2. x \in CallState /\ x.op = "read" /\ x.pc = "fetch" /\ x.query = q /\ x.key = Null
  BY QueryCacheOK DEF Idle, CallState
<1> HIDE DEF x
<1>3. ReadFits(x, db) /\ DeleteFits(x, db)
  BY <1>2 DEF ReadFits, DeleteFits, Reading, Deleting
<1> QED
  BY <1>1, <1>2, <1>3, Started, Still, WireStands, Gathered

LEMMA InvalidateTagKeeps ==
  ASSUME IInv, NEW c \in Calls, NEW p \in Procs, NEW t \in Tables, InvalidateTag(c, p, t)
  PROVE  IInv'
<1> DEFINE x == [Idle EXCEPT !.op = "invalidateTag", !.pc = "drop", !.proc = p, !.table = t]
<1>1. ~Active(c) /\ call' = [call EXCEPT ![c] = x] /\ UNCHANGED <<db, l1, l2, wire, settled, mixed>>
  BY DEF InvalidateTag
<1>2. x \in CallState /\ x.op = "invalidateTag" /\ x.pc = "drop" /\ x.proc = p
  BY QueryCacheOK DEF Idle, CallState
<1> HIDE DEF x
<1>3. ReadFits(x, db) /\ DeleteFits(x, db)
  BY <1>2 DEF ReadFits, DeleteFits, Reading, Deleting
<1> QED
  BY <1>1, <1>2, <1>3, Started, Still, WireStands, Gathered

LEMMA DeleteKeeps ==
  ASSUME IInv, NEW c \in Calls, NEW p \in Procs, NEW k \in Keys, Delete(c, p, k)
  PROVE  IInv'
<1> DEFINE x == [Idle EXCEPT !.op = "delete", !.pc = "unshare", !.proc = p, !.key = k]
<1>1. /\ ~Active(c) /\ call' = [call EXCEPT ![c] = x] /\ UNCHANGED <<db, l2, wire, settled, mixed>>
      /\ l1' = [l1 EXCEPT ![p][k] = Null]
  BY DEF Delete
<1>2. x \in CallState /\ x.op = "delete" /\ x.pc = "unshare" /\ x.proc = p /\ x.key = k
  BY QueryCacheOK DEF Idle, CallState
<1> HIDE DEF x
<1>3. ReadFits(x, db) /\ DeleteFits(x, db)
  BY <1>2, QueryCacheOK DEF ReadFits, DeleteFits, Reading, Deleting
<1>4. L1Goes
  BY <1>1 DEF IInv, TypeOK, L1Goes
<1> QED
  BY <1>1, <1>2, <1>3, <1>4, Started, Still, WireStands, Gathered

LEMMA DropTaggedKeeps ==
  ASSUME IInv, NEW c \in Calls, DropTagged(c)
  PROVE  IInv'
<1>1. call[c].proc \in Procs
  BY DEF DropTagged, IInv, CallsFit, DeleteFits, Deleting
<1>2. L1Goes
  BY <1>1 DEF DropTagged, IInv, TypeOK, L1Goes
<1>3. CallsGo
  BY DEF DropTagged, IInv, TypeOK, CallsFit, CallsGo, SameWrite
<1>4. WireFits'
  BY DEF DropTagged, IInv, WireFits
<1> QED
  BY <1>2, <1>3, <1>4, Still, Gathered DEF DropTagged

(* What a read knows at each of its awaits.                                *)
LEMMA ReadCall ==
  ASSUME IInv, NEW c \in Calls, call[c].pc \in Reading
  PROVE  /\ call[c] \in CallState /\ call[c].op = "read" /\ call[c].query \in Queries
         /\ call[c].key # Null => (call[c].key \in Keys /\ call[c].proc \in Procs
                                   /\ (call[c].key \in Tables => TableOf[call[c].query] = call[c].key))
         /\ call[c].pc \in {"ask", "asked", "answered", "share"} => call[c].key # Null
         /\ call[c].pc \in {"fetched", "share"} =>
              (call[c].rows \in Rows /\ UpToDate(call[c].rows, db) /\ call[c].rows.query = call[c].query)
         /\ (call[c].pc = "answered" /\ call[c].rows # Null) =>
              (call[c].rows \in Rows /\ KeyFits(call[c].key, call[c].rows)
               /\ (call[c].key \in Tables => UpToDate(call[c].rows, db)))
<1>1. call[c] \in CallState
  BY DEF IInv, TypeOK
<1>2. call[c].key \in Keys \cup {Null} /\ call[c].rows \in Rows \cup {Null}
  BY <1>1 DEF CallState
<1>3. ReadFits(call[c], db)
  BY DEF IInv, CallsFit
<1> QED
  BY <1>1, <1>2, <1>3 DEF ReadFits

LEMMA AskL2Keeps ==
  ASSUME IInv, NEW c \in Calls, AskL2(c)
  PROVE  IInv'
<1> DEFINE p == call[c].proc  m == [op |-> "get", key |-> call[c].key, by |-> c]
<1>1. call[c].pc = "ask" /\ Go(c, "asked") /\ UNCHANGED <<db, l1, l2, settled, mixed>>
      /\ wire' = [wire EXCEPT ![p] = Append(@, m)]
  BY DEF AskL2
<1>2. p \in Procs /\ m \in Command /\ call[c].op = "read"
  BY <1>1, ReadCall DEF Command, Reading
<1>3. Alone(c) /\ call'[c].pc = "asked" /\ call'[c].op = "read" /\ call'[c].key = call[c].key /\ call'[c].proc = p
      /\ call'[c].query = call[c].query
  BY <1>1, <1>2, Gone
<1>4. CallsGo
  <2>1. ReadFits(call'[c], db)
    BY <1>1, <1>3, ReadCall DEF ReadFits, Reading
  <2>2. DeleteFits(call'[c], db)
    BY <1>3 DEF DeleteFits, Deleting
  <2> QED
    BY <1>2, <1>3, <2>1, <2>2, OneGoes DEF SameWrite
<1>5. Sent(m, p, call', db') /\ m.op = "get" /\ m.by = c
  BY <1>3 DEF Sent
<1> HIDE DEF m
<1>6. WireFits' /\ wire' \in [Procs -> Seq(Command)]
  BY <1>1, <1>2, <1>3, <1>5, WireGrows
<1> QED
  BY <1>1, <1>4, <1>6, Still, Gathered

LEMMA TakeFromL2Keeps ==
  ASSUME IInv, NEW c \in Calls, TakeFromL2(c)
  PROVE  IInv'
<1> DEFINE p == call[c].proc  e == Stored(p, call[c].rows, {})
<1>1. /\ call[c].pc = "answered" /\ call[c].rows # Null /\ l1' = [l1 EXCEPT ![p][call[c].key] = e]
      /\ Yield(c, call[c].query, call[c].rows) /\ UNCHANGED <<db, l2, wire, settled>>
  BY DEF TakeFromL2
<1>2. /\ call[c].op # "write" /\ p \in Procs /\ call[c].key \in Keys /\ e \in Entry
      /\ KeyFits(call[c].key, e.rows) /\ (call[c].key \in Tables => UpToDate(e.rows, db)) /\ e.tags = {}
  BY <1>1, ReadCall DEF Reading, Entry, Stored
<1> HIDE DEF e
<1>3. L1Goes
  <2>1. l1' \in [Procs -> [Keys -> Entry \cup {Null}]]
    BY <1>1, <1>2 DEF IInv, TypeOK
  <2>2. ASSUME NEW r \in Procs, NEW k \in Keys
        PROVE  l1'[r][k] = l1[r][k] \/ (k = call[c].key /\ l1'[r][k] = e)
    BY <1>1, <1>2 DEF IInv, TypeOK
  <2>3. Covered(call[c].key, e) => UpToDate(e.rows, db)
    BY <1>2 DEF Covered, Tagged
  <2> QED
    BY <1>2, <2>1, <2>2, <2>3 DEF L1Goes
<1>4. Alone(c) /\ CallsGo
  BY <1>1, <1>2, Yielded DEF Yield
<1>5. WireFits' /\ mixed' \in BOOLEAN
  BY <1>1, <1>4, WireStands, MixedOK DEF Yield
<1> QED
  BY <1>1, <1>3, <1>4, <1>5, Still, Gathered

LEMMA FetchKeeps ==
  ASSUME IInv, NEW c \in Calls, Fetch(c)
  PROVE  IInv'
<1> DEFINE q == call[c].query  rows == [query |-> q, version |-> db[TableOf[q]], raced |-> FALSE]
           x == [call[c] EXCEPT !.pc = "fetched", !.rows = rows]
<1>1. /\ call[c].pc \in {"fetch", "answered"} /\ UNCHANGED <<db, l1, l2, wire, settled, mixed>>
      /\ call' = [call EXCEPT ![c].pc = "fetched", ![c].rows = rows]
  BY DEF Fetch
<1>2. /\ call[c] \in CallState /\ call[c].op = "read" /\ q \in Queries /\ TableOf[q] \in Tables
      /\ call[c].key # Null => (call[c].proc \in Procs /\ (call[c].key \in Tables => TableOf[q] = call[c].key))
  BY <1>1, ReadCall, QueryCacheOK DEF Reading
<1>3. rows \in Rows /\ UpToDate(rows, db) /\ rows.query = q
  <2>1. db[TableOf[q]] \in Nat
    BY <1>2, Versions
  <2> QED
    BY <1>2, <2>1 DEF Rows, UpToDate, AsNew
<1>4. rows # Null
  BY <1>3, QueryCacheOK
<1> HIDE DEF rows
<1>5. x \in CallState
  BY <1>2, <1>3 DEF CallState
<1>6. /\ x.pc = "fetched" /\ x.op = "read" /\ x.query = q /\ x.key = call[c].key
      /\ x.proc = call[c].proc /\ x.rows = rows
  BY <1>2 DEF CallState
<1>7. call' = [call EXCEPT ![c] = x]
  BY <1>1 DEF IInv, TypeOK
<1> HIDE DEF x
<1>8. Alone(c) /\ call'[c] = x
  BY <1>5, <1>7 DEF IInv, TypeOK, Alone
<1>9. CallsGo
  <2>1. ReadFits(x, db)
    BY <1>2, <1>3, <1>4, <1>6 DEF ReadFits, Reading
  <2>2. DeleteFits(x, db)
    BY <1>6 DEF DeleteFits, Deleting
  <2> QED
    BY <1>2, <1>6, <1>8, <2>1, <2>2, OneGoes DEF SameWrite
<1>10. WireFits'
  BY <1>1, <1>8, WireStands
<1> QED
  BY <1>1, <1>9, <1>10, Still, Gathered

LEMMA FillKeeps ==
  ASSUME IInv, NEW c \in Calls, Fill(c)
  PROVE  IInv'
<1> DEFINE p == call[c].proc
<1>1. call[c].pc = "fetched" /\ UNCHANGED <<db, l2, wire, settled>>
  BY DEF Fill
<1>2. /\ call[c] \in CallState /\ call[c].op = "read" /\ call[c].query \in Queries
      /\ call[c].key # Null => (call[c].key \in Keys /\ p \in Procs
                                /\ (call[c].key \in Tables => TableOf[call[c].query] = call[c].key))
      /\ call[c].rows \in Rows /\ UpToDate(call[c].rows, db) /\ call[c].rows.query = call[c].query
  BY <1>1, ReadCall DEF Reading
<1>3. CASE call[c].key = Null
  <2>1. UNCHANGED l1 /\ Yield(c, call[c].query, call[c].rows)
    BY <1>3 DEF Fill
  <2> QED
    BY <1>1, <1>2, <2>1, Yielded, MixedOK, Still, WireStands, Gathered DEF Yield
<1>4. CASE call[c].key # Null
  <2> DEFINE e == Stored(p, call[c].rows, call[c].tags)
             x == [call[c] EXCEPT !.pc = "share", !.tags = {}]
  <2>1. /\ l1' = [l1 EXCEPT ![p][call[c].key] = e] /\ UNCHANGED mixed
        /\ call' = [call EXCEPT ![c].pc = "share", ![c].tags = {}]
    BY <1>4 DEF Fill
  <2>2. e \in Entry /\ e.rows = call[c].rows
    BY <1>2 DEF Entry, CallState, Stored
  <2>3. /\ x \in CallState /\ x.pc = "share" /\ x.op = "read" /\ x.query = call[c].query /\ x.key = call[c].key
        /\ x.proc = p /\ x.rows = call[c].rows
    BY <1>2 DEF CallState
  <2>4. call' = [call EXCEPT ![c] = x]
    BY <2>1 DEF IInv, TypeOK
  <2> HIDE DEF e, x
  <2>5. L1Goes
    <3>1. l1' \in [Procs -> [Keys -> Entry \cup {Null}]]
      BY <1>2, <1>4, <2>1, <2>2 DEF IInv, TypeOK
    <3>2. ASSUME NEW r \in Procs, NEW k \in Keys
          PROVE  l1'[r][k] = l1[r][k] \/ (k = call[c].key /\ l1'[r][k] = e)
      BY <1>2, <1>4, <2>1 DEF IInv, TypeOK
    <3>3. KeyFits(call[c].key, e.rows) /\ UpToDate(e.rows, db)
      BY <1>2, <1>4, <2>2 DEF KeyFits
    <3> QED
      BY <3>1, <3>2, <3>3 DEF L1Goes
  <2>6. Alone(c) /\ call'[c] = x
    BY <2>3, <2>4 DEF IInv, TypeOK, Alone
  <2>7. CallsGo
    <3>1. x.rows # Null
      BY <1>2, <2>3, QueryCacheOK
    <3>2. ReadFits(x, db)
      BY <1>2, <1>4, <2>3, <3>1 DEF ReadFits, Reading
    <3>3. DeleteFits(x, db)
      BY <2>3 DEF DeleteFits, Deleting
    <3> QED
      BY <1>2, <2>3, <2>6, <3>2, <3>3, OneGoes DEF SameWrite
  <2>8. WireFits'
    BY <1>1, <2>6, WireStands
  <2> QED
    BY <1>1, <2>1, <2>5, <2>7, <2>8, Still, Gathered
<1> QED
  BY <1>3, <1>4

LEMMA ShareKeeps ==
  ASSUME IInv, NEW c \in Calls, Share(c)
  PROVE  IInv'
<1> DEFINE p == call[c].proc  m == [op |-> "set", key |-> call[c].key, rows |-> call[c].rows]
<1>1. /\ call[c].pc = "share" /\ wire' = [wire EXCEPT ![p] = Append(@, m)]
      /\ Yield(c, call[c].query, call[c].rows) /\ UNCHANGED <<db, l1, l2, settled>>
  BY DEF Share
<1>2. /\ call[c].op = "read" /\ p \in Procs /\ call[c].key \in Keys /\ call[c].rows \in Rows
      /\ (call[c].key \in Tables => TableOf[call[c].query] = call[c].key)
      /\ UpToDate(call[c].rows, db) /\ call[c].rows.query = call[c].query
  BY <1>1, ReadCall DEF Reading
<1>3. m \in Command /\ m.op = "set" /\ m.key = call[c].key /\ m.rows = call[c].rows
  BY <1>2 DEF Command
<1> HIDE DEF m
<1>4. Sent(m, p, call', db')
  BY <1>1, <1>2, <1>3 DEF Sent, KeyFits
<1>5. Alone(c) /\ CallsGo
  BY <1>1, <1>2, Yielded DEF Yield
<1>6. WireFits' /\ wire' \in [Procs -> Seq(Command)]
  BY <1>1, <1>2, <1>3, <1>4, <1>5, WireGrows
<1>7. mixed' \in BOOLEAN
  BY <1>1, MixedOK DEF Yield
<1> QED
  BY <1>1, <1>5, <1>6, <1>7, Still, Gathered

(* What a deleting call knows at each of its awaits.                       *)
LEMMA DeletingCall ==
  ASSUME IInv, NEW c \in Calls, call[c].pc \in Deleting
  PROVE  /\ call[c] \in CallState /\ call[c].op # "idle" /\ call[c].proc \in Procs
         /\ call[c].op = "write" => (call[c].table \in Tables /\ call[c].key = call[c].table /\ call[c].key \in Keys
                                     /\ call[c].version <= db[call[c].table])
         /\ call[c].pc \in {"unshare", "unsharing"} => call[c].key \in Keys
         /\ call[c].pc = "delete" => call[c].op = "write"
<1>1. call[c] \in CallState
  BY DEF IInv, TypeOK
<1>2. call[c].key \in Keys \cup {Null}
  BY <1>1 DEF CallState
<1>3. DeleteFits(call[c], db)
  BY DEF IInv, CallsFit
<1> QED
  BY <1>1, <1>2, <1>3 DEF DeleteFits, Keys, Deleting

\* A deleting call that leaves L1 and the rest alone goes on.
LEMMA GoesOn ==
  ASSUME IInv, NEW c \in Calls, NEW pc \in {"drop", "delete", "done"}, Go(c, pc),
         call[c].pc \in {"written", "drop"}, pc = "delete" => call[c].op = "write",
         pc = "done" => call[c].op # "write", UNCHANGED <<db, l1, l2, wire, settled, mixed>>,
         call[c].op = "write" => DroppedAll(call[c], call'[c])
  PROVE  IInv'
<1> DEFINE p == call[c].proc  t == call[c].table
<1>1. /\ p \in Procs /\ call[c].op # "idle"
      /\ call[c].op = "write" => (t \in Tables /\ call[c].key = t /\ call[c].version <= db[t])
  BY DeletingCall DEF Deleting
<1>2. /\ Alone(c) /\ call'[c].pc = pc /\ call'[c].op = call[c].op /\ call'[c].proc = p
      /\ call'[c].table = t /\ call'[c].key = call[c].key /\ call'[c].version = call[c].version
  BY Gone
<1>3. ReadFits(call'[c], db)
  BY <1>2 DEF ReadFits, Reading
<1>4. DeleteFits(call'[c], db)
  BY <1>1, <1>2 DEF DeleteFits, Deleting
<1>5. CallsGo
  BY <1>2, <1>3, <1>4, OneGoes DEF SameWrite
<1>6. WireFits'
  BY <1>2, WireStands
<1> QED
  BY <1>5, <1>6, Still, Gathered

LEMMA InvalidateAfterWriteKeeps ==
  ASSUME IInv, NEW c \in Calls, InvalidateAfterWrite(c)
  PROVE  IInv'
<1>1. /\ call[c].pc = "written" /\ Go(c, "drop") /\ UNCHANGED <<db, l1, l2, wire, settled, mixed>>
  BY DEF InvalidateAfterWrite
<1>2. call'[c].pc = "drop"
  BY <1>1, Gone
<1>3. DroppedAll(call[c], call'[c])
  BY <1>1, <1>2 DEF DroppedAll, Cleared
<1> QED
  BY <1>1, <1>3, GoesOn

LEMMA TagDroppedKeeps ==
  ASSUME IInv, NEW c \in Calls, TagDropped(c)
  PROVE  IInv'
<1> DEFINE p == call[c].proc  t == call[c].table  pc == IF call[c].op = "write" THEN "delete" ELSE "done"
<1>1. /\ call[c].pc = "drop" /\ Go(c, pc) /\ UNCHANGED <<db, l1, l2, wire, settled, mixed>>
      /\ Led(p, t) = {}
  BY DEF TagDropped
<1>2. /\ pc \in {"drop", "delete", "done"}
      /\ pc = "delete" => call[c].op = "write"
      /\ pc = "done" => call[c].op # "write"
      /\ call[c].op = "write" => pc = "delete"
  OBVIOUS
<1>0. pc \in {"idle", "ask", "asked", "answered", "fetch", "fetched", "share", "written", "drop",
              "delete", "unshare", "unsharing", "done"}
  OBVIOUS
<1> HIDE DEF pc
<1>3. call'[c].pc = pc /\ call'[c].proc = p /\ call'[c].table = t
  BY <1>1, <1>0, Gone
<1>4. ASSUME call[c].op = "write" PROVE DroppedAll(call[c], call'[c])
  <2> SUFFICES ASSUME NEW k \in Keys, l1'[p][k] # Null, Cleared(pc, k, l1'[p][k])
               PROVE  TableOf[l1'[p][k].rows.query] # t
    BY <1>3 DEF DroppedAll
  <2>1. pc = "delete" /\ l1' = l1
    BY <1>1, <1>2, <1>4
  <2>2. Tagged(l1[p][k])
    BY <2>1 DEF Cleared
  <2>3. k \notin Led(p, t)
    BY <1>1
  <2> QED
    BY <2>1, <2>2, <2>3 DEF Led, Tagged
<1>5. call[c].op = "write" => DroppedAll(call[c], call'[c])
  BY <1>4
<1> QED
  BY <1>1, <1>2, <1>5, GoesOn

LEMMA DeleteKeyKeeps ==
  ASSUME IInv, NEW c \in Calls, DeleteKey(c)
  PROVE  IInv'
<1> DEFINE p == call[c].proc  t == call[c].table
<1>1. call[c].pc = "delete" /\ Go(c, "unshare") /\ UNCHANGED <<db, l2, wire, settled, mixed>>
  BY DEF DeleteKey
<1>2. /\ p \in Procs /\ call[c].op = "write"
      /\ t \in Tables /\ call[c].key = t /\ t \in Keys /\ call[c].version <= db[t]
  BY <1>1, DeletingCall DEF Deleting
<1>3. l1' = [l1 EXCEPT ![p][t] = Null]
  BY <1>2 DEF DeleteKey
<1>4. /\ Alone(c) /\ call'[c].pc = "unshare" /\ call'[c].op = "write" /\ call'[c].proc = p
      /\ call'[c].table = t /\ call'[c].key = t /\ call'[c].version = call[c].version
  BY <1>1, <1>2, Gone
<1>5. L1Goes
  BY <1>2, <1>3 DEF IInv, TypeOK, L1Goes
<1>6. DroppedAll(call[c], call'[c])
  <2> SUFFICES ASSUME NEW k \in Keys, l1'[p][k] # Null, k \in Tables
               PROVE  TableOf[l1'[p][k].rows.query] # t
    BY <1>1, <1>4 DEF DroppedAll, Cleared
  <2>1. k # t /\ l1'[p][k] = l1[p][k]
    BY <1>2, <1>3 DEF IInv, TypeOK
  <2>2. KeyFits(k, l1[p][k].rows)
    BY <1>2, <2>1 DEF IInv, CachesFit
  <2> QED
    BY <2>1, <2>2 DEF KeyFits
<1>7. CallsGo
  <2>1. ReadFits(call'[c], db)
    BY <1>4 DEF ReadFits, Reading
  <2>2. DeleteFits(call'[c], db)
    BY <1>2, <1>4, QueryCacheOK DEF DeleteFits, Deleting
  <2> QED
    BY <1>2, <1>4, <1>6, <2>1, <2>2, OneGoes DEF SameWrite
<1>8. WireFits'
  BY <1>1, <1>4, WireStands
<1> QED
  BY <1>1, <1>5, <1>7, <1>8, Still, Gathered

LEMMA UnshareKeeps ==
  ASSUME IInv, NEW c \in Calls, Unshare(c)
  PROVE  IInv'
<1> DEFINE p == call[c].proc  m == [op |-> "del", key |-> call[c].key, by |-> c]
<1>1. call[c].pc = "unshare" /\ Go(c, "unsharing") /\ UNCHANGED <<db, l1, l2, settled, mixed>>
      /\ wire' = [wire EXCEPT ![p] = Append(@, m)]
  BY DEF Unshare
<1>2. /\ p \in Procs /\ call[c].op # "idle" /\ call[c].key \in Keys
      /\ call[c].op = "write" => (call[c].table \in Tables /\ call[c].key = call[c].table
                                  /\ call[c].version <= db[call[c].table])
  BY <1>1, DeletingCall DEF Deleting
<1>3. m \in Command /\ m.op = "del" /\ m.by = c /\ m.key = call[c].key
  BY <1>2 DEF Command
<1> HIDE DEF m
<1>4. /\ Alone(c) /\ call'[c].pc = "unsharing" /\ call'[c].op = call[c].op /\ call'[c].key = call[c].key
      /\ call'[c].proc = p /\ call'[c].table = call[c].table /\ call'[c].version = call[c].version
  BY <1>1, Gone
<1>5. CallsGo
  <2>1. ReadFits(call'[c], db)
    BY <1>4 DEF ReadFits, Reading
  <2>2. DeleteFits(call'[c], db)
    BY <1>2, <1>4, QueryCacheOK DEF DeleteFits, Deleting
  <2>3. DroppedAll(call[c], call'[c])
    BY <1>1, <1>4 DEF DroppedAll, Cleared
  <2> QED
    BY <1>1, <1>4, <2>1, <2>2, <2>3, OneGoes DEF SameWrite
<1>6. Sent(m, p, call', db')
  BY <1>3, <1>4 DEF Sent
<1>7. WireFits' /\ wire' \in [Procs -> Seq(Command)]
  BY <1>1, <1>2, <1>3, <1>4, <1>6, WireGrows
<1> QED
  BY <1>1, <1>5, <1>7, Still, Gathered

(* What L2 hands out under a plan's key is as new as the table, or marked  *)
(* as overtaken by a write that is still being invalidated.                *)
LEMMA Handed ==
  ASSUME IInv, NEW k \in Keys, l2[k] # Null
  PROVE  /\ HandedOut(k) \in Rows /\ HandedOut(k) # Null /\ KeyFits(k, HandedOut(k))
         /\ k \in Tables => UpToDate(HandedOut(k), db)
<1>1. l2[k] \in Rows /\ KeyFits(k, l2[k]) /\ TableOf[l2[k].query] \in Tables
  BY Versions DEF IInv, TypeOK, CachesFit
<1>2. CASE Invalidating(TableOf[l2[k].query])
  <2> DEFINE y == [l2[k] EXCEPT !.raced = TRUE]
  <2>1. HandedOut(k) = y
    BY <1>2 DEF HandedOut
  <2>2. y \in Rows /\ y.query = l2[k].query /\ y.raced
    BY <1>1 DEF Rows
  <2> HIDE DEF y
  <2> QED
    BY <1>1, <2>1, <2>2, QueryCacheOK DEF KeyFits, UpToDate, AsNew
<1>3. CASE ~Invalidating(TableOf[l2[k].query])
  <2>1. HandedOut(k) = l2[k]
    BY <1>3 DEF HandedOut
  <2>2. ASSUME k \in Tables
        PROVE  UpToDate(l2[k], db)
    <3>1. TableOf[l2[k].query] = k /\ l2[k].version \in Nat
      BY <1>1, <2>2, Versions DEF KeyFits
    <3>2. db[k] = 0 \/ \E p \in Procs : settled[p][k] = db[k]
      BY <1>3, <2>2, <3>1 DEF IInv, Pursued, Invalidating
    <3>3. \A p \in Procs : AsNew(l2[k], settled[p][k])
      BY <2>2, <3>1 DEF IInv, L2Fresh, FreshFor, AsNew
    <3> QED
      BY <3>1, <3>2, <3>3 DEF UpToDate, AsNew
  <2> QED
    BY <1>1, <2>1, <2>2
<1> QED
  BY <1>2, <1>3

LEMMA ServeKeeps ==
  ASSUME IInv, NEW p \in Procs, Serve(p)
  PROVE  IInv'
<1> DEFINE m == Head(wire[p])
<1>1. /\ wire[p] # <<>> /\ wire' = [wire EXCEPT ![p] = Tail(@)] /\ UNCHANGED <<db, l1, settled, mixed>>
  BY DEF Serve
<1>2. PICK ok \in BOOLEAN : ServeGet(m, ok) \/ ServeSet(m, ok) \/ ServeDel(m, ok)
  BY DEF Serve
<1>3. m \in Command /\ Sent(m, p, call, db)
  <2>1. wire[p] \in Seq(Command)
    BY DEF IInv, TypeOK
  <2>2. m \in Command /\ 1 \in 1 .. Len(wire[p]) /\ m = wire[p][1]
    BY <1>1, <2>1, Shifted
  <2> QED
    BY <2>2 DEF IInv, WireFits
<1>4. m.key \in Keys /\ (m.op # "set" => m.by \in Calls) /\ (m.op = "set" => m.rows \in Rows)
  BY <1>3 DEF Command
<1> HIDE DEF m
<1>5. CASE ServeGet(m, ok)
  <2> DEFINE c == m.by  rows == IF ok THEN HandedOut(m.key) ELSE Null
             x == [call[c] EXCEPT !.pc = "answered", !.rows = rows]
  <2>1. m.op = "get" /\ UNCHANGED l2 /\ call' = [call EXCEPT ![c].pc = "answered", ![c].rows = rows]
    BY <1>5 DEF ServeGet
  <2>2. c \in Calls /\ call[c].pc = "asked" /\ call[c].key = m.key
    BY <1>3, <1>4, <2>1 DEF Sent
  <2>3. /\ call[c] \in CallState /\ call[c].op = "read" /\ call[c].query \in Queries /\ call[c].key # Null
        /\ call[c].proc \in Procs /\ (call[c].key \in Tables => TableOf[call[c].query] = call[c].key)
    BY <2>2, ReadCall DEF Reading
  <2>4. /\ rows \in Rows \cup {Null}
        /\ rows # Null => (KeyFits(m.key, rows) /\ (m.key \in Tables => UpToDate(rows, db)))
    <3>1. CASE ok /\ l2[m.key] # Null
      BY <1>4, <3>1, Handed
    <3>2. CASE ok /\ l2[m.key] = Null
      BY <3>2 DEF HandedOut
    <3>3. CASE ~ok
      BY <3>3
    <3> QED
      BY <3>1, <3>2, <3>3
  <2> HIDE DEF rows
  <2>5. /\ x \in CallState /\ x.pc = "answered" /\ x.op = "read" /\ x.query = call[c].query
        /\ x.key = call[c].key /\ x.proc = call[c].proc /\ x.rows = rows
    BY <2>3, <2>4 DEF CallState
  <2>6. call' = [call EXCEPT ![c] = x]
    BY <2>1, <2>2 DEF IInv, TypeOK
  <2> HIDE DEF x
  <2>7. Alone(c) /\ call'[c] = x
    BY <2>2, <2>5, <2>6 DEF IInv, TypeOK, Alone
  <2>8. CallsGo
    <3>1. ReadFits(x, db)
      BY <2>2, <2>3, <2>4, <2>5 DEF ReadFits, Reading
    <3>2. DeleteFits(x, db)
      BY <2>5 DEF DeleteFits, Deleting
    <3> QED
      BY <2>2, <2>3, <2>5, <2>7, <3>1, <3>2, OneGoes DEF SameWrite
  <2>9. WireFits' /\ wire' \in [Procs -> Seq(Command)]
    <3>1. \A d \in Calls : (m.op = "set" \/ d # m.by) => call'[d] = call[d]
      BY <2>1, <2>7 DEF Alone
    <3>2. call' \in [Calls -> CallState]
      BY <2>7 DEF Alone
    <3> QED
      BY <1>1, <3>1, <3>2, WireShrinks DEF m
  <2> QED
    BY <1>1, <2>1, <2>8, <2>9, Still, Gathered
<1>6. CASE ServeSet(m, ok)
  <2>1. m.op = "set" /\ UNCHANGED call /\ l2' = IF ok THEN [l2 EXCEPT ![m.key] = m.rows] ELSE l2
    BY <1>6 DEF ServeSet
  <2>2. KeyFits(m.key, m.rows) /\ UpToDate(m.rows, db) /\ m.rows \in Rows
    BY <1>3, <1>4, <2>1 DEF Sent
  <2>3. L2Goes
    BY <1>4, <2>1, <2>2 DEF IInv, TypeOK, L2Goes
  <2>4. CallsGo
    BY <2>1 DEF IInv, TypeOK, CallsFit, CallsGo, SameWrite
  <2>5. WireFits' /\ wire' \in [Procs -> Seq(Command)]
    BY <1>1, <2>1, <2>4, WireShrinks DEF CallsGo
  <2> QED
    BY <1>1, <2>3, <2>4, <2>5, Still, Gathered
<1>7. CASE ServeDel(m, ok)
  <2> DEFINE c == m.by  left == IF ok \/ l2[m.key] = Null THEN Null ELSE [l2[m.key] EXCEPT !.raced = TRUE]
  <2>1. m.op = "del" /\ l2' = [l2 EXCEPT ![m.key] = left] /\ Go(c, "done")
    BY <1>7 DEF ServeDel
  <2>2. c \in Calls /\ call[c].pc = "unsharing" /\ call[c].key = m.key
    BY <1>3, <1>4, <2>1 DEF Sent
  <2>3. /\ call[c].op # "idle" /\ call[c].proc \in Procs
        /\ call[c].op = "write" => (call[c].table \in Tables /\ call[c].key = call[c].table
                                    /\ call[c].version <= db[call[c].table])
    BY <2>2, DeletingCall DEF Deleting
  <2>4. left = Null \/ (left \in Rows /\ left.raced /\ KeyFits(m.key, left))
    <3>1. CASE l2[m.key] # Null
      <4> DEFINE y == [l2[m.key] EXCEPT !.raced = TRUE]
      <4>1. l2[m.key] \in Rows /\ KeyFits(m.key, l2[m.key])
        BY <1>4, <3>1 DEF IInv, TypeOK, CachesFit
      <4>2. y \in Rows /\ y.raced /\ y.query = l2[m.key].query
        BY <4>1 DEF Rows
      <4> HIDE DEF y
      <4>3. y \in Rows /\ y.raced /\ KeyFits(m.key, y)
        BY <4>1, <4>2 DEF KeyFits
      <4> QED
        BY <4>3 DEF y
    <3> QED
      BY <3>1
  <2> HIDE DEF left
  <2>5. L2Goes
    BY <1>4, <2>1, <2>4 DEF IInv, TypeOK, L2Goes, UpToDate, AsNew
  <2>6. /\ Alone(c) /\ call'[c].pc = "done" /\ call'[c].op = call[c].op /\ call'[c].proc = call[c].proc
        /\ call'[c].key = call[c].key /\ call'[c].table = call[c].table /\ call'[c].version = call[c].version
    BY <2>1, <2>2, Gone
  <2>7. call[c].op = "write" => DeletedAll(call'[c])
    <3>1. l2'[m.key] = left
      BY <1>4, <2>1 DEF IInv, TypeOK
    <3> QED
      BY <2>2, <2>3, <2>4, <2>6, <3>1 DEF DeletedAll
  <2>8. CallsGo
    <3>1. ReadFits(call'[c], db)
      BY <2>6 DEF ReadFits, Reading
    <3>2. DeleteFits(call'[c], db)
      BY <2>3, <2>6 DEF DeleteFits, Deleting
    <3>3. DroppedAll(call[c], call'[c])
      BY <2>2, <2>6 DEF DroppedAll, Cleared
    <3> QED
      BY <2>2, <2>6, <2>7, <3>1, <3>2, <3>3, OneGoes DEF SameWrite
  <2>9. WireFits' /\ wire' \in [Procs -> Seq(Command)]
    <3>1. \A d \in Calls : (m.op = "set" \/ d # m.by) => call'[d] = call[d]
      BY <2>1, <2>6 DEF Alone
    <3>2. call' \in [Calls -> CallState]
      BY <2>6 DEF Alone
    <3> QED
      BY <1>1, <3>1, <3>2, WireShrinks DEF m
  <2> QED
    BY <1>1, <2>5, <2>8, <2>9, Still, Gathered
<1> QED
  BY <1>2, <1>5, <1>6, <1>7

LEMMA ReturnKeeps ==
  ASSUME IInv, NEW c \in Calls, Return(c)
  PROVE  IInv'
<1> DEFINE p == call[c].proc  t == call[c].table
<1>1. /\ call[c].pc = "done" /\ call' = [call EXCEPT ![c] = Idle] /\ UNCHANGED <<db, l1, l2, wire, mixed>>
  BY DEF Return
<1>2. /\ p \in Procs /\ call[c].version \in Nat
      /\ call[c].op = "write" => (t \in Tables /\ call[c].version <= db[t])
  BY <1>1, DeletingCall DEF Deleting, CallState
<1>3. Alone(c) /\ call'[c] = Idle
  BY <1>1, IdleCall DEF IInv, TypeOK, Alone
\* Every floor under a table's rows is the one it was, or the write's.
<1>4. /\ settled' \in [Procs -> [Tables -> Nat]]
      /\ \A r \in Procs, u \in Tables :
           \/ settled'[r][u] = settled[r][u]
           \/ r = p /\ u = t /\ call[c].op = "write" /\ settled'[r][u] = call[c].version
  <2>1. CASE UNCHANGED settled
    BY <2>1 DEF IInv, TypeOK
  <2>2. CASE call[c].op = "write" /\ settled' = [settled EXCEPT ![p][t] = call[c].version]
    BY <1>2, <2>2 DEF IInv, TypeOK
  <2> QED
    BY <2>1, <2>2 DEF Return
<1>5. TypeOK'
  BY <1>1, <1>3, <1>4 DEF IInv, TypeOK, Alone
<1>6. CallsFit'
  <2>1. ReadFits(Idle, db) /\ DeleteFits(Idle, db)
    BY IdleCall DEF ReadFits, DeleteFits, Reading, Deleting
  <2> QED
    BY <1>1, <1>3, <2>1 DEF IInv, CallsFit, Alone
<1>7. WireFits'
  BY <1>1, <1>3, WireStands
<1>8. CachesFit' /\ Known'
  BY <1>1, <1>2, <1>4 DEF IInv, CachesFit, Known
<1>9. Pursued'
  <2> SUFFICES ASSUME NEW u \in Tables, db[u] # 0
               PROVE  \/ \E r \in Procs : settled'[r][u] = db[u]
                      \/ \E d \in Calls : call'[d].op = "write" /\ call'[d].table = u /\ call'[d].version = db[u]
    BY <1>1 DEF Pursued
  <2>1. CASE \E r \in Procs : settled[r][u] = db[u]
    <3>1. PICK r \in Procs : settled[r][u] = db[u]
      BY <2>1
    <3>2. settled'[r][u] = settled[r][u] \/ (call[c].op = "write" /\ settled'[r][u] > settled[r][u])
      <4>1. CASE UNCHANGED settled
        BY <4>1
      <4>2. CASE /\ call[c].op = "write" /\ call[c].version > settled[p][t]
                 /\ settled' = [settled EXCEPT ![p][t] = call[c].version]
        BY <1>2, <4>2 DEF IInv, TypeOK
      <4> QED
        BY <4>1, <4>2 DEF Return
    <3>3. settled'[r][u] \in Nat /\ settled[r][u] \in Nat /\ settled'[r][u] <= db[u] /\ db[u] \in Nat
      BY <1>1, <1>4, <1>8, Versions DEF Known
    <3> QED
      BY <3>1, <3>2, <3>3
  <2>2. CASE \E d \in Calls : call[d].op = "write" /\ call[d].table = u /\ call[d].version = db[u]
    <3>1. PICK d \in Calls : call[d].op = "write" /\ call[d].table = u /\ call[d].version = db[u]
      BY <2>2
    <3>2. CASE d # c
      BY <1>3, <3>1, <3>2 DEF Alone
    <3>3. CASE d = c
      <4>1. /\ call[c].version > settled[p][u] => settled' = [settled EXCEPT ![p][u] = db[u]]
            /\ ~(call[c].version > settled[p][u]) => settled' = settled
        BY <3>1, <3>3 DEF Return
      <4>2. settled[p][u] \in Nat /\ settled[p][u] <= db[u] /\ db[u] \in Nat
        BY <1>2, Versions
      <4>3. settled'[p][u] = db[u]
        <5>1. CASE call[c].version > settled[p][u]
          BY <1>2, <4>1, <5>1 DEF IInv, TypeOK
        <5>2. CASE ~(call[c].version > settled[p][u])
          BY <3>1, <3>3, <4>1, <4>2, <5>2
        <5> QED
          BY <5>1, <5>2
      <4> QED
        BY <1>2, <4>3
    <3> QED
      BY <3>2, <3>3
  <2> QED
    BY <2>1, <2>2 DEF IInv, Pursued
<1>10. L1Kept' /\ L2Kept'
  <2>1. ASSUME NEW d \in Calls, call'[d].op = "write"
        PROVE  d # c /\ call'[d] = call[d]
    BY <1>3, <2>1, IdleCall DEF Alone
  <2>2. L1Kept'
    BY <1>1, <2>1 DEF IInv, L1Kept
  <2>3. L2Kept'
    BY <1>1, <2>1 DEF IInv, L2Kept
  <2> QED
    BY <2>2, <2>3
<1>11. L1Fresh'
  <2> SUFFICES ASSUME NEW r \in Procs, NEW k \in Keys, l1[r][k] # Null, Covered(k, l1[r][k])
               PROVE  AsNew(l1[r][k].rows, settled'[r][TableOf[l1[r][k].rows.query]])
    BY <1>1 DEF L1Fresh, FreshFor, AsNew, Covered, Tagged
  <2> DEFINE u == TableOf[l1[r][k].rows.query]
  <2>1. u \in Tables
    BY Versions DEF IInv, TypeOK, Entry
  <2>2. AsNew(l1[r][k].rows, settled[r][u])
    BY DEF IInv, L1Fresh, FreshFor, AsNew, Covered, Tagged
  <2>3. ASSUME r = p, u = t, call[c].op = "write"
        PROVE  AsNew(l1[r][k].rows, call[c].version)
    BY <1>1, <2>3 DEF IInv, L1Kept, Covered, Cleared
  <2> QED
    BY <1>4, <2>1, <2>2, <2>3
<1>12. L2Fresh'
  <2> SUFFICES ASSUME NEW r \in Procs, NEW u \in Tables, l2[u] # Null
               PROVE  AsNew(l2[u], settled'[r][TableOf[l2[u].query]])
    BY <1>1 DEF L2Fresh, FreshFor, AsNew
  <2>1. TableOf[l2[u].query] = u
    BY DEF IInv, CachesFit, KeyFits, Keys
  <2>2. AsNew(l2[u], settled[r][u])
    BY <2>1 DEF IInv, L2Fresh, FreshFor, AsNew
  <2>3. ASSUME u = t, call[c].op = "write"
        PROVE  AsNew(l2[u], call[c].version)
    BY <1>1, <2>3 DEF IInv, L2Kept
  <2> QED
    BY <1>4, <2>1, <2>2, <2>3
<1> QED
  BY <1>5, <1>6, <1>7, <1>8, <1>9, <1>10, <1>11, <1>12 DEF IInv

(* The rows in flight stay what they were, and those of the written table  *)
(* are marked: as new as their table they are again.                       *)
LEMMA RacedRows ==
  ASSUME NEW rows \in Rows, NEW t \in Tables, NEW old \in [Tables -> Nat], NEW new,
         new = [old EXCEPT ![t] = @ + 1], UpToDate(rows, old)
  PROVE  UpToDate(Raced(rows, t), new)
<1>1. rows # Null /\ TableOf[rows.query] \in Tables
  BY QueryCacheOK DEF Rows
<1>2. CASE TableOf[rows.query] = t
  <2> DEFINE y == [rows EXCEPT !.raced = TRUE]
  <2>1. Raced(rows, t) = y
    BY <1>1, <1>2 DEF Raced
  <2>2. y.raced
    BY DEF Rows
  <2> QED
    BY <2>1, <2>2 DEF UpToDate, AsNew
<1>3. CASE TableOf[rows.query] # t
  BY <1>1, <1>3 DEF Raced, UpToDate
<1> QED
  BY <1>2, <1>3

LEMMA RacedSame ==
  ASSUME NEW rows \in Rows \cup {Null}, NEW t \in Tables
  PROVE  /\ Raced(rows, t) \in Rows \cup {Null}
         /\ rows = Null <=> Raced(rows, t) = Null
         /\ rows # Null => Raced(rows, t).query = rows.query
<1>1. CASE rows = Null
  BY <1>1 DEF Raced
<1>2. CASE rows # Null
  <2> DEFINE y == [rows EXCEPT !.raced = TRUE]
  <2>1. y \in Rows /\ y.query = rows.query
    BY <1>2 DEF Rows
  <2>2. Raced(rows, t) \in {rows, y}
    BY DEF Raced
  <2> HIDE DEF y
  <2> QED
    BY <1>2, <2>1, <2>2, QueryCacheOK
<1> QED
  BY <1>1, <1>2

LEMMA WriteKeeps ==
  ASSUME IInv, NEW c \in Calls, NEW p \in Procs, NEW t \in Tables, Write(c, p, t)
  PROVE  IInv'
<1> DEFINE x == [Idle EXCEPT !.op = "write", !.pc = "written", !.proc = p, !.table = t, !.key = t,
                             !.version = db[t] + 1]
<1>1. /\ ~Active(c) /\ db' = [db EXCEPT ![t] = @ + 1] /\ UNCHANGED <<l1, l2, settled, mixed>>
      /\ call' = [RaceCalls(t) EXCEPT ![c] = x] /\ wire' = RaceWire(t)
  BY DEF Write
<1>2. db \in [Tables -> Nat] /\ db' \in [Tables -> Nat] /\ (\A u \in Tables : db[u] <= db'[u]) /\ db'[t] = db[t] + 1
  BY <1>1 DEF IInv, TypeOK
<1>3. x \in CallState
  BY <1>2, QueryCacheOK DEF Idle, CallState, Keys
<1>4. call[c].op = "idle" /\ call[c].pc = "idle"
  BY <1>1 DEF Active, IInv, CallsFit, DeleteFits
<1>5. /\ x.op = "write" /\ x.pc = "written" /\ x.proc = p /\ x.table = t /\ x.key = t /\ x.version = db[t] + 1
  BY DEF Idle
<1> HIDE DEF x
<1>6. ASSUME NEW d \in Calls, d # c
      PROVE  /\ call'[d] \in CallState /\ call'[d].op = call[d].op /\ call'[d].pc = call[d].pc
             /\ call'[d].proc = call[d].proc /\ call'[d].query = call[d].query
             /\ call'[d].table = call[d].table /\ call'[d].key = call[d].key
             /\ call'[d].version = call[d].version /\ call'[d].rows = Raced(call[d].rows, t)
  <2> DEFINE y == [call[d] EXCEPT !.rows = Raced(call[d].rows, t)]
  <2>1. call'[d] = y
    BY <1>1, <1>6 DEF RaceCalls
  <2>2. call[d] \in CallState
    BY DEF IInv, TypeOK
  <2>3. Raced(call[d].rows, t) \in Rows \cup {Null}
    BY <2>2, RacedSame DEF CallState
  <2>4. y \in CallState
    BY <2>2, <2>3 DEF CallState
  <2> QED
    BY <2>1, <2>2, <2>4 DEF CallState
<1>7. call'[c] = x /\ call' \in [Calls -> CallState]
  BY <1>1, <1>3, <1>6 DEF RaceCalls
<1>8. ASSUME NEW r \in Procs
      PROVE  /\ wire'[r] \in Seq(Command) /\ Len(wire'[r]) = Len(wire[r])
             /\ \A i \in 1 .. Len(wire[r]) :
                  /\ wire'[r][i].op = wire[r][i].op /\ wire'[r][i].key = wire[r][i].key
                  /\ wire[r][i].op = "set" => wire'[r][i].rows = Raced(wire[r][i].rows, t)
                  /\ wire[r][i].op # "set" => wire'[r][i].by = wire[r][i].by
  <2>1. wire[r] \in Seq(Command)
    BY DEF IInv, TypeOK
  <2>2. PICK g : g = [i \in 1 .. Len(wire[r]) |-> IF wire[r][i].op = "set"
                                                  THEN [wire[r][i] EXCEPT !.rows = Raced(@, t)] ELSE wire[r][i]]
    OBVIOUS
  <2>6. wire'[r] = g
    BY <1>1, <2>2 DEF RaceWire
  <2>3. ASSUME NEW i \in 1 .. Len(wire[r])
        PROVE  /\ g[i] \in Command /\ g[i].op = wire[r][i].op /\ g[i].key = wire[r][i].key
               /\ wire[r][i].op = "set" => g[i].rows = Raced(wire[r][i].rows, t)
               /\ wire[r][i].op # "set" => g[i].by = wire[r][i].by
    <3>1. wire[r][i] \in Command
      BY <2>1
    <3>2. CASE wire[r][i].op = "set"
      <4> DEFINE m == [wire[r][i] EXCEPT !.rows = Raced(wire[r][i].rows, t)]
      <4>1. g[i] = m
        BY <2>2, <3>2
      <4>2. wire[r][i] \in [op : {"set"}, key : Keys, rows : Rows]
        BY <3>1, <3>2 DEF Command
      <4>3. Raced(wire[r][i].rows, t) \in Rows
        BY <4>2, RacedSame, QueryCacheOK
      <4>4. m \in Command /\ m.op = "set" /\ m.key = wire[r][i].key /\ m.rows = Raced(wire[r][i].rows, t)
        BY <4>2, <4>3 DEF Command
      <4> QED
        BY <3>2, <4>1, <4>4
    <3>3. CASE wire[r][i].op # "set"
      BY <2>2, <3>1, <3>3
    <3> QED
      BY <3>2, <3>3
  <2>4. g \in [1 .. Len(wire[r]) -> Command] /\ Len(wire[r]) \in Nat
    <3>1. \A i \in 1 .. Len(wire[r]) : g[i] \in Command
      BY <2>3
    <3>2. Len(wire[r]) \in Nat
      BY <2>1
    <3>3. g = [i \in 1 .. Len(wire[r]) |-> g[i]]
      BY <2>2, Zenon
    <3>4. g \in [1 .. Len(wire[r]) -> Command]
      BY <3>1, <3>3, Zenon
    <3> QED
      BY <3>2, <3>4
  <2>5. g \in Seq(Command) /\ Len(g) = Len(wire[r])
    BY <2>4
  <2> QED
    BY <2>3, <2>5, <2>6
<1>9. wire' \in [Procs -> Seq(Command)]
  BY <1>1, <1>8 DEF RaceWire
<1>10. TypeOK'
  BY <1>1, <1>2, <1>7, <1>9 DEF IInv, TypeOK
<1>11. CallsFit'
  <2>1. ReadFits(call'[c], db') /\ DeleteFits(call'[c], db')
    BY <1>2, <1>5, <1>7 DEF ReadFits, DeleteFits, Reading, Deleting
  <2>2. ASSUME NEW d \in Calls, d # c
        PROVE  ReadFits(call'[d], db') /\ DeleteFits(call'[d], db')
    <3>1. ReadFits(call[d], db) /\ DeleteFits(call[d], db) /\ call[d] \in CallState
      BY DEF IInv, CallsFit, TypeOK
    <3>2. call[d].rows \in Rows \cup {Null} /\ call[d].version \in Nat
      BY <3>1 DEF CallState
    <3>3. /\ call[d].rows # Null => (call'[d].rows # Null /\ call'[d].rows.query = call[d].rows.query)
          /\ call'[d].rows # Null => call[d].rows # Null
      BY <1>6, <2>2, <3>2, RacedSame
    <3>4. (call[d].rows # Null /\ UpToDate(call[d].rows, db)) => UpToDate(call'[d].rows, db')
      <4>1. ASSUME call[d].rows # Null, UpToDate(call[d].rows, db)
            PROVE  UpToDate(Raced(call[d].rows, t), db')
        BY <1>1, <1>2, <3>2, <4>1, RacedRows
      <4> QED
        BY <1>6, <2>2, <4>1
    <3>5. ReadFits(call'[d], db')
      BY <1>6, <2>2, <3>1, <3>3, <3>4 DEF ReadFits, KeyFits
    <3>6. call[d].op = "write" => call[d].version <= db'[call[d].table]
      <4>1. call[d].op = "write" => (call[d].table \in Tables /\ call[d].version <= db[call[d].table])
        BY <3>1 DEF DeleteFits
      <4> QED
        BY <1>2, <3>2, <4>1
    <3>7. DeleteFits(call'[d], db')
      BY <1>6, <2>2, <3>1, <3>6 DEF DeleteFits
    <3> QED
      BY <3>5, <3>7
  <2> QED
    BY <2>1, <2>2 DEF CallsFit
<1>12. WireFits'
  <2> SUFFICES ASSUME NEW r \in Procs
               PROVE  /\ \A i \in 1 .. Len(wire[r]) : Sent(wire'[r][i], r, call', db')
                      /\ \A i, j \in 1 .. Len(wire[r]) : WaitedFor(wire'[r], i, j)
    BY <1>8 DEF WireFits
  <2>1. ASSUME NEW i \in 1 .. Len(wire[r])
        PROVE  Sent(wire'[r][i], r, call', db')
    <3>1. wire[r][i] \in Command /\ Sent(wire[r][i], r, call, db)
      BY DEF IInv, TypeOK, WireFits
    <3>2. CASE wire[r][i].op = "set"
      <4>1. wire[r][i].rows \in Rows /\ KeyFits(wire[r][i].key, wire[r][i].rows) /\ UpToDate(wire[r][i].rows, db)
        BY <3>1, <3>2 DEF Sent, Command
      <4>2. UpToDate(wire'[r][i].rows, db')
        <5>1. UpToDate(Raced(wire[r][i].rows, t), db')
          BY <1>1, <1>2, <4>1, RacedRows
        <5> QED
          BY <1>8, <3>2, <5>1
      <4>3. wire'[r][i].rows.query = wire[r][i].rows.query
        BY <1>8, <3>2, <4>1, RacedSame, QueryCacheOK
      <4> QED
        BY <1>8, <3>2, <4>1, <4>2, <4>3 DEF Sent, KeyFits
    <3>3. CASE wire[r][i].op # "set"
      <4>1. wire[r][i].by \in Calls /\ wire[r][i].by # c
        BY <1>4, <3>1, <3>3 DEF Sent, Command
      <4> QED
        BY <1>6, <1>8, <3>1, <3>3, <4>1 DEF Sent
    <3> QED
      BY <3>2, <3>3
  <2>2. ASSUME NEW i \in 1 .. Len(wire[r]), NEW j \in 1 .. Len(wire[r])
        PROVE  WaitedFor(wire'[r], i, j)
    <3>1. WaitedFor(wire[r], i, j)
      BY DEF IInv, WireFits
    <3> QED
      BY <1>8, <3>1 DEF WaitedFor
  <2> QED
    BY <2>1, <2>2
<1>13. CachesFit' /\ L1Fresh' /\ L2Fresh'
  BY <1>1 DEF IInv, CachesFit, L1Fresh, L2Fresh, FreshFor
<1>14. Known'
  <2> SUFFICES ASSUME NEW r \in Procs, NEW u \in Tables PROVE settled[r][u] <= db'[u]
    BY <1>1 DEF Known
  <2> QED
    BY <1>2, Versions
<1>15. Pursued'
  <2> SUFFICES ASSUME NEW u \in Tables
               PROVE  \/ db'[u] = 0
                      \/ \E r \in Procs : settled[r][u] = db'[u]
                      \/ \E d \in Calls : call'[d].op = "write" /\ call'[d].table = u /\ call'[d].version = db'[u]
    BY <1>1 DEF Pursued
  <2>1. CASE u = t
    BY <1>2, <1>5, <1>7, <2>1
  <2>2. CASE u # t
    <3>1. db'[u] = db[u]
      BY <1>1, <1>2, <2>2
    <3>2. ASSUME NEW d \in Calls, call[d].op = "write"
          PROVE  call'[d].op = "write" /\ call'[d].table = call[d].table /\ call'[d].version = call[d].version
      BY <1>4, <1>6, <3>2
    <3> QED
      BY <3>1, <3>2 DEF IInv, Pursued
  <2> QED
    BY <2>1, <2>2
<1>16. L1Kept' /\ L2Kept'
  <2>1. ASSUME NEW d \in Calls, call'[d].op = "write", call'[d].pc # "written"
        PROVE  /\ call[d].op = "write" /\ call[d].pc = call'[d].pc /\ call'[d].proc = call[d].proc
               /\ call'[d].table = call[d].table /\ call'[d].version = call[d].version
    BY <1>5, <1>6, <1>7, <2>1
  <2>2. L1Kept'
    BY <1>1, <2>1 DEF IInv, L1Kept, Cleared
  <2>3. L2Kept'
    BY <1>1, <2>1 DEF IInv, L2Kept
  <2> QED
    BY <2>2, <2>3
<1> QED
  BY <1>10, <1>11, <1>12, <1>13, <1>14, <1>15, <1>16 DEF IInv

-----------------------------------------------------------------------------
LEMMA InitKeeps == Init => IInv
<1> SUFFICES ASSUME Init PROVE IInv
  OBVIOUS
<1>1. TypeOK
  <2>1. <<>> \in Seq(Command)
    OBVIOUS
  <2> QED
    BY <2>1, IdleCall DEF Init, TypeOK
<1>2. CallsFit
  BY IdleCall DEF Init, CallsFit, ReadFits, DeleteFits, Reading, Deleting
<1>3. WireFits
  BY DEF Init, WireFits
<1>4. CachesFit /\ L1Fresh /\ L2Fresh
  BY DEF Init, CachesFit, L1Fresh, L2Fresh, Keys
<1>5. Known /\ Pursued
  BY DEF Init, Known, Pursued
<1>6. L1Kept /\ L2Kept
  BY IdleCall DEF Init, L1Kept, L2Kept
<1> QED
  BY <1>1, <1>2, <1>3, <1>4, <1>5, <1>6 DEF IInv

LEMMA NextKeeps == IInv /\ [Next]_vars => IInv'
<1> SUFFICES ASSUME IInv, [Next]_vars PROVE IInv'
  OBVIOUS
<1>1. CASE Forget
  BY <1>1, ForgetKeeps
<1>2. CASE \E c \in Calls, q \in Queries : Bypass(c, q)
  BY <1>2, BypassKeeps
<1>3. CASE \E c \in Calls, p \in Procs, q \in Queries : ResolvePlan(c, p, q) \/ Resolve(c, p, q)
  BY <1>3, ReadsBegin
<1>4. CASE \E c \in Calls, p \in Procs, t \in Tables : Write(c, p, t) \/ InvalidateTag(c, p, t)
  BY <1>4, WriteKeeps, InvalidateTagKeeps
<1>5. CASE \E c \in Calls, p \in Procs, k \in Keys : Delete(c, p, k)
  BY <1>5, DeleteKeeps
<1>6. CASE \E p \in Procs : Clear(p) \/ Serve(p)
  BY <1>6, ClearKeeps, ServeKeeps
<1>7. ASSUME NEW c \in Calls,
             \/ AskL2(c) \/ TakeFromL2(c) \/ Fetch(c) \/ Fill(c) \/ Share(c)
             \/ InvalidateAfterWrite(c) \/ DropTagged(c) \/ TagDropped(c)
             \/ DeleteKey(c) \/ Unshare(c) \/ Return(c)
      PROVE  IInv'
  BY <1>7, AskL2Keeps, TakeFromL2Keeps, FetchKeeps, FillKeeps, ShareKeeps, InvalidateAfterWriteKeeps,
     DropTaggedKeeps, TagDroppedKeeps, DeleteKeyKeeps, UnshareKeeps, ReturnKeeps
<1>8. CASE UNCHANGED vars
  BY <1>8 DEF vars, IInv, TypeOK, CallsFit, WireFits, CachesFit, Known, Pursued, L1Kept, L2Kept,
              L1Fresh, L2Fresh, FreshFor
<1> QED
  BY <1>1, <1>2, <1>3, <1>4, <1>5, <1>6, <1>7, <1>8 DEF Next

LEMMA Invariant == Spec => []IInv
BY InitKeeps, NextKeeps, PTL DEF Spec

(* The two-level cache keeps its types: bridge.ts and manager.ts.          *)
THEOREM QueryCacheTypeCorrect == Spec => []TypeOK
<1>1. IInv => TypeOK
  BY DEF IInv
<1> QED
  BY <1>1, Invariant, PTL

(* Once invalidateAfterWrite has returned in a process (bridge.ts:86-95),  *)
(* no entry of its L1 that the write takes away is older than the write,   *)
(* unless its rows were under way while the write was invalidated, or the  *)
(* entry was stored while an invalidation of its tag was under way.        *)
THEOREM WritesReachL1 == Spec => []L1Fresh
<1>1. IInv => L1Fresh
  BY DEF IInv
<1> QED
  BY <1>1, Invariant, PTL

(* Nor is what L2 holds under a plan's key, for the writes invalidated in  *)
(* any of the processes that share it, unless a delete failed.             *)
THEOREM WritesReachL2 == Spec => []L2Fresh
<1>1. IInv => L2Fresh
  BY DEF IInv
<1> QED
  BY <1>1, Invariant, PTL
=============================================================================
