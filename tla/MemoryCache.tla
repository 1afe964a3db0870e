---------------------------- MODULE MemoryCache ----------------------------
(***************************************************************************)
(* The L1 cache of packages/cache/src/memory.ts: a Map from keys to list   *)
(* nodes, a doubly-linked recency list threaded through those nodes, a     *)
(* byte count and a tag index, all changed by synchronous methods and by   *)
(* the asynchronous ones (invalidateTag, getByTag, clear(namespace),       *)
(* increment) that give up control at every await.                         *)
(*                                                                         *)
(* One step is what one JavaScript turn does, except that the loops a turn *)
(* may run (evictions inside set, the cleanup sweep) take a step per       *)
(* iteration; no other action is enabled until such a turn is over (Idle). *)
(* Values, serialisation, hit and miss counters are left out.              *)
(***************************************************************************)
EXTENDS Integers, FiniteSets, Sums

CONSTANTS
  Keys, Tags, Namespaces,
  Nodes,        \* identities of ListNode objects (bounds the heap)
  Tasks,        \* asynchronous calls that may be in flight at once
  Null,         \* JavaScript's null / undefined
  Strategy,     \* options.strategy
  MaxSize,      \* options.maxSize
  MaxBytes,     \* options.maxMemoryBytes
  DefaultTtl,   \* options.defaultTtl, 0 = no expiration
  SlidingTtl,   \* options.slidingTtl, 0 = disabled
  DefaultNs,    \* the namespace "default"
  Ttls, Sizes,  \* the ttl and serialised size a set() may come with
  MaxNow        \* bound on the clock

ASSUME ConstantsOK ==
  /\ Null \notin Keys \cup Tags \cup Nodes
  /\ Strategy \in {"lru", "lfu", "fifo", "ttl-only"}
  /\ {MaxSize, MaxBytes, DefaultTtl, SlidingTtl, MaxNow} \subseteq Nat
  /\ Ttls \subseteq Nat /\ Sizes \subseteq Nat
  /\ DefaultNs \in Namespaces

VARIABLES
  map,          \* Map: key -> node, Null when absent
  older,        \* insertion order of the Map: pairs <<earlier, later>>
  node,         \* what a ListNode holds: its key and its meta
  list,         \* prev and next of every node, head and tail
  totalBytes,
  lfuFreq,      \* access counts by key, 0 when absent
  tagIndex,     \* tag -> Set of keys ({} also stands for no Set)
  now,          \* Date.now()
  timer,        \* the cleanup interval is armed
  pending,      \* the set() call on the stack
  sweeping,     \* expired keys the running cleanup turn has yet to remove
  task,         \* asynchronous calls suspended at an await
  raced,        \* history: tags under invalidation when a key was last stored
  expiredRead,  \* history: a get met an expired entry since the last reset
  recency       \* history (lru): pairs <<a, b>> when b was used after a

heapVars  == <<map, node, list>>
storeVars == <<map, node, list, older, totalBytes, lfuFreq, tagIndex>>
turnVars  == <<now, timer, pending, sweeping>>
histVars  == <<raced, expiredRead, recency>>
vars == <<map, older, node, list, totalBytes, lfuFreq, tagIndex, now, timer,
          pending, sweeping, task, raced, expiredRead, recency>>

-----------------------------------------------------------------------------
Blank == [key |-> Null, tags |-> {}, ns |-> DefaultNs, size |-> 0, expiresAt |-> 0]

\* The arguments of set(key, value, opts), and how far the call has come.
SetCall == [key : Keys, tags : SUBSET Tags, ns : Namespaces, ttl : Nat,
            size : Nat, evicted : BOOLEAN]
NoCall  == [key |-> Null]

\* left: keys the loop has yet to visit; live: the Set it iterates is still
\* the one tagIndex holds, so additions and deletions show up in the loop.
NoTask == [op |-> "none", tag |-> Null, left |-> {}, live |-> FALSE]
TaskState == [op : {"none", "invalidateTag", "getByTag", "clear", "increment"},
              tag : Tags \cup {Null}, left : SUBSET Keys, live : BOOLEAN]

Entries    == {k \in Keys : map[k] # Null}
Meta(k)    == node[map[k]]
Expired(n) == node[n].expiresAt > 0 /\ now > node[n].expiresAt
Idle       == pending = NoCall /\ sweeping = {}

Invalidating(t) == \E i \in Tasks : task[i].op = "invalidateTag" /\ task[i].tag = t

-----------------------------------------------------------------------------
(* The recency list.                                                       *)

\* Fault: the tail is not moved when the last node goes.
RemovedKeepsTail(l, n) ==
  LET p == l.prev[n]
      x == l.next[n]
  IN  [prev |-> IF x # Null THEN [l.prev EXCEPT ![x] = p] ELSE l.prev,
       next |-> IF p # Null THEN [l.next EXCEPT ![p] = x] ELSE l.next,
       head |-> IF p # Null THEN l.head ELSE x,
       tail |-> l.tail]

\* removeNode: the node's own pointers keep their old values.
Removed(l, n) ==
  LET p == l.prev[n]
      x == l.next[n]
  IN  [prev |-> IF x # Null THEN [l.prev EXCEPT ![x] = p] ELSE l.prev,
       next |-> IF p # Null THEN [l.next EXCEPT ![p] = x] ELSE l.next,
       head |-> IF p # Null THEN l.head ELSE x,
       tail |-> IF x # Null THEN l.tail ELSE p]

PushedHead(l, n) ==
  LET prev == [l.prev EXCEPT ![n] = Null]
  IN  [prev |-> IF l.head # Null THEN [prev EXCEPT ![l.head] = n] ELSE prev,
       next |-> [l.next EXCEPT ![n] = l.head],
       head |-> n,
       tail |-> IF l.tail # Null THEN l.tail ELSE n]

MovedToHead(l, n) ==
  IF n = l.head THEN l ELSE PushedHead(Removed(l, n), n)

\* Fault: using an entry does not move it.
TouchedInPlace(l, n) == l
Touched(l, n) == IF Strategy = "lru" THEN MovedToHead(l, n) ELSE l

\* The nodes the garbage collector keeps: those reached from the Map, from
\* head or from tail along prev and next.
Reachable(m, l) ==
  LET roots == ({m[k] : k \in Keys} \cup {l.head, l.tail}) \ {Null}
      closed(S) == \A n \in S : {l.prev[n], l.next[n]} \subseteq S \cup {Null}
  IN  {n \in Nodes : \A S \in SUBSET Nodes : roots \subseteq S /\ closed(S) => n \in S}

\* The heap after a step, with unreachable nodes wiped so that they can be
\* allocated again.
Heap(m, l, nd) ==
  LET kept == Reachable(m, l)
      sweep(f) == [n \in Nodes |-> IF n \in kept THEN f[n] ELSE Null]
  IN  /\ map'  = m
      /\ list' = [prev |-> sweep(l.prev), next |-> sweep(l.next),
                  head |-> l.head, tail |-> l.tail]
      /\ node' = [n \in Nodes |-> IF n \in kept THEN nd[n] ELSE Blank]

-----------------------------------------------------------------------------
(* The tag index, and the loops that iterate its Sets.                     *)

\* Fault: only a new entry is entered in the tag index.
IndexedWhenNew(k, ts) ==
  [t \in Tags |-> IF t \in ts /\ map[k] = Null THEN tagIndex[t] \cup {k} ELSE tagIndex[t]]

Indexed(k, ts) ==
  [t \in Tags |-> IF t \in ts THEN tagIndex[t] \cup {k} ELSE tagIndex[t]]

\* Fault: the index is rebuilt from the dropped entry's tags alone.
UnindexedOnly(k, ts) == [t \in ts |-> tagIndex[t] \ {k}]

Unindexed(k, ts) ==
  [t \in Tags |-> IF t \in ts THEN tagIndex[t] \ {k} ELSE tagIndex[t]]


\* A key new to a Set under iteration will be visited ...
Announce(tk, k, ts) ==
  [i \in Tasks |-> IF tk[i].live /\ tk[i].tag \in ts /\ k \notin tagIndex[tk[i].tag]
                   THEN [tk[i] EXCEPT !.left = @ \cup {k}] ELSE tk[i]]

\* ... a key deleted from it will not.
Forget(tk, k, ts) ==
  [i \in Tasks |-> IF tk[i].live /\ tk[i].tag \in ts
                   THEN [tk[i] EXCEPT !.left = @ \ {k}] ELSE tk[i]]

\* tagIndex.delete(t): a loop still holding the Set iterates an orphan.
Detach(tk, ts) ==
  [i \in Tasks |-> IF tk[i].tag \in ts THEN [tk[i] EXCEPT !.live = FALSE] ELSE tk[i]]

Without(rel, k) == {p \in rel : p[1] # k /\ p[2] # k}

(* The histories the properties read.                                      *)

Used(k) ==
  recency' = IF Strategy = "lru"
             THEN Without(recency, k) \cup {<<j, k>> : j \in Entries \ {k}}
             ELSE recency

Gone(k) == recency' = Without(recency, k) /\ raced' = [raced EXCEPT ![k] = {}]

-----------------------------------------------------------------------------
Init ==
  /\ map = [k \in Keys |-> Null]
  /\ older = {}
  /\ node = [n \in Nodes |-> Blank]
  /\ list = [prev |-> [n \in Nodes |-> Null], next |-> [n \in Nodes |-> Null],
             head |-> Null, tail |-> Null]
  /\ totalBytes = 0
  /\ lfuFreq = [k \in Keys |-> 0]
  /\ tagIndex = [t \in Tags |-> {}]
  /\ now = 1
  /\ timer = TRUE
  /\ pending = NoCall
  /\ sweeping = {}
  /\ task = [i \in Tasks |-> NoTask]
  /\ raced = [k \in Keys |-> {}]
  /\ expiredRead = FALSE
  /\ recency = {}

\* The clock advances between turns.
Tick ==
  /\ Idle
  /\ now < MaxNow
  /\ now' = now + 1
  /\ UNCHANGED <<storeVars, timer, pending, sweeping, task, histVars>>

-----------------------------------------------------------------------------
(* get                                                                     *)

\* An expired entry leaves the list but stays in the Map and the tag index.
ReadExpired(k) ==
  /\ map[k] # Null
  /\ Expired(map[k])
  /\ Heap(map, Removed(list, map[k]), node)
  /\ expiredRead' = TRUE
  /\ UNCHANGED recency

ReadHit(k) ==
  /\ map[k] # Null
  /\ ~Expired(map[k])
  /\ LET slide == IF SlidingTtl > 0
                  THEN [node EXCEPT ![map[k]].expiresAt = now + SlidingTtl]
                  ELSE node
     IN  Heap(map, Touched(list, map[k]), slide)
  /\ Used(k)
  /\ UNCHANGED expiredRead

\* A miss on an absent key changes only a counter.
ReadAbsent(k) ==
  /\ map[k] = Null
  /\ UNCHANGED <<heapVars, expiredRead, recency>>

Read(k) ==
  /\ ReadExpired(k) \/ ReadHit(k) \/ ReadAbsent(k)
  /\ UNCHANGED <<older, totalBytes, lfuFreq, tagIndex, now, timer, sweeping, raced>>

Get(k) == Idle /\ Read(k) /\ UNCHANGED <<pending, task>>

-----------------------------------------------------------------------------
(* set                                                                     *)

Set(k, ts, ns, ttl, size) ==
  /\ Idle
  /\ pending' = [key |-> k, tags |-> ts, ns |-> ns, ttl |-> ttl, size |-> size,
                 evicted |-> FALSE]
  /\ UNCHANGED <<storeVars, now, timer, sweeping, task, histVars>>


\* The condition of evict()'s loop.
OverBudget == totalBytes + pending.size > MaxBytes /\ Entries # {}

Oldest(ks) == {k \in ks : \A j \in ks : <<j, k>> \notin older}

\* The node evictOne picks (one node, in a set): ties go to the first in Map
\* order; a ttl-only cache in which nothing expires falls back on the tail.
Victims ==
  LET least == {k \in Entries : \A j \in Entries : lfuFreq[k] <= lfuFreq[j]}
      expiring == {k \in Entries : Meta(k).expiresAt > 0}
      nearest == {k \in expiring : \A j \in expiring : Meta(k).expiresAt <= Meta(j).expiresAt}
      chosen == CASE Strategy = "lfu" -> least [] Strategy = "ttl-only" -> nearest
                  [] OTHER -> {}
  IN  IF chosen = {} THEN {list.tail} ELSE {map[k] : k \in Oldest(chosen)}

\* evictOne does nothing when the list is empty, whatever the Map holds.
EvictNothing ==
  /\ list.tail = Null
  /\ UNCHANGED <<storeVars, task, raced, recency>>

EvictNode(n) ==
  LET k == node[n].key
  IN  /\ list.tail # Null
      /\ n \in Victims
      /\ totalBytes' = totalBytes - node[n].size
      /\ Heap([map EXCEPT ![k] = Null], Removed(list, n), node)
      /\ older' = Without(older, k)
      /\ lfuFreq' = [lfuFreq EXCEPT ![k] = 0]
      /\ tagIndex' = Unindexed(k, node[n].tags)
      /\ task' = Forget(task, k, node[n].tags)
      /\ Gone(k)

EvictOne ==
  /\ EvictNothing \/ \E n \in Nodes : EvictNode(n)
  /\ UNCHANGED <<now, timer, sweeping, expiredRead>>

\* One iteration of the loop in evict().
EvictForMemory ==
  /\ pending # NoCall
  /\ ~pending.evicted
  /\ OverBudget
  /\ EvictOne
  /\ UNCHANGED pending

\* Fault: off by one.
NeedsSlotLate == map[pending.key] = Null /\ Cardinality(Entries) > MaxSize

\* A new key in a full Map evicts once.
NeedsSlot == map[pending.key] = Null /\ Cardinality(Entries) >= MaxSize

EvictForSlot ==
  /\ pending # NoCall
  /\ ~pending.evicted
  /\ ~OverBudget
  /\ NeedsSlot
  /\ EvictOne
  /\ pending' = [pending EXCEPT !.evicted = TRUE]

StoreIn(n, l) ==
  LET k == pending.key
      held == IF map[k] = Null THEN 0 ELSE Meta(k).size
      stored == [key |-> k, tags |-> pending.tags, ns |-> pending.ns,
                 size |-> pending.size,
                 expiresAt |-> IF pending.ttl > 0 THEN now + pending.ttl ELSE 0]
  IN  /\ Heap([map EXCEPT ![k] = n], l, [node EXCEPT ![n] = stored])
      /\ older' = IF map[k] = Null THEN older \cup {<<j, k>> : j \in Entries} ELSE older
      /\ totalBytes' = totalBytes - held + pending.size
      /\ lfuFreq' = IF Strategy = "lfu" THEN [lfuFreq EXCEPT ![k] = 1] ELSE lfuFreq
      /\ tagIndex' = Indexed(k, pending.tags)
      /\ task' = Announce(task, k, pending.tags)
      /\ raced' = [raced EXCEPT ![k] = {t \in pending.tags : Invalidating(t)}]
      /\ Used(k)
      /\ pending' = NoCall
      /\ UNCHANGED <<now, timer, sweeping, expiredRead>>

Store ==
  /\ pending # NoCall
  /\ pending.evicted \/ ~OverBudget
  /\ pending.evicted \/ ~NeedsSlot
  /\ LET n == map[pending.key]
     IN  \/ n # Null /\ StoreIn(n, Touched(list, n))
         \/ /\ n = Null
            /\ \E fresh \in Nodes \ Reachable(map, list) :
                 /\ \A m \in Nodes \ Reachable(map, list) : fresh <= m
                 /\ StoreIn(fresh, PushedHead(list, fresh))

-----------------------------------------------------------------------------
(* delete, clear(), close and the cleanup timer                            *)

\* delete(k) on behalf of a caller whose bookkeeping is tk.
Drop(k, tk) ==
  LET n == map[k]
  IN  \/ /\ n = Null
         /\ task' = tk
         /\ UNCHANGED <<heapVars, older, totalBytes, tagIndex, raced, recency>>
      \/ /\ n # Null
         /\ totalBytes' = totalBytes - node[n].size
         /\ Heap([map EXCEPT ![k] = Null], Removed(list, n), node)
         /\ older' = Without(older, k)
         /\ tagIndex' = Unindexed(k, node[n].tags)
         /\ task' = Forget(tk, k, node[n].tags)
         /\ Gone(k)

Delete(k) ==
  /\ Idle
  /\ map[k] # Null
  /\ Drop(k, task)
  /\ UNCHANGED <<lfuFreq, turnVars, expiredRead>>

Reset ==
  /\ Idle
  /\ Heap([k \in Keys |-> Null],
          [prev |-> list.prev, next |-> list.next, head |-> Null, tail |-> Null], node)
  /\ older' = {}
  /\ lfuFreq' = [k \in Keys |-> 0]
  /\ tagIndex' = [t \in Tags |-> {}]
  /\ task' = Detach(task, Tags)
  /\ raced' = [k \in Keys |-> {}]
  /\ expiredRead' = FALSE
  /\ recency' = {}
  /\ UNCHANGED <<now, pending, sweeping>>

ClearAll == Reset /\ totalBytes' = 0 /\ UNCHANGED timer

\* close() stops the timer and keeps the byte count; nothing in the code
\* refuses later calls. (Bound: at most one close.)
Close == timer /\ Reset /\ timer' = FALSE /\ UNCHANGED totalBytes

\* A timer fires once the microtask queue is empty: no call is suspended.
CleanupTurn ==
  /\ Idle
  /\ timer
  /\ \A i \in Tasks : task[i] = NoTask
  /\ sweeping' = {k \in Entries : Expired(map[k])}
  /\ UNCHANGED <<storeVars, now, timer, pending, task, histVars>>

\* The sweep removes an expired entry, not its traces in the tag index.
SweepEntry ==
  \E k \in Oldest(sweeping) :
    /\ map[k] # Null
    /\ totalBytes' = totalBytes - Meta(k).size
    /\ Heap([map EXCEPT ![k] = Null], Removed(list, map[k]), node)
    /\ older' = Without(older, k)
    /\ lfuFreq' = [lfuFreq EXCEPT ![k] = 0]
    /\ sweeping' = sweeping \ {k}
    /\ Gone(k)
    /\ UNCHANGED <<tagIndex, now, timer, pending, task, expiredRead>>

-----------------------------------------------------------------------------
(* Calls that give up control: a call runs until its first await, and each *)
(* resumption until the next one. Iteration order is left open.            *)

Visiting(i, op, t, ks, k, live) ==
  [task EXCEPT ![i] = [op |-> op, tag |-> t, left |-> ks \ {k}, live |-> live]]

InvalidateTag(i, t) ==
  /\ Idle
  /\ task[i] = NoTask
  /\ \E k \in tagIndex[t] :
       Drop(k, Visiting(i, "invalidateTag", t, tagIndex[t], k, TRUE))
  /\ UNCHANGED <<lfuFreq, turnVars, expiredRead>>

\* The call finds an empty Set, deletes it and returns in the same turn.
InvalidateEmptyTag(t) ==
  /\ Idle
  /\ tagIndex[t] = {}
  /\ task' = Detach(task, {t})
  /\ UNCHANGED <<storeVars, turnVars, histVars>>

ClearNamespace(i, ns) ==
  LET ks == {k \in Entries : Meta(k).ns = ns}
  IN  /\ Idle
      /\ task[i] = NoTask
      /\ \E k \in ks : Drop(k, Visiting(i, "clear", Null, ks, k, FALSE))
      /\ UNCHANGED <<lfuFreq, turnVars, expiredRead>>

\* The next iteration of invalidateTag or clear(namespace).
DropNext(i) ==
  /\ Idle
  /\ task[i].op \in {"invalidateTag", "clear"}
  /\ \E k \in task[i].left : Drop(k, [task EXCEPT ![i].left = @ \ {k}])
  /\ UNCHANGED <<lfuFreq, turnVars, expiredRead>>

\* Fault: the tag is forgotten while keys are left to visit.
InvalidateTagReturnsEarly(i) ==
  LET t == task[i].tag
  IN  /\ Idle
      /\ task[i].op = "invalidateTag"
      /\ tagIndex' = [tagIndex EXCEPT ![t] = {}]
      /\ task' = Detach([task EXCEPT ![i] = NoTask], {t})
      /\ UNCHANGED <<heapVars, older, totalBytes, lfuFreq, turnVars, histVars>>

\* The last resumption of invalidateTag forgets the whole tag.
InvalidateTagReturns(i) ==
  LET t == task[i].tag
  IN  /\ Idle
      /\ task[i].op = "invalidateTag"
      /\ task[i].left = {}
      /\ tagIndex' = [tagIndex EXCEPT ![t] = {}]
      /\ task' = Detach([task EXCEPT ![i] = NoTask], {t})
      /\ UNCHANGED <<heapVars, older, totalBytes, lfuFreq, turnVars, histVars>>

GetByTag(i, t) ==
  /\ Idle
  /\ task[i] = NoTask
  /\ \E k \in tagIndex[t] :
       /\ Read(k)
       /\ task' = Visiting(i, "getByTag", t, tagIndex[t], k, TRUE)
  /\ UNCHANGED pending

GetNext(i) ==
  /\ Idle
  /\ task[i].op = "getByTag"
  /\ \E k \in task[i].left : Read(k) /\ task' = [task EXCEPT ![i].left = @ \ {k}]
  /\ UNCHANGED pending

\* increment reads, waits, and sets without options: tags and ttl are lost.
Increment(i, k) ==
  /\ Idle
  /\ task[i] = NoTask
  /\ Read(k)
  /\ task' = [task EXCEPT ![i] = [NoTask EXCEPT !.op = "increment", !.left = {k}]]
  /\ UNCHANGED pending

IncrementSets(i) ==
  /\ Idle
  /\ task[i].op = "increment"
  /\ \E k \in task[i].left, size \in Sizes :
       pending' = [key |-> k, tags |-> {}, ns |-> DefaultNs, ttl |-> DefaultTtl,
                   size |-> size, evicted |-> FALSE]
  /\ task' = [task EXCEPT ![i] = NoTask]
  /\ UNCHANGED <<storeVars, now, timer, sweeping, histVars>>

\* clear(namespace) and getByTag return without touching the cache.
LoopReturns(i) ==
  /\ Idle
  /\ task[i].op \in {"clear", "getByTag"}
  /\ task[i].left = {}
  /\ task' = [task EXCEPT ![i] = NoTask]
  /\ UNCHANGED <<storeVars, turnVars, histVars>>

-----------------------------------------------------------------------------
Turn == EvictForMemory \/ EvictForSlot \/ Store \/ SweepEntry

Resume(i) ==
  DropNext(i) \/ InvalidateTagReturns(i) \/ GetNext(i) \/ IncrementSets(i) \/ LoopReturns(i)

Next ==
  \/ Tick
  \/ \E k \in Keys : Get(k)
  \/ \E k \in Keys, ts \in SUBSET Tags, ns \in Namespaces, ttl \in Ttls, size \in Sizes :
       Set(k, ts, ns, ttl, size)
  \/ EvictForMemory
  \/ EvictForSlot
  \/ Store
  \/ \E k \in Keys : Delete(k)
  \/ ClearAll
  \/ Close
  \/ CleanupTurn
  \/ SweepEntry
  \/ \E i \in Tasks, t \in Tags : InvalidateTag(i, t)
  \/ \E t \in Tags : InvalidateEmptyTag(t)
  \/ \E i \in Tasks, ns \in Namespaces : ClearNamespace(i, ns)
  \/ \E i \in Tasks : DropNext(i)
  \/ \E i \in Tasks : InvalidateTagReturns(i)
  \/ \E i \in Tasks, t \in Tags : GetByTag(i, t)
  \/ \E i \in Tasks : GetNext(i)
  \/ \E i \in Tasks, k \in Keys : Increment(i, k)
  \/ \E i \in Tasks : IncrementSets(i)
  \/ \E i \in Tasks : LoopReturns(i)

Spec == Init /\ [][Next]_vars

\* A JavaScript turn runs to its end. A resolved promise sits in the FIFO
\* microtask queue behind finitely many others, so a suspended call is resumed
\* however many other turns run in between.
Fairness == WF_vars(Turn) /\ \A i \in Tasks : SF_vars(Resume(i))
FairSpec == Spec /\ Fairness

-----------------------------------------------------------------------------
TypeOK ==
  /\ map \in [Keys -> Nodes \cup {Null}]
  /\ older \subseteq Keys \X Keys
  /\ node \in [Nodes -> [key : Keys \cup {Null}, tags : SUBSET Tags,
                        ns : Namespaces, size : Nat, expiresAt : Nat]]
  /\ list \in [prev : [Nodes -> Nodes \cup {Null}], next : [Nodes -> Nodes \cup {Null}],
               head : Nodes \cup {Null}, tail : Nodes \cup {Null}]
  /\ totalBytes \in Int
  /\ lfuFreq \in [Keys -> {0, 1}]
  /\ tagIndex \in [Tags -> SUBSET Keys]
  /\ now \in Nat
  /\ timer \in BOOLEAN
  /\ pending \in SetCall \cup {NoCall}
  /\ sweeping \subseteq Keys
  /\ task \in [Tasks -> TaskState]
  /\ raced \in [Keys -> SUBSET Tags]
  /\ expiredRead \in BOOLEAN
  /\ recency \subseteq Keys \X Keys

(* A live entry is missing from the Set of one of its tags only if it was  *)
(* stored while an invalidation of that tag was under way: whatever else   *)
(* runs between the awaits, an invalidateTag that starts later reaches it. *)
IndexedUnlessRaced ==
  \A k \in Entries : \A t \in Meta(k).tags \ raced[k] : k \in tagIndex[t]

(* When invalidateTag(t) returns, every entry tagged t that is still there *)
(* was stored while some invalidation of t was under way.                  *)
InvalidateTagDropsAll ==
  [][\A i \in Tasks : task[i].op = "invalidateTag" /\ task'[i] = NoTask
        => \A k \in Entries : task[i].tag \in Meta(k).tags => task[i].tag \in raced[k]]_vars

(* Unless a get has met an expired entry, the recency list holds the nodes *)
(* of the Map, each once, and reads the same from both ends.               *)
ListIsMap ==
  LET held == {map[k] : k \in Entries}
      size == Cardinality(held)
      spells(s) == /\ list.head = s[1] /\ list.tail = s[size]
                   /\ \A i \in 1 .. size :
                        /\ list.next[s[i]] = IF i = size THEN Null ELSE s[i + 1]
                        /\ list.prev[s[i]] = IF i = 1 THEN Null ELSE s[i - 1]
  IN  ~expiredRead =>
        IF held = {} THEN list.head = Null /\ list.tail = Null
        ELSE \E s \in [1 .. size -> held] : spells(s)

SizeBounded == Cardinality(Entries) <= MaxSize
BytesBounded ==
  /\ totalBytes = SumOf([k \in Entries |-> Meta(k).size], Entries)
  /\ totalBytes <= MaxBytes \/ Cardinality(Entries) <= 1

(* "Maximum number of entries", "Maximum memory in bytes" (memory.ts:31,   *)
(* 39), until a get meets an expired entry, which then stays in the Map    *)
(* beyond any eviction: the byte count is the sum of the entries' sizes    *)
(* (close() forgets to reset it), and exceeds the limit only for a single  *)
(* entry that is itself too large.                                         *)
WithinLimits == ~expiredRead => SizeBounded /\ (timer => BytesBounded)

(* lru: the node at the tail, the next to be evicted, is the one unused    *)
(* for longest, however gets, sets and deletes were interleaved.           *)
TailIsLeastRecent ==
  Strategy = "lru" /\ ~expiredRead /\ list.tail # Null =>
    \A k \in Entries : <<k, node[list.tail].key>> \notin recency

\* The end of a loop of evict() that does not end: the Map holds entries that
\* no list leads to any more, so evictOne has nothing to evict.
Wedged == pending # NoCall /\ Entries # {} /\ list.tail = Null /\ expiredRead


=============================================================================
