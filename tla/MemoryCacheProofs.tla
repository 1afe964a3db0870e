------------------------- MODULE MemoryCacheProofs -------------------------
(* Type correctness of MemoryCache, what invalidateTag guarantees whatever *)
(* runs between its awaits, and that the recency list stays the list of    *)
(* the Map's nodes, in the order of their use, within maxSize and within   *)
(* maxMemoryBytes.                                                         *)
EXTENDS MemoryCache, SumsProofs, TLAPS

(* A node that the Map holds for k carries the key k, so that evicting or  *)
(* overwriting one entry never touches the meta of another.                *)
KeyOfNode == \A k \in Entries : Meta(k).key = k

(* An invalidation of t under way has yet to visit every entry tagged t    *)
(* that was not stored while an invalidation of t was under way.           *)
YetToVisit ==
  \A i \in Tasks : task[i].op = "invalidateTag" =>
    \A k \in Entries : task[i].tag \in Meta(k).tags \ raced[k] => k \in task[i].left

IInv == TypeOK /\ KeyOfNode /\ IndexedUnlessRaced /\ YetToVisit

NodeType == [key : Keys \cup {Null}, tags : SUBSET Tags, ns : Namespaces,
             size : Nat, expiresAt : Nat]
ListType == [prev : [Nodes -> Nodes \cup {Null}], next : [Nodes -> Nodes \cup {Null}],
             head : Nodes \cup {Null}, tail : Nodes \cup {Null}]
MapType  == [Keys -> Nodes \cup {Null}]

-----------------------------------------------------------------------------
(* removeNode and pushHead keep the pointers within the heap.              *)
LEMMA ListTypes ==
  ASSUME NEW l \in ListType, NEW n \in Nodes
  PROVE  /\ Removed(l, n) \in ListType
         /\ PushedHead(l, n) \in ListType
         /\ Touched(l, n) \in ListType
<1>1. ASSUME NEW r \in ListType PROVE Removed(r, n) \in ListType
  BY <1>1 DEF ListType, Removed
<1>2. ASSUME NEW r \in ListType PROVE PushedHead(r, n) \in ListType
  BY <1>2 DEF ListType, PushedHead
<1> QED
  BY <1>1, <1>2 DEF Touched, MovedToHead

(* The collector keeps every node the Map holds, as the step left it.      *)
LEMMA HeapKeeps ==
  ASSUME NEW m \in MapType, NEW l \in ListType, NEW nd \in [Nodes -> NodeType],
         Heap(m, l, nd)
  PROVE  /\ map' = m
         /\ list' \in ListType
         /\ node' \in [Nodes -> NodeType]
         /\ \A k \in Keys : m[k] # Null => node'[m[k]] = nd[m[k]]
<1>1. map' = m
  BY DEF Heap
<1>2. list' \in ListType
  BY DEF Heap, ListType
<1>3. Blank \in NodeType
  BY ConstantsOK DEF Blank, NodeType
<1>4. node' \in [Nodes -> NodeType]
  BY <1>3 DEF Heap
<1>5. ASSUME NEW k \in Keys, m[k] # Null PROVE m[k] \in Reachable(m, l)
  BY <1>5 DEF Reachable, MapType
<1>6. ASSUME NEW k \in Keys, m[k] # Null PROVE node'[m[k]] = nd[m[k]]
  BY <1>5, <1>6 DEF Heap, MapType
<1> QED
  BY <1>1, <1>2, <1>4, <1>6

(* A step that stores nothing: what is left was there before, under the    *)
(* same tags, is still indexed, and is still ahead of every invalidation.  *)
LEMMA NothingStored ==
  ASSUME IInv,
         \A k \in Entries' : /\ k \in Entries
                             /\ (Meta(k).key)' = Meta(k).key
                             /\ (Meta(k).tags)' = Meta(k).tags
                             /\ raced'[k] = raced[k]
                             /\ \A t \in Tags : k \in tagIndex[t] => k \in tagIndex'[t],
         \A i \in Tasks, k \in Entries' :
           task'[i].op = "invalidateTag" /\ task'[i].tag \in Meta(k).tags \ raced[k]
             => k \in task'[i].left
  PROVE  KeyOfNode' /\ IndexedUnlessRaced' /\ YetToVisit'
<1>1. KeyOfNode'
  BY DEF IInv, KeyOfNode
<1>2. \A k \in Entries : Meta(k).tags \subseteq Tags
  BY DEF IInv, TypeOK, Entries, Meta
<1>3. IndexedUnlessRaced'
  BY <1>2 DEF IInv, IndexedUnlessRaced
<1>4. YetToVisit'
  BY DEF YetToVisit
<1> QED
  BY <1>1, <1>3, <1>4

-----------------------------------------------------------------------------
(* A read changes neither the Map nor what an entry is tagged with.        *)
LEMMA ReadStep ==
  ASSUME IInv, NEW k \in Keys, Read(k)
  PROVE  /\ map' = map
         /\ list' \in ListType
         /\ node' \in [Nodes -> NodeType]
         /\ recency' \subseteq Keys \X Keys
         /\ expiredRead' \in BOOLEAN
         /\ \A j \in Entries : /\ node'[map[j]].key = Meta(j).key
                              /\ node'[map[j]].tags = Meta(j).tags
<1> USE DEF IInv
<1>1. /\ map \in MapType /\ list \in ListType /\ node \in [Nodes -> NodeType]
      /\ now \in Nat /\ SlidingTtl \in Nat
  BY ConstantsOK DEF TypeOK, MapType, ListType, NodeType
<1>2. CASE ReadExpired(k)
  <2>1. map[k] \in Nodes
    BY <1>1, <1>2 DEF ReadExpired, MapType
  <2>2. Removed(list, map[k]) \in ListType
    BY <1>1, <2>1, ListTypes
  <2>3. Heap(map, Removed(list, map[k]), node)
    BY <1>2 DEF ReadExpired
  <2>4. /\ map' = map /\ list' \in ListType /\ node' \in [Nodes -> NodeType]
        /\ \A j \in Keys : map[j] # Null => node'[map[j]] = node[map[j]]
    BY <1>1, <2>2, <2>3, HeapKeeps
  <2> QED
    BY <1>2, <2>4 DEF ReadExpired, Entries, Meta, TypeOK
<1>3. CASE ReadHit(k)
  <2> DEFINE slide == IF SlidingTtl > 0
                      THEN [node EXCEPT ![map[k]].expiresAt = now + SlidingTtl]
                      ELSE node
  <2>1. map[k] \in Nodes
    BY <1>1, <1>3 DEF ReadHit, MapType
  <2>2. Touched(list, map[k]) \in ListType
    BY <1>1, <2>1, ListTypes
  <2>3. slide \in [Nodes -> NodeType]
    BY <1>1, <2>1 DEF NodeType
  <2>4. \A n \in Nodes : slide[n].key = node[n].key /\ slide[n].tags = node[n].tags
    BY <1>1, <2>1 DEF NodeType
  <2>5. Heap(map, Touched(list, map[k]), slide)
    BY <1>3 DEF ReadHit
  <2> HIDE DEF slide
  <2>6. /\ map' = map /\ list' \in ListType /\ node' \in [Nodes -> NodeType]
        /\ \A j \in Keys : map[j] # Null => node'[map[j]] = slide[map[j]]
    BY <1>1, <2>2, <2>3, <2>5, HeapKeeps
  <2>7. recency' \subseteq Keys \X Keys
    BY <1>3 DEF ReadHit, Used, Without, Entries, TypeOK
  <2>8. \A j \in Entries : map[j] \in Nodes
    BY <1>1 DEF Entries, MapType
  <2>9. expiredRead' \in BOOLEAN
    BY <1>3 DEF ReadHit, TypeOK
  <2> QED
    BY <2>4, <2>6, <2>7, <2>8, <2>9 DEF Entries, Meta
<1>4. CASE ReadAbsent(k)
  BY <1>1, <1>4 DEF ReadAbsent, heapVars, TypeOK, Meta
<1> QED
  BY <1>2, <1>3, <1>4 DEF Read

(* delete(k) takes k, and nothing else, from the Map, from the index and   *)
(* from the loops in progress.                                             *)
LEMMA DropStep ==
  ASSUME IInv, NEW k \in Keys, NEW tk \in [Tasks -> TaskState], Drop(k, tk)
  PROVE  /\ map' \in MapType /\ list' \in ListType /\ node' \in [Nodes -> NodeType]
         /\ older' \subseteq Keys \X Keys
         /\ totalBytes' \in Int
         /\ tagIndex' \in [Tags -> SUBSET Keys]
         /\ task' \in [Tasks -> TaskState]
         /\ raced' \in [Keys -> SUBSET Tags]
         /\ recency' \subseteq Keys \X Keys
         /\ \A j \in Entries' : /\ j # k
                               /\ j \in Entries
                               /\ Meta(j)' = Meta(j)
                               /\ raced'[j] = raced[j]
                               /\ \A t \in Tags : j \in tagIndex[t] => j \in tagIndex'[t]
         /\ \A i \in Tasks : /\ task'[i].op = tk[i].op
                            /\ task'[i].tag = tk[i].tag
                            /\ tk[i].left \ {k} \subseteq task'[i].left
<1> USE DEF IInv
<1>1. /\ map \in MapType /\ list \in ListType /\ node \in [Nodes -> NodeType]
      /\ older \subseteq Keys \X Keys /\ recency \subseteq Keys \X Keys
      /\ tagIndex \in [Tags -> SUBSET Keys] /\ raced \in [Keys -> SUBSET Tags]
      /\ totalBytes \in Int
  BY DEF TypeOK, MapType, ListType, NodeType
<1>2. CASE map[k] = Null
  BY <1>1, <1>2 DEF Drop, heapVars, Entries, Meta
<1>3. CASE map[k] # Null
  <2>1. map[k] \in Nodes
    BY <1>1, <1>3 DEF MapType
  <2>2. Removed(list, map[k]) \in ListType
    BY <1>1, <2>1, ListTypes
  <2>3. [map EXCEPT ![k] = Null] \in MapType
    BY <1>1 DEF MapType
  <2>4. /\ Heap([map EXCEPT ![k] = Null], Removed(list, map[k]), node)
        /\ totalBytes' = totalBytes - node[map[k]].size
        /\ older' = Without(older, k)
        /\ tagIndex' = Unindexed(k, node[map[k]].tags)
        /\ task' = Forget(tk, k, node[map[k]].tags)
        /\ Gone(k)
    BY <1>3 DEF Drop
  <2>5. /\ map' = [map EXCEPT ![k] = Null] /\ list' \in ListType /\ node' \in [Nodes -> NodeType]
        /\ \A j \in Keys : map'[j] # Null => node'[map'[j]] = node[map'[j]]
    BY <1>1, <2>2, <2>3, <2>4, HeapKeeps
  <2>6. /\ older' \subseteq Keys \X Keys /\ recency' \subseteq Keys \X Keys
        /\ tagIndex' \in [Tags -> SUBSET Keys] /\ raced' \in [Keys -> SUBSET Tags]
    BY <1>1, <2>4 DEF Without, Unindexed, Gone
  <2>7. totalBytes' \in Int
    BY <1>1, <2>1, <2>4 DEF NodeType
  <2>8. /\ task' \in [Tasks -> TaskState]
        /\ \A i \in Tasks : /\ task'[i].op = tk[i].op
                           /\ task'[i].tag = tk[i].tag
                           /\ tk[i].left \ {k} \subseteq task'[i].left
    BY <2>4 DEF Forget, TaskState
  <2>9. \A j \in Entries' : /\ j # k
                            /\ j \in Entries
                            /\ Meta(j)' = Meta(j)
                            /\ raced'[j] = raced[j]
                            /\ \A t \in Tags : j \in tagIndex[t] => j \in tagIndex'[t]
    BY <1>1, <2>4, <2>5 DEF Entries, Meta, MapType, Gone, Unindexed
  <2> QED
    BY <2>3, <2>5, <2>6, <2>7, <2>8, <2>9
<1> QED
  BY <1>2, <1>3

(* An eviction takes at most one entry, whichever node was picked.         *)
LEMMA EvictStep ==
  ASSUME IInv, EvictOne
  PROVE  /\ map' \in MapType /\ list' \in ListType /\ node' \in [Nodes -> NodeType]
         /\ older' \subseteq Keys \X Keys
         /\ totalBytes' \in Int
         /\ lfuFreq' \in [Keys -> {0, 1}]
         /\ tagIndex' \in [Tags -> SUBSET Keys]
         /\ task' \in [Tasks -> TaskState]
         /\ raced' \in [Keys -> SUBSET Tags]
         /\ recency' \subseteq Keys \X Keys
         /\ KeyOfNode' /\ IndexedUnlessRaced' /\ YetToVisit'
<1> USE DEF IInv
<1>1. /\ map \in MapType /\ list \in ListType /\ node \in [Nodes -> NodeType]
      /\ older \subseteq Keys \X Keys /\ recency \subseteq Keys \X Keys
      /\ tagIndex \in [Tags -> SUBSET Keys] /\ raced \in [Keys -> SUBSET Tags]
      /\ totalBytes \in Int /\ lfuFreq \in [Keys -> {0, 1}]
      /\ task \in [Tasks -> TaskState]
  BY DEF TypeOK, MapType, ListType, NodeType
<1>2. CASE EvictNothing
  BY <1>1, <1>2 DEF EvictNothing, storeVars, Entries, Meta, KeyOfNode,
     IndexedUnlessRaced, YetToVisit
<1>3. ASSUME NEW n \in Nodes, EvictNode(n)
      PROVE  /\ map' \in MapType /\ list' \in ListType /\ node' \in [Nodes -> NodeType]
             /\ older' \subseteq Keys \X Keys
             /\ totalBytes' \in Int
             /\ lfuFreq' \in [Keys -> {0, 1}]
             /\ tagIndex' \in [Tags -> SUBSET Keys]
             /\ task' \in [Tasks -> TaskState]
             /\ raced' \in [Keys -> SUBSET Tags]
             /\ recency' \subseteq Keys \X Keys
             /\ KeyOfNode' /\ IndexedUnlessRaced' /\ YetToVisit'
  <2> DEFINE k == node[n].key
  <2>1. Removed(list, n) \in ListType
    BY <1>1, ListTypes
  <2>2. [map EXCEPT ![k] = Null] \in MapType
    BY <1>1 DEF MapType
  <2>3. /\ Heap([map EXCEPT ![k] = Null], Removed(list, n), node)
        /\ totalBytes' = totalBytes - node[n].size
        /\ older' = Without(older, k)
        /\ lfuFreq' = [lfuFreq EXCEPT ![k] = 0]
        /\ tagIndex' = Unindexed(k, node[n].tags)
        /\ task' = Forget(task, k, node[n].tags)
        /\ Gone(k)
    BY <1>3 DEF EvictNode
  <2>4. totalBytes' \in Int
    BY <1>1, <2>3 DEF NodeType
  <2> HIDE DEF k
  <2>5. /\ map' = [map EXCEPT ![k] = Null] /\ list' \in ListType /\ node' \in [Nodes -> NodeType]
        /\ \A j \in Keys : map'[j] # Null => node'[map'[j]] = node[map'[j]]
    BY <1>1, <2>1, <2>2, <2>3, HeapKeeps
  <2>6. /\ older' \subseteq Keys \X Keys /\ recency' \subseteq Keys \X Keys
        /\ tagIndex' \in [Tags -> SUBSET Keys] /\ raced' \in [Keys -> SUBSET Tags]
        /\ lfuFreq' \in [Keys -> {0, 1}]
    BY <1>1, <2>3 DEF Without, Unindexed, Gone
  <2>7. /\ task' \in [Tasks -> TaskState]
        /\ \A i \in Tasks : /\ task'[i].op = task[i].op
                           /\ task'[i].tag = task[i].tag
                           /\ task[i].left \ {k} \subseteq task'[i].left
    BY <1>1, <2>3 DEF Forget, TaskState
  <2>8. \A j \in Entries' : /\ j # k
                            /\ j \in Entries
                            /\ Meta(j)' = Meta(j)
                            /\ raced'[j] = raced[j]
                            /\ \A t \in Tags : j \in tagIndex[t] => j \in tagIndex'[t]
    BY <1>1, <2>3, <2>5 DEF Entries, Meta, MapType, Gone, Unindexed
  <2>9. \A i \in Tasks, j \in Entries' :
          task'[i].op = "invalidateTag" /\ task'[i].tag \in Meta(j).tags \ raced[j]
            => j \in task'[i].left
    BY <2>7, <2>8 DEF YetToVisit
  <2>10. KeyOfNode' /\ IndexedUnlessRaced' /\ YetToVisit'
    BY <2>8, <2>9, NothingStored
  <2> QED
    BY <2>2, <2>4, <2>5, <2>6, <2>7, <2>10
<1> QED
  BY <1>2, <1>3 DEF EvictOne

(* Storing an entry: it is indexed under all its tags; an invalidation     *)
(* under way that may miss it is recorded in raced.                        *)
LEMMA StoreStep ==
  ASSUME IInv, pending # NoCall, NEW n \in Nodes, NEW l \in ListType, StoreIn(n, l),
         n = map[pending.key] \/ n \notin Reachable(map, list)
  PROVE  TypeOK' /\ KeyOfNode' /\ IndexedUnlessRaced' /\ YetToVisit'
<1> USE DEF IInv
<1> DEFINE k == pending.key
           stored == [key |-> k, tags |-> pending.tags, ns |-> pending.ns,
                      size |-> pending.size,
                      expiresAt |-> IF pending.ttl > 0 THEN now + pending.ttl ELSE 0]
           held == IF map[k] = Null THEN 0 ELSE Meta(k).size
<1>1. /\ map \in MapType /\ list \in ListType /\ node \in [Nodes -> NodeType]
      /\ older \subseteq Keys \X Keys /\ recency \subseteq Keys \X Keys
      /\ tagIndex \in [Tags -> SUBSET Keys] /\ raced \in [Keys -> SUBSET Tags]
      /\ totalBytes \in Int /\ lfuFreq \in [Keys -> {0, 1}]
      /\ task \in [Tasks -> TaskState] /\ now \in Nat
      /\ timer \in BOOLEAN /\ sweeping \subseteq Keys /\ expiredRead \in BOOLEAN
  BY DEF TypeOK, MapType, ListType, NodeType
<1>2. /\ pending \in SetCall
      /\ k \in Keys /\ pending.tags \subseteq Tags /\ pending.size \in Nat
      /\ pending.ttl \in Nat /\ pending.ns \in Namespaces
  <2>1. pending \in SetCall
    BY DEF TypeOK
  <2> QED
    BY <2>1 DEF SetCall
<1>3. stored \in NodeType
  BY <1>1, <1>2 DEF NodeType
<1>4. held \in Int
  BY <1>1, <1>2 DEF Meta, NodeType, MapType
<1>5. /\ Heap([map EXCEPT ![k] = n], l, [node EXCEPT ![n] = stored])
      /\ older' = IF map[k] = Null THEN older \cup {<<j, k>> : j \in Entries} ELSE older
      /\ totalBytes' = totalBytes - held + pending.size
      /\ lfuFreq' = IF Strategy = "lfu" THEN [lfuFreq EXCEPT ![k] = 1] ELSE lfuFreq
      /\ tagIndex' = Indexed(k, pending.tags)
      /\ task' = Announce(task, k, pending.tags)
      /\ raced' = [raced EXCEPT ![k] = {t \in pending.tags : Invalidating(t)}]
      /\ Used(k)
      /\ pending' = NoCall
      /\ UNCHANGED <<now, timer, sweeping, expiredRead>>
  BY DEF StoreIn
<1> HIDE DEF held, stored
<1>6. /\ [map EXCEPT ![k] = n] \in MapType
      /\ [node EXCEPT ![n] = stored] \in [Nodes -> NodeType]
  BY <1>1, <1>3 DEF MapType
<1>7. /\ map' = [map EXCEPT ![k] = n] /\ list' \in ListType /\ node' \in [Nodes -> NodeType]
      /\ \A j \in Keys : map'[j] # Null
           => node'[map'[j]] = [node EXCEPT ![n] = stored][map'[j]]
  BY <1>5, <1>6, HeapKeeps
<1>8. totalBytes' \in Int
  BY <1>1, <1>2, <1>4, <1>5
<1>9. /\ older' \subseteq Keys \X Keys /\ recency' \subseteq Keys \X Keys
      /\ lfuFreq' \in [Keys -> {0, 1}]
  BY <1>1, <1>2, <1>5 DEF Entries, Used, Without
<1>10. tagIndex' \in [Tags -> SUBSET Keys] /\ raced' \in [Keys -> SUBSET Tags]
  BY <1>1, <1>2, <1>5 DEF Indexed
<1>11. /\ task' \in [Tasks -> TaskState]
       /\ \A i \in Tasks : /\ task'[i].op = task[i].op
                          /\ task'[i].tag = task[i].tag
                          /\ task[i].left \subseteq task'[i].left
  BY <1>1, <1>2, <1>5 DEF Announce, TaskState
<1>12. TypeOK'
  BY <1>1, <1>5, <1>6, <1>7, <1>8, <1>9, <1>10, <1>11 DEF TypeOK, MapType, ListType, NodeType
<1>13. ASSUME NEW j \in Entries, j # k PROVE map[j] # n
  <2>1. CASE n = map[k]
    BY <1>1, <1>2, <1>13, <2>1 DEF KeyOfNode, Entries, Meta, MapType
  <2>2. CASE n \notin Reachable(map, list)
    BY <1>1, <1>13, <2>2 DEF Reachable, Entries, MapType
  <2> QED
    BY <2>1, <2>2
<1>14. /\ k \in Entries' /\ node'[map'[k]] = stored
       /\ \A j \in Entries' \ {k} : /\ j \in Entries
                                   /\ node'[map'[j]] = node[map[j]]
                                   /\ raced'[j] = raced[j]
  BY <1>1, <1>2, <1>3, <1>5, <1>7, <1>13, ConstantsOK DEF Entries, Meta, MapType
<1>15. stored.key = k /\ stored.tags = pending.tags
  BY DEF stored
<1>16. KeyOfNode'
  BY <1>14, <1>15 DEF KeyOfNode, Meta
<1>17. IndexedUnlessRaced'
  <2>1. \A j \in Entries : Meta(j).tags \subseteq Tags
    BY <1>1 DEF Entries, Meta, MapType, NodeType
  <2> QED
    BY <1>1, <1>2, <1>5, <1>14, <1>15, <2>1 DEF IndexedUnlessRaced, Indexed, Meta
<1>18. YetToVisit'
  <2> SUFFICES ASSUME NEW i \in Tasks, task'[i].op = "invalidateTag", NEW j \in Entries',
                      task'[i].tag \in node'[map'[j]].tags, task'[i].tag \notin raced'[j]
               PROVE  j \in task'[i].left
    BY DEF YetToVisit, Meta
  <2>1. CASE j = k
    <3>1. Invalidating(task'[i].tag)
      BY <1>11 DEF Invalidating
    <3>2. raced'[k] = {t \in pending.tags : Invalidating(t)}
      BY <1>1, <1>2, <1>5
    <3> QED
      BY <1>14, <1>15, <2>1, <3>1, <3>2
  <2>2. CASE j # k
    BY <1>11, <1>14, <2>2 DEF YetToVisit, Meta
  <2> QED
    BY <2>1, <2>2
<1> QED
  BY <1>12, <1>16, <1>17, <1>18

-----------------------------------------------------------------------------
LEMMA InitIInv == Init => IInv
<1> SUFFICES ASSUME Init PROVE IInv
  OBVIOUS
<1>1. TypeOK
  <2>1. Blank \in NodeType /\ NoTask \in TaskState
    BY ConstantsOK DEF Blank, NodeType, NoTask, TaskState
  <2>2. map \in MapType /\ list \in ListType /\ node \in [Nodes -> NodeType] /\ task \in [Tasks -> TaskState]
    BY <2>1 DEF Init, MapType, ListType
  <2>3. lfuFreq \in [Keys -> {0, 1}] /\ tagIndex \in [Tags -> SUBSET Keys] /\ raced \in [Keys -> SUBSET Tags]
    BY DEF Init
  <2>4. /\ older \subseteq Keys \X Keys /\ recency \subseteq Keys \X Keys /\ sweeping \subseteq Keys
        /\ totalBytes \in Int /\ now \in Nat
    BY DEF Init
  <2>6. timer \in BOOLEAN /\ expiredRead \in BOOLEAN
    BY Zenon DEF Init
  <2>5. pending \in SetCall \cup {NoCall}
    BY DEF Init
  <2> QED
    BY <2>2, <2>3, <2>4, <2>5, <2>6 DEF TypeOK, MapType, ListType, NodeType
<1>2. Entries = {}
  BY DEF Init, Entries
<1> QED
  BY <1>1, <1>2 DEF IInv, KeyOfNode, IndexedUnlessRaced, YetToVisit

(* Steps that leave the entries, the index and the histories alone, and    *)
(* start no invalidation.                                                  *)
LEMMA QuietStep ==
  ASSUME IInv, UNCHANGED <<map, node, tagIndex, raced>>,
         \A i \in Tasks : task'[i].op = "invalidateTag" =>
           task[i].op = "invalidateTag" /\ task'[i].tag = task[i].tag /\ task'[i].left = task[i].left
  PROVE  KeyOfNode' /\ IndexedUnlessRaced' /\ YetToVisit'
BY DEF IInv, KeyOfNode, IndexedUnlessRaced, YetToVisit, Entries, Meta

(* The calls that delete: it is enough that their bookkeeping still leads  *)
(* every invalidation under way to the entries it must drop.               *)
LEMMA DropIInv ==
  ASSUME IInv, NEW k \in Keys, NEW tk \in [Tasks -> TaskState], Drop(k, tk),
         UNCHANGED <<lfuFreq, turnVars, expiredRead>>,
         \A i \in Tasks, j \in Entries \ {k} :
           tk[i].op = "invalidateTag" /\ tk[i].tag \in Meta(j).tags \ raced[j] => j \in tk[i].left
  PROVE  IInv'
<1>1. /\ map' \in MapType /\ list' \in ListType /\ node' \in [Nodes -> NodeType]
      /\ older' \subseteq Keys \X Keys
      /\ totalBytes' \in Int
      /\ tagIndex' \in [Tags -> SUBSET Keys]
      /\ task' \in [Tasks -> TaskState]
      /\ raced' \in [Keys -> SUBSET Tags]
      /\ recency' \subseteq Keys \X Keys
      /\ \A j \in Entries' : /\ j # k
                            /\ j \in Entries
                            /\ Meta(j)' = Meta(j)
                            /\ raced'[j] = raced[j]
                            /\ \A t \in Tags : j \in tagIndex[t] => j \in tagIndex'[t]
      /\ \A i \in Tasks : /\ task'[i].op = tk[i].op
                         /\ task'[i].tag = tk[i].tag
                         /\ tk[i].left \ {k} \subseteq task'[i].left
  BY DropStep
<1>2. TypeOK'
  BY <1>1 DEF IInv, TypeOK, turnVars, MapType, ListType, NodeType
<1>3. KeyOfNode' /\ IndexedUnlessRaced' /\ YetToVisit'
  BY <1>1, NothingStored
<1> QED
  BY <1>2, <1>3 DEF IInv

LEMMA StepIInv == IInv /\ [Next]_vars => IInv'
<1> SUFFICES ASSUME IInv, [Next]_vars PROVE IInv'
  OBVIOUS
<1>1. /\ TypeOK
      /\ map \in MapType /\ list \in ListType /\ node \in [Nodes -> NodeType]
      /\ task \in [Tasks -> TaskState] /\ tagIndex \in [Tags -> SUBSET Keys]
  BY DEF IInv, TypeOK, MapType, ListType, NodeType
<1>2. ASSUME NEW tk \in [Tasks -> TaskState], NEW ts PROVE Detach(tk, ts) \in [Tasks -> TaskState]
  BY DEF Detach, TaskState
<1>3. NoTask \in TaskState
  BY DEF NoTask, TaskState
<1>4. CASE Tick
  <2>1. TypeOK'
    BY <1>1, <1>4 DEF Tick, storeVars, histVars, TypeOK
  <2> QED
    BY <1>4, <2>1, QuietStep DEF Tick, storeVars, histVars, IInv
<1>5. ASSUME NEW k \in Keys, Get(k) PROVE IInv'
  <2>1. Read(k)
    BY <1>5 DEF Get
  <2>2. /\ map' = map /\ list' \in ListType /\ node' \in [Nodes -> NodeType]
        /\ recency' \subseteq Keys \X Keys /\ expiredRead' \in BOOLEAN
        /\ \A j \in Entries : node'[map[j]].key = Meta(j).key /\ node'[map[j]].tags = Meta(j).tags
    BY <2>1, ReadStep
  <2>3. TypeOK'
    BY <1>1, <1>5, <2>1, <2>2 DEF Get, Read, TypeOK, MapType, ListType, NodeType
  <2>4. KeyOfNode' /\ IndexedUnlessRaced' /\ YetToVisit'
    BY <1>5, <2>1, <2>2 DEF Get, Read, IInv, KeyOfNode, IndexedUnlessRaced, YetToVisit, Entries, Meta
  <2> QED
    BY <2>3, <2>4 DEF IInv
<1>6. ASSUME NEW k \in Keys, NEW ts \in SUBSET Tags, NEW ns \in Namespaces, NEW ttl \in Ttls,
             NEW size \in Sizes, Set(k, ts, ns, ttl, size)
      PROVE  IInv'
  <2>1. pending' \in SetCall
    BY <1>6, ConstantsOK DEF Set, SetCall
  <2>2. TypeOK'
    BY <1>1, <1>6, <2>1 DEF Set, storeVars, histVars, TypeOK
  <2> QED
    BY <1>6, <2>2, QuietStep DEF Set, storeVars, histVars, IInv
<1>7. CASE EvictForMemory \/ EvictForSlot
  <2>1. EvictOne /\ UNCHANGED <<now, timer, sweeping, expiredRead>>
    BY <1>7 DEF EvictForMemory, EvictForSlot, EvictOne
  <2>2. pending' \in SetCall \cup {NoCall}
    BY <1>1, <1>7 DEF EvictForMemory, EvictForSlot, TypeOK, SetCall
  <2>3. /\ map' \in MapType /\ list' \in ListType /\ node' \in [Nodes -> NodeType]
        /\ older' \subseteq Keys \X Keys
        /\ totalBytes' \in Int
        /\ lfuFreq' \in [Keys -> {0, 1}]
        /\ tagIndex' \in [Tags -> SUBSET Keys]
        /\ task' \in [Tasks -> TaskState]
        /\ raced' \in [Keys -> SUBSET Tags]
        /\ recency' \subseteq Keys \X Keys
        /\ KeyOfNode' /\ IndexedUnlessRaced' /\ YetToVisit'
    BY <2>1, EvictStep
  <2>4. TypeOK'
    BY <1>1, <2>1, <2>2, <2>3 DEF TypeOK, MapType, ListType, NodeType
  <2> QED
    BY <2>3, <2>4 DEF IInv
<1>8. CASE Store
  <2> DEFINE k == pending.key
             n == map[k]
  <2>1. pending # NoCall /\ k \in Keys
    BY <1>1, <1>8 DEF Store, TypeOK, SetCall
  <2>2. CASE n # Null /\ StoreIn(n, Touched(list, n))
    <3>1. n \in Nodes
      BY <1>1, <2>1, <2>2 DEF MapType
    <3>2. Touched(list, n) \in ListType
      BY <1>1, <3>1, ListTypes
    <3> QED
      BY <2>1, <2>2, <3>1, <3>2, StoreStep DEF IInv
  <2>3. ASSUME NEW fresh \in Nodes \ Reachable(map, list), StoreIn(fresh, PushedHead(list, fresh))
        PROVE  IInv'
    <3>1. PushedHead(list, fresh) \in ListType
      BY <1>1, ListTypes
    <3> QED
      BY <2>1, <2>3, <3>1, StoreStep DEF IInv
  <2> QED
    BY <1>8, <2>2, <2>3 DEF Store
<1>9. ASSUME NEW k \in Keys, Delete(k) PROVE IInv'
  BY <1>1, <1>9, DropIInv DEF Delete, IInv, YetToVisit
<1>10. CASE Reset /\ totalBytes' \in Int /\ timer' \in BOOLEAN
  <2> DEFINE m == [k \in Keys |-> Null]
             l == [prev |-> list.prev, next |-> list.next, head |-> Null, tail |-> Null]
  <2>1. m \in MapType /\ l \in ListType
    BY <1>1 DEF MapType, ListType
  <2>2. Heap(m, l, node)
    BY <1>10 DEF Reset
  <2> HIDE DEF m, l
  <2>3. map' = m /\ list' \in ListType /\ node' \in [Nodes -> NodeType]
    BY <1>1, <2>1, <2>2, HeapKeeps
  <2>4. task' \in [Tasks -> TaskState]
    BY <1>1, <1>2, <1>10 DEF Reset
  <2>5. TypeOK'
    BY <1>1, <1>10, <2>1, <2>3, <2>4 DEF Reset, TypeOK, MapType, ListType, NodeType
  <2>6. Entries' = {}
    BY <2>3 DEF m, Entries
  <2> QED
    BY <2>5, <2>6 DEF IInv, KeyOfNode, IndexedUnlessRaced, YetToVisit
<1>11. CASE ClearAll \/ Close
  <2>1. Reset
    BY <1>11 DEF ClearAll, Close
  <2>2. totalBytes' \in Int
    BY <1>1, <1>11 DEF ClearAll, Close, TypeOK
  <2>3. timer' \in BOOLEAN
    BY <1>1, <1>11 DEF ClearAll, Close, TypeOK
  <2> QED
    BY <1>10, <2>1, <2>2, <2>3
<1>12. CASE CleanupTurn
  <2>1. TypeOK'
    BY <1>1, <1>12 DEF CleanupTurn, storeVars, histVars, TypeOK, Entries
  <2> QED
    BY <1>12, <2>1, QuietStep DEF CleanupTurn, storeVars, histVars, IInv
<1>13. ASSUME NEW k \in Keys, map[k] # Null,
              totalBytes' = totalBytes - Meta(k).size,
              Heap([map EXCEPT ![k] = Null], Removed(list, map[k]), node),
              older' = Without(older, k),
              lfuFreq' = [lfuFreq EXCEPT ![k] = 0],
              sweeping' = sweeping \ {k},
              Gone(k),
              UNCHANGED <<tagIndex, now, timer, pending, task, expiredRead>>
       PROVE  IInv'
  <2>1. map[k] \in Nodes /\ [map EXCEPT ![k] = Null] \in MapType
    BY <1>1, <1>13 DEF MapType
  <2>2. Removed(list, map[k]) \in ListType
    BY <1>1, <2>1, ListTypes
  <2>3. /\ map' = [map EXCEPT ![k] = Null] /\ list' \in ListType /\ node' \in [Nodes -> NodeType]
        /\ \A j \in Keys : map'[j] # Null => node'[map'[j]] = node[map'[j]]
    BY <1>1, <1>13, <2>1, <2>2, HeapKeeps
  <2>4. totalBytes' \in Int
    BY <1>1, <1>13, <2>1 DEF TypeOK, NodeType, Meta
  <2>5. /\ older' \subseteq Keys \X Keys /\ recency' \subseteq Keys \X Keys
        /\ raced' \in [Keys -> SUBSET Tags] /\ lfuFreq' \in [Keys -> {0, 1}]
        /\ sweeping' \subseteq Keys
    BY <1>1, <1>13 DEF TypeOK, Without, Gone
  <2>6. TypeOK'
    BY <1>1, <1>13, <2>1, <2>3, <2>4, <2>5 DEF TypeOK, MapType, ListType, NodeType
  <2>7. \A j \in Entries' : /\ j # k
                            /\ j \in Entries
                            /\ Meta(j)' = Meta(j)
                            /\ raced'[j] = raced[j]
    BY <1>1, <1>13, <2>3 DEF TypeOK, Entries, Meta, MapType, Gone
  <2>8. KeyOfNode' /\ IndexedUnlessRaced' /\ YetToVisit'
    BY <1>13, <2>7, NothingStored DEF IInv, YetToVisit
  <2> QED
    BY <2>6, <2>8 DEF IInv
<1>14. CASE SweepEntry
  <2>1. PICK k \in Oldest(sweeping) :
          /\ map[k] # Null
          /\ totalBytes' = totalBytes - Meta(k).size
          /\ Heap([map EXCEPT ![k] = Null], Removed(list, map[k]), node)
          /\ older' = Without(older, k)
          /\ lfuFreq' = [lfuFreq EXCEPT ![k] = 0]
          /\ sweeping' = sweeping \ {k}
          /\ Gone(k)
          /\ UNCHANGED <<tagIndex, now, timer, pending, task, expiredRead>>
    BY <1>14 DEF SweepEntry
  <2>2. k \in Keys
    BY <1>1 DEF Oldest, TypeOK
  <2> QED
    BY <1>13, <2>1, <2>2
<1>15. ASSUME NEW i \in Tasks, NEW t \in Tags, InvalidateTag(i, t) PROVE IInv'
  <2>1. PICK k \in tagIndex[t] :
          Drop(k, Visiting(i, "invalidateTag", t, tagIndex[t], k, TRUE))
    BY <1>15 DEF InvalidateTag
  <2> DEFINE tk == Visiting(i, "invalidateTag", t, tagIndex[t], k, TRUE)
  <2>2. k \in Keys /\ tk \in [Tasks -> TaskState]
    BY <1>1, <2>1 DEF Visiting, TaskState
  <2>3. \A h \in Tasks, j \in Entries \ {k} :
          tk[h].op = "invalidateTag" /\ tk[h].tag \in Meta(j).tags \ raced[j] => j \in tk[h].left
    BY <1>1, <2>1 DEF Visiting, IInv, YetToVisit, IndexedUnlessRaced
  <2> HIDE DEF tk
  <2> QED
    BY <1>15, <2>1, <2>2, <2>3, DropIInv DEF InvalidateTag, tk
<1>16. ASSUME NEW t \in Tags, InvalidateEmptyTag(t) PROVE IInv'
  <2>1. task' \in [Tasks -> TaskState]
    BY <1>1, <1>2, <1>16 DEF InvalidateEmptyTag
  <2>2. TypeOK'
    BY <1>1, <1>16, <2>1 DEF InvalidateEmptyTag, storeVars, turnVars, histVars, TypeOK
  <2>3. \A i \in Tasks : task'[i].op = task[i].op /\ task'[i].tag = task[i].tag /\ task'[i].left = task[i].left
    BY <1>1, <1>16 DEF InvalidateEmptyTag, Detach, TaskState
  <2> QED
    BY <1>16, <2>2, <2>3, QuietStep DEF InvalidateEmptyTag, storeVars, histVars, IInv
<1>17. ASSUME NEW i \in Tasks, NEW ns \in Namespaces, ClearNamespace(i, ns) PROVE IInv'
  <2> DEFINE ks == {k \in Entries : Meta(k).ns = ns}
  <2>1. PICK k \in ks : Drop(k, Visiting(i, "clear", Null, ks, k, FALSE))
    BY <1>17 DEF ClearNamespace
  <2> DEFINE tk == Visiting(i, "clear", Null, ks, k, FALSE)
  <2>2. k \in Keys /\ tk \in [Tasks -> TaskState]
    BY <1>1, <2>1 DEF Visiting, TaskState, Entries
  <2>3. \A h \in Tasks, j \in Entries \ {k} :
          tk[h].op = "invalidateTag" /\ tk[h].tag \in Meta(j).tags \ raced[j] => j \in tk[h].left
    BY <1>1, <2>1 DEF Visiting, IInv, YetToVisit
  <2> HIDE DEF tk
  <2> QED
    BY <1>17, <2>1, <2>2, <2>3, DropIInv DEF ClearNamespace, tk
<1>18. ASSUME NEW i \in Tasks, DropNext(i) PROVE IInv'
  <2>1. PICK k \in task[i].left : Drop(k, [task EXCEPT ![i].left = @ \ {k}])
    BY <1>18 DEF DropNext
  <2> DEFINE tk == [task EXCEPT ![i].left = @ \ {k}]
  <2>2. k \in Keys /\ tk \in [Tasks -> TaskState]
    BY <1>1, <2>1 DEF TaskState
  <2>3. \A h \in Tasks, j \in Entries \ {k} :
          tk[h].op = "invalidateTag" /\ tk[h].tag \in Meta(j).tags \ raced[j] => j \in tk[h].left
    BY <1>1, <2>1 DEF TaskState, IInv, YetToVisit
  <2> HIDE DEF tk
  <2> QED
    BY <1>18, <2>1, <2>2, <2>3, DropIInv DEF DropNext, tk
<1>19. ASSUME NEW i \in Tasks, InvalidateTagReturns(i) PROVE IInv'
  <2> DEFINE t == task[i].tag
  <2>1. /\ task[i].op = "invalidateTag" /\ task[i].left = {}
        /\ tagIndex' = [tagIndex EXCEPT ![t] = {}]
        /\ task' = Detach([task EXCEPT ![i] = NoTask], {t})
        /\ UNCHANGED <<heapVars, older, totalBytes, lfuFreq, turnVars, histVars>>
    BY <1>19 DEF InvalidateTagReturns
  <2>2. task' \in [Tasks -> TaskState]
    BY <1>1, <1>2, <1>3, <2>1
  <2>3. tagIndex' \in [Tags -> SUBSET Keys]
    BY <1>1, <2>1
  <2>4. TypeOK'
    BY <1>1, <2>1, <2>2, <2>3 DEF TypeOK, heapVars, turnVars, histVars
  <2>5. KeyOfNode'
    BY <2>1 DEF IInv, KeyOfNode, Entries, Meta, heapVars
  <2>6. \A k \in Entries : t \in Meta(k).tags => t \in raced[k]
    BY <2>1 DEF IInv, YetToVisit
  <2>7. IndexedUnlessRaced'
    BY <1>1, <2>1, <2>6 DEF IInv, IndexedUnlessRaced, Entries, Meta, heapVars, histVars
  <2>8. \A h \in Tasks : task'[h].op = "invalidateTag" =>
          /\ task[h].op = "invalidateTag" /\ task'[h].tag = task[h].tag
          /\ task'[h].left = task[h].left
    BY <1>1, <2>1 DEF Detach, NoTask, TaskState
  <2>9. YetToVisit'
    BY <2>1, <2>8 DEF IInv, YetToVisit, Entries, Meta, heapVars, histVars
  <2> QED
    BY <2>4, <2>5, <2>7, <2>9 DEF IInv
<1>20. ASSUME NEW k \in Keys, Read(k), task' \in [Tasks -> TaskState], pending' = pending,
              \A i \in Tasks : task'[i].op = "invalidateTag" => task'[i] = task[i]
       PROVE  IInv'
  <2>1. /\ map' = map /\ list' \in ListType /\ node' \in [Nodes -> NodeType]
        /\ recency' \subseteq Keys \X Keys /\ expiredRead' \in BOOLEAN
        /\ \A j \in Entries : node'[map[j]].key = Meta(j).key /\ node'[map[j]].tags = Meta(j).tags
    BY <1>20, ReadStep
  <2>2. TypeOK'
    BY <1>1, <1>20, <2>1 DEF Read, TypeOK, MapType, ListType, NodeType
  <2>3. KeyOfNode' /\ IndexedUnlessRaced' /\ YetToVisit'
    BY <1>20, <2>1 DEF Read, IInv, KeyOfNode, IndexedUnlessRaced, YetToVisit, Entries, Meta
  <2> QED
    BY <2>2, <2>3 DEF IInv
<1>21. ASSUME NEW i \in Tasks, NEW t \in Tags, GetByTag(i, t) PROVE IInv'
  <2>1. PICK k \in tagIndex[t] :
          Read(k) /\ task' = Visiting(i, "getByTag", t, tagIndex[t], k, TRUE)
    BY <1>21 DEF GetByTag
  <2>2. k \in Keys /\ task' \in [Tasks -> TaskState]
    BY <1>1, <2>1 DEF Visiting, TaskState
  <2>3. \A h \in Tasks : task'[h].op = "invalidateTag" => task'[h] = task[h]
    BY <1>1, <2>1 DEF Visiting
  <2> QED
    BY <1>20, <1>21, <2>1, <2>2, <2>3 DEF GetByTag
<1>22. ASSUME NEW i \in Tasks, GetNext(i) PROVE IInv'
  <2>1. PICK k \in task[i].left : Read(k) /\ task' = [task EXCEPT ![i].left = @ \ {k}]
    BY <1>22 DEF GetNext
  <2>2. k \in Keys /\ task' \in [Tasks -> TaskState]
    BY <1>1, <2>1 DEF TaskState
  <2>3. \A h \in Tasks : task'[h].op = "invalidateTag" => task'[h] = task[h]
    BY <1>1, <1>22, <2>1 DEF GetNext, TaskState
  <2> QED
    BY <1>20, <1>22, <2>1, <2>2, <2>3 DEF GetNext
<1>23. ASSUME NEW i \in Tasks, NEW k \in Keys, Increment(i, k) PROVE IInv'
  <2>1. /\ Read(k) /\ pending' = pending
        /\ task' = [task EXCEPT ![i] = [NoTask EXCEPT !.op = "increment", !.left = {k}]]
    BY <1>23 DEF Increment
  <2>2. task' \in [Tasks -> TaskState]
    BY <1>1, <1>3, <2>1 DEF NoTask, TaskState
  <2>3. \A h \in Tasks : task'[h].op = "invalidateTag" => task'[h] = task[h]
    BY <1>1, <2>1 DEF NoTask
  <2> QED
    BY <1>20, <2>1, <2>2, <2>3
<1>24. ASSUME NEW i \in Tasks, IncrementSets(i) \/ LoopReturns(i) PROVE IInv'
  <2>1. task' = [task EXCEPT ![i] = NoTask] /\ UNCHANGED <<storeVars, now, timer, sweeping, histVars>>
    BY <1>24 DEF IncrementSets, LoopReturns, turnVars
  <2>2. CASE IncrementSets(i)
    <3>1. PICK k \in task[i].left, size \in Sizes :
            pending' = [key |-> k, tags |-> {}, ns |-> DefaultNs, ttl |-> DefaultTtl,
                        size |-> size, evicted |-> FALSE]
      BY <2>2 DEF IncrementSets
    <3>2. k \in Keys
      BY <1>1 DEF TaskState
    <3>3. pending' \in SetCall
      BY <3>1, <3>2, ConstantsOK DEF SetCall
    <3>4. TypeOK'
      BY <1>1, <1>3, <2>1, <3>3 DEF TypeOK, storeVars, histVars
    <3>5. \A h \in Tasks : task'[h].op = "invalidateTag" => task'[h] = task[h]
      BY <1>1, <2>1 DEF NoTask
    <3> QED
      BY <2>1, <3>4, <3>5, QuietStep DEF storeVars, histVars, IInv
  <2>3. CASE LoopReturns(i)
    <3>1. TypeOK'
      BY <1>1, <1>3, <2>1, <2>3 DEF LoopReturns, TypeOK, storeVars, turnVars, histVars
    <3>2. \A h \in Tasks : task'[h].op = "invalidateTag" => task'[h] = task[h]
      BY <1>1, <2>1 DEF NoTask
    <3> QED
      BY <2>1, <3>1, <3>2, QuietStep DEF storeVars, histVars, IInv
  <2> QED
    BY <1>24, <2>2, <2>3
<1>25. CASE UNCHANGED vars
  <2>1. TypeOK'
    BY <1>1, <1>25 DEF vars, TypeOK
  <2> QED
    BY <1>25, <2>1, QuietStep DEF vars, IInv
<1> QED
  BY <1>4, <1>5, <1>6, <1>7, <1>8, <1>9, <1>11, <1>12, <1>14, <1>15, <1>16, <1>17, <1>18,
     <1>19, <1>21, <1>22, <1>23, <1>24, <1>25 DEF Next

-----------------------------------------------------------------------------
(* Every variable keeps its type: in particular list pointers and Map      *)
(* values never leave the heap, whatever interleaves at the awaits.        *)
THEOREM TypeCorrect == Spec => []TypeOK
<1>1. IInv => TypeOK
  BY DEF IInv
<1> QED
  BY InitIInv, StepIInv, <1>1, PTL DEF Spec

(* A live entry is missing from the index of its tag (memory.ts:167-177)   *)
(* only if an invalidation of that tag was under way when it was stored.   *)
THEOREM IndexSound == Spec => []IndexedUnlessRaced
<1>1. IInv => IndexedUnlessRaced
  BY DEF IInv
<1> QED
  BY InitIInv, StepIInv, <1>1, PTL DEF Spec

(* An invalidateTag under way ends in its own last resumption only.        *)
LEMMA OnlyReturnsEnd ==
  ASSUME IInv, [Next]_vars, NEW i \in Tasks, task[i].op = "invalidateTag"
  PROVE  task'[i].op = "invalidateTag" \/ InvalidateTagReturns(i)
<1>1. task \in [Tasks -> TaskState]
  BY DEF IInv, TypeOK
<1>2. ASSUME NEW tk \in [Tasks -> TaskState], NEW ts PROVE Detach(tk, ts)[i].op = tk[i].op
  BY DEF Detach, TaskState
<1>3. ASSUME NEW tk \in [Tasks -> TaskState], NEW k, NEW ts
      PROVE  Forget(tk, k, ts)[i].op = tk[i].op /\ Announce(tk, k, ts)[i].op = tk[i].op
  BY DEF Forget, Announce, TaskState
<1>4. ASSUME NEW k \in Keys, NEW tk \in [Tasks -> TaskState], Drop(k, tk) PROVE task'[i].op = tk[i].op
  BY <1>3, <1>4 DEF Drop
<1>5. NoTask.op = "none"
  BY DEF NoTask
<1>6. CASE UNCHANGED task
  BY <1>6
<1>7. CASE EvictForMemory \/ EvictForSlot
  <2>1. EvictOne
    BY <1>7 DEF EvictForMemory, EvictForSlot
  <2>2. CASE EvictNothing
    BY <2>2 DEF EvictNothing
  <2>3. ASSUME NEW n \in Nodes, EvictNode(n) PROVE task'[i].op = "invalidateTag"
    <3>1. task' = Forget(task, node[n].key, node[n].tags)
      BY <2>3 DEF EvictNode
    <3> QED
      BY <1>1, <1>3, <3>1
  <2> QED
    BY <2>1, <2>2, <2>3 DEF EvictOne
<1>8. CASE Store
  <2>1. task' = Announce(task, pending.key, pending.tags)
    BY <1>8 DEF Store, StoreIn
  <2> QED
    BY <1>1, <1>3, <2>1
<1>9. ASSUME NEW k \in Keys, Delete(k) PROVE task'[i].op = "invalidateTag"
  <2>1. Drop(k, task)
    BY <1>9 DEF Delete
  <2> QED
    BY <1>1, <1>4, <2>1
<1>10. CASE Reset \/ \E t \in Tags : InvalidateEmptyTag(t)
  <2>1. CASE Reset
    <3>1. task' = Detach(task, Tags)
      BY <2>1 DEF Reset
    <3> QED
      BY <1>1, <1>2, <3>1
  <2>2. ASSUME NEW t \in Tags, InvalidateEmptyTag(t) PROVE task'[i].op = "invalidateTag"
    <3>1. task' = Detach(task, {t})
      BY <2>2 DEF InvalidateEmptyTag
    <3> QED
      BY <1>1, <1>2, <3>1
  <2> QED
    BY <1>10, <2>1, <2>2
<1>11. ASSUME NEW h \in Tasks, NEW op, NEW t, NEW ks, NEW k \in Keys, NEW live, task[h] = NoTask
       PROVE  Visiting(h, op, t, ks, k, live)[i] = task[i]
  BY <1>1, <1>5, <1>11 DEF Visiting
<1>12. ASSUME NEW h \in Tasks, NEW t \in Tags, InvalidateTag(h, t) PROVE task'[i].op = "invalidateTag"
  <2>1. PICK k \in tagIndex[t] : Drop(k, Visiting(h, "invalidateTag", t, tagIndex[t], k, TRUE))
    BY <1>12 DEF InvalidateTag
  <2>2. k \in Keys /\ task[h] = NoTask
    BY <1>12 DEF InvalidateTag, IInv, TypeOK
  <2>3. Visiting(h, "invalidateTag", t, tagIndex[t], k, TRUE) \in [Tasks -> TaskState]
    BY <1>1 DEF Visiting, TaskState, IInv, TypeOK
  <2> QED
    BY <1>4, <1>11, <2>1, <2>2, <2>3
<1>13. ASSUME NEW h \in Tasks, NEW ns \in Namespaces, ClearNamespace(h, ns) PROVE task'[i].op = "invalidateTag"
  <2> DEFINE ks == {k \in Entries : Meta(k).ns = ns}
  <2>1. PICK k \in ks : Drop(k, Visiting(h, "clear", Null, ks, k, FALSE))
    BY <1>13 DEF ClearNamespace
  <2>2. k \in Keys /\ task[h] = NoTask
    BY <1>13 DEF ClearNamespace, Entries
  <2>3. Visiting(h, "clear", Null, ks, k, FALSE) \in [Tasks -> TaskState]
    BY <1>1 DEF Visiting, TaskState, Entries
  <2> QED
    BY <1>4, <1>11, <2>1, <2>2, <2>3
<1>14. ASSUME NEW h \in Tasks, DropNext(h) PROVE task'[i].op = "invalidateTag"
  <2>1. PICK k \in task[h].left : Drop(k, [task EXCEPT ![h].left = @ \ {k}])
    BY <1>14 DEF DropNext
  <2>2. k \in Keys /\ [task EXCEPT ![h].left = @ \ {k}] \in [Tasks -> TaskState]
    BY <1>1 DEF TaskState
  <2>3. [task EXCEPT ![h].left = @ \ {k}][i].op = task[i].op
    BY <1>1 DEF TaskState
  <2> QED
    BY <1>4, <2>1, <2>2, <2>3
<1>15. ASSUME NEW h \in Tasks, InvalidateTagReturns(h), h # i PROVE task'[i].op = "invalidateTag"
  <2>1. [task EXCEPT ![h] = NoTask] \in [Tasks -> TaskState]
    BY <1>1 DEF NoTask, TaskState
  <2> QED
    BY <1>1, <1>2, <1>15, <2>1 DEF InvalidateTagReturns
<1>16. ASSUME NEW h \in Tasks, NEW t \in Tags, GetByTag(h, t) PROVE task'[i].op = "invalidateTag"
  <2>1. PICK k \in tagIndex[t] : task' = Visiting(h, "getByTag", t, tagIndex[t], k, TRUE)
    BY <1>16 DEF GetByTag
  <2>2. k \in Keys /\ task[h] = NoTask
    BY <1>16 DEF GetByTag, IInv, TypeOK
  <2> QED
    BY <1>11, <2>1, <2>2
<1>17. ASSUME NEW h \in Tasks, GetNext(h) PROVE task'[i].op = "invalidateTag"
  BY <1>1, <1>17 DEF GetNext, TaskState
<1>18. ASSUME NEW h \in Tasks, NEW k \in Keys, Increment(h, k) PROVE task'[i].op = "invalidateTag"
  BY <1>1, <1>5, <1>18 DEF Increment
<1>19. ASSUME NEW h \in Tasks, IncrementSets(h) \/ LoopReturns(h) PROVE task'[i].op = "invalidateTag"
  BY <1>1, <1>19 DEF IncrementSets, LoopReturns
<1> QED
  BY <1>6, <1>7, <1>8, <1>9, <1>10, <1>12, <1>13, <1>14, <1>15, <1>16, <1>17, <1>18, <1>19
     DEF Next, Tick, Get, Set, ClearAll, Close, CleanupTurn, SweepEntry, vars

(* When invalidateTag(t) returns (memory.ts:262-271), an entry tagged t is *)
(* there only if it was stored while an invalidation of t was under way.   *)
THEOREM InvalidateTagComplete == Spec => InvalidateTagDropsAll
<1> DEFINE Drops == \A i \in Tasks : task[i].op = "invalidateTag" /\ task'[i] = NoTask
             => \A k \in Entries : task[i].tag \in Meta(k).tags => task[i].tag \in raced[k]
<1>1. IInv /\ [Next]_vars => [Drops]_vars
  <2> SUFFICES ASSUME IInv, [Next]_vars, NEW i \in Tasks,
                      task[i].op = "invalidateTag", task'[i] = NoTask,
                      NEW k \in Entries, task[i].tag \in Meta(k).tags
               PROVE  task[i].tag \in raced[k]
    OBVIOUS
  <2>1. InvalidateTagReturns(i)
    BY OnlyReturnsEnd DEF NoTask
  <2>2. task[i].left = {}
    BY <2>1 DEF InvalidateTagReturns
  <2> QED
    BY <2>2 DEF IInv, YetToVisit
<1> QED
  BY InitIInv, StepIInv, <1>1, PTL DEF Spec, InvalidateTagDropsAll

-----------------------------------------------------------------------------
(* The recency list spelled from head to tail: s names its n nodes.        *)
Spelled(l, s, n) ==
  /\ n = 0 => (l.head = Null /\ l.tail = Null)
  /\ n # 0 => (l.head = s[1] /\ l.tail = s[n])
  /\ \A i \in 1 .. n : /\ l.next[s[i]] = IF i = n THEN Null ELSE s[i + 1]
                       /\ l.prev[s[i]] = IF i = 1 THEN Null ELSE s[i - 1]

\* s names some n nodes, each once ...
Names(s, n) == s \in [1 .. n -> Nodes] /\ \A i, j \in 1 .. n : s[i] = s[j] => i = j

\* ... and those of the Map m.
Holds(m, s, n) ==
  /\ \A i \in 1 .. n : \E k \in Keys : m[k] = s[i]
  /\ \A k \in Keys : m[k] # Null => \E i \in 1 .. n : s[i] = m[k]

(* What was used later stands nearer to the head.                          *)
Ordered(rel, m, s, n) ==
  \A r \in rel : \A i, j \in 1 .. n : (s[i] = m[r[1]] /\ s[j] = m[r[2]]) => j < i

Listed(l, m, rel, s, n) ==
  /\ Names(s, n) /\ Spelled(l, s, n) /\ Holds(m, s, n)
  /\ Strategy = "lru" => Ordered(rel, m, s, n)

IsListed(l, m, rel) == \E n \in Nat : \E s : Listed(l, m, rel, s, n)

(* Until a get meets an expired entry, whose node leaves the list and      *)
(* stays in the Map, list and Map tell of the same nodes.                  *)
InList == ~expiredRead => IsListed(list, map, recency)

\* removeNode and pushHead, of what is spelled.
Cut(s, n, i) == [j \in 1 .. (n - 1) |-> IF j < i THEN s[j] ELSE s[j + 1]]
Put(s, n, x) == [j \in 1 .. (n + 1) |-> IF j = 1 THEN x ELSE s[j - 1]]

(* removeNode leaves every other node in its order, each once, ...         *)
LEMMA CutNames ==
  ASSUME NEW n \in Nat, NEW s, NEW i \in 1 .. n, Names(s, n)
  PROVE  /\ Names(Cut(s, n, i), n - 1) /\ n - 1 \in Nat
         /\ \A j \in 1 .. (n - 1) : Cut(s, n, i)[j] # s[i]
<1> DEFINE c == Cut(s, n, i)
<1>1. n - 1 \in Nat
  OBVIOUS
<1>2. \A j \in 1 .. (n - 1) : /\ (j < i => c[j] = s[j]) /\ (j >= i => c[j] = s[j + 1])
                              /\ j \in 1 .. n /\ j + 1 \in 1 .. n
  BY DEF Cut
<1>3. c \in [1 .. (n - 1) -> Nodes]
  BY <1>2 DEF Cut, Names
<1> HIDE DEF c
<1>4. ASSUME NEW j \in 1 .. (n - 1), NEW k \in 1 .. (n - 1), c[j] = c[k] PROVE j = k
  <2>1. CASE j < i /\ k < i
    BY <1>2, <1>4, <2>1 DEF Names
  <2>2. CASE j >= i /\ k >= i
    BY <1>2, <1>4, <2>2 DEF Names
  <2>3. CASE j < i /\ k >= i
    BY <1>2, <1>4, <2>3 DEF Names
  <2>4. CASE j >= i /\ k < i
    BY <1>2, <1>4, <2>4 DEF Names
  <2> QED
    BY <2>1, <2>2, <2>3, <2>4
<1>5. ASSUME NEW j \in 1 .. (n - 1) PROVE c[j] # s[i]
  BY <1>2 DEF Names
<1> QED
  BY <1>1, <1>3, <1>4, <1>5 DEF Names, c

(* ... and relinks head, tail and both neighbours.                         *)
LEMMA CutSpelled ==
  ASSUME NEW n \in Nat, NEW s, NEW i \in 1 .. n, Names(s, n), NEW l \in ListType, Spelled(l, s, n), Null \notin Nodes
  PROVE  Spelled(Removed(l, s[i]), Cut(s, n, i), n - 1)
<1> DEFINE c == Cut(s, n, i)  r == Removed(l, s[i])  p == l.prev[s[i]]  x == l.next[s[i]]
<1>1. n - 1 \in Nat /\ n # 0
  OBVIOUS
<1>2. \A j \in 1 .. (n - 1) : /\ (j < i => c[j] = s[j]) /\ (j >= i => c[j] = s[j + 1])
                              /\ j \in 1 .. n /\ j + 1 \in 1 .. n
  BY DEF Cut
<1>3. \A j \in 1 .. n : s[j] \in Nodes /\ s[j] # Null
  BY DEF Names
<1>4. /\ x = IF i = n THEN Null ELSE s[i + 1]
      /\ p = IF i = 1 THEN Null ELSE s[i - 1]
  BY DEF Spelled
<1>5. /\ r.head = IF i = 1 THEN x ELSE l.head
      /\ r.tail = IF i = n THEN p ELSE l.tail
  <2>1. (p # Null <=> i # 1) /\ (x # Null <=> i # n)
    BY <1>3, <1>4
  <2> QED
    BY <2>1 DEF Removed
<1>6. \A y \in Nodes : /\ r.prev[y] = IF i # n /\ y = s[i + 1] THEN p ELSE l.prev[y]
                       /\ r.next[y] = IF i # 1 /\ y = s[i - 1] THEN x ELSE l.next[y]
  <2>1. l.prev \in [Nodes -> Nodes \cup {Null}] /\ l.next \in [Nodes -> Nodes \cup {Null}]
    BY DEF ListType
  <2>2. (p # Null <=> i # 1) /\ (x # Null <=> i # n)
    BY <1>3, <1>4
  <2> QED
    BY <1>4, <2>1, <2>2 DEF Removed
<1> HIDE DEF c, r, p, x
<1>7. n - 1 = 0 => (r.head = Null /\ r.tail = Null)
  BY <1>4, <1>5
<1>8. n - 1 # 0 => (r.head = c[1] /\ r.tail = c[n - 1])
  BY <1>2, <1>4, <1>5 DEF Spelled
<1>9. ASSUME NEW j \in 1 .. (n - 1)
      PROVE  /\ r.next[c[j]] = IF j = n - 1 THEN Null ELSE c[j + 1]
             /\ r.prev[c[j]] = IF j = 1 THEN Null ELSE c[j - 1]
  <2>1. CASE j < i
    <3>1. c[j] = s[j] /\ s[j] \in Nodes /\ j \in 1 .. n
      BY <1>2, <1>3, <2>1
    <3>2. r.prev[s[j]] = l.prev[s[j]]
      BY <1>6, <2>1, <3>1 DEF Names
    <3>3. r.next[s[j]] = IF j = i - 1 THEN x ELSE l.next[s[j]]
      BY <1>6, <2>1, <3>1 DEF Names
    <3>4. l.prev[s[j]] = IF j = 1 THEN Null ELSE s[j - 1]
      BY <3>1 DEF Spelled
    <3>5. l.next[s[j]] = s[j + 1]
      BY <2>1, <3>1 DEF Spelled
    <3>6. j # 1 => c[j - 1] = s[j - 1]
      BY <1>2, <2>1
    <3>7. (j # i - 1) => (j # n - 1 /\ c[j + 1] = s[j + 1])
      BY <1>2, <2>1
    <3>8. (j = i - 1) => (x = IF j = n - 1 THEN Null ELSE c[j + 1])
      BY <1>2, <1>4, <2>1
    <3> QED
      BY <3>1, <3>2, <3>3, <3>4, <3>5, <3>6, <3>7, <3>8
  <2>2. CASE j >= i
    <3>1. c[j] = s[j + 1] /\ s[j + 1] \in Nodes /\ j + 1 \in 1 .. n /\ i \in Int /\ j \in Int
      BY <1>2, <1>3, <2>2
    <3>2. r.next[s[j + 1]] = l.next[s[j + 1]]
      BY <1>6, <2>2, <3>1 DEF Names
    <3>3. r.prev[s[j + 1]] = IF j = i THEN p ELSE l.prev[s[j + 1]]
      BY <1>6, <2>2, <3>1 DEF Names
    <3>4. l.next[s[j + 1]] = IF j = n - 1 THEN Null ELSE s[(j + 1) + 1]
      BY <3>1 DEF Spelled
    <3>5. l.prev[s[j + 1]] = s[j]
      <4>1. l.prev[s[j + 1]] = IF j + 1 = 1 THEN Null ELSE s[(j + 1) - 1]
        BY <3>1 DEF Spelled
      <4>2. j + 1 # 1 /\ (j + 1) - 1 = j
        BY <2>2, <3>1
      <4> QED
        BY <4>1, <4>2
    <3>6. j # n - 1 => c[j + 1] = s[(j + 1) + 1]
      BY <1>2, <2>2
    <3>7. (j # i) => (j # 1 /\ c[j - 1] = s[j])
      <4>1. ASSUME j # i PROVE j - 1 \in 1 .. (n - 1) /\ j - 1 >= i /\ (j - 1) + 1 = j
        BY <2>2, <4>1
      <4> QED
        BY <1>2, <4>1
    <3>8. (j = i) => (p = IF j = 1 THEN Null ELSE c[j - 1])
      BY <1>2, <1>4
    <3> QED
      BY <3>1, <3>2, <3>3, <3>4, <3>5, <3>6, <3>7, <3>8
  <2> QED
    BY <2>1, <2>2
<1> QED
  BY <1>7, <1>8, <1>9 DEF Spelled, c, r

(* pushHead puts a node the list does not hold before all others.          *)
LEMMA PutNames ==
  ASSUME NEW n \in Nat, NEW s, Names(s, n), NEW x \in Nodes, \A i \in 1 .. n : s[i] # x
  PROVE  Names(Put(s, n, x), n + 1)
<1> DEFINE c == Put(s, n, x)
<1>1. c[1] = x /\ \A j \in 1 .. (n + 1) : j # 1 => (c[j] = s[j - 1] /\ j - 1 \in 1 .. n)
  BY DEF Put
<1>2. c \in [1 .. (n + 1) -> Nodes]
  BY <1>1 DEF Put, Names
<1> HIDE DEF c
<1>3. ASSUME NEW j \in 1 .. (n + 1), NEW k \in 1 .. (n + 1), c[j] = c[k] PROVE j = k
  BY <1>1, <1>3 DEF Names
<1> QED
  BY <1>2, <1>3 DEF Names, c

LEMMA PutSpelled ==
  ASSUME NEW n \in Nat, NEW s, Names(s, n), NEW x \in Nodes, \A i \in 1 .. n : s[i] # x,
         NEW l \in ListType, Spelled(l, s, n), Null \notin Nodes
  PROVE  Spelled(PushedHead(l, x), Put(s, n, x), n + 1)
<1> DEFINE c == Put(s, n, x)  r == PushedHead(l, x)
<1>1. c[1] = x /\ \A j \in 1 .. (n + 1) : j # 1 => (c[j] = s[j - 1] /\ j - 1 \in 1 .. n)
  BY DEF Put
<1>2. \A j \in 1 .. n : s[j] \in Nodes /\ s[j] # Null
  BY DEF Names
<1>3. /\ l.head = IF n = 0 THEN Null ELSE s[1]
      /\ l.tail = IF n = 0 THEN Null ELSE s[n]
  BY DEF Spelled
<1>4. l.head # Null <=> n # 0
  <2>1. n # 0 => 1 \in 1 .. n
    OBVIOUS
  <2> QED
    BY <1>2, <1>3, <2>1
<1>5. r.head = x /\ r.tail = IF n = 0 THEN x ELSE l.tail
  <2>1. l.tail # Null <=> n # 0
    <3>1. n # 0 => n \in 1 .. n
      OBVIOUS
    <3> QED
      BY <1>2, <1>3, <3>1
  <2> QED
    BY <2>1 DEF PushedHead
<1>6. \A y \in Nodes : /\ r.next[y] = IF y = x THEN l.head ELSE l.next[y]
                       /\ r.prev[y] = IF n # 0 /\ y = l.head THEN x ELSE IF y = x THEN Null ELSE l.prev[y]
  <2>1. l.prev \in [Nodes -> Nodes \cup {Null}] /\ l.next \in [Nodes -> Nodes \cup {Null}]
    BY DEF ListType
  <2>2. l.head = Null \/ l.head \in Nodes
    BY DEF ListType
  <2> QED
    BY <1>4, <2>1, <2>2 DEF PushedHead
<1> HIDE DEF c, r
<1>7. r.head = c[1] /\ r.tail = c[n + 1]
  BY <1>1, <1>3, <1>5
<1>8. ASSUME NEW j \in 1 .. (n + 1)
      PROVE  /\ r.next[c[j]] = IF j = n + 1 THEN Null ELSE c[j + 1]
             /\ r.prev[c[j]] = IF j = 1 THEN Null ELSE c[j - 1]
  <2>1. CASE j = 1
    <3>1. r.next[x] = l.head /\ r.prev[x] = Null
      <4>1. n # 0 => 1 \in 1 .. n
        OBVIOUS
      <4> QED
        BY <1>3, <1>6, <4>1
    <3>2. n # 0 => c[j + 1] = s[1]
      BY <1>1, <2>1
    <3> QED
      BY <1>1, <1>3, <2>1, <3>1, <3>2
  <2>2. CASE j # 1
    <3>1. c[j] = s[j - 1] /\ j - 1 \in 1 .. n /\ s[j - 1] \in Nodes /\ s[j - 1] # x /\ n # 0
      BY <1>1, <1>2, <2>2
    <3>2. /\ r.next[s[j - 1]] = l.next[s[j - 1]]
          /\ r.prev[s[j - 1]] = IF j - 1 = 1 THEN x ELSE l.prev[s[j - 1]]
      <4>1. s[j - 1] = s[1] <=> j - 1 = 1
        BY <3>1 DEF Names
      <4> QED
        BY <1>3, <1>6, <3>1, <4>1
    <3>3. /\ l.next[s[j - 1]] = IF j - 1 = n THEN Null ELSE s[(j - 1) + 1]
          /\ l.prev[s[j - 1]] = IF j - 1 = 1 THEN Null ELSE s[(j - 1) - 1]
      BY <3>1 DEF Spelled
    <3>4. /\ j # n + 1 => c[j + 1] = s[(j - 1) + 1]
          /\ j - 1 # 1 => c[j - 1] = s[(j - 1) - 1]
          /\ j - 1 = 1 => c[j - 1] = x
      BY <1>1, <2>2, <3>1
    <3>5. (j - 1 = n) <=> (j = n + 1)
      OBVIOUS
    <3> QED
      BY <2>2, <3>1, <3>2, <3>3, <3>4, <3>5
  <2> QED
    BY <2>1, <2>2
<1> QED
  BY <1>7, <1>8 DEF Spelled, c, r

(* An entry leaves the Map and its node the list.                          *)
LEMMA DropListed ==
  ASSUME NEW n \in Nat, NEW s, NEW l \in ListType, NEW m \in MapType, NEW rel, Listed(l, m, rel, s, n),
         NEW k \in Keys, m[k] # Null, \A j \in Keys : m[j] = m[k] => j = k
  PROVE  n - 1 \in Nat /\ \E c : Listed(Removed(l, m[k]), [m EXCEPT ![k] = Null], Without(rel, k), c, n - 1)
<1> DEFINE m2 == [m EXCEPT ![k] = Null]
<1>1. PICK i \in 1 .. n : s[i] = m[k]
  BY DEF Listed, Holds
<1> DEFINE c == Cut(s, n, i)
<1>2. Names(c, n - 1) /\ n - 1 \in Nat /\ (\A j \in 1 .. (n - 1) : c[j] # m[k]) /\ Spelled(Removed(l, m[k]), c, n - 1)
  BY <1>1, CutNames, CutSpelled, ConstantsOK DEF Listed
<1>3. \A j \in 1 .. (n - 1) : /\ (j < i => c[j] = s[j]) /\ (j >= i => c[j] = s[j + 1])
                              /\ j \in 1 .. n /\ j + 1 \in 1 .. n
  BY DEF Cut
<1>4. ASSUME NEW j \in 1 .. n, j # i
      PROVE  \E h \in 1 .. (n - 1) : c[h] = s[j]
  <2>1. CASE j < i
    <3>1. j \in 1 .. (n - 1)
      BY <2>1
    <3> QED
      BY <1>3, <2>1, <3>1
  <2>2. CASE j > i
    <3>1. j - 1 \in 1 .. (n - 1) /\ j - 1 >= i /\ (j - 1) + 1 = j
      BY <2>2
    <3> QED
      BY <1>3, <3>1
  <2> QED
    BY <1>4, <2>1, <2>2
<1> HIDE DEF c
<1>5. \A j \in Keys : m2[j] = IF j = k THEN Null ELSE m[j]
  BY DEF MapType
<1> HIDE DEF m2
<1>6. ASSUME NEW j \in 1 .. (n - 1)
      PROVE  \E h \in Keys : m2[h] = c[j]
  <2>1. PICK g \in 1 .. n : c[j] = s[g]
    BY <1>3
  <2>2. PICK h \in Keys : m[h] = s[g]
    BY <2>1 DEF Listed, Holds
  <2>3. h # k
    BY <1>2, <2>1, <2>2
  <2> QED
    BY <1>5, <2>1, <2>2, <2>3
<1>7. ASSUME NEW j \in Keys, m2[j] # Null
      PROVE  \E h \in 1 .. (n - 1) : c[h] = m2[j]
  <2>1. j # k /\ m2[j] = m[j]
    BY <1>5, <1>7
  <2>2. PICK g \in 1 .. n : s[g] = m[j]
    BY <1>7, <2>1 DEF Listed, Holds
  <2>3. g # i
    BY <1>1, <2>1, <2>2
  <2> QED
    BY <1>4, <2>1, <2>2, <2>3
<1>8. ASSUME Strategy = "lru"
      PROVE  Ordered(Without(rel, k), m2, c, n - 1)
  <2> SUFFICES ASSUME NEW r \in Without(rel, k), NEW a \in 1 .. (n - 1), NEW b \in 1 .. (n - 1),
                      c[a] = m2[r[1]], c[b] = m2[r[2]]
               PROVE  b < a
    BY DEF Ordered
  <2>1. r \in rel /\ r[1] # k /\ r[2] # k
    BY DEF Without
  <2>2. m2[r[1]] = m[r[1]] /\ m2[r[2]] = m[r[2]]
    BY <2>1 DEF m2
  <2>3. \A g, h \in 1 .. n : (s[g] = m[r[1]] /\ s[h] = m[r[2]]) => h < g
    BY <1>8, <2>1 DEF Listed, Ordered
  <2>4. a \in Int /\ b \in Int /\ i \in Int /\ n \in Int
    OBVIOUS
  <2>5. /\ a < i => s[a] = m[r[1]]
        /\ a >= i => s[a + 1] = m[r[1]]
        /\ b < i => s[b] = m[r[2]]
        /\ b >= i => s[b + 1] = m[r[2]]
        /\ a \in 1 .. n /\ b \in 1 .. n /\ a + 1 \in 1 .. n /\ b + 1 \in 1 .. n
    BY <1>3, <2>2
  <2>6. CASE a < i /\ b < i
    BY <2>3, <2>4, <2>5, <2>6
  <2>7. CASE a >= i /\ b >= i
    <3>1. b + 1 < a + 1
      BY <2>3, <2>5, <2>7
    <3> QED
      BY <2>4, <3>1
  <2>8. CASE a < i /\ b >= i
    <3>1. b + 1 < a
      BY <2>3, <2>5, <2>8
    <3> QED
      BY <2>4, <2>8, <3>1
  <2>9. CASE a >= i /\ b < i
    BY <2>4, <2>9
  <2> QED
    BY <2>4, <2>6, <2>7, <2>8, <2>9
<1>9. Listed(Removed(l, m[k]), m2, Without(rel, k), c, n - 1)
  BY <1>2, <1>6, <1>7, <1>8 DEF Listed, Holds
<1> QED
  BY <1>2, <1>9 DEF m2

(* A node enters at the head and its entry the Map.                        *)
LEMMA PutListed ==
  ASSUME NEW n \in Nat, NEW s, NEW l \in ListType, NEW m \in MapType, NEW rel, Listed(l, m, rel, s, n),
         NEW k \in Keys, m[k] = Null, NEW x \in Nodes, \A j \in Keys : m[j] # x,
         NEW later, \A r \in later : r[1] \in Keys,
         \A r \in later : (r[1] # k /\ r[2] = k) \/ (r \in rel /\ r[1] # k /\ r[2] # k)
  PROVE  \E c : Listed(PushedHead(l, x), [m EXCEPT ![k] = x], later, c, n + 1)
<1> DEFINE m2 == [m EXCEPT ![k] = x]  c == Put(s, n, x)
<1>1. \A i \in 1 .. n : s[i] # x
  BY DEF Listed, Holds
<1>2. Names(c, n + 1) /\ Spelled(PushedHead(l, x), c, n + 1)
  BY <1>1, PutNames, PutSpelled, ConstantsOK DEF Listed
<1>3. c[1] = x /\ \A j \in 1 .. (n + 1) : j # 1 => (c[j] = s[j - 1] /\ j - 1 \in 1 .. n)
  BY DEF Put
<1>4. \A j \in 1 .. n : j + 1 \in 1 .. (n + 1) /\ c[j + 1] = s[j]
  BY DEF Put
<1> HIDE DEF c
<1>5. /\ \A j \in Keys : m2[j] = IF j = k THEN x ELSE m[j]
      /\ \A j : j # k => m2[j] = m[j]
  BY DEF MapType
<1> HIDE DEF m2
<1>6. ASSUME NEW j \in 1 .. (n + 1)
      PROVE  \E h \in Keys : m2[h] = c[j]
  <2>1. CASE j = 1
    BY <1>3, <1>5, <2>1
  <2>2. CASE j # 1
    <3>1. c[j] = s[j - 1] /\ j - 1 \in 1 .. n
      BY <1>3, <2>2
    <3>2. PICK h \in Keys : m[h] = s[j - 1]
      BY <3>1 DEF Listed, Holds
    <3>3. s[j - 1] # Null
      BY <3>1, ConstantsOK DEF Listed, Names
    <3> QED
      BY <1>5, <3>1, <3>2, <3>3
  <2> QED
    BY <2>1, <2>2
<1>7. ASSUME NEW j \in Keys, m2[j] # Null
      PROVE  \E h \in 1 .. (n + 1) : c[h] = m2[j]
  <2>1. CASE j = k
    <3>1. 1 \in 1 .. (n + 1)
      OBVIOUS
    <3> QED
      BY <1>3, <1>5, <2>1, <3>1
  <2>2. CASE j # k
    <3>1. PICK g \in 1 .. n : s[g] = m[j]
      BY <1>5, <1>7, <2>2 DEF Listed, Holds
    <3> QED
      BY <1>4, <1>5, <2>2, <3>1
  <2> QED
    BY <2>1, <2>2
<1>8. ASSUME Strategy = "lru"
      PROVE  Ordered(later, m2, c, n + 1)
  <2> SUFFICES ASSUME NEW r \in later, NEW a \in 1 .. (n + 1), NEW b \in 1 .. (n + 1),
                      c[a] = m2[r[1]], c[b] = m2[r[2]]
               PROVE  b < a
    BY DEF Ordered
  <2>1. r[1] # k /\ m2[r[1]] = m[r[1]]
    BY <1>5
  <2>2. a # 1 /\ c[a] = s[a - 1] /\ a - 1 \in 1 .. n
    <3>1. a = 1 => m[r[1]] = x
      BY <1>3, <2>1
    <3> QED
      BY <1>3, <3>1
  <2>3. CASE r[2] = k
    <3>1. m2[r[2]] = x
      BY <1>5, <2>3
    <3>2. b = 1
      BY <1>1, <1>3, <3>1
    <3> QED
      BY <2>2, <3>2
  <2>4. CASE r \in rel /\ r[2] # k
    <3>1. m2[r[2]] = m[r[2]]
      BY <1>5, <2>4
    <3>2. \A g, h \in 1 .. n : (s[g] = m[r[1]] /\ s[h] = m[r[2]]) => h < g
      BY <1>8, <2>4 DEF Listed, Ordered
    <3>3. CASE b = 1
      BY <2>2, <3>3
    <3>4. CASE b # 1
      <4>1. c[b] = s[b - 1] /\ b - 1 \in 1 .. n
        BY <1>3, <3>4
      <4>2. b - 1 < a - 1
        BY <2>1, <2>2, <3>1, <3>2, <4>1
      <4> QED
        BY <4>2
    <3> QED
      BY <3>3, <3>4
  <2> QED
    BY <2>3, <2>4
<1>9. Listed(PushedHead(l, x), m2, later, c, n + 1)
  BY <1>2, <1>6, <1>7, <1>8 DEF Listed, Holds
<1> QED
  BY <1>9 DEF m2

(* A node moves to the head: its entry has been used last.                 *)
LEMMA MoveListed ==
  ASSUME NEW n \in Nat, NEW s, NEW l \in ListType, NEW m \in MapType, NEW rel, Listed(l, m, rel, s, n),
         NEW k \in Keys, m[k] # Null, \A j \in Keys : m[j] = m[k] => j = k,
         NEW later, \A r \in later : r[1] \in Keys,
         \A r \in later : (r[1] # k /\ r[2] = k) \/ (r \in rel /\ r[1] # k /\ r[2] # k)
  PROVE  \E c : Listed(MovedToHead(l, m[k]), m, later, c, n)
<1>1. PICK i \in 1 .. n : s[i] = m[k]
  BY DEF Listed, Holds
<1>2. CASE m[k] = l.head
  <2>1. i = 1 /\ 1 \in 1 .. n /\ s[1] = m[k]
    <3>1. n # 0 /\ 1 \in 1 .. n
      BY <1>1
    <3>2. s[1] = m[k]
      BY <1>2, <3>1 DEF Listed, Spelled
    <3> QED
      BY <1>1, <3>1, <3>2 DEF Listed, Names
  <2>2. Strategy = "lru" => Ordered(later, m, s, n)
    <3> SUFFICES ASSUME Strategy = "lru", NEW r \in later, NEW a \in 1 .. n, NEW b \in 1 .. n,
                        s[a] = m[r[1]], s[b] = m[r[2]]
                 PROVE  b < a
      BY DEF Ordered
    <3>1. CASE r \in rel
      BY <3>1 DEF Listed, Ordered
    <3>2. CASE r[1] # k /\ r[2] = k
      <4>1. b = 1
        BY <2>1, <3>2 DEF Listed, Names
      <4>2. a # 1
        BY <2>1, <3>2
      <4> QED
        BY <4>1, <4>2
    <3> QED
      BY <3>1, <3>2
  <2>3. MovedToHead(l, m[k]) = l
    BY <1>2 DEF MovedToHead
  <2> QED
    BY <2>2, <2>3 DEF Listed
<1>3. CASE m[k] # l.head
  <2> DEFINE m2 == [m EXCEPT ![k] = Null]  r2 == Removed(l, m[k])
  <2>1. n - 1 \in Nat /\ \E c : Listed(r2, m2, Without(rel, k), c, n - 1)
    BY DropListed
  <2>8. PICK c : Listed(r2, m2, Without(rel, k), c, n - 1)
    BY <2>1
  <2>2. r2 \in ListType /\ m2 \in MapType /\ m[k] \in Nodes
    BY ListTypes DEF MapType
  <2>3. m2[k] = Null /\ \A j \in Keys : m2[j] # m[k]
    BY <2>2, ConstantsOK DEF MapType
  <2>4. \A r \in later : (r[1] # k /\ r[2] = k) \/ (r \in Without(rel, k) /\ r[1] # k /\ r[2] # k)
    BY DEF Without
  <2>5. [m2 EXCEPT ![k] = m[k]] = m
    BY DEF MapType
  <2>9. (n - 1) + 1 = n
    OBVIOUS
  <2> HIDE DEF m2, r2
  <2>6. \E d : Listed(PushedHead(r2, m[k]), [m2 EXCEPT ![k] = m[k]], later, d, (n - 1) + 1)
    BY <2>1, <2>2, <2>3, <2>4, <2>8, PutListed
  <2>7. MovedToHead(l, m[k]) = PushedHead(r2, m[k])
    BY <1>3 DEF MovedToHead, r2
  <2> QED
    BY <2>5, <2>6, <2>7, <2>9
<1> QED
  BY <1>2, <1>3

(* With any other strategy using an entry moves nothing.                   *)
LEMMA TouchListed ==
  ASSUME NEW n \in Nat, NEW s, NEW l \in ListType, NEW m \in MapType, NEW rel, Listed(l, m, rel, s, n),
         NEW k \in Keys, m[k] # Null, \A j \in Keys : m[j] = m[k] => j = k,
         NEW later, \A r \in later : r[1] \in Keys,
         Strategy = "lru" => \A r \in later : (r[1] # k /\ r[2] = k) \/ (r \in rel /\ r[1] # k /\ r[2] # k)
  PROVE  \E c : Listed(Touched(l, m[k]), m, later, c, n)
<1>1. CASE Strategy = "lru"
  BY <1>1, MoveListed DEF Touched
<1>2. CASE Strategy # "lru"
  BY <1>2 DEF Touched, Listed
<1> QED
  BY <1>1, <1>2

(* The collector changes nothing of what the list spells.                  *)
LEMMA HeapListed ==
  ASSUME NEW n \in Nat, NEW s, NEW l \in ListType, NEW m \in MapType, NEW nd, NEW rel, Listed(l, m, rel, s, n),
         Heap(m, l, nd)
  PROVE  Listed(list', m, rel, s, n)
<1>1. \A i \in 1 .. n : s[i] \in Nodes /\ s[i] \in Reachable(m, l)
  <2>1. ASSUME NEW k \in Keys, m[k] # Null PROVE m[k] \in Reachable(m, l)
    BY <2>1 DEF Reachable, MapType
  <2> QED
    BY <2>1, ConstantsOK DEF Listed, Holds, Names
<1>2. /\ list'.head = l.head /\ list'.tail = l.tail
      /\ \A i \in 1 .. n : list'.next[s[i]] = l.next[s[i]] /\ list'.prev[s[i]] = l.prev[s[i]]
  BY <1>1 DEF Heap
<1> QED
  BY <1>2 DEF Listed, Spelled

(* Entries are told apart by their nodes.                                  *)
LEMMA Apart ==
  ASSUME IInv, NEW k \in Keys, map[k] # Null
  PROVE  /\ \A j \in Keys : map[j] = map[k] => j = k
         /\ map[k] \in Nodes /\ node[map[k]].key = k
BY DEF IInv, TypeOK, KeyOfNode, Entries, Meta

(* The types again, under their names.                                     *)
LEMMA Kinds ==
  ASSUME IInv
  PROVE  map \in MapType /\ list \in ListType /\ node \in [Nodes -> NodeType] /\ recency \subseteq Keys \X Keys
BY DEF IInv, TypeOK, MapType, ListType, NodeType
-----------------------------------------------------------------------------
(* What a step does to the list, if it does not read an expired entry.     *)
(* It takes the node of an entry out, with the entry.                      *)
LEMMA DropsNode ==
  ASSUME IInv, IsListed(list, map, recency), NEW k \in Keys, map[k] # Null,
         Heap([map EXCEPT ![k] = Null], Removed(list, map[k]), node), recency' = Without(recency, k)
  PROVE  IsListed(list', map', recency')
<1>1. PICK n \in Nat : \E s : Listed(list, map, recency, s, n)
  BY DEF IsListed
<1>2. PICK s : Listed(list, map, recency, s, n)
  BY <1>1
<1>3. n - 1 \in Nat /\ \E c : Listed(Removed(list, map[k]), [map EXCEPT ![k] = Null], Without(recency, k), c, n - 1)
  BY <1>2, Apart, Kinds, DropListed
<1>4. PICK c : Listed(Removed(list, map[k]), [map EXCEPT ![k] = Null], Without(recency, k), c, n - 1)
  BY <1>3
<1>5. Removed(list, map[k]) \in ListType /\ [map EXCEPT ![k] = Null] \in MapType
  BY Apart, Kinds, ListTypes DEF MapType
<1>6. Listed(list', [map EXCEPT ![k] = Null], Without(recency, k), c, n - 1)
  BY <1>3, <1>4, <1>5, HeapListed
<1>7. map' = [map EXCEPT ![k] = Null]
  BY DEF Heap
<1> QED
  BY <1>3, <1>6, <1>7 DEF IsListed

(* After the use of k, no entry has been used later than k.                *)
LEMMA UsedLast ==
  ASSUME IInv, NEW k \in Keys, Used(k)
  PROVE  /\ \A r \in recency' : r[1] \in Keys
         /\ Strategy = "lru" => \A r \in recency' : (r[1] # k /\ r[2] = k) \/ (r \in recency /\ r[1] # k /\ r[2] # k)
BY Kinds DEF Used, Without, Entries

(* It moves the node of the entry used to the head, or leaves it.          *)
LEMMA TouchesNode ==
  ASSUME IInv, IsListed(list, map, recency), NEW k \in Keys, map[k] # Null, NEW nd,
         Heap(map, Touched(list, map[k]), nd), Used(k)
  PROVE  IsListed(list', map', recency')
<1>1. PICK n \in Nat : \E s : Listed(list, map, recency, s, n)
  BY DEF IsListed
<1>2. PICK s : Listed(list, map, recency, s, n)
  BY <1>1
<1>3. \E c : Listed(Touched(list, map[k]), map, recency', c, n)
  BY <1>2, Apart, Kinds, UsedLast, TouchListed
<1>4. PICK c : Listed(Touched(list, map[k]), map, recency', c, n)
  BY <1>3
<1>5. Touched(list, map[k]) \in ListType /\ map \in MapType
  BY Apart, Kinds, ListTypes
<1>6. Listed(list', map, recency', c, n)
  BY <1>4, <1>5, HeapListed
<1>7. map' = map
  BY DEF Heap
<1> QED
  BY <1>6, <1>7 DEF IsListed

(* It pushes a fresh node, which no entry and no list pointer held.        *)
LEMMA PutsNode ==
  ASSUME IInv, IsListed(list, map, recency), NEW k \in Keys, map[k] = Null, NEW nd,
         NEW x \in Nodes, x \notin Reachable(map, list),
         Heap([map EXCEPT ![k] = x], PushedHead(list, x), nd), Used(k)
  PROVE  IsListed(list', map', recency')
<1>1. PICK n \in Nat : \E s : Listed(list, map, recency, s, n)
  BY DEF IsListed
<1>2. PICK s : Listed(list, map, recency, s, n)
  BY <1>1
<1>3. \A j \in Keys : map[j] # x
  BY ConstantsOK DEF Reachable
<1>4. PushedHead(list, x) \in ListType /\ [map EXCEPT ![k] = x] \in MapType
  BY Kinds, ListTypes DEF MapType
<1>5. map' = [map EXCEPT ![k] = x]
  BY DEF Heap
<1>6. CASE Strategy = "lru"
  <2>1. \E c : Listed(PushedHead(list, x), [map EXCEPT ![k] = x], recency', c, n + 1)
    BY <1>2, <1>3, <1>6, Kinds, UsedLast, PutListed
  <2>2. PICK c : Listed(PushedHead(list, x), [map EXCEPT ![k] = x], recency', c, n + 1)
    BY <2>1
  <2>3. Listed(list', [map EXCEPT ![k] = x], recency', c, n + 1) /\ n + 1 \in Nat
    BY <1>4, <2>2, HeapListed
  <2> QED
    BY <1>5, <2>3 DEF IsListed
<1>7. CASE Strategy # "lru"
  <2>1. \E c : Listed(PushedHead(list, x), [map EXCEPT ![k] = x], {}, c, n + 1)
    BY <1>2, <1>3, Kinds, PutListed
  <2>2. PICK c : Listed(PushedHead(list, x), [map EXCEPT ![k] = x], {}, c, n + 1)
    BY <2>1
  <2>3. Listed(list', [map EXCEPT ![k] = x], {}, c, n + 1) /\ n + 1 \in Nat
    BY <1>4, <2>2, HeapListed
  <2>4. Listed(list', map', recency', c, n + 1)
    BY <1>5, <1>7, <2>3 DEF Listed
  <2> QED
    BY <2>3, <2>4 DEF IsListed
<1> QED
  BY <1>6, <1>7

(* It empties both.                                                        *)
LEMMA NoNode ==
  ASSUME \A k \in Keys : map'[k] = Null, list'.head = Null, list'.tail = Null, recency' = {}
  PROVE  IsListed(list', map', recency')
<1> DEFINE s == [i \in 1 .. 0 |-> Null]
<1>1. Names(s, 0)
  BY DEF Names
<1>2. Spelled(list', s, 0)
  BY DEF Spelled
<1>3. Holds(map', s, 0)
  BY DEF Holds
<1>4. Ordered(recency', map', s, 0)
  BY DEF Ordered
<1> HIDE DEF s
<1>5. Listed(list', map', recency', s, 0)
  BY <1>1, <1>2, <1>3, <1>4 DEF Listed
<1> QED
  BY <1>5 DEF IsListed

(* The victim of an eviction is the node of an entry.                      *)
LEMMA VictimHeld ==
  ASSUME IInv, IsListed(list, map, recency), list.tail # Null, NEW x \in Nodes, x \in Victims
  PROVE  node[x].key \in Keys /\ map[node[x].key] = x
<1>1. \E k \in Keys : map[k] = x
  <2>1. CASE x = list.tail
    <3>1. PICK n \in Nat : \E s : Listed(list, map, recency, s, n)
      BY DEF IsListed
    <3>2. PICK s : Listed(list, map, recency, s, n)
      BY <3>1
    <3>3. n # 0 /\ x = s[n] /\ n \in 1 .. n
      BY <2>1, <3>2 DEF Listed, Spelled
    <3> QED
      BY <3>2, <3>3 DEF Listed, Holds
  <2>2. CASE x # list.tail
    BY <2>2 DEF Victims, Oldest, Entries
  <2> QED
    BY <2>1, <2>2
<1>2. PICK k \in Keys : map[k] = x
  BY <1>1
<1>3. map[k] # Null
  BY <1>2, ConstantsOK
<1> QED
  BY <1>2, <1>3, Apart
-----------------------------------------------------------------------------
LEMMA InitInList == Init => InList
<1> SUFFICES ASSUME Init PROVE InList
  OBVIOUS
<1> DEFINE s == [i \in 1 .. 0 |-> Null]
<1>1. Names(s, 0) /\ Spelled(list, s, 0) /\ Holds(map, s, 0) /\ Ordered(recency, map, s, 0)
  BY DEF Init, Names, Spelled, Holds, Ordered
<1> HIDE DEF s
<1> QED
  BY <1>1 DEF InList, IsListed, Listed

LEMMA ReadInList ==
  ASSUME IInv, InList, NEW k \in Keys, Read(k)
  PROVE  InList'
<1> SUFFICES ASSUME ~expiredRead' PROVE IsListed(list', map', recency')
  BY DEF InList, IsListed
<1>1. CASE ReadExpired(k)
  BY <1>1 DEF ReadExpired
<1>2. CASE ReadHit(k)
  <2>1. IsListed(list, map, recency)
    BY <1>2 DEF ReadHit, InList, IsListed
  <2>2. PICK nd : Heap(map, Touched(list, map[k]), nd)
    BY <1>2 DEF ReadHit
  <2> QED
    BY <1>2, <2>1, <2>2, TouchesNode DEF ReadHit
<1>3. CASE ReadAbsent(k)
  BY <1>3 DEF ReadAbsent, heapVars, InList, IsListed
<1> QED
  BY <1>1, <1>2, <1>3 DEF Read

LEMMA DropInList ==
  ASSUME IInv, InList, NEW k \in Keys, NEW tk, Drop(k, tk), expiredRead' = expiredRead
  PROVE  InList'
<1> SUFFICES ASSUME ~expiredRead' PROVE IsListed(list', map', recency')
  BY DEF InList, IsListed
<1>1. IsListed(list, map, recency)
  BY DEF InList, IsListed
<1>2. CASE map[k] = Null
  BY <1>1, <1>2 DEF Drop, heapVars
<1>3. CASE map[k] # Null
  BY <1>1, <1>3, DropsNode DEF Drop, Gone
<1> QED
  BY <1>2, <1>3

LEMMA EvictInList ==
  ASSUME IInv, InList, EvictOne
  PROVE  InList'
<1> SUFFICES ASSUME ~expiredRead' PROVE IsListed(list', map', recency')
  BY DEF InList, IsListed
<1>1. IsListed(list, map, recency)
  BY DEF EvictOne, InList, IsListed
<1>2. CASE EvictNothing
  BY <1>1, <1>2 DEF EvictNothing, storeVars
<1>3. ASSUME NEW x \in Nodes, EvictNode(x) PROVE IsListed(list', map', recency')
  <2>1. node[x].key \in Keys /\ map[node[x].key] = x /\ x # Null
    BY <1>1, <1>3, VictimHeld, ConstantsOK DEF EvictNode
  <2>2. /\ Heap([map EXCEPT ![node[x].key] = Null], Removed(list, map[node[x].key]), node)
        /\ recency' = Without(recency, node[x].key)
    BY <1>3, <2>1 DEF EvictNode, Gone
  <2> QED
    BY <1>1, <2>1, <2>2, DropsNode
<1> QED
  BY <1>2, <1>3 DEF EvictOne

LEMMA StoreInList ==
  ASSUME IInv, InList, Store
  PROVE  InList'
<1> SUFFICES ASSUME ~expiredRead' PROVE IsListed(list', map', recency')
  BY DEF InList, IsListed
<1> DEFINE k == pending.key
<1>1. k \in Keys
  BY DEF IInv, TypeOK, SetCall, Store
<1>2. expiredRead' = expiredRead
  BY DEF Store, StoreIn
<1>3. IsListed(list, map, recency)
  BY <1>2 DEF InList, IsListed
<1>4. CASE map[k] # Null /\ StoreIn(map[k], Touched(list, map[k]))
  <2>1. [map EXCEPT ![k] = map[k]] = map
    BY <1>1, Kinds DEF MapType
  <2>2. PICK nd : Heap([map EXCEPT ![k] = map[k]], Touched(list, map[k]), nd)
    BY <1>4 DEF StoreIn
  <2>3. Used(k)
    BY <1>4 DEF StoreIn
  <2> HIDE DEF k
  <2>4. Heap(map, Touched(list, map[k]), nd)
    BY <2>1, <2>2
  <2> QED
    BY <1>1, <1>3, <1>4, <2>3, <2>4, TouchesNode
<1>5. ASSUME map[k] = Null, NEW fresh \in Nodes \ Reachable(map, list), StoreIn(fresh, PushedHead(list, fresh))
      PROVE  IsListed(list', map', recency')
  <2>1. PICK nd : Heap([map EXCEPT ![k] = fresh], PushedHead(list, fresh), nd)
    BY <1>5 DEF StoreIn
  <2>2. Used(k)
    BY <1>5 DEF StoreIn
  <2> HIDE DEF k
  <2> QED
    BY <1>1, <1>3, <1>5, <2>1, <2>2, PutsNode
<1> QED
  BY <1>4, <1>5 DEF Store

LEMMA SweepInList ==
  ASSUME IInv, InList, SweepEntry
  PROVE  InList'
<1> SUFFICES ASSUME ~expiredRead' PROVE IsListed(list', map', recency')
  BY DEF InList, IsListed
<1>1. IsListed(list, map, recency)
  BY DEF SweepEntry, InList, IsListed
<1>2. PICK k \in Oldest(sweeping) :
        /\ map[k] # Null
        /\ Heap([map EXCEPT ![k] = Null], Removed(list, map[k]), node)
        /\ Gone(k)
  BY DEF SweepEntry
<1>3. k \in Keys
  BY DEF Oldest, IInv, TypeOK
<1> QED
  BY <1>1, <1>2, <1>3, DropsNode DEF Gone

LEMMA ResetInList ==
  ASSUME Reset
  PROVE  InList'
<1>1. /\ \A k \in Keys : map'[k] = Null
      /\ list'.head = Null /\ list'.tail = Null /\ recency' = {}
  BY DEF Reset, Heap
<1>2. IsListed(list', map', recency')
  BY <1>1, NoNode
<1> QED
  BY <1>2 DEF InList, IsListed

LEMMA StepInList == IInv /\ InList /\ [Next]_vars => InList'
<1> SUFFICES ASSUME IInv, InList, [Next]_vars PROVE InList'
  OBVIOUS
<1>1. ASSUME UNCHANGED <<heapVars, recency, expiredRead>> PROVE InList'
  BY <1>1 DEF InList, heapVars
<1> USE DEF storeVars, heapVars, histVars, vars
<1>2. CASE Tick
  BY <1>1, <1>2 DEF Tick
<1>3. ASSUME NEW k \in Keys, Get(k) PROVE InList'
  BY <1>3, ReadInList DEF Get
<1>4. ASSUME NEW k \in Keys, NEW ts \in SUBSET Tags, NEW ns \in Namespaces, NEW ttl \in Ttls,
             NEW size \in Sizes, Set(k, ts, ns, ttl, size)
      PROVE  InList'
  BY <1>1, <1>4 DEF Set
<1>5. CASE EvictForMemory
  BY <1>5, EvictInList DEF EvictForMemory
<1>6. CASE EvictForSlot
  BY <1>6, EvictInList DEF EvictForSlot
<1>7. CASE Store
  BY <1>7, StoreInList
<1>8. ASSUME NEW k \in Keys, Delete(k) PROVE InList'
  BY <1>8, DropInList DEF Delete
<1>9. CASE ClearAll \/ Close
  BY <1>9, ResetInList DEF ClearAll, Close
<1>10. CASE CleanupTurn
  BY <1>1, <1>10 DEF CleanupTurn
<1>11. CASE SweepEntry
  BY <1>11, SweepInList
<1>12. ASSUME NEW i \in Tasks, NEW t \in Tags, InvalidateTag(i, t) PROVE InList'
  <2>1. \A j \in tagIndex[t] : j \in Keys
    BY DEF IInv, TypeOK
  <2> QED
    BY <1>12, <2>1, DropInList DEF InvalidateTag
<1>13. ASSUME NEW t \in Tags, InvalidateEmptyTag(t) PROVE InList'
  BY <1>1, <1>13 DEF InvalidateEmptyTag
<1>14. ASSUME NEW i \in Tasks, NEW ns \in Namespaces, ClearNamespace(i, ns) PROVE InList'
  BY <1>14, DropInList DEF ClearNamespace, Entries
<1>15. ASSUME NEW i \in Tasks, DropNext(i) PROVE InList'
  <2>1. \A j \in task[i].left : j \in Keys
    BY DEF IInv, TypeOK, TaskState
  <2> QED
    BY <1>15, <2>1, DropInList DEF DropNext
<1>16. ASSUME NEW i \in Tasks, InvalidateTagReturns(i) PROVE InList'
  BY <1>1, <1>16 DEF InvalidateTagReturns
<1>17. ASSUME NEW i \in Tasks, NEW t \in Tags, GetByTag(i, t) PROVE InList'
  <2>1. \A j \in tagIndex[t] : j \in Keys
    BY DEF IInv, TypeOK
  <2> QED
    BY <1>17, <2>1, ReadInList DEF GetByTag
<1>18. ASSUME NEW i \in Tasks, GetNext(i) PROVE InList'
  <2>1. \A j \in task[i].left : j \in Keys
    BY DEF IInv, TypeOK, TaskState
  <2> QED
    BY <1>18, <2>1, ReadInList DEF GetNext
<1>19. ASSUME NEW i \in Tasks, NEW k \in Keys, Increment(i, k) PROVE InList'
  BY <1>19, ReadInList DEF Increment
<1>20. ASSUME NEW i \in Tasks, IncrementSets(i) PROVE InList'
  BY <1>1, <1>20 DEF IncrementSets
<1>21. ASSUME NEW i \in Tasks, LoopReturns(i) PROVE InList'
  BY <1>1, <1>21 DEF LoopReturns
<1>22. CASE UNCHANGED vars
  BY <1>1, <1>22
<1> QED
  BY <1>2, <1>3, <1>4, <1>5, <1>6, <1>7, <1>8, <1>9, <1>10, <1>11, <1>12, <1>13, <1>14, <1>15,
     <1>16, <1>17, <1>18, <1>19, <1>20, <1>21, <1>22 DEF Next
-----------------------------------------------------------------------------
(* A sequence that lists S, each element once, counts it.                  *)
LEMMA CountNodes ==
  ASSUME NEW n \in Nat, NEW s, NEW S, s \in [1 .. n -> S], \A i, j \in 1 .. n : s[i] = s[j] => i = j,
         \A x \in S : \E i \in 1 .. n : s[i] = x
  PROVE  IsFiniteSet(S) /\ Cardinality(S) = n
<1>1. IsFiniteSet(1 .. n) /\ Cardinality(1 .. n) = n
  <2>1. IsFiniteSet(1 .. n) /\ Cardinality(1 .. n) = IF 1 > n THEN 0 ELSE n - 1 + 1
    BY FS_Interval
  <2> QED
    BY <2>1
<1>2. s \in Bijection(1 .. n, S)
  BY DEF Bijection, Injection, Surjection, IsInjective
<1>3. ExistsBijection(1 .. n, S)
  BY <1>2 DEF ExistsBijection
<1> QED
  BY <1>1, <1>3, FS_Bijection

(* What the list spells are the nodes of the Map, ...                      *)
LEMMA ListedCount ==
  ASSUME IInv, NEW n \in Nat, NEW s, Listed(list, map, recency, s, n),
         NEW held, held = {map[k] : k \in Entries}
  PROVE  s \in [1 .. n -> held] /\ IsFiniteSet(held) /\ Cardinality(held) = n
<1>1. \A i \in 1 .. n : s[i] \in held
  <2> SUFFICES ASSUME NEW i \in 1 .. n PROVE s[i] \in held
    OBVIOUS
  <2>1. PICK k \in Keys : map[k] = s[i]
    BY DEF Listed, Holds
  <2>2. s[i] # Null
    BY ConstantsOK DEF Listed, Names
  <2> QED
    BY <2>1, <2>2 DEF Entries
<1>2. s \in [1 .. n -> held]
  BY <1>1 DEF Listed, Names
<1>3. \A x \in held : \E i \in 1 .. n : s[i] = x
  BY DEF Listed, Holds, Entries
<1> QED
  BY <1>2, <1>3, CountNodes DEF Listed, Names

(* ... as many as there are entries.                                       *)
LEMMA EntryCount ==
  ASSUME IInv, NEW n \in Nat, NEW s, Listed(list, map, recency, s, n)
  PROVE  IsFiniteSet(Entries) /\ Cardinality(Entries) = n
<1> DEFINE g == [i \in 1 .. n |-> node[s[i]].key]
<1>1. \A i \in 1 .. n : g[i] \in Entries /\ map[g[i]] = s[i]
  <2> SUFFICES ASSUME NEW i \in 1 .. n PROVE g[i] \in Entries /\ map[g[i]] = s[i]
    OBVIOUS
  <2>1. PICK k \in Keys : map[k] = s[i]
    BY DEF Listed, Holds
  <2>2. s[i] # Null
    BY ConstantsOK DEF Listed, Names
  <2>3. node[map[k]].key = k
    BY <2>1, <2>2, Apart
  <2> QED
    BY <2>1, <2>2, <2>3 DEF Entries
<1>2. g \in [1 .. n -> Entries]
  BY <1>1
<1>3. \A x \in Entries : \E i \in 1 .. n : g[i] = x
  <2> SUFFICES ASSUME NEW x \in Entries PROVE \E i \in 1 .. n : g[i] = x
    OBVIOUS
  <2>1. x \in Keys /\ map[x] # Null
    BY DEF Entries
  <2>2. PICK i \in 1 .. n : s[i] = map[x]
    BY <2>1 DEF Listed, Holds
  <2>3. node[map[x]].key = x
    BY <2>1, Apart
  <2> QED
    BY <2>2, <2>3
<1> HIDE DEF g
<1>4. \A i, j \in 1 .. n : g[i] = g[j] => i = j
  BY <1>1 DEF Listed, Names
<1> QED
  BY <1>2, <1>3, <1>4, CountNodes

(* Until a get meets an expired entry, the recency list holds the nodes of *)
(* the Map (memory.ts), each once, and reads the same from both ends,      *)
(* after any interleaving of the calls.                                    *)
THEOREM ListMirrorsMap == Spec => []ListIsMap
<1>1. IInv /\ InList => ListIsMap
  <2> SUFFICES ASSUME IInv, InList, ~expiredRead
               PROVE  LET held == {map[k] : k \in Entries}
                          size == Cardinality(held)
                          spells(s) == /\ list.head = s[1] /\ list.tail = s[size]
                                       /\ \A i \in 1 .. size :
                                            /\ list.next[s[i]] = IF i = size THEN Null ELSE s[i + 1]
                                            /\ list.prev[s[i]] = IF i = 1 THEN Null ELSE s[i - 1]
                      IN  IF held = {} THEN list.head = Null /\ list.tail = Null
                          ELSE \E s \in [1 .. size -> held] : spells(s)
    BY DEF ListIsMap
  <2> DEFINE held == {map[k] : k \in Entries}
  <2>1. PICK n \in Nat : \E s : Listed(list, map, recency, s, n)
    BY DEF InList, IsListed
  <2>2. PICK s : Listed(list, map, recency, s, n)
    BY <2>1
  <2>3. s \in [1 .. n -> held] /\ IsFiniteSet(held) /\ Cardinality(held) = n
    BY <2>2, ListedCount
  <2>4. held = {} <=> n = 0
    BY <2>3, FS_EmptySet
  <2> HIDE DEF held
  <2>5. n = 0 => (list.head = Null /\ list.tail = Null)
    BY <2>2 DEF Listed, Spelled
  <2>6. n # 0 => /\ list.head = s[1] /\ list.tail = s[n]
                 /\ \A i \in 1 .. n :
                       /\ list.next[s[i]] = IF i = n THEN Null ELSE s[i + 1]
                       /\ list.prev[s[i]] = IF i = 1 THEN Null ELSE s[i - 1]
    BY <2>2 DEF Listed, Spelled
  <2>7. IF held = {} THEN list.head = Null /\ list.tail = Null
        ELSE \E z \in [1 .. Cardinality(held) -> held] :
               /\ list.head = z[1] /\ list.tail = z[Cardinality(held)]
               /\ \A i \in 1 .. Cardinality(held) :
                     /\ list.next[z[i]] = IF i = Cardinality(held) THEN Null ELSE z[i + 1]
                     /\ list.prev[z[i]] = IF i = 1 THEN Null ELSE z[i - 1]
    BY <2>3, <2>4, <2>5, <2>6
  <2> QED
    BY <2>7 DEF held
<1> QED
  BY InitIInv, StepIInv, InitInList, StepInList, <1>1, PTL DEF Spec

(* lru: the node evictOne takes (memory.ts), the tail, is of the entry     *)
(* unused for longest, whatever gets, sets and deletes came in between.    *)
THEOREM VictimIsLeastRecent == Spec => []TailIsLeastRecent
<1>1. IInv /\ InList => TailIsLeastRecent
  <2> SUFFICES ASSUME IInv, InList, Strategy = "lru", ~expiredRead, list.tail # Null, NEW k \in Entries,
                      <<k, node[list.tail].key>> \in recency
               PROVE  FALSE
    BY DEF TailIsLeastRecent
  <2>1. PICK n \in Nat : \E s : Listed(list, map, recency, s, n)
    BY DEF InList, IsListed
  <2>2. PICK s : Listed(list, map, recency, s, n)
    BY <2>1
  <2>3. n \in 1 .. n /\ s[n] = list.tail
    BY <2>2 DEF Listed, Spelled
  <2>4. PICK j \in Keys : map[j] = list.tail
    BY <2>2, <2>3 DEF Listed, Holds
  <2>5. node[list.tail].key = j
    BY <2>4, Apart
  <2>6. k \in Keys /\ map[k] # Null
    BY DEF Entries
  <2>7. PICK i \in 1 .. n : s[i] = map[k]
    BY <2>2, <2>6 DEF Listed, Holds
  <2>8. \A a, b \in 1 .. n : (s[a] = map[k] /\ s[b] = map[j]) => b < a
    <3> DEFINE r == <<k, j>>
    <3>1. r \in recency /\ r[1] = k /\ r[2] = j
      BY <2>5
    <3> QED
      BY <2>2, <3>1 DEF Listed, Ordered
  <2>9. n < i
    BY <2>3, <2>4, <2>7, <2>8
  <2> QED
    BY <2>7, <2>9
<1> QED
  BY InitIInv, StepIInv, InitInList, StepInList, <1>1, PTL DEF Spec
-----------------------------------------------------------------------------
(* The Map never holds more than maxSize entries; a set that has made room *)
(* for its entry finds the room still there when it stores it.             *)
RoomKept ==
  /\ Cardinality(Entries) <= MaxSize
  /\ (pending # NoCall /\ pending.evicted /\ map[pending.key] = Null) => Cardinality(Entries) < MaxSize

SizeInv == ~expiredRead => RoomKept

(* A Map that holds entries has a tail to evict.                           *)
LEMMA FiniteEntries ==
  ASSUME IInv, IsListed(list, map, recency)
  PROVE  IsFiniteSet(Entries) /\ Cardinality(Entries) \in Nat /\ (Entries # {} => list.tail # Null)
<1>1. PICK n \in Nat : \E s : Listed(list, map, recency, s, n)
  BY DEF IsListed
<1>2. PICK s : Listed(list, map, recency, s, n)
  BY <1>1
<1>3. IsFiniteSet(Entries) /\ Cardinality(Entries) = n
  BY <1>2, EntryCount
<1>4. n # 0 => list.tail # Null
  <2>1. n # 0 => (n \in 1 .. n /\ s[n] \in Nodes /\ list.tail = s[n])
    BY <1>2 DEF Listed, Spelled, Names
  <2> QED
    BY <2>1, ConstantsOK
<1> QED
  BY <1>3, <1>4, FS_EmptySet

LEMMA OneLess ==
  ASSUME IInv, IsListed(list, map, recency), NEW k \in Keys, map[k] # Null,
         map' = [map EXCEPT ![k] = Null]
  PROVE  Cardinality(Entries)' = Cardinality(Entries) - 1 /\ Cardinality(Entries) \in Nat
<1>1. Entries' = Entries \ {k} /\ k \in Entries
  BY Kinds DEF Entries, MapType
<1> QED
  BY <1>1, FiniteEntries, FS_RemoveElement

LEMMA DropSize ==
  ASSUME IInv, IsListed(list, map, recency), NEW k \in Keys, map[k] # Null,
         map' = [map EXCEPT ![k] = Null], RoomKept, pending' = pending
  PROVE  RoomKept'
<1>1. Cardinality(Entries)' = Cardinality(Entries) - 1 /\ Cardinality(Entries) \in Nat
  BY OneLess
<1>2. Cardinality(Entries) <= MaxSize /\ MaxSize \in Nat
  BY ConstantsOK DEF RoomKept
<1>3. (Cardinality(Entries) <= MaxSize)' /\ (Cardinality(Entries) < MaxSize)'
  BY <1>1, <1>2
<1> QED
  BY <1>3 DEF RoomKept

(* A step that keeps the Map, and at most begins or ends a set.            *)
LEMMA QuietSize ==
  ASSUME RoomKept, map' = map, pending' = pending \/ pending' = NoCall \/ ~pending'.evicted
  PROVE  RoomKept'
BY DEF RoomKept, Entries

LEMMA ReadSize ==
  ASSUME IInv, SizeInv, NEW k \in Keys, Read(k), pending' = pending
  PROVE  SizeInv'
<1>1. map' = map
  BY ReadStep
<1>2. ~expiredRead' => ~expiredRead
  BY DEF Read, ReadExpired, ReadHit, ReadAbsent
<1> QED
  BY <1>1, <1>2, QuietSize DEF SizeInv

LEMMA CallSize ==
  ASSUME IInv, InList, SizeInv, NEW k \in Keys, NEW tk, Drop(k, tk), expiredRead' = expiredRead, pending' = pending
  PROVE  SizeInv'
<1> SUFFICES ASSUME ~expiredRead' PROVE RoomKept'
  BY DEF SizeInv
<1>1. IsListed(list, map, recency) /\ RoomKept
  BY DEF InList, IsListed, SizeInv
<1>2. CASE map[k] = Null
  BY <1>1, <1>2, QuietSize DEF Drop, heapVars
<1>3. CASE map[k] # Null
  BY <1>1, <1>3, DropSize DEF Drop, Heap
<1> QED
  BY <1>2, <1>3

LEMMA EvictSize ==
  ASSUME IInv, IsListed(list, map, recency), NEW x \in Nodes, EvictNode(x)
  PROVE  \E k \in Keys : map[k] # Null /\ map' = [map EXCEPT ![k] = Null]
BY VictimHeld, ConstantsOK DEF EvictNode, Heap

LEMMA StoreSize ==
  ASSUME IInv, InList, SizeInv, Store
  PROVE  SizeInv'
<1> SUFFICES ASSUME ~expiredRead' PROVE RoomKept'
  BY DEF SizeInv
<1>1. expiredRead' = expiredRead /\ pending' = NoCall
  BY DEF Store, StoreIn
<1>2. IsListed(list, map, recency) /\ RoomKept
  BY <1>1 DEF InList, IsListed, SizeInv
<1>3. pending.key \in Keys
  BY DEF Store, IInv, TypeOK, SetCall
<1>4. \E n : map' = [map EXCEPT ![pending.key] = n]
  BY DEF Store, StoreIn, Heap
<1>5. CASE map[pending.key] # Null
  <2>1. map' = map
    <3>1. StoreIn(map[pending.key], Touched(list, map[pending.key]))
      BY <1>5 DEF Store
    <3>2. map' = [map EXCEPT ![pending.key] = map[pending.key]]
      BY <3>1 DEF StoreIn, Heap
    <3> QED
      BY <1>3, <3>2, Kinds DEF MapType
  <2> QED
    BY <1>1, <1>2, <2>1, QuietSize
<1>6. CASE map[pending.key] = Null
  <2>1. Cardinality(Entries) < MaxSize
    BY <1>2, <1>6, FiniteEntries, ConstantsOK DEF Store, NeedsSlot, RoomKept
  <2>2. Entries' \subseteq Entries \cup {pending.key} /\ Entries \subseteq Entries'
    BY <1>3, <1>4, <1>6, Kinds DEF Entries, MapType
  <2>3. Entries' = Entries \/ Entries' = Entries \cup {pending.key}
    BY <2>2
  <2>4. Cardinality(Entries)' <= Cardinality(Entries) + 1 /\ Cardinality(Entries) \in Nat
    BY <1>2, <2>3, FiniteEntries, FS_AddElement
  <2>5. Cardinality(Entries') \in Nat
    BY <1>2, <2>3, FiniteEntries, FS_AddElement, FS_CardinalityType
  <2> QED
    BY <1>1, <2>1, <2>4, <2>5, ConstantsOK DEF RoomKept
<1> QED
  BY <1>5, <1>6

LEMMA InitSize == Init => SizeInv
<1> SUFFICES ASSUME Init PROVE RoomKept
  BY DEF SizeInv
<1>1. Entries = {}
  BY DEF Init, Entries
<1> QED
  BY <1>1, FS_EmptySet, ConstantsOK DEF RoomKept, Init

LEMMA StepSize ==
  ASSUME MaxSize # 0, IInv, InList, SizeInv, [Next]_vars
  PROVE  SizeInv'
<1>1. ASSUME map' = map, expiredRead' = expiredRead,
             pending' = pending \/ pending' = NoCall \/ ~pending'.evicted
      PROVE  SizeInv'
  BY <1>1, QuietSize DEF SizeInv
<1> USE DEF storeVars, heapVars, histVars, turnVars, vars
<1>2. CASE Tick \/ CleanupTurn
  BY <1>1, <1>2 DEF Tick, CleanupTurn
<1>3. ASSUME NEW k \in Keys, Get(k) PROVE SizeInv'
  BY <1>3, ReadSize DEF Get
<1>4. ASSUME NEW k \in Keys, NEW ts \in SUBSET Tags, NEW ns \in Namespaces, NEW ttl \in Ttls,
             NEW size \in Sizes, Set(k, ts, ns, ttl, size)
      PROVE  SizeInv'
  BY <1>1, <1>4 DEF Set
<1>5. CASE EvictForMemory
  <2> SUFFICES ASSUME ~expiredRead' PROVE RoomKept'
    BY DEF SizeInv
  <2>1. IsListed(list, map, recency) /\ RoomKept /\ pending' = pending
    BY <1>5 DEF EvictForMemory, EvictOne, InList, IsListed, SizeInv
  <2>2. CASE EvictNothing
    BY <2>1, <2>2, QuietSize DEF EvictNothing
  <2>3. ASSUME NEW x \in Nodes, EvictNode(x) PROVE RoomKept'
    BY <2>1, <2>3, EvictSize, DropSize
  <2> QED
    BY <1>5, <2>2, <2>3 DEF EvictForMemory, EvictOne
<1>6. CASE EvictForSlot
  <2> SUFFICES ASSUME ~expiredRead' PROVE RoomKept'
    BY DEF SizeInv
  <2>1. IsListed(list, map, recency) /\ RoomKept
    BY <1>6 DEF EvictForSlot, EvictOne, InList, IsListed, SizeInv
  <2>2. Cardinality(Entries) >= MaxSize /\ MaxSize \in Nat
    BY <1>6, ConstantsOK DEF EvictForSlot, NeedsSlot
  <2>3. Entries # {}
    BY <2>2, FS_EmptySet
  <2>4. PICK x \in Nodes : EvictNode(x)
    BY <1>6, <2>1, <2>3, FiniteEntries DEF EvictForSlot, EvictOne, EvictNothing
  <2>5. Cardinality(Entries)' = Cardinality(Entries) - 1 /\ Cardinality(Entries) \in Nat
    BY <2>1, <2>4, EvictSize, OneLess
  <2> QED
    BY <2>1, <2>2, <2>5 DEF RoomKept
<1>7. CASE Store
  BY <1>7, StoreSize
<1>8. ASSUME NEW k \in Keys, Delete(k) PROVE SizeInv'
  BY <1>8, CallSize DEF Delete
<1>9. CASE ClearAll \/ Close
  <2>1. Entries' = {} /\ pending' = pending /\ \A k \in Keys : map'[k] = Null
    BY <1>9 DEF ClearAll, Close, Reset, Heap, Entries
  <2>2. pending = NoCall
    BY <1>9 DEF ClearAll, Close, Reset, Idle
  <2> QED
    BY <2>1, <2>2, FS_EmptySet, ConstantsOK DEF SizeInv, RoomKept
<1>11. CASE SweepEntry
  <2> SUFFICES ASSUME ~expiredRead' PROVE RoomKept'
    BY DEF SizeInv
  <2>1. IsListed(list, map, recency) /\ RoomKept /\ pending' = pending
    BY <1>11 DEF SweepEntry, InList, IsListed, SizeInv
  <2>2. PICK k \in Oldest(sweeping) : map[k] # Null /\ map' = [map EXCEPT ![k] = Null]
    BY <1>11 DEF SweepEntry, Heap
  <2>3. k \in Keys
    BY DEF Oldest, IInv, TypeOK
  <2> QED
    BY <2>1, <2>2, <2>3, DropSize
<1>12. ASSUME NEW i \in Tasks, NEW t \in Tags, InvalidateTag(i, t) PROVE SizeInv'
  <2>1. \A j \in tagIndex[t] : j \in Keys
    BY DEF IInv, TypeOK
  <2> QED
    BY <1>12, <2>1, CallSize DEF InvalidateTag
<1>13. ASSUME NEW t \in Tags, InvalidateEmptyTag(t) PROVE SizeInv'
  BY <1>1, <1>13 DEF InvalidateEmptyTag
<1>14. ASSUME NEW i \in Tasks, NEW ns \in Namespaces, ClearNamespace(i, ns) PROVE SizeInv'
  BY <1>14, CallSize DEF ClearNamespace, Entries
<1>15. ASSUME NEW i \in Tasks, DropNext(i) PROVE SizeInv'
  <2>1. \A j \in task[i].left : j \in Keys
    BY DEF IInv, TypeOK, TaskState
  <2> QED
    BY <1>15, <2>1, CallSize DEF DropNext
<1>16. ASSUME NEW i \in Tasks, InvalidateTagReturns(i) PROVE SizeInv'
  BY <1>1, <1>16 DEF InvalidateTagReturns
<1>17. ASSUME NEW i \in Tasks, NEW t \in Tags, GetByTag(i, t) PROVE SizeInv'
  <2>1. \A j \in tagIndex[t] : j \in Keys
    BY DEF IInv, TypeOK
  <2> QED
    BY <1>17, <2>1, ReadSize DEF GetByTag
<1>18. ASSUME NEW i \in Tasks, GetNext(i) PROVE SizeInv'
  <2>1. \A j \in task[i].left : j \in Keys
    BY DEF IInv, TypeOK, TaskState
  <2> QED
    BY <1>18, <2>1, ReadSize DEF GetNext
<1>19. ASSUME NEW i \in Tasks, NEW k \in Keys, Increment(i, k) PROVE SizeInv'
  BY <1>19, ReadSize DEF Increment
<1>20. ASSUME NEW i \in Tasks, IncrementSets(i) PROVE SizeInv'
  BY <1>1, <1>20 DEF IncrementSets
<1>21. ASSUME NEW i \in Tasks, LoopReturns(i) PROVE SizeInv'
  BY <1>1, <1>21 DEF LoopReturns
<1>22. CASE UNCHANGED vars
  BY <1>1, <1>22
<1> QED
  BY <1>2, <1>3, <1>4, <1>5, <1>6, <1>7, <1>8, <1>9, <1>11, <1>12, <1>13, <1>14, <1>15,
     <1>16, <1>17, <1>18, <1>19, <1>20, <1>21, <1>22 DEF Next
-----------------------------------------------------------------------------
(* What the entries of a Map m take, their nodes holding nd.               *)
Occupied(m) == {k \in Keys : m[k] # Null}
Charge(m, nd) == [k \in Occupied(m) |-> nd[m[k]].size]
Bill(m, nd) == SumOf(Charge(m, nd), Occupied(m))

LEMMA ChargeInt ==
  ASSUME NEW m \in MapType, NEW nd \in [Nodes -> NodeType]
  PROVE  /\ \A k \in Occupied(m) : m[k] \in Nodes /\ Charge(m, nd)[k] = nd[m[k]].size /\ nd[m[k]].size \in Nat
         /\ \A k \in Occupied(m) : Charge(m, nd)[k] \in Int
<1>1. \A k \in Occupied(m) : m[k] \in Nodes /\ Charge(m, nd)[k] = nd[m[k]].size /\ nd[m[k]].size \in Nat
  BY DEF Occupied, Charge, MapType, NodeType
<1> QED
  BY <1>1

LEMMA BillInt ==
  ASSUME NEW m \in MapType, NEW nd \in [Nodes -> NodeType], IsFiniteSet(Occupied(m))
  PROVE  Bill(m, nd) \in Int
<1>1. \A k \in Occupied(m) : Charge(m, nd)[k] \in Int
  BY ChargeInt
<1> QED
  BY <1>1, SumOfInt DEF Bill

LEMMA BillSame ==
  ASSUME NEW m \in MapType, NEW nd, NEW nd2, \A k \in Occupied(m) : nd2[m[k]].size = nd[m[k]].size
  PROVE  Bill(m, nd2) = Bill(m, nd)
<1>1. Charge(m, nd2) = Charge(m, nd)
  BY DEF Charge
<1> QED
  BY <1>1 DEF Bill

\* An entry gone takes no more than it took, ...
LEMMA BillLess ==
  ASSUME NEW m \in MapType, NEW nd \in [Nodes -> NodeType], IsFiniteSet(Occupied(m)),
         NEW k \in Occupied(m), NEW m2 \in MapType, m2 = [m EXCEPT ![k] = Null],
         NEW nd2 \in [Nodes -> NodeType], \A j \in Occupied(m2) : nd2[m[j]].size = nd[m[j]].size
  PROVE  Bill(m2, nd2) = Bill(m, nd) - nd[m[k]].size /\ nd[m[k]].size \in Nat
<1>1. Occupied(m2) = Occupied(m) \ {k} /\ \A j \in Occupied(m2) : m2[j] = m[j]
  BY DEF Occupied, MapType
<1>2. IsFiniteSet(Occupied(m2))
  BY <1>1, FS_RemoveElement
<1>8. \A j \in Occupied(m2) : Charge(m2, nd2)[j] = nd2[m2[j]].size
  BY DEF Charge
<1>9. \A j \in Occupied(m) : Charge(m, nd)[j] = nd[m[j]].size
  BY DEF Charge
<1>3. \A j \in Occupied(m2) : Charge(m2, nd2)[j] = Charge(m, nd)[j]
  BY <1>1, <1>8, <1>9
<1>4. SumOf(Charge(m2, nd2), Occupied(m2)) = SumOf(Charge(m, nd), Occupied(m2))
  BY <1>2, <1>3, SumOfSame
<1>10. Bill(m2, nd2) = SumOf(Charge(m, nd), Occupied(m) \ {k})
  BY <1>1, <1>4 DEF Bill
<1>5. \A j \in Occupied(m) : Charge(m, nd)[j] \in Int
  BY ChargeInt
<1>6. Bill(m, nd) = Charge(m, nd)[k] + SumOf(Charge(m, nd), Occupied(m) \ {k})
  BY <1>5, SumOfOne DEF Bill
<1>7. Bill(m2, nd2) \in Int /\ Charge(m, nd)[k] = nd[m[k]].size /\ nd[m[k]].size \in Nat
  BY <1>2, BillInt, ChargeInt
<1> QED
  BY <1>10, <1>6, <1>7

\* ... a new one what it is given, ...
LEMMA BillMore ==
  ASSUME NEW m \in MapType, NEW nd \in [Nodes -> NodeType], IsFiniteSet(Occupied(m)),
         NEW k \in Keys, m[k] = Null, NEW n \in Nodes, NEW m2 \in MapType, m2 = [m EXCEPT ![k] = n],
         NEW nd2 \in [Nodes -> NodeType], \A j \in Occupied(m) : nd2[m[j]].size = nd[m[j]].size
  PROVE  Bill(m2, nd2) = Bill(m, nd) + nd2[n].size /\ nd2[n].size \in Nat
<1>1. Occupied(m2) = Occupied(m) \cup {k} /\ k \notin Occupied(m) /\ m2[k] = n
  BY ConstantsOK DEF Occupied, MapType
<1>2. \A j \in Occupied(m) : m2[j] = m[j]
  BY <1>1 DEF MapType, Occupied
<1>8. \A j \in Occupied(m2) : Charge(m2, nd2)[j] = nd2[m2[j]].size /\ nd2[m2[j]].size \in Nat
  BY ChargeInt
<1>9. \A j \in Occupied(m) : Charge(m, nd)[j] = nd[m[j]].size
  BY DEF Charge
<1>3. \A j \in Occupied(m) : Charge(m2, nd2)[j] = Charge(m, nd)[j]
  <2> SUFFICES ASSUME NEW j \in Occupied(m) PROVE Charge(m2, nd2)[j] = Charge(m, nd)[j]
    OBVIOUS
  <2>1. m2[j] = m[j] /\ j \in Occupied(m2)
    BY <1>1, <1>2
  <2>2. Charge(m2, nd2)[j] = nd2[m2[j]].size
    BY <1>8, <2>1
  <2>3. Charge(m, nd)[j] = nd[m[j]].size
    BY <1>9
  <2> QED
    BY <2>1, <2>2, <2>3
<1>4. \A j \in Occupied(m2) : Charge(m2, nd2)[j] \in Int
  BY ChargeInt
<1>5. SumOf(Charge(m2, nd2), Occupied(m) \cup {k}) = SumOf(Charge(m2, nd2), Occupied(m)) + Charge(m2, nd2)[k]
  <2>1. \A j \in Occupied(m) \cup {k} : Charge(m2, nd2)[j] \in Int
    BY <1>1, <1>4
  <2> QED
    BY <1>1, <2>1, SumOfMore
<1>6. SumOf(Charge(m2, nd2), Occupied(m)) = Bill(m, nd)
  BY <1>3, SumOfSame DEF Bill
<1>7. Charge(m2, nd2)[k] = nd2[n].size /\ nd2[n].size \in Nat
  <2>1. k \in Occupied(m2)
    BY <1>1
  <2> QED
    BY <1>1, <1>8, <2>1
<1> QED
  BY <1>1, <1>5, <1>6, <1>7 DEF Bill

\* ... and one overwritten what it is given instead.
LEMMA BillChanged ==
  ASSUME NEW m \in MapType, NEW nd \in [Nodes -> NodeType], IsFiniteSet(Occupied(m)),
         NEW k \in Occupied(m),
         NEW nd2 \in [Nodes -> NodeType], \A j \in Occupied(m) \ {k} : nd2[m[j]].size = nd[m[j]].size
  PROVE  /\ Bill(m, nd2) = Bill(m, nd) - nd[m[k]].size + nd2[m[k]].size
         /\ nd[m[k]].size \in Nat /\ nd2[m[k]].size \in Nat
<1>1. \A j \in Occupied(m) : Charge(m, nd)[j] \in Int /\ Charge(m, nd2)[j] \in Int
  BY ChargeInt
<1>2. \A j \in Occupied(m) \ {k} : Charge(m, nd2)[j] = Charge(m, nd)[j]
  BY ChargeInt
<1>3. SumOf(Charge(m, nd2), Occupied(m)) = SumOf(Charge(m, nd), Occupied(m)) - Charge(m, nd)[k] + Charge(m, nd2)[k]
  BY <1>1, <1>2, SumOfChanged
<1> QED
  BY <1>3, ChargeInt DEF Bill
-----------------------------------------------------------------------------
(* The byte count is right, and a set that has made room for its entry     *)
(* finds the room still there, in bytes, when it stores it.                *)
BytesRight ==
  /\ totalBytes = Bill(map, node)
  /\ totalBytes <= MaxBytes \/ Cardinality(Entries) <= 1
RoomMade ==
  pending # NoCall /\ pending.evicted => totalBytes + pending.size <= MaxBytes \/ Entries = {}

BytesInv == ~expiredRead /\ timer => BytesRight /\ RoomMade

\* What is known of the entries when all are listed.
LEMMA BytesKinds ==
  ASSUME IInv, IsListed(list, map, recency)
  PROVE  /\ map \in MapType /\ node \in [Nodes -> NodeType] /\ Entries = Occupied(map)
         /\ IsFiniteSet(Occupied(map)) /\ Cardinality(Entries) \in Nat
         /\ totalBytes \in Int /\ MaxBytes \in Nat
<1>1. IsFiniteSet(Entries) /\ Cardinality(Entries) \in Nat
  BY FiniteEntries
<1> QED
  BY <1>1, Kinds, ConstantsOK DEF Occupied, Entries, IInv, TypeOK

LEMMA DropBytes ==
  ASSUME IInv, IsListed(list, map, recency), BytesRight, NEW k \in Keys, map[k] # Null, NEW l \in ListType,
         Heap([map EXCEPT ![k] = Null], l, node), totalBytes' = totalBytes - node[map[k]].size
  PROVE  BytesRight' /\ totalBytes' \in Int /\ totalBytes' <= totalBytes /\ Entries' \subseteq Entries
<1> DEFINE m2 == [map EXCEPT ![k] = Null]
<1>1. /\ map \in MapType /\ node \in [Nodes -> NodeType] /\ Entries = Occupied(map)
      /\ IsFiniteSet(Occupied(map)) /\ Cardinality(Entries) \in Nat
      /\ totalBytes \in Int /\ MaxBytes \in Nat
  BY BytesKinds
<1>2. m2 \in MapType /\ \A j \in Occupied(m2) : m2[j] = map[j]
  BY <1>1 DEF MapType, Occupied
<1>3. /\ map' = m2 /\ node' \in [Nodes -> NodeType]
      /\ \A j \in Keys : m2[j] # Null => node'[m2[j]] = node[m2[j]]
  BY <1>1, <1>2, HeapKeeps
<1>4. \A j \in Occupied(m2) : node'[map[j]].size = node[map[j]].size
  BY <1>2, <1>3 DEF Occupied
<1>5. k \in Occupied(map)
  BY DEF Occupied
<1>6. Bill(m2, node') = Bill(map, node) - node[map[k]].size /\ node[map[k]].size \in Nat
  <2>1. \A nd2 \in [Nodes -> NodeType] :
          (\A j \in Occupied(m2) : nd2[map[j]].size = node[map[j]].size)
            => Bill(m2, nd2) = Bill(map, node) - node[map[k]].size /\ node[map[k]].size \in Nat
    BY <1>1, <1>2, <1>5, BillLess
  <2> QED
    BY <1>3, <1>4, <2>1
<1>7. Cardinality(Entries)' = Cardinality(Entries) - 1
  BY <1>3, OneLess
<1>8. Entries' \subseteq Entries
  BY <1>1, <1>3 DEF Entries, MapType
<1> HIDE DEF m2
<1>9. totalBytes' = Bill(map', node') /\ totalBytes' <= totalBytes /\ totalBytes' \in Int
  BY <1>1, <1>3, <1>6 DEF BytesRight
<1>10. totalBytes' <= MaxBytes \/ Cardinality(Entries)' <= 1
  BY <1>1, <1>7, <1>9 DEF BytesRight
<1> QED
  BY <1>8, <1>9, <1>10 DEF BytesRight

(* A step that leaves the entries as large as they are.                    *)
LEMMA QuietBytes ==
  ASSUME IInv, BytesRight, map' = map, totalBytes' = totalBytes,
         \A k \in Entries : node'[map[k]].size = node[map[k]].size
  PROVE  BytesRight' /\ Entries' = Entries
<1>1. map \in MapType /\ Occupied(map) = Entries
  BY Kinds DEF Occupied, Entries
<1>2. Bill(map, node') = Bill(map, node)
  BY <1>1, BillSame
<1>3. Bill(map, node)' = Bill(map, node)
  BY <1>2
<1>4. Entries' = Entries
  BY DEF Entries
<1> QED
  BY <1>3, <1>4 DEF BytesRight

(* A read moves nodes and may put off their expiry; it keeps their sizes.  *)
LEMMA ReadSizes ==
  ASSUME IInv, NEW k \in Keys, Read(k), ~expiredRead'
  PROVE  /\ map' = map /\ totalBytes' = totalBytes /\ timer' = timer /\ ~expiredRead
         /\ \A j \in Entries : node'[map[j]].size = node[map[j]].size
<1>1. map \in MapType /\ list \in ListType /\ node \in [Nodes -> NodeType]
  BY Kinds
<1>2. CASE ReadExpired(k)
  BY <1>2 DEF ReadExpired
<1>3. CASE ReadHit(k)
  <2> DEFINE slide == IF SlidingTtl > 0
                      THEN [node EXCEPT ![map[k]].expiresAt = now + SlidingTtl]
                      ELSE node
  <2>1. map[k] \in Nodes
    BY <1>1, <1>3 DEF ReadHit, MapType
  <2>2. Touched(list, map[k]) \in ListType
    BY <1>1, <2>1, ListTypes
  <2>3. slide \in [Nodes -> NodeType]
    <3>1. now \in Nat /\ SlidingTtl \in Nat
      BY ConstantsOK DEF IInv, TypeOK
    <3> QED
      BY <1>1, <2>1, <3>1 DEF NodeType
  <2>4. \A n \in Nodes : slide[n].size = node[n].size
    BY <1>1, <2>1 DEF NodeType
  <2>5. Heap(map, Touched(list, map[k]), slide)
    BY <1>3 DEF ReadHit
  <2> HIDE DEF slide
  <2>6. map' = map /\ \A j \in Keys : map[j] # Null => node'[map[j]] = slide[map[j]]
    BY <1>1, <2>2, <2>3, <2>5, HeapKeeps
  <2>7. \A j \in Entries : map[j] \in Nodes
    BY <1>1 DEF Entries, MapType
  <2>8. totalBytes' = totalBytes /\ timer' = timer /\ ~expiredRead
    BY <1>3 DEF Read, ReadHit
  <2> QED
    BY <2>4, <2>6, <2>7, <2>8 DEF Entries
<1>4. CASE ReadAbsent(k)
  BY <1>4 DEF Read, ReadAbsent, heapVars
<1> QED
  BY <1>2, <1>3, <1>4 DEF Read

LEMMA ReadBytes ==
  ASSUME IInv, BytesInv, NEW k \in Keys, Read(k), pending' = pending, Idle
  PROVE  BytesInv'
<1> SUFFICES ASSUME ~expiredRead', timer' PROVE BytesRight' /\ RoomMade'
  BY DEF BytesInv
<1>1. /\ map' = map /\ totalBytes' = totalBytes /\ timer' = timer /\ ~expiredRead
      /\ \A j \in Entries : node'[map[j]].size = node[map[j]].size
  BY ReadSizes
<1>2. BytesRight
  BY <1>1 DEF BytesInv
<1>3. RoomMade'
  BY DEF RoomMade, Idle
<1> QED
  BY <1>1, <1>2, <1>3, QuietBytes

\* A key deleted by a call, between turns.
LEMMA CallBytes ==
  ASSUME IInv, InList, BytesInv, NEW k \in Keys, NEW tk, Drop(k, tk), Idle,
         expiredRead' = expiredRead, timer' = timer, pending' = pending
  PROVE  BytesInv'
<1> SUFFICES ASSUME ~expiredRead', timer' PROVE BytesRight' /\ RoomMade'
  BY DEF BytesInv
<1>1. IsListed(list, map, recency) /\ BytesRight
  BY DEF InList, IsListed, BytesInv
<1>2. RoomMade'
  BY DEF RoomMade, Idle
<1>3. CASE map[k] = Null
  BY <1>1, <1>2, <1>3, QuietBytes DEF Drop, heapVars
<1>4. CASE map[k] # Null
  <2>1. Removed(list, map[k]) \in ListType
    BY <1>4, Apart, Kinds, ListTypes
  <2> QED
    BY <1>1, <1>2, <1>4, <2>1, DropBytes DEF Drop
<1> QED
  BY <1>3, <1>4

LEMMA EvictBytes ==
  ASSUME IInv, IsListed(list, map, recency), BytesRight, EvictOne
  PROVE  BytesRight' /\ totalBytes' \in Int /\ totalBytes' <= totalBytes /\ Entries' \subseteq Entries
<1>1. CASE EvictNothing
  <2>1. BytesRight' /\ Entries' = Entries
    BY <1>1, QuietBytes DEF EvictNothing, storeVars
  <2>2. totalBytes' = totalBytes /\ totalBytes \in Int
    BY <1>1, BytesKinds DEF EvictNothing, storeVars
  <2> QED
    BY <2>1, <2>2
<1>2. ASSUME NEW x \in Nodes, EvictNode(x)
      PROVE  BytesRight' /\ totalBytes' \in Int /\ totalBytes' <= totalBytes /\ Entries' \subseteq Entries
  <2>1. node[x].key \in Keys /\ map[node[x].key] = x /\ x # Null
    BY <1>2, VictimHeld, ConstantsOK DEF EvictNode
  <2>2. Removed(list, x) \in ListType
    BY Kinds, ListTypes
  <2>3. Heap([map EXCEPT ![node[x].key] = Null], Removed(list, x), node) /\ totalBytes' = totalBytes - node[x].size
    BY <1>2 DEF EvictNode
  <2> QED
    BY <2>1, <2>2, <2>3, DropBytes
<1> QED
  BY <1>1, <1>2 DEF EvictOne

(* What makes room for the entry of a set keeps it.                        *)
LEMMA RoomStays ==
  ASSUME totalBytes \in Int, totalBytes' \in Int, totalBytes' <= totalBytes, Entries' \subseteq Entries,
         NEW size \in Nat, MaxBytes \in Nat, totalBytes + size <= MaxBytes \/ Entries = {}
  PROVE  totalBytes' + size <= MaxBytes \/ Entries' = {}
<1>1. CASE Entries = {}
  BY <1>1
<1>2. CASE totalBytes + size <= MaxBytes
  <2>1. \A a, b \in Int : b <= a /\ a + size <= MaxBytes => b + size <= MaxBytes
    OBVIOUS
  <2> QED
    BY <1>2, <2>1
<1> QED
  BY <1>1, <1>2

LEMMA StoreBytes ==
  ASSUME IInv, InList, BytesInv, Store
  PROVE  BytesInv'
<1> SUFFICES ASSUME ~expiredRead', timer' PROVE BytesRight' /\ RoomMade'
  BY DEF BytesInv
<1> DEFINE k == pending.key
           stored == [key |-> k, tags |-> pending.tags, ns |-> pending.ns,
                      size |-> pending.size,
                      expiresAt |-> IF pending.ttl > 0 THEN now + pending.ttl ELSE 0]
<1>1. expiredRead' = expiredRead /\ timer' = timer /\ pending' = NoCall
  BY DEF Store, StoreIn
<1>2. IsListed(list, map, recency) /\ BytesRight /\ RoomMade
  BY <1>1 DEF InList, IsListed, BytesInv
<1>3. /\ map \in MapType /\ node \in [Nodes -> NodeType] /\ Entries = Occupied(map)
      /\ IsFiniteSet(Occupied(map)) /\ Cardinality(Entries) \in Nat
      /\ totalBytes \in Int /\ MaxBytes \in Nat
  BY <1>2, BytesKinds
<1>4. k \in Keys /\ pending.size \in Nat
  BY DEF Store, IInv, TypeOK, SetCall
<1>5. RoomMade'
  BY <1>1 DEF RoomMade
<1>6. stored \in NodeType /\ stored.size = pending.size
  BY DEF Store, IInv, TypeOK, SetCall, NodeType
<1>7. totalBytes + pending.size <= MaxBytes \/ Entries = {}
  <2>1. CASE pending.evicted
    BY <1>2, <2>1 DEF Store, RoomMade
  <2>2. CASE ~pending.evicted
    BY <1>3, <1>4, <2>2 DEF Store, OverBudget
  <2> QED
    BY <2>1, <2>2
<1> HIDE DEF stored
<1>8. CASE map[k] # Null
  <2> DEFINE n == map[k]
  <2>1. StoreIn(n, Touched(list, n)) /\ n \in Nodes /\ Touched(list, n) \in ListType
    BY <1>4, <1>8, Apart, Kinds, ListTypes DEF Store
  <2>2. /\ Heap([map EXCEPT ![k] = n], Touched(list, n), [node EXCEPT ![n] = stored])
        /\ totalBytes' = totalBytes - node[n].size + pending.size
    BY <1>8, <2>1 DEF StoreIn, Meta, stored
  <2>3. [map EXCEPT ![k] = n] = map
    BY <1>3, <1>4 DEF MapType
  <2>4. [node EXCEPT ![n] = stored] \in [Nodes -> NodeType]
    BY <1>3, <1>6, <2>1
  <2>5. /\ map' = map /\ node' \in [Nodes -> NodeType]
        /\ \A j \in Keys : map[j] # Null => node'[map[j]] = [node EXCEPT ![n] = stored][map[j]]
    <3> HIDE DEF n
    <3>1. Heap(map, Touched(list, n), [node EXCEPT ![n] = stored])
      BY <2>2, <2>3
    <3> QED
      BY <1>3, <2>1, <2>4, <3>1, HeapKeeps
  <2>6. node'[n].size = pending.size
    BY <1>3, <1>4, <1>6, <1>8, <2>1, <2>5
  <2>7. \A j \in Occupied(map) \ {k} : node'[map[j]].size = node[map[j]].size
    <3> SUFFICES ASSUME NEW j \in Occupied(map) \ {k} PROVE node'[map[j]].size = node[map[j]].size
      OBVIOUS
    <3>1. j \in Keys /\ map[j] # Null /\ map[j] # n /\ map[j] \in Nodes
      BY <1>3, <1>4, <1>8, Apart DEF Occupied, MapType
    <3> QED
      BY <1>3, <2>5, <3>1
  <2>8. k \in Occupied(map)
    BY <1>4, <1>8 DEF Occupied
  <2>9. /\ Bill(map, node') = Bill(map, node) - node[n].size + node'[n].size
        /\ node[n].size \in Nat /\ node'[n].size \in Nat
    BY <1>3, <2>5, <2>7, <2>8, BillChanged
  <2>10. totalBytes' = Bill(map', node')
    BY <1>2, <2>2, <2>5, <2>6, <2>9 DEF BytesRight
  <2>11. Entries # {}
    BY <1>3, <2>8
  <2>12. totalBytes' <= MaxBytes
    BY <1>3, <1>4, <1>7, <2>2, <2>9, <2>11
  <2> QED
    BY <1>5, <2>10, <2>12 DEF BytesRight
<1>9. ASSUME map[k] = Null, NEW fresh \in Nodes \ Reachable(map, list), StoreIn(fresh, PushedHead(list, fresh))
      PROVE  BytesRight'
  <2> DEFINE m2 == [map EXCEPT ![k] = fresh]
  <2>1. PushedHead(list, fresh) \in ListType /\ fresh \in Nodes
    BY Kinds, ListTypes
  <2>2. /\ Heap(m2, PushedHead(list, fresh), [node EXCEPT ![fresh] = stored])
        /\ totalBytes' = totalBytes - 0 + pending.size
    BY <1>9 DEF StoreIn, stored
  <2>3. m2 \in MapType /\ m2[k] = fresh /\ \A j \in Occupied(map) : m2[j] = map[j]
    BY <1>3, <1>4, <1>9 DEF MapType, Occupied
  <2>4. [node EXCEPT ![fresh] = stored] \in [Nodes -> NodeType]
    BY <1>3, <1>6, <2>1
  <2>5. /\ map' = m2 /\ node' \in [Nodes -> NodeType]
        /\ \A j \in Keys : m2[j] # Null => node'[m2[j]] = [node EXCEPT ![fresh] = stored][m2[j]]
    <3> HIDE DEF m2
    <3> QED
      BY <2>1, <2>2, <2>3, <2>4, HeapKeeps
  <2>6. node'[fresh].size = pending.size
    <3>1. fresh # Null
      BY <2>1, ConstantsOK
    <3> QED
      BY <1>3, <1>4, <1>6, <2>1, <2>3, <2>5, <3>1
  <2>7. \A j \in Occupied(map) : node'[map[j]].size = node[map[j]].size
    <3> SUFFICES ASSUME NEW j \in Occupied(map) PROVE node'[map[j]].size = node[map[j]].size
      OBVIOUS
    <3>1. j \in Keys /\ map[j] # Null /\ map[j] \in Nodes /\ map[j] # fresh
      BY <1>3, <1>9, ConstantsOK DEF Occupied, MapType, Reachable
    <3> HIDE DEF m2
    <3> QED
      BY <1>3, <2>3, <2>5, <3>1
  <2>8. \A nd2 \in [Nodes -> NodeType] :
          (\A j \in Occupied(map) : nd2[map[j]].size = node[map[j]].size)
             => Bill(m2, nd2) = Bill(map, node) + nd2[fresh].size
    BY <1>3, <1>4, <1>9, <2>1, <2>3, BillMore
  <2>9. totalBytes' = Bill(map', node')
    <3> HIDE DEF m2
    <3>1. Bill(m2, node') = Bill(map, node) + node'[fresh].size
      BY <2>5, <2>7, <2>8
    <3> QED
      BY <1>2, <1>3, <1>4, <2>2, <2>5, <2>6, <3>1 DEF BytesRight
  <2>10. totalBytes' <= MaxBytes \/ Entries' = {k}
    <3>1. Entries = {} => Entries' = {k}
      BY <1>3, <1>4, <2>1, <2>5, ConstantsOK DEF Entries, MapType
    <3> QED
      BY <1>3, <1>4, <1>7, <2>2, <3>1
  <2>11. totalBytes' <= MaxBytes \/ Cardinality(Entries)' <= 1
    <3>1. Cardinality({k}) = 1
      BY FS_Singleton
    <3> QED
      BY <2>10, <3>1
  <2> QED
    BY <2>9, <2>11 DEF BytesRight
<1> QED
  BY <1>5, <1>8, <1>9 DEF Store

LEMMA InitBytes == Init => BytesInv
<1> SUFFICES ASSUME Init PROVE BytesRight /\ RoomMade
  BY DEF BytesInv
<1>1. Occupied(map) = {} /\ Entries = {}
  BY DEF Init, Occupied, Entries
<1>2. Bill(map, node) = 0
  BY <1>1, SumOfEmpty DEF Bill
<1>3. Cardinality(Entries) <= 1
  BY <1>1, FS_EmptySet
<1> QED
  BY <1>2, <1>3 DEF BytesRight, RoomMade, Init

LEMMA StepBytes ==
  ASSUME IInv, InList, BytesInv, [Next]_vars
  PROVE  BytesInv'
<1>1. ASSUME map' = map, node' = node, totalBytes' = totalBytes, expiredRead' = expiredRead, timer' = timer,
             pending' = pending \/ pending' = NoCall \/ ~pending'.evicted
      PROVE  BytesInv'
  <2> SUFFICES ASSUME ~expiredRead', timer' PROVE BytesRight' /\ RoomMade'
    BY DEF BytesInv
  <2>1. BytesRight /\ RoomMade
    BY <1>1 DEF BytesInv
  <2>2. BytesRight' /\ Entries' = Entries
    BY <1>1, <2>1, QuietBytes
  <2>3. RoomMade'
    BY <1>1, <2>1, <2>2 DEF RoomMade
  <2> QED
    BY <2>2, <2>3
<1> USE DEF storeVars, heapVars, histVars, turnVars, vars
<1>2. CASE Tick \/ CleanupTurn
  BY <1>1, <1>2 DEF Tick, CleanupTurn
<1>3. ASSUME NEW k \in Keys, Get(k) PROVE BytesInv'
  BY <1>3, ReadBytes DEF Get
<1>4. ASSUME NEW k \in Keys, NEW ts \in SUBSET Tags, NEW ns \in Namespaces, NEW ttl \in Ttls,
             NEW size \in Sizes, Set(k, ts, ns, ttl, size)
      PROVE  BytesInv'
  BY <1>1, <1>4 DEF Set
<1>5. CASE EvictForMemory
  <2> SUFFICES ASSUME ~expiredRead', timer' PROVE BytesRight' /\ RoomMade'
    BY DEF BytesInv
  <2>1. IsListed(list, map, recency) /\ BytesRight /\ EvictOne
    BY <1>5 DEF EvictForMemory, EvictOne, InList, IsListed, BytesInv
  <2>2. RoomMade'
    BY <1>5 DEF EvictForMemory, RoomMade
  <2> QED
    BY <2>1, <2>2, EvictBytes
<1>6. CASE EvictForSlot
  <2> SUFFICES ASSUME ~expiredRead', timer' PROVE BytesRight' /\ RoomMade'
    BY DEF BytesInv
  <2>1. IsListed(list, map, recency) /\ BytesRight /\ EvictOne
    BY <1>6 DEF EvictForSlot, EvictOne, InList, IsListed, BytesInv
  <2>2. totalBytes \in Int /\ MaxBytes \in Nat
    BY <2>1, BytesKinds
  <2>3. pending \in SetCall
    BY <1>6 DEF EvictForSlot, IInv, TypeOK
  <2>4. pending.size \in Nat /\ pending'.size = pending.size
    BY <1>6, <2>3 DEF EvictForSlot, SetCall
  <2>5. totalBytes + pending.size <= MaxBytes \/ Entries = {}
    BY <1>6, <2>2, <2>4 DEF EvictForSlot, OverBudget
  <2>6. BytesRight' /\ totalBytes' \in Int /\ totalBytes' <= totalBytes /\ Entries' \subseteq Entries
    BY <2>1, EvictBytes
  <2>7. totalBytes' + pending.size <= MaxBytes \/ Entries' = {}
    BY <2>2, <2>4, <2>5, <2>6, RoomStays
  <2> QED
    BY <2>4, <2>6, <2>7 DEF RoomMade
<1>7. CASE Store
  BY <1>7, StoreBytes
<1>8. ASSUME NEW k \in Keys, Delete(k) PROVE BytesInv'
  BY <1>8, CallBytes DEF Delete
<1>9. CASE ClearAll
  <2>1. totalBytes' = 0 /\ pending' = pending /\ \A k \in Keys : map'[k] = Null
    BY <1>9 DEF ClearAll, Reset, Heap
  <2>2. pending = NoCall
    BY <1>9 DEF ClearAll, Reset, Idle
  <2>3. Occupied(map') = {} /\ Entries' = {}
    BY <2>1 DEF Occupied, Entries
  <2>4. Bill(map', node') = 0
    BY <2>3, SumOfEmpty DEF Bill
  <2>5. Cardinality(Entries') <= 1
    BY <2>3, FS_EmptySet
  <2> QED
    BY <2>1, <2>2, <2>4, <2>5 DEF BytesInv, BytesRight, RoomMade
<1>10. CASE Close
  BY <1>10 DEF Close, BytesInv
<1>11. CASE SweepEntry
  <2> SUFFICES ASSUME ~expiredRead', timer' PROVE BytesRight' /\ RoomMade'
    BY DEF BytesInv
  <2>1. IsListed(list, map, recency) /\ BytesRight /\ RoomMade /\ pending' = pending
    BY <1>11 DEF SweepEntry, InList, IsListed, BytesInv
  <2>2. PICK k \in Oldest(sweeping) : /\ map[k] # Null
                                      /\ totalBytes' = totalBytes - node[map[k]].size
                                      /\ Heap([map EXCEPT ![k] = Null], Removed(list, map[k]), node)
    BY <1>11 DEF SweepEntry, Meta
  <2>3. k \in Keys
    BY DEF Oldest, IInv, TypeOK
  <2>4. Removed(list, map[k]) \in ListType
    BY <2>2, <2>3, Apart, Kinds, ListTypes
  <2>5. BytesRight' /\ totalBytes' \in Int /\ totalBytes' <= totalBytes /\ Entries' \subseteq Entries
    BY <2>1, <2>2, <2>3, <2>4, DropBytes
  <2>6. RoomMade'
    <3> SUFFICES ASSUME pending # NoCall, pending.evicted
                 PROVE  totalBytes' + pending.size <= MaxBytes \/ Entries' = {}
      BY <2>1 DEF RoomMade
    <3>1. totalBytes \in Int /\ MaxBytes \in Nat
      BY <2>1, BytesKinds
    <3>2. pending.size \in Nat
      BY DEF IInv, TypeOK, SetCall
    <3>3. totalBytes + pending.size <= MaxBytes \/ Entries = {}
      BY <2>1 DEF RoomMade
    <3> QED
      BY <2>5, <3>1, <3>2, <3>3, RoomStays
  <2> QED
    BY <2>5, <2>6
<1>12. ASSUME NEW i \in Tasks, NEW t \in Tags, InvalidateTag(i, t) PROVE BytesInv'
  <2>1. \A j \in tagIndex[t] : j \in Keys
    BY DEF IInv, TypeOK
  <2> QED
    BY <1>12, <2>1, CallBytes DEF InvalidateTag
<1>13. ASSUME NEW t \in Tags, InvalidateEmptyTag(t) PROVE BytesInv'
  BY <1>1, <1>13 DEF InvalidateEmptyTag
<1>14. ASSUME NEW i \in Tasks, NEW ns \in Namespaces, ClearNamespace(i, ns) PROVE BytesInv'
  BY <1>14, CallBytes DEF ClearNamespace, Entries
<1>15. ASSUME NEW i \in Tasks, DropNext(i) PROVE BytesInv'
  <2>1. \A j \in task[i].left : j \in Keys
    BY DEF IInv, TypeOK, TaskState
  <2> QED
    BY <1>15, <2>1, CallBytes DEF DropNext
<1>16. ASSUME NEW i \in Tasks, InvalidateTagReturns(i) PROVE BytesInv'
  BY <1>1, <1>16 DEF InvalidateTagReturns
<1>17. ASSUME NEW i \in Tasks, NEW t \in Tags, GetByTag(i, t) PROVE BytesInv'
  <2>1. \A j \in tagIndex[t] : j \in Keys
    BY DEF IInv, TypeOK
  <2> QED
    BY <1>17, <2>1, ReadBytes DEF GetByTag
<1>18. ASSUME NEW i \in Tasks, GetNext(i) PROVE BytesInv'
  <2>1. \A j \in task[i].left : j \in Keys
    BY DEF IInv, TypeOK, TaskState
  <2> QED
    BY <1>18, <2>1, ReadBytes DEF GetNext
<1>19. ASSUME NEW i \in Tasks, NEW k \in Keys, Increment(i, k) PROVE BytesInv'
  BY <1>19, ReadBytes DEF Increment
<1>20. ASSUME NEW i \in Tasks, IncrementSets(i) PROVE BytesInv'
  BY <1>1, <1>20 DEF IncrementSets
<1>21. ASSUME NEW i \in Tasks, LoopReturns(i) PROVE BytesInv'
  BY <1>1, <1>21 DEF LoopReturns
<1>22. CASE UNCHANGED vars
  BY <1>1, <1>22
<1> QED
  BY <1>2, <1>3, <1>4, <1>5, <1>6, <1>7, <1>8, <1>9, <1>10, <1>11, <1>12, <1>13, <1>14, <1>15,
     <1>16, <1>17, <1>18, <1>19, <1>20, <1>21, <1>22 DEF Next

(* "Maximum number of entries", "Maximum memory in bytes" (memory.ts:31,   *)
(* 39), for any interleaving, until a get meets an expired entry. With     *)
(* maxSize 0 set() would still store one entry.                            *)
THEOREM LimitsHold == MaxSize # 0 => (Spec => []WithinLimits)
<1> SUFFICES ASSUME MaxSize # 0 PROVE Spec => []WithinLimits
  OBVIOUS
<1>1. IInv /\ InList /\ SizeInv /\ [Next]_vars => SizeInv'
  BY StepSize
<1>2. IInv /\ InList /\ BytesInv /\ [Next]_vars => BytesInv'
  BY StepBytes
<1>3. Bill(map, node) = SumOf([k \in Entries |-> Meta(k).size], Entries)
  BY DEF Bill, Charge, Occupied, Entries, Meta
<1>4. SizeInv /\ BytesInv => WithinLimits
  BY <1>3 DEF SizeInv, RoomKept, SizeBounded, BytesInv, BytesRight, BytesBounded, WithinLimits
<1> QED
  BY InitIInv, StepIInv, InitInList, StepInList, InitSize, InitBytes, <1>1, <1>2, <1>4, PTL DEF Spec
=============================================================================
