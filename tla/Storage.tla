------------------------------ MODULE Storage ------------------------------
(***************************************************************************)
(* Object storage: Storage and MemoryStorage of                            *)
(* packages/storage/src/index.ts, S3StorageAdapter of s3.ts. Each call of  *)
(* an adapter is a step, and between the calls of one operation those of   *)
(* others happen. An object's access attributes are its owner, and a policy*)
(* asks for the owner: that it is the subject, that it is another, or one  *)
(* of these in a group of filters; and it denies a subject that has no id, *)
(* or does not. A request to S3 may fail, done or not.                     *)
(***************************************************************************)
EXTENDS Integers, FiniteSets, Sequences

CONSTANTS
  Adapters,     \* "memory", "s3"
  Callers,
  ObjectNames,  \* the keys of uploads
  Users,        \* the ids of subjects and owners
  Versions,     \* the contents of objects
  Policies      \* the policies, each compiled for a subject

Nobody == ""

\* The subject's id, whether the policy denies those without, and what its
\* filter is: owner = id, owner != id, or a group (or, and, a subquery).
ASSUME StorageConstantsOK ==
  /\ Adapters \subseteq {"memory", "s3"}
  /\ Policies \subseteq [user : Users \cup {Nobody}, strict : BOOLEAN, open : {FALSE},
                          filter : {"=", "!=", "group"}]

VARIABLES
  adapter,
  held,         \* key -> [version, owner]: what was uploaded and not removed
  working,      \* caller -> its operation between two calls of the adapter
  handed,       \* what an operation handed out or removed last
  urls          \* the signed URLs there are, and whether each has time left
storageVars == <<adapter, held, working, handed, urls>>

Missing == [version |-> 0, owner |-> Nobody]
NoWork == [op |-> "none"]
NothingGiven == [op |-> "none"]
\* The key of the transformed object.
Transformed(k) == Append(k, "transformed")
Uploads == {<<n>> : n \in ObjectNames}
StoreKeys == Uploads \cup {Transformed(k) : k \in Uploads}
\* No policy.
OpenToAll == [user |-> Nobody, strict |-> FALSE, open |-> TRUE, filter |-> "="]

StorageInit ==
  /\ adapter \in Adapters
  /\ held = [k \in {} |-> Missing] /\ working = [c \in Callers |-> NoWork]
  /\ handed = NothingGiven /\ urls = {}

-----------------------------------------------------------------------------
Exists(k) == k \in DOMAIN held
At(k) == IF Exists(k) THEN held[k] ELSE Missing

\* put and delete: the last put stays. A request to S3 may fail, and have
\* done its work or not.
With(k, o) == [q \in DOMAIN held \cup {k} |-> IF q = k THEN o ELSE held[q]]
Stored(k, o) == adapter = "memory" /\ held' = With(k, o)
S3Put(k, o) == adapter = "s3" /\ held' \in {With(k, o), held}
Put(k, o) == Stored(k, o) \/ S3Put(k, o)
Removed(k) == held' = [q \in DOMAIN held \ {k} |-> held[q]]
S3Delete(k) == adapter = "s3" /\ (Removed(k) \/ UNCHANGED held)
\* list: all keys there are. S3's may fail.
ListedKeys == DOMAIN held
S3Fails == adapter = "s3"

\* The attributes that get returns: S3's get has none.
AclOwner(o) == IF adapter = "s3" THEN Nobody ELSE o.owner

\* canAccess: no policy, or not denied and the filter holds. A missing
\* attribute and a missing value are both "". Every filter is taken for an
\* equality, whatever its operator, and a group for one that holds.
CanAccess(o, policy) ==
  \/ policy.open
  \/ /\ ~(policy.strict /\ policy.user = Nobody)
     /\ policy.filter = "group" \/ AclOwner(o) = policy.user

Idle(c) == working[c] = NoWork
\* An operation that is one call of the adapter is made by one who is idle.
SomebodyIdle == NoWork \in {working[c] : c \in Callers}
Rest1(c) == working' = [working EXCEPT ![c] = NoWork]
Give(g) == handed' = g

Upload ==
  /\ SomebodyIdle
  /\ \E k \in Uploads, o \in [version : Versions, owner : Users \cup {Nobody}] :
       /\ Put(k, o)
       \* history: removals that looked at the key before
       /\ working' = [d \in Callers |->
            IF working[d].op = "remove" /\ working[d].key = k
            THEN [working[d] EXCEPT !.overtaken = TRUE] ELSE working[d]]
  /\ handed' = NothingGiven /\ UNCHANGED <<urls>>

\* downloadSecure
Download ==
  /\ SomebodyIdle
  /\ \E k \in StoreKeys, policy \in Policies \cup {OpenToAll} :
       Give(IF Exists(k) /\ CanAccess(At(k), policy)
            THEN [op |-> "download", object |-> At(k), policy |-> policy]
            ELSE NothingGiven)
  /\ UNCHANGED <<held, working, urls>>

\* removeSecure looks first ...
LookToRemove(c) ==
  /\ Idle(c)
  /\ \E k \in Uploads, policy \in Policies \cup {OpenToAll} :
       /\ Exists(k) /\ CanAccess(At(k), policy)
       /\ working' = [working EXCEPT ![c] = [op |-> "remove", key |-> k, seen |-> At(k),
                                             policy |-> policy, overtaken |-> FALSE]]
  /\ handed' = NothingGiven /\ UNCHANGED <<held, urls>>

\* ... and deletes what is there by then.
RemoveObject(c) ==
  /\ working[c].op = "remove"
  /\ LET w == working[c]
     IN  \/ /\ Removed(w.key)
            /\ Give([op |-> "remove", object |-> At(w.key), policy |-> w.policy,
                     seen |-> w.seen, overtaken |-> w.overtaken])
         \/ S3Delete(w.key) /\ handed' = NothingGiven   \* failed
  /\ Rest1(c) /\ UNCHANGED <<urls>>

\* listSecure: the keys, then each object.
List(c) ==
  /\ Idle(c)
  /\ \E policy \in Policies :
       working' = [working EXCEPT ![c] = [op |-> "list", left |-> ListedKeys,
                                          out |-> {}, policy |-> policy]]
  /\ handed' = NothingGiven /\ UNCHANGED <<held, urls>>

Look(c) ==
  /\ working[c].op = "list"
  /\ LET w == working[c]
     IN  IF w.left = {}
         THEN Give([op |-> "list", objects |-> w.out, policy |-> w.policy]) /\ Rest1(c)
         ELSE /\ handed' = NothingGiven
              /\ \/ \E k \in w.left :
                      working' = [working EXCEPT ![c].left = @ \ {k},
                        ![c].out = IF Exists(k) /\ CanAccess(At(k), w.policy)
                                   THEN @ \cup {At(k)} ELSE @]
                 \/ S3Fails /\ Rest1(c)
  /\ UNCHANGED <<held, urls>>

\* transform: no policy is asked, and the result has no attributes.
LookToTransform(c) ==
  /\ Idle(c)
  /\ \E k \in Uploads : Exists(k) /\ working' = [working EXCEPT ![c] =
                        [op |-> "transform", key |-> k, seen |-> At(k)]]
  /\ handed' = NothingGiven /\ UNCHANGED <<held, urls>>
PutTransformed(c) ==
  /\ working[c].op = "transform"
  /\ Put(Transformed(working[c].key), [working[c].seen EXCEPT !.owner = Nobody])
  /\ Rest1(c) /\ handed' = NothingGiven /\ UNCHANGED <<urls>>

\* signUrl, for the shortest time there is, and a request that brings the
\* last one signed: verifySignedUrl, then download.
Sign ==
  /\ SomebodyIdle
  /\ \E k \in Uploads, method \in {"GET", "PUT"} :
       urls' = {[key |-> k, method |-> method, fresh |-> TRUE]}
  /\ handed' = NothingGiven /\ UNCHANGED <<held, working>>
Verified(u, key, method) == u.fresh /\ u.key = key /\ u.method = method
Visit ==
  /\ SomebodyIdle
  /\ \E u \in urls, k \in Uploads : /\ Exists(k) /\ Verified(u, k, "GET")
                                 /\ Give([op |-> "visit", object |-> At(k), key |-> k, url |-> u])
  /\ UNCHANGED <<held, working, urls>>

Expire ==
  /\ urls' = {[u EXCEPT !.fresh = FALSE] : u \in urls}
  /\ handed' = NothingGiven /\ UNCHANGED <<held, working>>

StorageNext ==
  /\ \/ Upload \/ Download \/ Sign \/ Visit \/ Expire
     \/ \E c \in Callers : \/ LookToRemove(c) \/ RemoveObject(c) \/ List(c) \/ Look(c)
                           \/ LookToTransform(c) \/ PutTransformed(c)
  /\ UNCHANGED adapter

StorageSpec == StorageInit /\ [][StorageNext]_storageVars

-----------------------------------------------------------------------------
StorageTypeOK ==
  /\ DOMAIN held \subseteq StoreKeys
  /\ \A k \in DOMAIN held : held[k] \in [version : Versions, owner : Users \cup {Nobody}]
  /\ \A c \in Callers : working[c].op \in {"none", "remove", "list", "transform"}

\* Whom a policy gives an object that somebody uploaded: its owner. With S3
\* the attributes are gone, which leaves those who have no id. The exception
\* is a policy with a group, which gives it to whomever it does not deny.
Entitled(policy, o) ==
  \/ policy.open
  \/ policy.user = o.owner /\ (policy.strict => policy.user # Nobody) /\ adapter = "memory"
  \/ policy.user = Nobody /\ ~policy.strict /\ adapter = "s3"
  \/ policy.filter = "group" /\ (policy.strict => policy.user # Nobody)

(* What is handed out or listed under a policy is its subject's, whatever  *)
(* happened to the key meanwhile, unless the policy's filters are in a     *)
(* group (storage/src/index.ts:161); so it is even under a policy for what *)
(* is others' (:162). What is removed is so too, and it is the object that *)
(* was looked at or none, unless the key was uploaded again between the    *)
(* look and the removal. A signed URL gives the object of its own key,     *)
(* while it lasts.                                                         *)
ObjectsGuarded ==
  /\ handed.op = "download" => Entitled(handed.policy, handed.object)
  /\ handed.op = "list" => \A o \in handed.objects : Entitled(handed.policy, o)
  /\ handed.op = "remove" =>
       /\ Entitled(handed.policy, handed.seen)
       /\ (handed.overtaken \/ handed.object \in {handed.seen, Missing})
  /\ handed.op = "visit" =>
       /\ handed.key = handed.url.key
       /\ handed.url.fresh
=============================================================================
