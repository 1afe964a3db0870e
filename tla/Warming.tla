------------------------------ MODULE Warming ------------------------------
(***************************************************************************)
(* packages/cache/src/warming.ts, whose two classes share no state.        *)
(*                                                                         *)
(* CacheWarmer: jobs on timers that fetch a value and store it in the      *)
(* cache. One flag, running, serves all jobs, so that a run which comes    *)
(* while another job's is under way is skipped; the fetch and the store    *)
(* are awaits.                                                             *)
(*                                                                         *)
(* BackgroundRefresher: resolve answers with a cached value, asks for a    *)
(* refresh in the background when it is stale, and fetches itself when it  *)
(* is too old or missing. The refresher stores nothing: whether a fetch    *)
(* that it makes puts its value into the cache is the caller's affair, and *)
(* so is how the cache ages.                                               *)
(***************************************************************************)
EXTENDS Integers, FiniteSets

-----------------------------------------------------------------------------
(* CacheWarmer                                                             *)

CONSTANTS Jobs   \* by their names

VARIABLES
  timers,   \* jobs with a timer
  running,  \* the flag
  runs      \* runs under way, suspended at an await
warmingVars == <<timers, running, runs>>

WarmingInit == timers = {} /\ running = FALSE /\ runs = {}

\* Fault: the flag is raised only when the fetch is done.
BeginRunUnseen(j) == runs' = runs \cup {[job |-> j, pc |-> "fetch"]} /\ UNCHANGED running

\* run up to its first await.
BeginRun(j) ==
  IF running THEN UNCHANGED <<running, runs>>
  ELSE running' = TRUE /\ runs' = runs \cup {[job |-> j, pc |-> "fetch"]}

\* start: a job that has a timer is not started again.
StartJob(j) ==
  /\ j \notin timers
  /\ timers' = timers \cup {j}
  /\ BeginRun(j)

TimerFires(j) ==
  /\ j \in timers
  /\ BeginRun(j)
  /\ UNCHANGED timers

\* stop: a run of the job that is under way goes on, and stores.
StopJob(j) ==
  /\ j \in timers
  /\ timers' = timers \ {j}
  /\ UNCHANGED <<running, runs>>

StopAll ==
  /\ timers # {}
  /\ timers' = {}
  /\ UNCHANGED <<running, runs>>

FetchDone(r) ==
  /\ r \in runs /\ r.pc = "fetch"
  /\ runs' = (runs \ {r}) \cup {[r EXCEPT !.pc = "store"]}
  /\ UNCHANGED <<timers, running>>

\* Fault: the flag is only lowered by a run that succeeds.
EndRunIfStored(r) ==
  /\ r \in runs
  /\ runs' = runs \ {r}
  /\ running' = (running /\ r.pc = "fetch")
  /\ UNCHANGED timers

\* The value is stored, or the fetch or the store fails: finally lowers the flag.
EndRun(r) ==
  /\ r \in runs
  /\ runs' = runs \ {r}
  /\ running' = FALSE
  /\ UNCHANGED timers

WarmingNext ==
  \/ \E j \in Jobs : StartJob(j) \/ TimerFires(j) \/ StopJob(j)
  \/ StopAll
  \/ \E r \in runs : FetchDone(r) \/ EndRun(r)

\* Intervals fire, and what a job fetches settles.
WarmingFairness ==
  /\ \A j \in Jobs : WF_warmingVars(TimerFires(j))
  /\ WF_warmingVars(\E r \in runs : EndRun(r))

WarmingSpec == WarmingInit /\ [][WarmingNext]_warmingVars /\ WarmingFairness

-----------------------------------------------------------------------------
WarmingTypeOK ==
  /\ timers \subseteq Jobs /\ running \in BOOLEAN
  /\ runs \subseteq [job : Jobs, pc : {"fetch", "store"}]
  /\ Cardinality(runs) <= 1    \* warming.ts:46 "avoid concurrent runs"

(* A job that is alone on the warmer is fetched again and again, whatever  *)
(* failed before and whatever other jobs left behind. (Of several jobs all *)
(* but one may be skipped for ever, since their timers share the flag.)    *)
SoleJobKeepsWarming ==
  \A j \in Jobs :
    <>[](timers = {j}) => []<>([job |-> j, pc |-> "fetch"] \in runs)

-----------------------------------------------------------------------------
(* BackgroundRefresher                                                     *)
CONSTANTS
  Keys,
  Resolvers,      \* resolve calls that may be in flight at once
  NoResolve,      \* no call, no answer
  MaxConcurrent,  \* config.maxConcurrent
  MaxLeaks        \* bound on the fetch functions that throw

ASSUME RefreshingConstantsOK == MaxConcurrent \in Nat \ {0} /\ MaxLeaks \in Nat

VARIABLES
  aged,        \* key -> how old its entry is
  pending,     \* pendingRefreshes
  concurrent,  \* the counter
  resolver,    \* calls suspended at an await
  reply,       \* the answer that a call has just given
  leaks        \* history: fetch functions that threw before returning a promise
refreshingVars == <<aged, pending, concurrent, resolver, reply, leaks>>

Ages == {"fresh", "stale", "old"}   \* old: beyond staleTtlMs, or missing

RefreshingInit ==
  /\ aged = [k \in Keys |-> "old"]
  /\ pending = {} /\ concurrent = 0 /\ leaks = 0
  /\ resolver = [r \in Resolvers |-> NoResolve]
  /\ reply = NoResolve

Waits(r, pc) == resolver[r] # NoResolve /\ resolver[r].pc = pc
Finish(r) == resolver' = [resolver EXCEPT ![r] = NoResolve]

\* getCached: the age is the one at this moment.
GetCached(r, k) ==
  /\ resolver[r] = NoResolve
  /\ resolver' = [resolver EXCEPT ![r] = [pc |-> "decide", key |-> k, age |-> aged[k]]]
  /\ reply' = NoResolve
  /\ UNCHANGED <<aged, pending, concurrent, leaks>>

AnswerFresh(r) ==
  /\ Waits(r, "decide") /\ resolver[r].age = "fresh"
  /\ Finish(r)
  /\ reply' = [key |-> resolver[r].key, stale |-> FALSE]
  /\ UNCHANGED <<aged, pending, concurrent, leaks>>

\* refreshInBackground and the stale answer. A fetch that throws instead of
\* returning a promise makes the call throw, with the counter raised.
AnswerStale(r) ==
  /\ Waits(r, "decide") /\ resolver[r].age = "stale"
  /\ Finish(r)
  /\ LET k == resolver[r].key
         refused == k \in pending \/ concurrent >= MaxConcurrent
     IN  \/ /\ concurrent' = IF refused THEN concurrent ELSE concurrent + 1
            /\ pending' = IF refused THEN pending ELSE pending \cup {k}
            /\ reply' = [key |-> k, stale |-> TRUE]
            /\ UNCHANGED leaks
         \/ /\ ~refused /\ leaks < MaxLeaks
            /\ concurrent' = concurrent + 1 /\ leaks' = leaks + 1
            /\ reply' = NoResolve
            /\ UNCHANGED pending
  /\ UNCHANGED aged

FetchItself(r) ==
  /\ Waits(r, "decide") /\ resolver[r].age = "old"
  /\ resolver' = [resolver EXCEPT ![r].pc = "fetch"]
  /\ reply' = NoResolve
  /\ UNCHANGED <<aged, pending, concurrent, leaks>>

\* The call's own fetch answers or fails.
FetchSettles(r) ==
  /\ Waits(r, "fetch")
  /\ Finish(r)
  /\ reply' \in {NoResolve, [key |-> resolver[r].key, stale |-> FALSE]}
  /\ UNCHANGED <<aged, pending, concurrent, leaks>>

\* Fault: the counter is not lowered.
RefreshSettlesCounted(k) ==
  /\ k \in pending
  /\ pending' = pending \ {k} /\ reply' = NoResolve
  /\ UNCHANGED <<aged, concurrent, resolver, leaks>>

\* The background fetch settles either way; its value goes nowhere.
RefreshSettles(k) ==
  /\ k \in pending
  /\ pending' = pending \ {k} /\ concurrent' = concurrent - 1 /\ reply' = NoResolve
  /\ UNCHANGED <<aged, resolver, leaks>>

\* Nothing handles its failure: by default the process ends, and another
\* one begins with an empty cache.
RejectionUnhandled(k) ==
  /\ k \in pending
  /\ aged' = [l \in Keys |-> "old"]
  /\ pending' = {} /\ concurrent' = 0 /\ leaks' = 0
  /\ resolver' = [r \in Resolvers |-> NoResolve]
  /\ reply' = NoResolve

\* The cache, outside: entries age, and are stored by somebody.
CacheChanges(k) ==
  /\ aged' \in {[aged EXCEPT ![k] = a] : a \in Ages}
  /\ reply' = NoResolve
  /\ UNCHANGED <<pending, concurrent, resolver, leaks>>

RefreshingNext ==
  \/ \E r \in Resolvers :
       \/ \E k \in Keys : GetCached(r, k)
       \/ AnswerFresh(r) \/ AnswerStale(r) \/ FetchItself(r) \/ FetchSettles(r)
  \/ \E k \in Keys : RefreshSettles(k) \/ RejectionUnhandled(k) \/ CacheChanges(k)

RefreshingSpec == RefreshingInit /\ [][RefreshingNext]_refreshingVars

-----------------------------------------------------------------------------
RefreshingTypeOK ==
  /\ aged \in [Keys -> Ages]
  /\ pending \subseteq Keys /\ Cardinality(pending) <= MaxConcurrent
  /\ concurrent \in 0 .. MaxConcurrent /\ leaks \in 0 .. MaxLeaks
  /\ \A r \in Resolvers :
       resolver[r] = NoResolve \/ resolver[r] \in [pc : {"decide", "fetch"}, key : Keys, age : Ages]
  /\ reply = NoResolve \/ reply \in [key : Keys, stale : BOOLEAN]

(* A stale answer comes with a refresh of its key on the way, or as many   *)
(* refreshes really under way as are allowed: slots are only lost to fetch *)
(* functions that threw (warming.ts:158 raises the counter before calling  *)
(* them).                                                                  *)
StaleMeansRefreshing ==
  reply # NoResolve /\ reply.stale =>
    reply.key \in pending \/ Cardinality(pending) + leaks >= MaxConcurrent
=============================================================================
