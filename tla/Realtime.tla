------------------------------ MODULE Realtime ------------------------------
(***************************************************************************)
(* LiveQuery and Hub.live of packages/realtime/src/index.ts over a table   *)
(* that changes. start and invalidate await the fetcher, which reads the   *)
(* rows at some moment of the await; their results are taken in the order  *)
(* in which they arrive. The transport calls invalidate some time after a  *)
(* change.                                                                 *)
(***************************************************************************)
EXTENDS Integers, FiniteSets

CONSTANTS
  Items,      \* possible rows
  Viewers,    \* callers of Hub.live, each on a channel of its own
  Notices,    \* calls of invalidate that may be in flight at once
  Unread      \* a fetch that has not read yet, a view that shows nothing

ASSUME RealtimeConstantsOK == Viewers \cap Notices = {}

VARIABLES
  rows,      \* the table
  live,      \* running
  current,   \* the last rows taken
  viewing,   \* viewer -> idle, starting, on, or failed (subscribed, without a handle)
  view,      \* viewer -> the rows last published to it
  fetched,   \* fetches in flight -> what they have read
  announced, \* history: invalidate or start was called since the last change
  overlapped,\* history: the last fetch was not alone, or failed
  silenced   \* history: an invalidate was ignored since another's unsubscribe stopped the query
realtimeVars == <<rows, live, current, viewing, view, fetched, announced, overlapped, silenced>>

Contents == SUBSET Items
Fetches == Viewers \cup Notices    \* a viewer fetches in start

RealtimeInit ==
  /\ rows \in Contents
  /\ live = FALSE /\ current = {}
  /\ viewing = [v \in Viewers |-> "idle"] /\ view = [v \in Viewers |-> Unread]
  /\ fetched = << >>
  /\ announced = FALSE /\ overlapped = FALSE /\ silenced = FALSE

InFlight == DOMAIN fetched
Subscribed == {v \in Viewers : viewing[v] # "idle"}

\* The fetcher is called; alone, or while another fetch is in flight.
BeginFetch(f) ==
  /\ fetched' = [g \in InFlight \cup {f} |-> IF g = f THEN Unread ELSE fetched[g]]
  /\ overlapped' = (InFlight # {})
  /\ announced' = TRUE

\* Hub.live: subscribe, which replays current to a late subscriber, then start.
Live(v) ==
  /\ viewing[v] = "idle" /\ v \notin InFlight
  /\ viewing' = [viewing EXCEPT ![v] = "starting"]
  /\ view' = [view EXCEPT ![v] = IF live THEN current ELSE Unread]
  /\ live' = TRUE /\ silenced' = FALSE
  /\ BeginFetch(v)
  /\ UNCHANGED <<rows, current>>

\* invalidate does nothing when the query is not running.
Invalidate(n) ==
  /\ n \notin InFlight
  /\ IF live THEN BeginFetch(n) /\ UNCHANGED silenced
     ELSE /\ announced' = TRUE /\ silenced' = TRUE
          /\ UNCHANGED <<fetched, overlapped>>
  /\ UNCHANGED <<rows, live, current, viewing, view>>

ReadTable(f) ==
  /\ f \in InFlight /\ fetched[f] = Unread
  /\ fetched' = [fetched EXCEPT ![f] = rows]
  /\ UNCHANGED <<rows, live, current, viewing, view, announced, overlapped, silenced>>

\* Fault: a change that leaves as many rows as there were is not published.
PublishedIfResized(f) ==
  [v \in Viewers |-> IF v \in Subscribed /\ Cardinality(fetched[f]) # Cardinality(current)
                     THEN fetched[f] ELSE view[v]]

\* emit: the channel passes the rows to every subscriber.
Published(f) == [v \in Viewers |-> IF v \in Subscribed THEN fetched[f] ELSE view[v]]

\* The result arrives; nobody asks whether the query still runs, or whether
\* a later fetch has already been taken.
TakeResult(f) ==
  /\ f \in InFlight /\ fetched[f] # Unread
  /\ current' = fetched[f]
  /\ view' = Published(f)
  /\ viewing' = [v \in Viewers |-> IF v = f THEN "on" ELSE viewing[v]]
  /\ fetched' = [g \in InFlight \ {f} |-> fetched[g]]
  /\ UNCHANGED <<rows, live, announced, overlapped, silenced>>

\* The fetcher rejects: a viewer gets no handle to unsubscribe with.
FetchRejects(f) ==
  /\ f \in InFlight
  /\ fetched' = [g \in InFlight \ {f} |-> fetched[g]]
  /\ viewing' = [v \in Viewers |-> IF v = f THEN "failed" ELSE viewing[v]]
  /\ overlapped' = TRUE
  /\ UNCHANGED <<rows, live, current, view, announced, silenced>>

\* The handle of one viewer stops the query for all.
Unsubscribe(v) ==
  /\ viewing[v] = "on"
  /\ viewing' = [viewing EXCEPT ![v] = "idle"] /\ view' = [view EXCEPT ![v] = Unread]
  /\ live' = FALSE
  /\ UNCHANGED <<rows, current, fetched, announced, overlapped, silenced>>

\* A write, by anybody.
TableChanges ==
  /\ rows' \in Contents \ {rows}
  /\ announced' = FALSE
  /\ UNCHANGED <<live, current, viewing, view, fetched, overlapped, silenced>>

RealtimeNext ==
  \/ \E v \in Viewers : Live(v) \/ Unsubscribe(v)
  \/ \E n \in Notices : Invalidate(n)
  \/ \E f \in Fetches : ReadTable(f) \/ TakeResult(f) \/ FetchRejects(f)
  \/ TableChanges

RealtimeSpec == RealtimeInit /\ [][RealtimeNext]_realtimeVars

-----------------------------------------------------------------------------
RealtimeTypeOK ==
  /\ rows \in Contents /\ current \in Contents
  /\ {live, announced, overlapped, silenced} \subseteq BOOLEAN
  /\ viewing \in [Viewers -> {"idle", "starting", "on", "failed"}]
  /\ view \in [Viewers -> Contents \cup {Unread}]
  /\ InFlight \subseteq Fetches /\ \A f \in InFlight : fetched[f] \in Contents \cup {Unread}

(* Once every change has been announced and no fetch is in flight, every   *)
(* viewer shows the rows (docs/realtime/overview.mdx "must reflect writes  *)
(* immediately"), unless the last fetch overlapped another, whose older    *)
(* result may have come later, or failed; or another viewer's unsubscribe  *)
(* had stopped the query (index.ts:84) when the change was announced.      *)
LiveFollows ==
  announced /\ InFlight = {} /\ ~overlapped /\ ~silenced =>
    \A v \in Viewers : viewing[v] = "on" => view[v] = rows
=============================================================================
