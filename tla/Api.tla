-------------------------------- MODULE Api --------------------------------
(***************************************************************************)
(* Router and REST handler of packages/api/src/index.ts: routes are added  *)
(* and middleware registered at run time, and a request goes through the   *)
(* first route that matches, the rate limit, the guards of the route (one  *)
(* await each), the validation of the body and the binding of the plan. A  *)
(* middleware becomes part of a route when the route is added.             *)
(*                                                                         *)
(* Paths are "item" (/users/:id), which matches every request, and "me"    *)
(* (/users/me), which matches those for itself.                            *)
(***************************************************************************)
EXTENDS Integers, Sequences

CONSTANTS
  Requests,      \* calls of the handler
  Filters,       \* the paths that the filters of middleware select
  MaxRoutes,     \* bound on routes added
  MaxGuards,     \* bound on middleware registered
  MaxPerWindow   \* of the rate limiter the handler is given

ASSUME ApiConstantsOK ==
  /\ Filters \subseteq SUBSET {"item", "me"}
  /\ MaxRoutes \in Nat /\ MaxGuards \in Nat /\ MaxPerWindow \in Nat

VARIABLES
  routes,       \* [path, own, shaped, auth]: own guard or not, body checked or not, guards to
                \* await; and age (history): how many middlewares there were
  middlewares,  \* the paths each of them is for, by its filter
  requests,     \* for each request: where it is, its route, and guards left
  counted,      \* requests the limiter has admitted
  history       \* history: the guards that resolved to true for a request and those that resolved
                \* to false, whether its body is good, and the path it is for
apiVars == <<routes, middlewares, requests, counted, history>>

Paths == {"item", "me"}
Own == 0    \* the guard that is the auth of a route definition; middlewares are numbers from 1

Outside == [pc |-> "new", route |-> 0, left |-> {}]

ApiInit ==
  /\ routes = << >> /\ middlewares = << >>
  /\ counted \in 0 .. MaxPerWindow   \* by other requests of the client
  /\ requests = [q \in Requests |-> Outside]
  /\ history = [q \in Requests |-> [path |-> "me", admitted |-> {}, denied |-> {}, good |-> FALSE]]

-----------------------------------------------------------------------------
\* createRouter().

\* Fault: middleware takes the place of the auth a route has of its own.
AuthOfReplacing(path, own) ==
  LET matching == {m \in DOMAIN middlewares : path \in middlewares[m]}
  IN  IF own /\ matching = {} THEN {Own} ELSE matching

\* The auth of a route: its own first, then the middleware there is by now.
AuthOf(path, own) ==
  {m \in DOMAIN middlewares : path \in middlewares[m]} \cup (IF own THEN {Own} ELSE {})

\* Bound: what is set up after the last answer is not looked at.
Waiting == \E q \in Requests : requests[q].pc \in {"new", "guarding"}

AddRoute(path, own, shaped) ==
  /\ Len(routes) < MaxRoutes /\ Waiting
  /\ routes' = Append(routes, [path |-> path, own |-> own, shaped |-> shaped, auth |-> AuthOf(path, own),
                              age |-> Len(middlewares)])
  /\ UNCHANGED <<middlewares, requests, counted, history>>

UseMiddleware(filter) ==
  /\ Len(middlewares) < MaxGuards /\ Waiting
  /\ middlewares' = Append(middlewares, filter)
  /\ UNCHANGED <<routes, requests, counted, history>>

-----------------------------------------------------------------------------
\* createRestHandler().

\* matchPath: a parameter segment matches anything.
Matches(route, path) == route.path = "item" \/ route.path = path

\* validateShape and the rest of the validator, and the binding, in one
\* piece with the last await.
Validated(q, route, good) ==
  IF routes[route].shaped /\ ~good THEN "rejected" ELSE "planned"

Answer(q, pc) == requests' = [requests EXCEPT ![q] = [@ EXCEPT !.pc = pc, !.left = {}]]

\* Up to the first await: no route answers 404, the limiter 429.
Handle(q, path, limited, good) ==
  /\ requests[q].pc = "new"
  /\ history' = [history EXCEPT ![q] = [@ EXCEPT !.path = path, !.good = good]]
  /\ LET matching == {r \in 1 .. Len(routes) : Matches(routes[r], path)}
     IN  \/ matching = {} /\ Answer(q, "notFound") /\ UNCHANGED counted
         \/ /\ matching # {} /\ limited /\ counted >= MaxPerWindow
            /\ Answer(q, "limited") /\ UNCHANGED counted
         \/ \E first \in matching :
              /\ \A r \in matching : first <= r
              /\ limited => counted < MaxPerWindow
              /\ counted' = IF limited THEN counted + 1 ELSE counted
              /\ requests' = [requests EXCEPT ![q] =
                   [pc    |-> IF routes[first].auth = {} THEN Validated(q, first, good) ELSE "guarding",
                    route |-> first, left |-> routes[first].auth]]
  /\ UNCHANGED <<routes, middlewares>>

\* The guards of a route are awaited one by one, its own first.
Awaited(q, g) == g \in requests[q].left /\ \A h \in requests[q].left : g <= h

LetOn(h, g, yes) ==
  IF yes THEN [h EXCEPT !.admitted = @ \cup {g}] ELSE [h EXCEPT !.denied = @ \cup {g}]

\* A guard resolves, to true or to false: nobody looks at what it resolves
\* to, and the request goes on.
Admit(q, g, yes) ==
  /\ requests[q].pc = "guarding" /\ Awaited(q, g)
  /\ history' = [history EXCEPT ![q] = LetOn(@, g, yes)]
  /\ LET left == requests[q].left \ {g}
     IN  requests' = [requests EXCEPT ![q] =
           [@ EXCEPT !.left = left,
                     !.pc = IF left = {} THEN Validated(q, requests[q].route, history[q].good) ELSE "guarding"]]
  /\ UNCHANGED <<routes, middlewares, counted>>

\* A guard throws: the request is refused with 403.
Refuse(q) ==
  /\ requests[q].pc = "guarding"
  /\ Answer(q, "forbidden")
  /\ UNCHANGED <<routes, middlewares, counted, history>>

ApiNext ==
  \/ \E path \in Paths, own, shaped \in BOOLEAN : AddRoute(path, own, shaped)
  \/ \E filter \in Filters : UseMiddleware(filter)
  \/ \E q \in Requests, path \in Paths, limited, good \in BOOLEAN : Handle(q, path, limited, good)
  \/ \E q \in Requests, g \in 0 .. MaxGuards, yes \in BOOLEAN : Admit(q, g, yes)
  \/ \E q \in Requests : Refuse(q)

ApiSpec == ApiInit /\ [][ApiNext]_apiVars

-----------------------------------------------------------------------------
ApiTypeOK ==
  /\ Len(routes) <= MaxRoutes /\ Len(middlewares) <= MaxGuards /\ counted \in 0 .. MaxPerWindow
  /\ \A r \in DOMAIN routes : routes[r].path \in Paths /\ routes[r].age \in 0 .. MaxGuards
  /\ \A q \in Requests :
       /\ requests[q].pc \in {"new", "notFound", "limited", "guarding", "forbidden", "rejected", "planned"}
       /\ requests[q].pc = "guarding" <=> requests[q].left # {}

\* The guards that were awaited and did not throw.
PassedBy(h) == h.admitted \cup h.denied

(* A request that is answered with a plan came through the first route     *)
(* that matches it; the route's own auth and every middleware for it that  *)
(* was registered before the route were awaited and did not throw, whatever*)
(* was registered meanwhile (api index.ts:200 "MUST be awaited"); and its  *)
(* body was found good if the route checks it. A guard that resolved to    *)
(* false has let it pass, too, against docs/api/auth-middleware.mdx:34     *)
(* ("If `auth` throws or returns false, the handler short-circuits").      *)
RoutesGuarded ==
  \A q \in Requests : requests[q].pc = "planned" =>
    LET route == routes[requests[q].route]
    IN  /\ Matches(route, history[q].path)
        /\ \A r \in 1 .. requests[q].route - 1 : ~Matches(routes[r], history[q].path)
        /\ route.own => Own \in PassedBy(history[q])
        /\ \A m \in 1 .. route.age : route.path \in middlewares[m] => m \in PassedBy(history[q])
        /\ route.shaped => history[q].good
=============================================================================
