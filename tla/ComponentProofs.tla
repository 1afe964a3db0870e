-------------------------- MODULE ComponentProofs ---------------------------
(***************************************************************************)
(* The smaller components, each of its own specification and for every     *)
(* value of its constants: what guards a request (Api, RowSecurity,        *)
(* Storage, SelectGate, Studio), the locks and refreshes of the cache, the *)
(* lazy pool, SQLite's transactions, Realtime and Presence, the start of a *)
(* process (SchemaInit, Configuration), the schema commands, Warming, and  *)
(* what the development server answers. PlatformProofs puts them together. *)
(***************************************************************************)
EXTENDS MCPlatform, SumsProofs, SequenceTheorems, FiniteSetTheorems, TLAPS

-----------------------------------------------------------------------------
(* Api                                                                     *)

RouteDefs == [path : Paths, own : BOOLEAN, shaped : BOOLEAN, auth : SUBSET Nat, age : Nat]
Places == {"new", "notFound", "limited", "guarding", "forbidden", "rejected", "planned"}
RequestStates == [pc : Places, route : Nat, left : SUBSET Nat]
Histories == [path : Paths, admitted : SUBSET Nat, denied : SUBSET Nat, good : BOOLEAN]

ApiTypes ==
  /\ routes \in Seq(RouteDefs) /\ middlewares \in Seq(SUBSET Paths)
  /\ requests \in [Requests -> RequestStates] /\ history \in [Requests -> Histories]
  /\ counted \in Nat

\* A route keeps the guards of the time it was added.
Guards(route, ms) ==
  /\ route.age <= Len(ms)
  /\ route.own => Own \in route.auth
  /\ \A m \in 1 .. route.age : route.path \in ms[m] => m \in route.auth

\* What a request under way has behind it, and what it has before it.
Underway(q) ==
  LET route == routes[requests[q].route]
      path  == history[q].path
  IN  /\ requests[q].route \in 1 .. Len(routes)
      /\ Matches(route, path)
      /\ \A r \in 1 .. requests[q].route - 1 : ~Matches(routes[r], path)
      /\ route.auth \subseteq PassedBy(history[q]) \cup requests[q].left

ApiIInv ==
  /\ ApiTypes /\ ApiTypeOK
  /\ \A r \in 1 .. Len(routes) : Guards(routes[r], middlewares)
  /\ \A q \in Requests :
       /\ requests[q].pc \in {"guarding", "planned"} => Underway(q)
       /\ requests[q].pc = "planned" => (routes[requests[q].route].shaped => history[q].good)

LEMMA ApiStarts == ApiInit => ApiIInv
<1> SUFFICES ASSUME ApiInit PROVE ApiIInv
  OBVIOUS
<1>1. Outside \in RequestStates
  BY DEF Outside, RequestStates, Places
<1>2. [path |-> "me", admitted |-> {}, denied |-> {}, good |-> FALSE] \in Histories
  BY DEF Histories, Paths
<1>3. ApiTypes
  BY <1>1, <1>2, ApiConstantsOK DEF ApiInit, ApiTypes
<1>4. \A q \in Requests : requests[q].pc = "new" /\ requests[q].left = {}
  BY DEF ApiInit, Outside
<1>5. ApiTypeOK
  BY <1>4, ApiConstantsOK DEF ApiInit, ApiTypeOK
<1> QED
  BY <1>3, <1>4, <1>5 DEF ApiIInv, ApiInit

LEMMA ApiSteps == ApiIInv /\ [ApiNext]_apiVars => ApiIInv'
<1> SUFFICES ASSUME ApiIInv, [ApiNext]_apiVars PROVE ApiIInv'
  OBVIOUS
<1>1. /\ ApiTypes /\ ApiTypeOK /\ \A r \in 1 .. Len(routes) : Guards(routes[r], middlewares)
      /\ \A q \in Requests : requests[q].pc \in {"guarding", "planned"} => Underway(q)
      /\ \A q \in Requests : requests[q].pc = "planned" => (routes[requests[q].route].shaped => history[q].good)
  BY DEF ApiIInv
<1>8. /\ Len(routes) \in Nat /\ Len(middlewares) \in Nat
      /\ \A r \in 1 .. Len(routes) : routes[r] \in RouteDefs
  BY <1>1 DEF ApiTypes
<1>9. \A r \in 1 .. Len(routes) : routes[r].auth \subseteq Nat /\ routes[r].age \in Nat
  BY <1>8 DEF RouteDefs
<1>2. ASSUME NEW path \in Paths, NEW own \in BOOLEAN, NEW shaped \in BOOLEAN, AddRoute(path, own, shaped)
      PROVE  ApiIInv'
  <2> DEFINE d == [path |-> path, own |-> own, shaped |-> shaped, auth |-> AuthOf(path, own), age |-> Len(middlewares)]
  <2>1. routes' = Append(routes, d) /\ UNCHANGED <<middlewares, requests, counted, history>> /\ Len(routes) < MaxRoutes
    BY <1>2 DEF AddRoute
  <2>2. AuthOf(path, own) \subseteq Nat /\ Len(middlewares) \in Nat
    BY <1>1 DEF ApiTypes, AuthOf, Own
  <2>3. d \in RouteDefs
    BY <2>2 DEF RouteDefs
  <2>4. Guards(d, middlewares)
    BY <1>1 DEF Guards, AuthOf, ApiTypes
  <2>5. d.age = Len(middlewares) /\ d.path \in Paths
    OBVIOUS
  <2> HIDE DEF d
  <2>6. /\ routes' \in Seq(RouteDefs) /\ Len(routes') = Len(routes) + 1 /\ Len(routes) \in Nat
        /\ \A r \in 1 .. Len(routes) : routes'[r] = routes[r]
        /\ routes'[Len(routes) + 1] = d
    BY <1>1, <2>1, <2>3 DEF ApiTypes
  <2>7. ApiTypes'
    BY <1>1, <2>1, <2>6 DEF ApiTypes
  <2>8. ApiTypeOK'
    <3>1. \A r \in DOMAIN routes' : routes'[r].path \in Paths /\ routes'[r].age \in 0 .. MaxGuards
      BY <1>1, <2>5, <2>6, <2>2, ApiConstantsOK DEF ApiTypeOK, ApiTypes
    <3>2. Len(routes') <= MaxRoutes
      BY <2>1, <2>6, ApiConstantsOK
    <3> QED
      BY <1>1, <2>1, <3>1, <3>2 DEF ApiTypeOK
  <2>9. \A r \in 1 .. Len(routes') : Guards(routes'[r], middlewares')
    BY <1>1, <2>1, <2>4, <2>6 DEF Guards
  <2>10. ASSUME NEW q \in Requests, requests[q].pc \in {"guarding", "planned"}
         PROVE  /\ Underway(q)'
                /\ routes'[requests[q].route] = routes[requests[q].route]
    <3>1. Underway(q)
      BY <1>1, <2>10
    <3>2. routes'[requests[q].route] = routes[requests[q].route]
      BY <2>6, <3>1 DEF Underway
    <3>3. \A r \in 1 .. requests[q].route - 1 : routes'[r] = routes[r]
      BY <2>6, <3>1 DEF Underway
    <3> QED
      BY <2>1, <2>6, <3>1, <3>2, <3>3 DEF Underway
  <2> QED
    BY <1>1, <2>1, <2>7, <2>8, <2>9, <2>10 DEF ApiIInv
<1>3. ASSUME NEW filter \in Filters, UseMiddleware(filter)
      PROVE  ApiIInv'
  <2>1. /\ middlewares' = Append(middlewares, filter) /\ Len(middlewares) < MaxGuards
        /\ UNCHANGED <<routes, requests, counted, history>>
    BY <1>3 DEF UseMiddleware
  <2>2. filter \subseteq Paths
    BY ApiConstantsOK DEF Paths
  <2>3. /\ middlewares' \in Seq(SUBSET Paths) /\ Len(middlewares') = Len(middlewares) + 1 /\ Len(middlewares) \in Nat
        /\ \A m \in 1 .. Len(middlewares) : middlewares'[m] = middlewares[m]
    BY <1>1, <2>1, <2>2 DEF ApiTypes
  <2>4. ASSUME NEW r \in 1 .. Len(routes) PROVE Guards(routes[r], middlewares')
    <3>1. Guards(routes[r], middlewares) /\ routes[r].age \in Nat
      BY <1>1, <1>9
    <3> QED
      BY <2>1, <2>3, <3>1 DEF Guards
  <2>5. ApiTypes' /\ ApiTypeOK'
    BY <1>1, <2>1, <2>3, ApiConstantsOK DEF ApiTypes, ApiTypeOK
  <2> QED
    BY <1>1, <2>1, <2>4, <2>5 DEF ApiIInv, Underway
<1>4. ASSUME NEW q \in Requests, NEW path \in Paths, NEW limited \in BOOLEAN, NEW good \in BOOLEAN,
             Handle(q, path, limited, good)
      PROVE  ApiIInv'
  <2> DEFINE h == [history[q] EXCEPT !.path = path, !.good = good]
             matching == {r \in 1 .. Len(routes) : Matches(routes[r], path)}
  <2>1. /\ history' = [history EXCEPT ![q] = h] /\ UNCHANGED <<routes, middlewares>> /\ requests[q].pc = "new"
    BY <1>4 DEF Handle
  <2>2. h \in Histories /\ h.path = path /\ h.good = good
    BY <1>1 DEF ApiTypes, Histories
  <2> HIDE DEF h
  <2>3. history' \in [Requests -> Histories] /\ history'[q] = h /\ \A p \in Requests \ {q} : history'[p] = history[p]
    BY <1>1, <2>1, <2>2 DEF ApiTypes
  <2> DEFINE Fits(s) ==
          /\ requests' = [requests EXCEPT ![q] = s]
          /\ (s.pc = "guarding" <=> s.left # {})
          /\ (s.pc \in {"guarding", "planned"} =>
               /\ s.route \in matching /\ \A r \in matching : s.route <= r
               /\ s.left = routes[s.route].auth)
          /\ (s.pc = "planned" => (routes[s.route].shaped => good))
  <2>4. \E s \in RequestStates : Fits(s)
    <3>1. ASSUME NEW pc \in Places \ {"guarding", "planned"}, Answer(q, pc)
          PROVE  \E s \in RequestStates :
                   /\ requests' = [requests EXCEPT ![q] = s] /\ s.left = {} /\ s.pc = pc
      <4> DEFINE s == [requests[q] EXCEPT !.pc = pc, !.left = {}]
      <4>1. s \in RequestStates /\ s.left = {} /\ s.pc = pc
        BY <1>1 DEF ApiTypes, RequestStates
      <4> QED
        BY <3>1, <4>1 DEF Answer
    <3>2. CASE Answer(q, "notFound") \/ Answer(q, "limited")
      <4>1. PICK pc \in {"notFound", "limited"} : Answer(q, pc)
        BY <3>2
      <4>2. pc \in Places \ {"guarding", "planned"}
        BY DEF Places
      <4>3. PICK s \in RequestStates : requests' = [requests EXCEPT ![q] = s] /\ s.left = {} /\ s.pc = pc
        BY <3>1, <4>1, <4>2
      <4>4. s.pc # "guarding" /\ s.pc # "planned"
        BY <4>2, <4>3
      <4>5. Fits(s)
        BY <4>3, <4>4
      <4> QED
        BY <4>5
    <3>3. ASSUME NEW first \in matching, \A r \in matching : first <= r,
                 requests' = [requests EXCEPT ![q] =
                   [pc    |-> IF routes[first].auth = {} THEN Validated(q, first, good) ELSE "guarding",
                    route |-> first, left |-> routes[first].auth]]
          PROVE  \E s \in RequestStates : Fits(s)
      <4> DEFINE s == [pc    |-> IF routes[first].auth = {} THEN Validated(q, first, good) ELSE "guarding",
                       route |-> first, left |-> routes[first].auth]
      <4>1. first \in Nat /\ routes[first].auth \subseteq Nat
        BY <1>8, <1>9
      <4>2. s \in RequestStates
        BY <4>1 DEF RequestStates, Places, Validated
      <4>3. s.pc = "guarding" <=> s.left # {}
        BY DEF Validated
      <4>4. s.pc = "planned" => (routes[s.route].shaped => good)
        BY DEF Validated
      <4>5. s.route = first /\ s.left = routes[first].auth
        OBVIOUS
      <4>6. requests' = [requests EXCEPT ![q] = s]
        BY <3>3
      <4> HIDE DEF s
      <4> QED
        BY <3>3, <4>2, <4>3, <4>4, <4>5, <4>6
    <3> QED
      BY <1>4, <3>2, <3>3 DEF Handle
  <2>5. PICK s \in RequestStates : Fits(s)
    BY <2>4
  <2>6. requests' \in [Requests -> RequestStates] /\ requests'[q] = s /\ \A p \in Requests \ {q} : requests'[p] = requests[p]
    BY <1>1, <2>5 DEF ApiTypes
  <2>7. counted' \in 0 .. MaxPerWindow
    BY <1>1, <1>4, ApiConstantsOK DEF ApiTypes, ApiTypeOK, Handle
  <2>8. ApiTypes'
    BY <1>1, <2>1, <2>3, <2>6, <2>7 DEF ApiTypes
  <2>9. ApiTypeOK'
    <3>1. s.pc \in Places
      BY DEF RequestStates
    <3> QED
      BY <1>1, <2>1, <2>5, <2>6, <2>7, <3>1 DEF ApiTypeOK, Places
  <2>10. s.pc \in {"guarding", "planned"} => Underway(q)'
    <3> SUFFICES ASSUME s.pc \in {"guarding", "planned"} PROVE Underway(q)'
      OBVIOUS
    <3>1. s.route \in matching /\ (\A r \in matching : s.route <= r) /\ s.left = routes[s.route].auth
      BY <2>5
    <3>2. \A r \in 1 .. s.route - 1 : ~Matches(routes[r], path)
      BY <3>1
    <3> QED
      BY <2>1, <2>2, <2>3, <2>6, <3>1, <3>2 DEF Underway
  <2>11. \A p \in Requests \ {q} : requests[p].pc \in {"guarding", "planned"} => Underway(p)'
    BY <1>1, <2>1, <2>3, <2>6 DEF Underway
  <2> QED
    BY <1>1, <2>1, <2>2, <2>3, <2>5, <2>6, <2>8, <2>9, <2>10, <2>11 DEF ApiIInv, Guards
<1>5. ASSUME NEW q \in Requests, NEW g \in 0 .. MaxGuards, NEW yes \in BOOLEAN,
             Admit(q, g, yes)
      PROVE  ApiIInv'
  <2> DEFINE left == requests[q].left \ {g}
             pc   == IF left = {} THEN Validated(q, requests[q].route, history[q].good) ELSE "guarding"
             h    == LetOn(history[q], g, yes)
             s    == [requests[q] EXCEPT !.left = left, !.pc = pc]
  <2>1. /\ history' = [history EXCEPT ![q] = h] /\ requests' = [requests EXCEPT ![q] = s]
        /\ UNCHANGED <<routes, middlewares, counted>> /\ requests[q].pc = "guarding"
    <3>1. history' = [history EXCEPT ![q] = h]
      BY <1>5 DEF Admit
    <3>2. requests' = [requests EXCEPT ![q] = s]
      BY <1>1, <1>5 DEF Admit, ApiTypes
    <3> QED
      BY <1>5, <3>1, <3>2 DEF Admit
  <2>2. /\ h \in Histories /\ h.path = history[q].path /\ h.good = history[q].good
        /\ PassedBy(h) = PassedBy(history[q]) \cup {g}
    <3>1. g \in Nat
      BY ApiConstantsOK
    <3> QED
      BY <1>1, <3>1 DEF ApiTypes, Histories, LetOn, PassedBy
  <2>3. pc \in Places /\ (pc = "guarding" <=> left # {})
        /\ (pc = "planned" => (routes[requests[q].route].shaped => history[q].good))
    BY <2>1 DEF Validated, Places
  <2>4. left \subseteq Nat
    BY <1>1 DEF ApiTypes, RequestStates
  <2> HIDE DEF pc, left, h
  <2>5. s \in RequestStates /\ s.pc = pc /\ s.left = left /\ s.route = requests[q].route
    BY <1>1, <2>3, <2>4 DEF ApiTypes, RequestStates
  <2> HIDE DEF s
  <2>6. /\ history' \in [Requests -> Histories] /\ history'[q] = h /\ (\A p \in Requests \ {q} : history'[p] = history[p])
        /\ requests' \in [Requests -> RequestStates] /\ requests'[q] = s /\ (\A p \in Requests \ {q} : requests'[p] = requests[p])
    BY <1>1, <2>1, <2>2, <2>5 DEF ApiTypes
  <2>7. ApiTypes'
    BY <1>1, <2>1, <2>6 DEF ApiTypes
  <2>8. ApiTypeOK'
    BY <1>1, <2>1, <2>3, <2>5, <2>6 DEF ApiTypeOK, Places
  <2>9. Underway(q)'
    <3>1. Underway(q)
      BY <1>1, <2>1
    <3>2. routes[requests[q].route].auth \subseteq PassedBy(h) \cup left
      BY <2>2, <3>1 DEF Underway, left
    <3> QED
      BY <2>1, <2>2, <2>5, <2>6, <3>1, <3>2 DEF Underway
  <2>10. \A p \in Requests \ {q} : requests[p].pc \in {"guarding", "planned"} => Underway(p)'
    BY <1>1, <2>1, <2>6 DEF Underway
  <2> QED
    BY <1>1, <2>1, <2>2, <2>3, <2>5, <2>6, <2>7, <2>8, <2>9, <2>10 DEF ApiIInv, Guards
<1>6. ASSUME NEW q \in Requests, Refuse(q)
      PROVE  ApiIInv'
  <2> DEFINE s == [requests[q] EXCEPT !.pc = "forbidden", !.left = {}]
  <2>1. requests' = [requests EXCEPT ![q] = s] /\ UNCHANGED <<routes, middlewares, counted, history>>
    BY <1>6 DEF Refuse, Answer
  <2>2. s \in RequestStates /\ s.pc = "forbidden" /\ s.left = {}
    BY <1>1 DEF ApiTypes, RequestStates, Places
  <2> HIDE DEF s
  <2>3. requests' \in [Requests -> RequestStates] /\ requests'[q] = s /\ \A p \in Requests \ {q} : requests'[p] = requests[p]
    BY <1>1, <2>1, <2>2 DEF ApiTypes
  <2>4. ApiTypes' /\ ApiTypeOK'
    BY <1>1, <2>1, <2>2, <2>3 DEF ApiTypes, ApiTypeOK
  <2> QED
    BY <1>1, <2>1, <2>2, <2>3, <2>4 DEF ApiIInv, Guards, Underway
<1>7. CASE UNCHANGED apiVars
  BY <1>1, <1>7 DEF apiVars, ApiIInv, ApiTypes, ApiTypeOK, Guards, Underway
<1> QED
  BY <1>2, <1>3, <1>4, <1>5, <1>6, <1>7 DEF ApiNext

LEMMA ApiInvariant == ApiSpec => []ApiIInv
BY ApiStarts, ApiSteps, PTL DEF ApiSpec

(* Router and handler keep their types, for any requests and filters.      *)
THEOREM ApiTypeCorrect == ApiSpec => []ApiTypeOK
<1>1. ApiIInv => ApiTypeOK
  BY DEF ApiIInv
<1> QED
  BY <1>1, ApiInvariant, PTL

(* A request is answered with a plan only when every guard of the first    *)
(* route that matches it was awaited and did not throw, for any routes,    *)
(* filters, middleware and requests at once: the guards that were          *)
(* registered before the route, whatever is registered while the request   *)
(* waits. A guard that resolved to false has let the request on.           *)
THEOREM PlansAreGuarded == ApiSpec => []RoutesGuarded
<1>1. ApiIInv => RoutesGuarded
  <2> SUFFICES ASSUME ApiIInv, NEW q \in Requests, requests[q].pc = "planned"
               PROVE  LET route == routes[requests[q].route]
                      IN  /\ Matches(route, history[q].path)
                          /\ \A r \in 1 .. requests[q].route - 1 : ~Matches(routes[r], history[q].path)
                          /\ route.own => Own \in PassedBy(history[q])
                          /\ \A m \in 1 .. route.age : route.path \in middlewares[m] => m \in PassedBy(history[q])
                          /\ route.shaped => history[q].good
    BY DEF RoutesGuarded
  <2>1. Underway(q) /\ (routes[requests[q].route].shaped => history[q].good)
    BY DEF ApiIInv
  <2>2. requests[q].left = {}
    BY DEF ApiIInv, ApiTypeOK
  <2>3. Guards(routes[requests[q].route], middlewares)
    BY <2>1 DEF Underway, ApiIInv
  <2> QED
    BY <2>1, <2>2, <2>3 DEF Underway, Guards
<1> QED
  BY <1>1, ApiInvariant, PTL

-----------------------------------------------------------------------------
(* Row security                                                            *)

Terms == {terms \in Seq(SUBSET Owners) : Len(terms) > 0}
Plans == [table : RowTables, owners : SUBSET Owners, terms : Terms,
          source : SUBSET Everything, beside : SUBSET Everything, deny : BOOLEAN, rlsApplied : BOOLEAN,
          rlsUnsafe : BOOLEAN, tx : BOOLEAN, policies : SUBSET Subjects, opted : BOOLEAN]

\* A builder carries what its history says.
Honest(b) ==
  /\ b.rlsApplied => b.policies # {}
  /\ b.rlsUnsafe => b.opted
  /\ \A s \in b.policies : IF s \in Denied THEN b.deny ELSE b.owners \subseteq Allows[s]

RowIInv ==
  /\ enforce \in BOOLEAN /\ builders \in Seq(Plans) /\ Len(builders) <= MaxBuilders
  /\ \A i \in 1 .. Len(builders) : Honest(builders[i])
  /\ RowsGuarded

LEMMA RowStarts == RowSecurityInit => RowIInv
BY RowSecurityConstantsOK DEF RowSecurityInit, RowIInv, RowsGuarded, NoResult, Ran

LEMMA BuilderAdded ==
  ASSUME RowIInv, NEW b \in Plans, Honest(b), Len(builders) < MaxBuilders,
         builders' = Append(builders, b), result' = NoResult, enforce' = enforce
  PROVE  RowIInv'
<1>1. /\ builders' \in Seq(Plans) /\ Len(builders') = Len(builders) + 1 /\ Len(builders) \in Nat
      /\ \A i \in 1 .. Len(builders) : builders'[i] = builders[i]
      /\ builders'[Len(builders) + 1] = b
  BY DEF RowIInv
<1>2. \A i \in 1 .. Len(builders') : Honest(builders'[i])
  BY <1>1 DEF RowIInv
<1>3. RowsGuarded'
  BY DEF RowsGuarded, NoResult, Ran
<1> QED
  BY <1>1, <1>2, <1>3, RowSecurityConstantsOK DEF RowIInv

LEMMA Forked ==
  ASSUME RowIInv, NEW i, NEW b \in Plans, Honest(b), ForkBuilder(i, b), result' = NoResult, enforce' = enforce
  PROVE  RowIInv'
<1> DEFINE c == [b EXCEPT !.tx = FALSE]
<1>1. c \in Plans /\ Honest(c)
  BY DEF Plans, Honest
<1> QED
  BY <1>1, BuilderAdded DEF ForkBuilder

LEMMA TextTyped ==
  ASSUME NEW terms \in Terms, NEW o \in Owners
  PROVE  WithText(terms, <<{o}>>) \in Terms /\ WithText(terms, <<{o}, Owners \ {o}>>) \in Terms
<1> DEFINE narrowed == [terms EXCEPT ![Len(terms)] = @ \cap {o}]
<1>1. narrowed \in Seq(SUBSET Owners) /\ Len(narrowed) = Len(terms)
  BY DEF Terms
<1>2. /\ WithText(terms, <<{o}>>) = narrowed \o << >>
      /\ WithText(terms, <<{o}, Owners \ {o}>>) = narrowed \o <<Owners \ {o}>>
  <2>1. Tail(<<{o}>>) = << >> /\ Tail(<<{o}, Owners \ {o}>>) = <<Owners \ {o}>>
    OBVIOUS
  <2>2. <<{o}>>[1] = {o} /\ <<{o}, Owners \ {o}>>[1] = {o}
    OBVIOUS
  <2> QED
    BY <2>1, <2>2 DEF WithText
<1>3. << >> \in Seq(SUBSET Owners) /\ <<Owners \ {o}>> \in Seq(SUBSET Owners)
  OBVIOUS
<1>4. \A more \in Seq(SUBSET Owners) : narrowed \o more \in Terms
  BY <1>1 DEF Terms
<1> QED
  BY <1>2, <1>3, <1>4

LEMMA ReachedTyped ==
  ASSUME NEW b \in Plans
  PROVE  Reached(b) \subseteq Everything
BY DEF Reached, OwnRows, Plans

LEMMA RowStep == RowIInv /\ [RowSecurityNext]_rowVars => RowIInv'
<1> SUFFICES ASSUME RowIInv, [RowSecurityNext]_rowVars PROVE RowIInv'
  OBVIOUS
<1>0. \A i \in 1 .. Len(builders) : builders[i] \in Plans /\ Honest(builders[i])
  BY DEF RowIInv
<1>b. DOMAIN builders = 1 .. Len(builders)
  BY DEF RowIInv
<1>1. CASE Build /\ result' = NoResult /\ enforce' = enforce
  <2>1. CASE NewBuilder
    <3>1. PICK t \in RowTables, tx \in BOOLEAN : builders' = Append(builders, emptyBuilder(t, tx))
      BY <2>1 DEF NewBuilder
    <3>2. emptyBuilder(t, tx) \in Plans
      <4>1. <<Owners>> \in Terms
        BY DEF Terms
      <4> QED
        BY <4>1 DEF emptyBuilder, Plans, TheRows, Everything
    <3>3. Honest(emptyBuilder(t, tx))
      BY DEF emptyBuilder, Honest
    <3> QED
      BY <1>1, <2>1, <3>1, <3>2, <3>3, BuilderAdded DEF NewBuilder
  <2>2. ASSUME NEW i \in 1 .. Len(builders), Narrow(i) PROVE RowIInv'
    <3>1. PICK o \in Owners : ForkBuilder(i, [builders[i] EXCEPT !.owners = @ \cap {o}])
      BY <2>2 DEF Narrow
    <3> DEFINE b == [builders[i] EXCEPT !.owners = @ \cap {o}]
    <3>2. b \in Plans /\ Honest(b)
      BY <1>0 DEF Plans, Honest
    <3> QED
      BY <1>1, <3>1, <3>2, Forked
  <2>3. ASSUME NEW i \in 1 .. Len(builders), ApplyPolicy(i) PROVE RowIInv'
    <3>1. PICK s \in Subjects :
            ForkBuilder(i, [builders[i] EXCEPT !.owners = IF s \in Denied THEN @ ELSE @ \cap Allows[s],
                                               !.deny = @ \/ s \in Denied,
                                               !.rlsApplied = TRUE, !.policies = @ \cup {s}])
      BY <2>3 DEF ApplyPolicy
    <3> DEFINE a == builders[i]
               b == [a EXCEPT !.owners = IF s \in Denied THEN @ ELSE @ \cap Allows[s],
                              !.deny = @ \/ s \in Denied,
                              !.rlsApplied = TRUE, !.policies = @ \cup {s}]
    <3>2. a \in Plans /\ Honest(a)
      BY <1>0
    <3> HIDE DEF a
    <3>3. /\ b.owners = (IF s \in Denied THEN a.owners ELSE a.owners \cap Allows[s])
          /\ b.deny = (a.deny \/ s \in Denied)
          /\ b.rlsApplied = TRUE /\ b.policies = a.policies \cup {s}
          /\ b.rlsUnsafe = a.rlsUnsafe /\ b.opted = a.opted
      BY <3>2 DEF Plans
    <3>4. b \in Plans
      <4>1. (a.deny \/ s \in Denied) \in BOOLEAN
        OBVIOUS
      <4> QED
        BY <3>2, <4>1 DEF Plans
    <3> HIDE DEF b
    <3>5. Honest(b)
      BY <3>2, <3>3 DEF Honest
    <3>6. ForkBuilder(i, b)
      BY <3>1 DEF a, b
    <3> QED
      BY <1>1, <3>4, <3>5, <3>6, Forked
  <2>4. ASSUME NEW i \in 1 .. Len(builders), Unsafe(i) PROVE RowIInv'
    <3> DEFINE b == [builders[i] EXCEPT !.rlsUnsafe = TRUE, !.opted = TRUE]
    <3>1. b \in Plans /\ Honest(b)
      BY <1>0 DEF Plans, Honest
    <3>2. ForkBuilder(i, b)
      BY <2>4 DEF Unsafe
    <3> QED
      BY <1>1, <3>1, <3>2, Forked
  <2>5. ASSUME NEW i \in 1 .. Len(builders), Combine(i) PROVE RowIInv'
    <3>1. PICK k \in 1 .. Len(builders) :
            \/ ForkBuilder(i, [builders[i] EXCEPT !.beside = @ \cup Reached(builders[k])])
            \/ ForkBuilder(i, [builders[i] EXCEPT !.source = Reached(builders[k])])
      BY <1>b, <2>5 DEF Combine
    <3>2. Reached(builders[k]) \subseteq Everything
      BY <1>0, ReachedTyped
    <3> DEFINE a == [builders[i] EXCEPT !.beside = @ \cup Reached(builders[k])]
               b == [builders[i] EXCEPT !.source = Reached(builders[k])]
    <3>3. a \in Plans /\ Honest(a) /\ b \in Plans /\ Honest(b)
      BY <1>0, <3>2 DEF Plans, Honest
    <3> QED
      BY <1>1, <3>1, <3>3, Forked
  <2>6. ASSUME NEW i \in 1 .. Len(builders), WhereExpr(i) PROVE RowIInv'
    <3>1. PICK more : /\ \E o \in Owners : more \in {<<{o}>>, <<{o}, Owners \ {o}>>}
                      /\ ForkBuilder(i, [builders[i] EXCEPT !.terms = WithText(builders[i].terms, more)])
      BY <2>6 DEF WhereExpr
    <3> DEFINE now == WithText(builders[i].terms, more)
               b == [builders[i] EXCEPT !.terms = now]
    <3>2. builders[i].terms \in Terms
      BY <1>0 DEF Plans
    <3>3. now \in Terms
      BY <3>1, <3>2, TextTyped
    <3>4. ForkBuilder(i, b)
      BY <3>1
    <3> HIDE DEF now
    <3>5. b \in Plans /\ Honest(b)
      BY <1>0, <3>3 DEF Plans, Honest
    <3> HIDE DEF b
    <3> QED
      BY <1>1, <3>4, <3>5, Forked
  <2> QED
    BY <1>1, <1>b, <2>1, <2>2, <2>3, <2>4, <2>5, <2>6 DEF Build
<1>2. CASE Execute1 /\ builders' = builders /\ enforce' = enforce
  <2>1. PICK i \in 1 .. Len(builders) : \/ Select(builders[i]) \/ FindManyRows(builders[i])
                                        \/ ChangeRows(builders[i]) \/ Upsert(builders[i])
    BY <1>b, <1>2 DEF Execute1
  <2> DEFINE b == builders[i]
  <2>2. b \in Plans /\ Honest(b)
    BY <1>0
  <2> HIDE DEF b
  <2>3. ASSUME NEW how \in {"read", "unasked", "changed"}, NEW own, NEW all, Done(how, b, own, all),
               how = "read" => Passes(b),
               how # "changed" => own = OwnRows(b), how = "changed" => own = Touched(b)
        PROVE  RowsGuarded'
    <3>1. /\ result'.how = how /\ result'.table = b.table /\ result'.own = own /\ result'.denied = b.deny
          /\ result'.policies = b.policies /\ result'.opted = b.opted /\ result'.split = Split(b)
      BY <2>3 DEF Done
    <3>2. (how = "read" /\ enforce /\ b.table \in Guarded) => (b.opted \/ b.policies # {})
      BY <2>2, <2>3 DEF Passes, Honest
    <3>3. ASSUME ~Split(b), how = "changed" => ~b.deny, NEW r \in own, b.policies # {}
          PROVE  r[2] \in Agreed(b.policies)
      <4>0. LetThrough(b) \subseteq b.owners
        <5>1. Len(b.terms) \in Nat /\ ~(Len(b.terms) > 1)
          BY <2>2, <3>3 DEF Split, Plans, Terms
        <5>2. \A k \in 2 .. Len(b.terms) : FALSE
          BY <5>1
        <5>3. UNION {b.terms[k] : k \in 2 .. Len(b.terms)} = {}
          BY <5>2
        <5> QED
          BY <5>3 DEF LetThrough
      <4>1. r[2] \in b.owners /\ ~b.deny
        BY <2>3, <3>3, <4>0 DEF OwnRows, Touched
      <4> QED
        BY <2>2, <4>1 DEF Honest, Agreed, Plans
    <3> QED
      BY <1>2, <3>1, <3>2, <3>3 DEF RowsGuarded, Ran
  <2>4. ASSUME result' = [how |-> "forbidden"] PROVE RowsGuarded'
    <3>1. result'.how = "forbidden"
      BY <2>4
    <3> QED
      BY <3>1 DEF RowsGuarded, Ran
  <2>5. RowsGuarded'
    <3>1. CASE b.tx /\ Select(b)
      <4>1. Done("unasked", b, OwnRows(b), Reached(b))
        BY <3>1 DEF Select
      <4> QED
        BY <2>3, <4>1
    <3>2. CASE ~b.tx /\ Passes(b) /\ Select(b)
      <4>1. Done("read", b, OwnRows(b), Reached(b))
        BY <3>2 DEF Select
      <4> QED
        BY <2>3, <3>2, <4>1
    <3>3. CASE ~b.tx /\ ~Passes(b) /\ Select(b)
      BY <2>4, <3>3 DEF Select
    <3>4. CASE FindManyRows(b)
      <4>1. Done("unasked", b, OwnRows(b), Reached(b))
        BY <3>4 DEF FindManyRows
      <4> QED
        BY <2>3, <4>1
    <3>5. CASE ChangeRows(b)
      <4>1. Done("changed", b, Touched(b), Touched(b))
        BY <3>5 DEF ChangeRows
      <4> QED
        BY <2>3, <4>1
    <3>6. CASE Upsert(b)
      <4>1. result'.how = "upserted"
        BY <3>6 DEF Upsert, Done
      <4> QED
        BY <4>1 DEF RowsGuarded, Ran
    <3> QED
      BY <2>1, <3>1, <3>2, <3>3, <3>4, <3>5, <3>6 DEF b
  <2> QED
    BY <1>2, <2>5 DEF RowIInv
<1>3. CASE UNCHANGED rowVars
  BY <1>3 DEF RowIInv, rowVars, RowsGuarded, Ran
<1> QED
  BY <1>1, <1>2, <1>3 DEF RowSecurityNext

-----------------------------------------------------------------------------
(* Object storage                                                          *)

Objects == [version : Versions, owner : Users \cup {Nobody}]
Asked == Policies \cup {OpenToAll}
Works ==
  {NoWork}
  \cup [op : {"remove"}, key : Uploads, seen : Objects, policy : Asked, overtaken : BOOLEAN]
  \cup [op : {"list"}, left : SUBSET StoreKeys, out : SUBSET Objects, policy : Asked]
  \cup [op : {"transform"}, key : Uploads, seen : Objects]

ObjectsHeld == DOMAIN held \subseteq StoreKeys /\ \A k \in DOMAIN held : held[k] \in Objects

\* Entitled and At, of a given adapter and given objects.
Entitles(a, policy, o) ==
  \/ policy.open
  \/ policy.user = o.owner /\ (policy.strict => policy.user # Nobody) /\ a = "memory"
  \/ policy.user = Nobody /\ ~policy.strict /\ a = "s3"
  \/ policy.filter = "group" /\ (policy.strict => policy.user # Nobody)
In(h, k) == IF k \in DOMAIN h THEN h[k] ELSE Missing

\* What an operation has looked at was its subject's, and is still there or
\* gone, unless it was uploaded again.
Justified(w, h, a) ==
  /\ w.op = "remove" => /\ Entitles(a, w.policy, w.seen)
                        /\ (w.overtaken \/ In(h, w.key) \in {w.seen, Missing})
  /\ w.op = "list" => \A o \in w.out : Entitles(a, w.policy, o)

StorageIInv ==
  /\ adapter \in {"memory", "s3"}
  /\ ObjectsHeld /\ working \in [Callers -> Works]
  /\ \A c \in Callers : Justified(working[c], held, adapter)
  /\ ObjectsGuarded

LEMMA StorageStarts == StorageInit => StorageIInv
<1> SUFFICES ASSUME StorageInit PROVE StorageIInv
  OBVIOUS
<1>1. working \in [Callers -> Works] /\ \A c \in Callers : Justified(working[c], held, adapter)
  BY DEF StorageInit, Works, Justified, NoWork
<1>2. ObjectsHeld /\ adapter \in {"memory", "s3"}
  BY StorageConstantsOK DEF StorageInit, ObjectsHeld
<1>3. ObjectsGuarded
  BY DEF StorageInit, ObjectsGuarded, NothingGiven
<1> QED
  BY <1>1, <1>2, <1>3 DEF StorageIInv

\* What a policy lets through is its subject's.
LEMMA AccessEntitles ==
  ASSUME adapter \in {"memory", "s3"}, NEW o, NEW policy, CanAccess(o, policy)
  PROVE  Entitles(adapter, policy, o)
BY DEF CanAccess, Entitles, AclOwner

LEMMA PutHolds ==
  ASSUME ObjectsHeld, NEW k \in StoreKeys, NEW o \in Objects, Put(k, o)
  PROVE  /\ ObjectsHeld'
         /\ \A q : q # k => In(held', q) = In(held, q)
<1>1. held' = held \/ held' = With(k, o)
  BY DEF Put, Stored, S3Put
<1>2. CASE held' = held
  BY <1>2 DEF ObjectsHeld
<1>3. CASE held' = With(k, o)
  <2>1. DOMAIN held' = DOMAIN held \cup {k} /\ \A q \in DOMAIN held' : held'[q] = IF q = k THEN o ELSE held[q]
    BY <1>3 DEF With
  <2> QED
    BY <2>1 DEF ObjectsHeld, In
<1> QED
  BY <1>1, <1>2, <1>3

LEMMA RemovalHolds ==
  ASSUME ObjectsHeld, NEW k, Removed(k)
  PROVE  /\ ObjectsHeld'
         /\ \A q : In(held', q) \in {In(held, q), Missing}
<1>1. DOMAIN held' = DOMAIN held \ {k} /\ \A q \in DOMAIN held' : held'[q] = held[q]
  BY DEF Removed
<1> QED
  BY <1>1 DEF ObjectsHeld, In

LEMMA TransformedApart ==
  ASSUME NEW k \in Uploads
  PROVE  Transformed(k) \notin Uploads /\ Transformed(k) \in StoreKeys
<1>1. PICK n \in ObjectNames : k = <<n>>
  BY DEF Uploads
<1>2. Len(<<n>>) = 1 /\ <<n>> \in Seq({n, "transformed"})
  OBVIOUS
<1>3. Len(Transformed(k)) = 2
  BY <1>1, <1>2 DEF Transformed
<1>4. \A u \in Uploads : Len(u) = 1
  BY DEF Uploads
<1>5. Transformed(k) \notin Uploads
  BY <1>3, <1>4
<1> QED
  BY <1>5 DEF StoreKeys

\* Where a key that was looked at has lost its object at most, what was
\* justified is.
LEMMA StillJustified ==
  ASSUME NEW w \in Works, NEW h, NEW g, NEW a, Justified(w, h, a),
         \A q \in Uploads : In(g, q) \in {In(h, q), Missing}
  PROVE  Justified(w, g, a)
<1>1. w.op = "remove" => w.key \in Uploads
  BY DEF Works, NoWork
<1>2. w.op = "remove" => (w.overtaken \/ In(g, w.key) \in {w.seen, Missing})
  BY <1>1 DEF Justified
<1> QED
  BY <1>2 DEF Justified

\* A caller begins, goes on with, or ends its work.
LEMMA WorkGoesOn ==
  ASSUME StorageIInv, NEW c \in Callers, NEW w \in Works, working' = [working EXCEPT ![c] = w],
         Justified(w, held', adapter), ObjectsHeld',
         \A q \in Uploads : In(held', q) \in {In(held, q), Missing},
         adapter' = adapter, ObjectsGuarded'
  PROVE  StorageIInv'
<1>1. working' \in [Callers -> Works] /\ \A d \in Callers : working'[d] = IF d = c THEN w ELSE working[d]
  BY DEF StorageIInv
<1>2. ASSUME NEW d \in Callers PROVE Justified(working'[d], held', adapter')
  <2>1. working[d] \in Works /\ Justified(working[d], held, adapter)
    BY DEF StorageIInv
  <2>2. Justified(working[d], held', adapter)
    BY <2>1, StillJustified
  <2> QED
    BY <1>1, <2>2
<1> QED
  BY <1>1, <1>2 DEF StorageIInv

LEMMA RestWorks == NoWork \in Works /\ \A h, a : Justified(NoWork, h, a)
BY DEF NoWork, Works, Justified

LEMMA NothingGuarded == ASSUME handed' = NothingGiven PROVE ObjectsGuarded'
BY DEF NothingGiven, ObjectsGuarded

LEMMA UploadKeeps ==
  ASSUME StorageIInv, Upload, adapter' = adapter
  PROVE  StorageIInv'
<1>1. PICK k \in Uploads, o \in Objects :
        /\ Put(k, o)
        /\ working' = [d \in Callers |->
             IF working[d].op = "remove" /\ working[d].key = k
             THEN [working[d] EXCEPT !.overtaken = TRUE] ELSE working[d]]
  BY DEF Upload, Objects
<1>2. k \in StoreKeys
  BY DEF StoreKeys
<1>3. ObjectsHeld' /\ \A q : q # k => In(held', q) = In(held, q)
  BY <1>1, <1>2, PutHolds DEF StorageIInv
<1>4. ASSUME NEW d \in Callers
      PROVE  working'[d] \in Works /\ Justified(working'[d], held', adapter)
  <2> DEFINE w == working[d]
  <2>1. w \in Works /\ Justified(w, held, adapter)
    BY DEF StorageIInv
  <2>2. working'[d] = IF w.op = "remove" /\ w.key = k THEN [w EXCEPT !.overtaken = TRUE] ELSE w
    BY <1>1
  <2> HIDE DEF w
  <2>3. CASE w.op = "remove" /\ w.key = k
    <3>1. w \in [op : {"remove"}, key : Uploads, seen : Objects, policy : Asked, overtaken : BOOLEAN]
      BY <2>1, <2>3 DEF Works, NoWork
    <3>2. working'[d] \in [op : {"remove"}, key : Uploads, seen : Objects, policy : Asked, overtaken : BOOLEAN]
      BY <2>2, <2>3, <3>1
    <3>3. working'[d].op = "remove" /\ working'[d].overtaken /\ working'[d].policy = w.policy /\ working'[d].seen = w.seen
      BY <2>2, <2>3, <3>1
    <3> QED
      BY <2>1, <2>3, <3>2, <3>3 DEF Works, Justified
  <2>4. CASE w.op = "remove" /\ w.key # k
    <3>1. In(held', w.key) = In(held, w.key)
      BY <1>3, <2>4
    <3> QED
      BY <2>1, <2>2, <2>4, <3>1 DEF Justified
  <2>5. CASE w.op # "remove"
    BY <2>1, <2>2, <2>5 DEF Justified
  <2> QED
    BY <2>3, <2>4, <2>5
<1>5. working' \in [Callers -> Works]
  BY <1>1, <1>4
<1> QED
  BY <1>3, <1>4, <1>5, NothingGuarded DEF Upload, StorageIInv

LEMMA RemoveKeeps ==
  ASSUME StorageIInv, NEW c \in Callers, RemoveObject(c), adapter' = adapter
  PROVE  StorageIInv'
<1> DEFINE w == working[c]
<1>1. w \in Works /\ Justified(w, held, adapter) /\ w.op = "remove"
  BY DEF StorageIInv, RemoveObject
<1>2. Entitles(adapter, w.policy, w.seen) /\ (w.overtaken \/ In(held, w.key) \in {w.seen, Missing})
  BY <1>1 DEF Justified
<1>3. ASSUME handed' = [op |-> "remove", object |-> At(w.key), policy |-> w.policy,
                        seen |-> w.seen, overtaken |-> w.overtaken]
      PROVE  ObjectsGuarded'
  <2> HIDE DEF w
  <2>1. /\ handed'.op = "remove" /\ handed'.object = In(held, w.key) /\ handed'.policy = w.policy
        /\ handed'.seen = w.seen /\ handed'.overtaken = w.overtaken
    BY <1>3 DEF At, Exists, In
  <2>2. Entitled(handed.policy, handed.seen)'
    BY <1>2, <2>1 DEF Entitled, Entitles
  <2> QED
    BY <1>2, <2>1, <2>2 DEF ObjectsGuarded
<1>4. ObjectsGuarded'
  BY <1>3, NothingGuarded DEF RemoveObject, Give
<1>5. Removed(w.key) \/ held' = held
  BY DEF RemoveObject, S3Delete
<1>6. ObjectsHeld' /\ \A q \in Uploads : In(held', q) \in {In(held, q), Missing}
  <2>1. CASE held' = held
    BY <2>1 DEF StorageIInv, ObjectsHeld
  <2> QED
    BY <1>5, <2>1, RemovalHolds DEF StorageIInv
<1>7. working' = [working EXCEPT ![c] = NoWork]
  BY DEF RemoveObject, Rest1
<1> QED
  BY <1>4, <1>6, <1>7, RestWorks, WorkGoesOn

LEMMA LookKeeps ==
  ASSUME StorageIInv, NEW c \in Callers, Look(c), adapter' = adapter
  PROVE  StorageIInv'
<1> DEFINE w == working[c]
           L == [op : {"list"}, left : SUBSET StoreKeys, out : SUBSET Objects, policy : Asked]
<1>1. w \in L /\ \A o \in w.out : Entitles(adapter, w.policy, o)
  BY DEF StorageIInv, Look, Works, NoWork, Justified
<1>2. held' = held /\ ObjectsHeld'
  BY DEF Look, StorageIInv, ObjectsHeld
<1>3. \A q \in Uploads : In(held', q) \in {In(held, q), Missing}
  BY <1>2
<1>4. CASE w.left = {}
  <2>1. handed' = [op |-> "list", objects |-> w.out, policy |-> w.policy] /\ Rest1(c)
    BY <1>4 DEF Look, Give
  <2>2. ObjectsGuarded'
    <3> HIDE DEF w
    <3>1. handed'.op = "list" /\ handed'.objects = w.out /\ handed'.policy = w.policy
      BY <2>1
    <3>2. \A o \in w.out : Entitled(handed.policy, o)'
      BY <1>1, <3>1 DEF Entitled, Entitles
    <3> QED
      BY <3>1, <3>2 DEF ObjectsGuarded
  <2> QED
    BY <1>2, <1>3, <2>1, <2>2, RestWorks, WorkGoesOn DEF Rest1
<1>5. CASE w.left # {} /\ S3Fails /\ Rest1(c)
  <2>1. ObjectsGuarded'
    BY <1>5, NothingGuarded DEF Look
  <2> QED
    BY <1>2, <1>3, <1>5, <2>1, RestWorks, WorkGoesOn DEF Rest1
<1>6. ASSUME w.left # {}, NEW k \in w.left,
             working' = [working EXCEPT ![c].left = @ \ {k},
                          ![c].out = IF Exists(k) /\ CanAccess(At(k), w.policy)
                                     THEN @ \cup {At(k)} ELSE @]
      PROVE  StorageIInv'
  <2> DEFINE seen == IF Exists(k) /\ CanAccess(At(k), w.policy) THEN w.out \cup {At(k)} ELSE w.out
             v == [w EXCEPT !.left = w.left \ {k}, !.out = seen]
  <2>1. working' = [working EXCEPT ![c] = v]
    BY <1>1, <1>6 DEF StorageIInv
  <2>2. \A o \in seen : o \in Objects /\ Entitles(adapter, w.policy, o)
    <3>1. Exists(k) => At(k) \in Objects
      BY DEF StorageIInv, ObjectsHeld, Exists, At
    <3>2. CanAccess(At(k), w.policy) => Entitles(adapter, w.policy, At(k))
      BY AccessEntitles DEF StorageIInv
    <3> QED
      BY <1>1, <3>1, <3>2
  <2> HIDE DEF seen
  <2>3. v \in L /\ v.out = seen /\ v.policy = w.policy /\ v.op = "list"
    <3> HIDE DEF w
    <3> QED
      BY <1>1, <2>2
  <2> HIDE DEF v
  <2>4. v \in Works /\ Justified(v, held', adapter)
    BY <2>2, <2>3 DEF Works, Justified
  <2>5. ObjectsGuarded'
    BY <1>6, NothingGuarded DEF Look
  <2> QED
    BY <1>2, <1>3, <2>1, <2>4, <2>5, WorkGoesOn
<1> QED
  BY <1>4, <1>5, <1>6 DEF Look

LEMMA StorageSteps == StorageIInv /\ [StorageNext]_storageVars => StorageIInv'
<1> SUFFICES ASSUME StorageIInv, [StorageNext]_storageVars PROVE StorageIInv'
  OBVIOUS
<1>a. held' = held => (ObjectsHeld' /\ \A q \in Uploads : In(held', q) \in {In(held, q), Missing})
  BY DEF StorageIInv, ObjectsHeld
<1>b. \A k : Exists(k) => (At(k) \in Objects /\ At(k) = In(held, k))
  BY DEF StorageIInv, ObjectsHeld, Exists, At, In
<1>1. ASSUME held' = held, working' = working, adapter' = adapter, ObjectsGuarded'
      PROVE  StorageIInv'
  BY <1>1, <1>a DEF StorageIInv
<1>2. ASSUME adapter' = adapter, Download PROVE StorageIInv'
  <2>1. PICK k \in StoreKeys, policy \in Asked :
          handed' = (IF Exists(k) /\ CanAccess(At(k), policy)
                     THEN [op |-> "download", object |-> At(k), policy |-> policy]
                     ELSE NothingGiven)
    BY <1>2 DEF Download, Give, Asked
  <2>2. CASE Exists(k) /\ CanAccess(At(k), policy)
    <3>1. handed'.op = "download" /\ handed'.object = At(k) /\ handed'.policy = policy
      BY <2>1, <2>2
    <3>2. Entitles(adapter, policy, At(k))
      BY <2>2, AccessEntitles DEF StorageIInv
    <3>3. Entitled(handed.policy, handed.object)'
      BY <1>2, <3>1, <3>2 DEF Entitled, Entitles
    <3>4. ObjectsGuarded'
      BY <3>1, <3>3 DEF ObjectsGuarded
    <3> QED
      BY <1>1, <1>2, <3>4 DEF Download
  <2> QED
    BY <1>1, <1>2, <2>1, <2>2, NothingGuarded DEF Download
<1>3. ASSUME NEW c \in Callers, adapter' = adapter, LookToRemove(c) PROVE StorageIInv'
  <2>1. PICK k \in Uploads, policy \in Asked :
          /\ Exists(k) /\ CanAccess(At(k), policy)
          /\ working' = [working EXCEPT ![c] = [op |-> "remove", key |-> k, seen |-> At(k),
                                                policy |-> policy, overtaken |-> FALSE]]
    BY <1>3 DEF LookToRemove, Asked
  <2> DEFINE w == [op |-> "remove", key |-> k, seen |-> At(k), policy |-> policy, overtaken |-> FALSE]
  <2>2. Entitles(adapter, policy, At(k)) /\ At(k) \in Objects /\ At(k) = In(held, k)
    BY <2>1, <1>b, AccessEntitles DEF StorageIInv
  <2>3. w \in Works /\ Justified(w, held, adapter)
    BY <2>2 DEF Works, Justified
  <2> HIDE DEF w
  <2>4. working' = [working EXCEPT ![c] = w]
    BY <2>1 DEF w
  <2>5. held' = held /\ ObjectsGuarded'
    BY <1>3, NothingGuarded DEF LookToRemove
  <2> QED
    BY <1>3, <1>a, <2>3, <2>4, <2>5, WorkGoesOn
<1>4. ASSUME NEW c \in Callers, adapter' = adapter, List(c) PROVE StorageIInv'
  <2>1. PICK policy \in Policies :
          working' = [working EXCEPT ![c] = [op |-> "list", left |-> ListedKeys, out |-> {}, policy |-> policy]]
    BY <1>4 DEF List
  <2> DEFINE w == [op |-> "list", left |-> ListedKeys, out |-> {}, policy |-> policy]
  <2>2. ListedKeys \subseteq StoreKeys /\ policy \in Asked
    BY DEF StorageIInv, ObjectsHeld, ListedKeys, Asked
  <2>3. w \in Works /\ Justified(w, held, adapter)
    BY <2>2 DEF Works, Justified
  <2> HIDE DEF w
  <2>4. working' = [working EXCEPT ![c] = w]
    BY <2>1 DEF w
  <2>5. held' = held /\ ObjectsGuarded'
    BY <1>4, NothingGuarded DEF List
  <2> QED
    BY <1>4, <1>a, <2>3, <2>4, <2>5, WorkGoesOn
<1>5. ASSUME NEW c \in Callers, adapter' = adapter, LookToTransform(c) PROVE StorageIInv'
  <2>1. PICK k \in Uploads :
          Exists(k) /\ working' = [working EXCEPT ![c] = [op |-> "transform", key |-> k, seen |-> At(k)]]
    BY <1>5 DEF LookToTransform
  <2> DEFINE w == [op |-> "transform", key |-> k, seen |-> At(k)]
  <2>2. w \in Works /\ Justified(w, held, adapter)
    BY <1>b, <2>1 DEF Works, Justified
  <2> HIDE DEF w
  <2>3. working' = [working EXCEPT ![c] = w]
    BY <2>1 DEF w
  <2>4. held' = held /\ ObjectsGuarded'
    BY <1>5, NothingGuarded DEF LookToTransform
  <2> QED
    BY <1>5, <1>a, <2>2, <2>3, <2>4, WorkGoesOn
<1>6. ASSUME NEW c \in Callers, adapter' = adapter, PutTransformed(c) PROVE StorageIInv'
  <2> DEFINE w == working[c]
             o == [w.seen EXCEPT !.owner = Nobody]
  <2>1. w.key \in Uploads /\ w.seen \in Objects
    BY <1>6 DEF PutTransformed, StorageIInv, Works, NoWork
  <2>2. o \in Objects
    <3> HIDE DEF w
    <3> QED
      BY <2>1 DEF Objects
  <2>3. Put(Transformed(w.key), o)
    BY <1>6 DEF PutTransformed
  <2> HIDE DEF o, w
  <2>4. Transformed(w.key) \in StoreKeys /\ Transformed(w.key) \notin Uploads
    BY <2>1, TransformedApart
  <2>5. ObjectsHeld' /\ \A q : q # Transformed(w.key) => In(held', q) = In(held, q)
    BY <2>2, <2>3, <2>4, PutHolds DEF StorageIInv
  <2>6. \A q \in Uploads : In(held', q) \in {In(held, q), Missing}
    BY <2>4, <2>5
  <2>7. working' = [working EXCEPT ![c] = NoWork] /\ ObjectsGuarded'
    BY <1>6, NothingGuarded DEF PutTransformed, Rest1
  <2> QED
    BY <1>6, <2>5, <2>6, <2>7, RestWorks, WorkGoesOn
<1>7. ASSUME adapter' = adapter, Sign PROVE StorageIInv'
  BY <1>1, <1>7, NothingGuarded DEF Sign
<1>8. ASSUME adapter' = adapter, Visit PROVE StorageIInv'
  <2>1. PICK u \in urls, k \in Uploads :
          /\ Verified(u, k, "GET")
          /\ handed' = [op |-> "visit", object |-> At(k), key |-> k, url |-> u]
    BY <1>8 DEF Visit, Give
  <2>2. handed'.op = "visit" /\ handed'.key = k /\ handed'.url = u
    BY <1>8, <2>1 DEF Visit
  <2>3. ObjectsGuarded'
    BY <2>1, <2>2 DEF ObjectsGuarded, Verified
  <2> QED
    BY <1>1, <1>8, <2>3 DEF Visit
<1>9. ASSUME Expire, adapter' = adapter PROVE StorageIInv'
  <2>1. held' = held /\ working' = working
    BY <1>9 DEF Expire
  <2> QED
    BY <1>9, <1>a, <2>1, NothingGuarded DEF Expire, StorageIInv
<1>10. CASE UNCHANGED storageVars
  <2>1. ObjectsGuarded'
    BY <1>10 DEF storageVars, StorageIInv, ObjectsGuarded, Entitled
  <2> QED
    BY <1>1, <1>10, <2>1 DEF storageVars
<1> QED
  BY <1>2, <1>3, <1>4, <1>5, <1>6, <1>7, <1>8, <1>9, <1>10, UploadKeeps, RemoveKeeps, LookKeeps
  DEF StorageNext

-----------------------------------------------------------------------------
(* The gate of the AI search                                               *)

Notes == {"SELECT", "DISTINCT", "star", "comma", "FROM", "other"}
Outset == {"reply", "select"}
ListPhases == {"from", "listed", "column"}
Tailing == {"table", "alias", "tail", "join", "joined", "as", "name", "on",
            "by", "body", "limit", "limited"}
Phases == Outset \cup {"distinct", "columns"} \cup ListPhases \cup Tailing \cup {"done"}

\* Where the columns begin, and the first n of them with their commas.
First(h) == IF h[2] = "DISTINCT" THEN 3 ELSE 2
ListedTo(h, n) ==
  /\ n \in Nat \ {0} /\ Len(h) > 1 /\ h[1] = "SELECT"
  /\ \A k \in 1 .. n : Even(k) => h[First(h) + k - 1] = "comma"

\* A head that has come to its FROM.
Complete(h) ==
  LET n == Len(h) - First(h)
  IN  ListedTo(h, n) /\ ~Even(n) /\ h[Len(h)] = "FROM" /\ (h[First(h)] = "star" => n = 1)

\* The head that each phase has behind it.
HeadFits(p, h) ==
  /\ p \in Outset => h = << >>
  /\ p = "distinct" => Len(h) = 1 /\ h[1] = "SELECT"
  /\ p = "columns" => Len(h) = 2 /\ h[1] = "SELECT" /\ h[2] = "DISTINCT"
  /\ p \in ListPhases => LET n == Len(h) - First(h) + 1
                      IN  /\ ListedTo(h, n) /\ (Even(n) <=> p = "column")
                          /\ h[First(h)] = "star" <=> p = "from"
                          /\ p = "from" => n = 1
  /\ p \in Tailing => Complete(h)

PlacesRise(cs) == \A j, k \in 1 .. Len(cs) : j < k => Place(cs[j]) < Place(cs[k])

NoClauses == Outset \cup {"distinct", "columns"} \cup ListPhases \cup {"table", "alias", "tail"}
ClausesFit(p, cs) == PlacesRise(cs) /\ (p \in NoClauses => cs = << >>)

GateIInv ==
  /\ phase \in Phases /\ verdict \in {"none", "ok", "refused"}
  /\ head \in Seq(Notes) /\ clauses \in Seq(ClauseWords \cup {"JOIN"})
  /\ phase # "done" => verdict = "none"
  /\ phase # "reply" /\ verdict # "refused" => semicolons.inner = 0
  /\ HeadFits(phase, head) /\ (verdict = "ok" => Complete(head))
  /\ ClausesFit(phase, clauses)
  /\ beyond \in 0 .. 2 /\ (verdict # "refused" => beyond <= 1)
  /\ phase \notin {"limited", "done"} => beyond = 0
  /\ phase = "limited" => beyond = 1

LEMMA PlacesAre ==
  /\ DOMAIN Clauses = 1 .. 5
  /\ \A j \in 1 .. 5 : Clauses[j] \in ClauseWords /\ Clauses[j] # "JOIN" /\ Place(Clauses[j]) = j
<1>1. /\ DOMAIN Clauses = 1 .. 5
      /\ Clauses[1] = "WHERE" /\ Clauses[2] = "GROUP" /\ Clauses[3] = "HAVING"
      /\ Clauses[4] = "ORDER" /\ Clauses[5] = "LIMIT"
  BY DEF Clauses
<1>2. \A i, j \in 1 .. 5 : Clauses[i] = Clauses[j] => i = j
  BY <1>1
<1>3. ASSUME NEW j \in 1 .. 5
      PROVE  Clauses[j] \in ClauseWords /\ Clauses[j] # "JOIN" /\ Place(Clauses[j]) = j
  <2>1. Clauses[j] \in ClauseWords
    BY <1>1 DEF ClauseWords
  <2>2. Clauses[j] # "JOIN"
    BY <1>1
  <2>3. (CHOOSE k \in DOMAIN Clauses : Clauses[k] = Clauses[j]) = j
    BY <1>1, <1>2
  <2> QED
    BY <2>1, <2>2, <2>3 DEF Place
<1> QED
  BY <1>1, <1>3

LEMMA Words == \A t \in ClauseWords : Place(t) \in 1 .. 5 /\ t # "JOIN"
<1> SUFFICES ASSUME NEW t \in ClauseWords PROVE Place(t) \in 1 .. 5 /\ t # "JOIN"
  OBVIOUS
<1>1. PICK j \in 1 .. 5 : t = Clauses[j]
  BY PlacesAre DEF ClauseWords
<1> QED
  BY <1>1, PlacesAre

LEMMA CurrentIsLast ==
  ASSUME clauses \in Seq(ClauseWords \cup {"JOIN"})
  PROVE  /\ clauses = << >> => CurrentClause = 0
         /\ clauses # << >> => CurrentClause = Place(clauses[Len(clauses)])
BY DEF CurrentClause, Place

\* A clause is entered after all that came before it.
LEMMA ClauseAdded ==
  ASSUME NEW cs \in Seq(ClauseWords \cup {"JOIN"}), NEW t \in ClauseWords \cup {"JOIN"}, PlacesRise(cs),
         cs # << >> => Place(cs[Len(cs)]) < Place(t)
  PROVE  Append(cs, t) \in Seq(ClauseWords \cup {"JOIN"}) /\ PlacesRise(Append(cs, t))
<1> DEFINE ds == Append(cs, t)
<1>1. /\ ds \in Seq(ClauseWords \cup {"JOIN"}) /\ Len(ds) = Len(cs) + 1 /\ Len(cs) \in Nat
      /\ \A i \in 1 .. Len(cs) : ds[i] = cs[i]
      /\ ds[Len(cs) + 1] = t
  OBVIOUS
<1>2. \A c \in ClauseWords \cup {"JOIN"} : Place(c) \in Nat
  <2>1. Place("JOIN") = 0
    BY DEF Place
  <2> QED
    BY Words, <2>1
<1>3. \A i \in 1 .. Len(cs) : cs[i] \in ClauseWords \cup {"JOIN"} /\ Place(cs[i]) \in Nat
  BY <1>2
<1> HIDE DEF ds
<1>4. ASSUME NEW j \in 1 .. Len(ds), NEW k \in 1 .. Len(ds), j < k PROVE Place(ds[j]) < Place(ds[k])
  <2>1. CASE k <= Len(cs)
    BY <1>1, <1>4, <2>1 DEF PlacesRise
  <2>2. CASE k = Len(cs) + 1
    <3>1. ds[j] = cs[j] /\ ds[k] = t /\ j \in 1 .. Len(cs) /\ cs # << >>
      BY <1>1, <1>4, <2>2
    <3>2. Place(cs[j]) <= Place(cs[Len(cs)])
      <4>1. CASE j = Len(cs)
        BY <1>3, <3>1, <4>1
      <4>2. CASE j < Len(cs)
        BY <1>1, <1>3, <3>1, <4>2 DEF PlacesRise
      <4> QED
        BY <1>1, <3>1, <4>1, <4>2
    <3>3. Place(t) \in Nat /\ Place(cs[j]) \in Nat /\ Place(cs[Len(cs)]) \in Nat
      BY <1>1, <1>2, <1>3, <3>1
    <3> QED
      BY <3>1, <3>2, <3>3
  <2> QED
    BY <1>1, <2>1, <2>2
<1>5. PlacesRise(ds)
  BY <1>4 DEF PlacesRise
<1> QED
  BY <1>1, <1>5 DEF ds

LEMMA GateStarts == SelectGateInit => GateIInv
<1> SUFFICES ASSUME SelectGateInit PROVE GateIInv
  OBVIOUS
<1>1. HeadFits(phase, head) /\ ClausesFit(phase, clauses)
  BY DEF SelectGateInit, HeadFits, ClausesFit, PlacesRise, Outset, ListPhases, Tailing
<1> QED
  BY <1>1 DEF SelectGateInit, GateIInv, Phases, Outset

LEMMA EvenNext == \A n \in Nat : Even(n + 1) <=> ~Even(n)
BY DEF Even

\* One more token of the columns, which was expected.
LEMMA ListGrows ==
  ASSUME NEW h \in Seq(Notes), NEW x \in Notes, NEW n \in Nat, n = Len(h) - First(h) + 1, ListedTo(h, n),
         Even(n + 1) => x = "comma"
  PROVE  LET g == Append(h, x)
         IN  /\ First(g) = First(h) /\ g[First(g)] = h[First(h)]
             /\ Len(g) - First(g) + 1 = n + 1 /\ ListedTo(g, n + 1)
<1> DEFINE g == Append(h, x)
<1>1. /\ Len(g) = Len(h) + 1 /\ Len(h) \in Nat /\ g[Len(h) + 1] = x
      /\ \A i \in 1 .. Len(h) : g[i] = h[i]
  OBVIOUS
<1>2. Len(h) > 1 /\ h[1] = "SELECT" /\ n \in Nat \ {0}
  BY DEF ListedTo
<1> HIDE DEF g
<1>3. First(h) \in {2, 3} /\ First(g) = First(h)
  BY <1>1, <1>2 DEF First
<1>4. First(h) \in 1 .. Len(h)
  BY <1>1, <1>2, <1>3
<1>5. \A k \in 1 .. n + 1 : Even(k) => g[First(g) + k - 1] = "comma"
  <2> SUFFICES ASSUME NEW k \in 1 .. n + 1, Even(k) PROVE g[First(g) + k - 1] = "comma"
    OBVIOUS
  <2>1. CASE k = n + 1
    <3>1. First(g) + k - 1 = Len(h) + 1
      BY <1>1, <1>2, <1>3, <2>1
    <3> QED
      BY <1>1, <2>1, <3>1
  <2>2. CASE k \in 1 .. n
    <3>1. First(h) + k - 1 \in 1 .. Len(h)
      BY <1>1, <1>2, <1>3, <2>2
    <3>2. h[First(h) + k - 1] = "comma"
      BY <2>2 DEF ListedTo
    <3> QED
      BY <1>1, <1>3, <3>1, <3>2
  <2> QED
    BY <1>2, <2>1, <2>2
<1>6. g[1] = "SELECT" /\ Len(g) > 1
  BY <1>1, <1>2
<1>7. ListedTo(g, n + 1)
  BY <1>2, <1>5, <1>6 DEF ListedTo
<1> QED
  BY <1>1, <1>2, <1>3, <1>4, <1>7 DEF g

\* A step refuses the text, or goes on in a phase that suits what is read.
LEMMA GateGoesOn ==
  ASSUME GateIInv, phase \notin {"reply", "done"}, semicolons' = semicolons, beyond' = beyond,
         head' \in Seq(Notes), clauses' \in Seq(ClauseWords \cup {"JOIN"}), PlacesRise(clauses'),
         phase # "limited",
         \/ phase' = "done" /\ verdict' = "refused"
         \/ /\ phase' \in Phases \ {"reply", "limited", "done"} /\ verdict' = verdict
            /\ HeadFits(phase', head') /\ (phase' \in NoClauses => clauses' = << >>)
  PROVE  GateIInv'
<1>1. HeadFits("done", head')
  BY DEF HeadFits, Outset, ListPhases, Tailing
<1>2. "done" \in Phases /\ "done" \notin NoClauses
  BY DEF Phases, NoClauses, Outset, ListPhases
<1>3. verdict = "none" /\ semicolons.inner = 0 /\ beyond = 0
  BY DEF GateIInv
<1>4. ClausesFit(phase', clauses')
  BY <1>2 DEF ClausesFit
<1> QED
  BY <1>1, <1>2, <1>3, <1>4 DEF GateIInv

LEMMA SelectTokenKeeps ==
  ASSUME GateIInv, NEW t \in Tokens, SelectToken(t)
  PROVE  GateIInv'
<1> DEFINE x == Noted(t)
           g == Append(head, x)
<1>1. /\ x \in Notes /\ (x = "comma" <=> t = "comma") /\ (x = "star" <=> t = "star")
      /\ (x = "FROM" <=> t = "FROM") /\ (x = "SELECT" <=> t = "SELECT")
      /\ (x = "DISTINCT" <=> t = "DISTINCT")
  BY DEF Noted, Notes
<1>2. head' = g /\ semicolons' = semicolons /\ clauses' = clauses /\ beyond' = beyond
  BY DEF SelectToken
<1>3. phase \in {"select", "distinct", "columns"} \cup ListPhases
  BY DEF SelectToken, ListPhases
<1>4. phase \notin {"reply", "done", "limited"} /\ phase \in NoClauses
  BY <1>3 DEF ListPhases, NoClauses, Outset
<1>5. clauses' \in Seq(ClauseWords \cup {"JOIN"}) /\ PlacesRise(clauses') /\ clauses' = << >>
  BY <1>2, <1>4 DEF GateIInv, ClausesFit
<1>h. head \in Seq(Notes) /\ HeadFits(phase, head)
  BY DEF GateIInv
<1>g. /\ g \in Seq(Notes) /\ Len(g) = Len(head) + 1 /\ Len(head) \in Nat /\ g[Len(head) + 1] = x
      /\ \A i \in 1 .. Len(head) : g[i] = head[i]
  BY <1>1, <1>h
<1> HIDE DEF x, g
<1> DEFINE Fits(p) == phase' = p /\ verdict' = verdict /\ HeadFits(p, g)
           TurnedDown == phase' = "done" /\ verdict' = "refused"
<1>6. ASSUME NEW p \in NoClauses \ {"reply"}, Fits(p) PROVE GateIInv'
  <2>1. p \in Phases \ {"reply", "limited", "done"}
    BY DEF NoClauses, Phases, Outset, ListPhases, Tailing
  <2> QED
    BY <1>2, <1>4, <1>5, <1>6, <1>g, <2>1, GateGoesOn
<1>7. ASSUME TurnedDown PROVE GateIInv'
  BY <1>2, <1>4, <1>5, <1>7, <1>g, GateGoesOn
<1>8. CASE phase = "select"
  <2>1. head = << >>
    BY <1>8, <1>h DEF HeadFits, Outset
  <2>2. t = "SELECT" => Fits("distinct")
    BY <1>1, <1>8, <1>g, <2>1 DEF SelectToken, Go, HeadFits, Outset, ListPhases, Tailing
  <2> QED
    BY <1>6, <1>7, <1>8, <2>2 DEF SelectToken, RefuseText, NoClauses
<1>9. CASE phase = "distinct" /\ t = "DISTINCT"
  <2>1. Len(head) = 1 /\ head[1] = "SELECT"
    BY <1>9, <1>h DEF HeadFits
  <2>2. Fits("columns")
    BY <1>1, <1>9, <1>g, <2>1 DEF SelectToken, Go, HeadFits, Outset, ListPhases, Tailing
  <2> QED
    BY <1>6, <2>2 DEF NoClauses
<1>10. CASE phase = "columns" \/ (phase = "distinct" /\ t # "DISTINCT")
  <2>1. /\ Len(g) > 1 /\ g[1] = "SELECT" /\ First(g) = Len(g) /\ g[First(g)] = x
    <3>1. CASE phase = "columns"
      <4>1. Len(head) = 2 /\ head[1] = "SELECT" /\ head[2] = "DISTINCT"
        BY <1>h, <3>1 DEF HeadFits
      <4> QED
        BY <1>g, <4>1 DEF First
    <3>2. CASE phase = "distinct" /\ t # "DISTINCT"
      <4>1. Len(head) = 1 /\ head[1] = "SELECT"
        BY <1>h, <3>2 DEF HeadFits
      <4> QED
        BY <1>1, <1>g, <3>2, <4>1 DEF First
    <3> QED
      BY <1>10, <3>1, <3>2
  <2> DEFINE n == Len(g) - First(g) + 1
  <2>2. n = 1
    BY <1>g, <2>1
  <2>3. ListedTo(g, n) /\ ~Even(n)
    BY <2>1, <2>2 DEF ListedTo, Even
  <2>4. phase' = (IF t = "star" THEN "from" ELSE "listed") /\ verdict' = verdict
    BY <1>10 DEF SelectToken, Go
  <2>5. CASE t = "star"
    <3>1. Fits("from")
      BY <1>1, <2>1, <2>2, <2>3, <2>4, <2>5 DEF HeadFits, Outset, ListPhases, Tailing
    <3> QED
      BY <1>6, <3>1 DEF NoClauses, ListPhases
  <2>6. CASE t # "star"
    <3>1. Fits("listed")
      BY <1>1, <2>1, <2>2, <2>3, <2>4, <2>6 DEF HeadFits, Outset, ListPhases, Tailing
    <3> QED
      BY <1>6, <3>1 DEF NoClauses, ListPhases
  <2> QED
    BY <2>5, <2>6
<1>11. CASE phase \in {"listed", "column"} /\ phase' \in {"listed", "column"} /\ phase' # phase
            /\ verdict' = verdict /\ (phase = "listed" => t = "comma")
  <2> DEFINE n == Len(head) - First(head) + 1
  <2>1. ListedTo(head, n) /\ (Even(n) <=> phase = "column") /\ head[First(head)] # "star"
    BY <1>11, <1>h DEF HeadFits, ListPhases
  <2>2. n \in Nat /\ (Even(n + 1) => x = "comma")
    BY <1>1, <1>11, <2>1, EvenNext DEF ListedTo
  <2>3. /\ g[First(g)] = head[First(head)] /\ Len(g) - First(g) + 1 = n + 1 /\ ListedTo(g, n + 1)
    BY <1>1, <1>h, <2>1, <2>2, ListGrows DEF g
  <2>4. Even(n + 1) <=> phase' = "column"
    BY <1>11, <2>1, <2>2, EvenNext
  <2>5. HeadFits(phase', g)
    BY <1>11, <2>1, <2>3, <2>4 DEF HeadFits, Outset, ListPhases, Tailing
  <2> QED
    BY <1>6, <1>11, <2>5 DEF NoClauses, ListPhases
<1>12. CASE phase \in {"listed", "from"} /\ t = "FROM" /\ phase' = "table" /\ verdict' = verdict
  <2> DEFINE n == Len(head) - First(head) + 1
  <2>1. /\ ListedTo(head, n) /\ ~Even(n)
        /\ head[First(head)] = "star" => n = 1
    BY <1>12, <1>h DEF HeadFits, ListPhases
  <2>2. n \in Nat \ {0} /\ Len(head) > 1 /\ head[1] = "SELECT" /\ First(head) \in {2, 3}
    BY <2>1 DEF ListedTo, First
  <2>3. First(g) = First(head) /\ Len(g) - First(g) = n /\ First(head) \in 1 .. Len(head)
    BY <1>g, <2>2 DEF First
  <2>4. \A k \in 1 .. n : First(head) + k - 1 \in 1 .. Len(head)
    BY <1>g, <2>2, <2>3
  <2>5. ListedTo(g, n)
    <3>1. ASSUME NEW k \in 1 .. n, Even(k) PROVE g[First(g) + k - 1] = "comma"
      <4>1. head[First(head) + k - 1] = "comma"
        BY <2>1, <3>1 DEF ListedTo
      <4> QED
        BY <1>g, <2>3, <2>4, <4>1
    <3>2. g[1] = "SELECT" /\ Len(g) > 1
      BY <1>g, <2>2
    <3> QED
      BY <2>2, <3>1, <3>2 DEF ListedTo
  <2>6. g[Len(g)] = "FROM" /\ g[First(g)] = head[First(head)]
    BY <1>1, <1>12, <1>g, <2>3
  <2>7. Complete(g)
    BY <2>1, <2>3, <2>5, <2>6 DEF Complete
  <2>8. HeadFits("table", g)
    BY <2>7 DEF HeadFits, Outset, ListPhases, Tailing
  <2> QED
    BY <1>6, <1>12, <2>8 DEF NoClauses
<1> QED
  BY <1>7, <1>8, <1>9, <1>10, <1>11, <1>12 DEF SelectToken, RefuseText, Go, ListPhases

\* After FROM, what is read of the head stays.
LEMMA TailGoesOn ==
  ASSUME GateIInv, phase \in Tailing \ {"limited"}, semicolons' = semicolons, head' = head,
         beyond' = beyond,
         \/ clauses' = clauses /\ (phase \in NoClauses \/ phase' \notin NoClauses)
         \/ \E c \in ClauseWords \cup {"JOIN"} :
              /\ clauses' = Append(clauses, c) /\ phase' \notin NoClauses
              /\ clauses # << >> => Place(clauses[Len(clauses)]) < Place(c),
         \/ phase' = "done" /\ verdict' = "refused"
         \/ phase' \in Tailing \ {"limited"} /\ verdict' = verdict
  PROVE  GateIInv'
<1>1. phase \notin {"reply", "done", "limited"} /\ phase \notin Outset \cup ListPhases \cup {"distinct", "columns"}
  BY DEF Tailing, Outset, ListPhases
<1>2. Complete(head) /\ head \in Seq(Notes)
  BY <1>1 DEF GateIInv, HeadFits
<1>3. phase' \in Tailing \ {"limited"} =>
        phase' \in Phases \ {"reply", "limited", "done"} /\ HeadFits(phase', head')
  BY <1>2 DEF HeadFits, Tailing, Phases, Outset, ListPhases
<1>4. clauses \in Seq(ClauseWords \cup {"JOIN"}) /\ PlacesRise(clauses)
      /\ (phase \in NoClauses => clauses = << >>)
  BY DEF GateIInv, ClausesFit
<1>5. /\ clauses' \in Seq(ClauseWords \cup {"JOIN"}) /\ PlacesRise(clauses')
      /\ phase' \in NoClauses => clauses' = << >>
  <2>1. CASE clauses' = clauses /\ (phase \in NoClauses \/ phase' \notin NoClauses)
    BY <1>4, <2>1
  <2>2. ASSUME NEW c \in ClauseWords \cup {"JOIN"}, clauses' = Append(clauses, c), phase' \notin NoClauses,
               clauses # << >> => Place(clauses[Len(clauses)]) < Place(c)
        PROVE  /\ clauses' \in Seq(ClauseWords \cup {"JOIN"}) /\ PlacesRise(clauses')
               /\ phase' \in NoClauses => clauses' = << >>
    BY <1>4, <2>2, ClauseAdded
  <2> QED
    BY <2>1, <2>2
<1> QED
  BY <1>1, <1>2, <1>3, <1>5, GateGoesOn

LEMMA Entered ==
  ASSUME NEW t \in ClauseWords, Enter(t)
  PROVE  /\ clauses' = Append(clauses, t) /\ verdict' = verdict /\ phase' \in {"by", "limit", "body"}
         /\ phase' \in Tailing \ {"limited"} /\ phase' \notin NoClauses
BY DEF Enter, Go, Tailing, NoClauses, Outset, ListPhases

LEMMA TableTokenKeeps ==
  ASSUME GateIInv, NEW t \in Tokens, TableToken(t)
  PROVE  GateIInv'
<1>1. phase \in {"table", "alias", "tail"} /\ head' = head /\ semicolons' = semicolons /\ beyond' = beyond
  BY DEF TableToken
<1>2. phase \in Tailing \ {"limited"} /\ phase \in NoClauses /\ clauses = << >>
  BY <1>1 DEF Tailing, NoClauses, GateIInv, ClausesFit
<1>3. CASE phase' = "done" /\ verdict' = "refused" /\ clauses' = clauses
  BY <1>1, <1>2, <1>3, TailGoesOn
<1>4. CASE phase' \in {"alias", "tail"} /\ verdict' = verdict /\ clauses' = clauses
  <2>1. phase' \in Tailing \ {"limited"}
    BY <1>4 DEF Tailing
  <2> QED
    BY <1>1, <1>2, <1>4, <2>1, TailGoesOn
<1>5. CASE clauses' = Append(clauses, "JOIN") /\ phase' \in {"join", "joined"} /\ verdict' = verdict
  <2>1. phase' \in Tailing \ {"limited"} /\ phase' \notin NoClauses
    BY <1>5 DEF Tailing, NoClauses, Outset, ListPhases
  <2> QED
    BY <1>1, <1>2, <1>5, <2>1, TailGoesOn
<1>6. CASE t \in ClauseWords /\ Enter(t)
  BY <1>1, <1>2, <1>6, Entered, TailGoesOn
<1> QED
  BY <1>3, <1>4, <1>5, <1>6 DEF TableToken, Go, RefuseText

LEMMA JoinTokenKeeps ==
  ASSUME GateIInv, NEW t \in Tokens, JoinToken(t)
  PROVE  GateIInv'
<1>1. /\ phase \in {"join", "joined", "as", "name", "on"}
      /\ head' = head /\ semicolons' = semicolons /\ beyond' = beyond /\ clauses' = clauses
  BY DEF JoinToken
<1>2. \/ phase' = "done" /\ verdict' = "refused"
      \/ phase' \in {"joined", "as", "name", "on", "body"} /\ verdict' = verdict
  BY DEF JoinToken, Go, RefuseText
<1>3. phase \in Tailing \ {"limited"}
  BY <1>1 DEF Tailing
<1>4. phase' \notin NoClauses /\ (phase' # "done" => phase' \in Tailing \ {"limited"})
  BY <1>2 DEF Tailing, NoClauses, Outset, ListPhases
<1> QED
  BY <1>1, <1>2, <1>3, <1>4, TailGoesOn

LEMMA ClauseTokenKeeps ==
  ASSUME GateIInv, NEW t \in Tokens, ClauseToken(t)
  PROVE  GateIInv'
<1>1. /\ phase \in {"by", "body", "limit", "limited"} /\ phase \in Tailing /\ phase \notin NoClauses
      /\ head' = head /\ semicolons' = semicolons
  BY DEF ClauseToken, Tailing, NoClauses, Outset, ListPhases
<1>2. CASE phase = "by"
  <2>1. \/ phase' = "done" /\ verdict' = "refused"
        \/ phase' = "body" /\ verdict' = verdict
    BY <1>2 DEF ClauseToken, Go, RefuseText
  <2>2. clauses' = clauses /\ beyond' = beyond
    BY <1>2 DEF ClauseToken
  <2>3. phase' \notin NoClauses /\ (phase' # "done" => phase' \in Tailing \ {"limited"})
    BY <2>1 DEF Tailing, NoClauses, Outset, ListPhases
  <2> QED
    BY <1>1, <1>2, <2>1, <2>2, <2>3, TailGoesOn
<1>3. CASE phase = "body" /\ t \in Later(CurrentClause) /\ Enter(t) /\ beyond' = beyond
  <2>1. clauses \in Seq(ClauseWords \cup {"JOIN"})
    BY DEF GateIInv
  <2>2. PICK j \in CurrentClause + 1 .. 5 : t = Clauses[j]
    <3>1. Len(Clauses) = 5
      BY DEF Clauses
    <3> QED
      BY <1>3, <3>1 DEF Later
  <2>3. clauses # << >> => CurrentClause \in Nat /\ CurrentClause = Place(clauses[Len(clauses)])
    <3>1. clauses # << >> => clauses[Len(clauses)] \in ClauseWords \cup {"JOIN"}
      BY <2>1
    <3>2. Place("JOIN") = 0
      BY DEF Place
    <3> QED
      BY <2>1, <3>1, <3>2, CurrentIsLast, Words
  <2>4. CurrentClause \in Nat
    BY <2>1, <2>3, CurrentIsLast
  <2>5. j \in 1 .. 5 /\ CurrentClause < j
    BY <2>4
  <2>6. t \in ClauseWords /\ Place(t) = j
    BY <2>2, <2>5, PlacesAre
  <2>7. clauses # << >> => Place(clauses[Len(clauses)]) < Place(t)
    BY <2>3, <2>5, <2>6
  <2> QED
    BY <1>1, <1>3, <2>6, <2>7, Entered, TailGoesOn
<1>4. CASE phase = "body" /\ UNCHANGED <<phase, verdict, clauses, beyond>>
  BY <1>1, <1>4, TailGoesOn
<1>5. CASE phase = "limit"
  <2>1. phase' = "limited" /\ verdict' = verdict /\ beyond' = beyond + 1 /\ clauses' = clauses
    BY <1>5 DEF ClauseToken, Go
  <2>2. beyond = 0 /\ verdict = "none" /\ semicolons.inner = 0 /\ Complete(head)
    BY <1>1, <1>5 DEF GateIInv, HeadFits
  <2>3. "limited" \in Phases /\ HeadFits("limited", head) /\ ClausesFit("limited", clauses)
    BY <2>2 DEF GateIInv, HeadFits, ClausesFit, Phases, NoClauses, Outset, ListPhases, Tailing
  <2> QED
    BY <1>1, <2>1, <2>2, <2>3 DEF GateIInv
<1>6. CASE phase = "limited"
  <2>1. phase' = "done" /\ verdict' = "refused" /\ beyond' = beyond + 1 /\ clauses' = clauses
    BY <1>6 DEF ClauseToken, RefuseText
  <2>2. beyond = 1
    BY <1>6 DEF GateIInv
  <2>3. "done" \in Phases /\ HeadFits("done", head) /\ ClausesFit("done", clauses)
    BY DEF GateIInv, HeadFits, ClausesFit, Phases, NoClauses, Outset, ListPhases, Tailing
  <2> QED
    BY <1>1, <2>1, <2>2, <2>3 DEF GateIInv
<1> QED
  BY <1>2, <1>3, <1>4, <1>5, <1>6 DEF ClauseToken

LEMMA EndKeeps == ASSUME GateIInv, EndOfText PROVE GateIInv'
<1>1. /\ phase \notin {"reply", "done"} /\ phase' = "done"
      /\ verdict' = IF phase \in Ends THEN "ok" ELSE "refused"
      /\ semicolons' = semicolons /\ head' = head /\ clauses' = clauses /\ beyond' = beyond
  BY DEF EndOfText
<1>2. verdict = "none" /\ semicolons.inner = 0 /\ beyond \in 0 .. 1
  BY <1>1 DEF GateIInv
<1>3. phase \in Ends => Complete(head)
  BY DEF GateIInv, HeadFits, Ends, Tailing
<1>4. "done" \in Phases /\ HeadFits("done", head) /\ ClausesFit("done", clauses)
  BY DEF GateIInv, HeadFits, ClausesFit, Phases, NoClauses, Outset, ListPhases, Tailing
<1> QED
  BY <1>1, <1>2, <1>3, <1>4 DEF GateIInv

LEMMA CutKeeps == ASSUME GateIInv, nlToSql PROVE GateIInv'
<1>1. PICK inner \in 0 .. 2, last \in 0 .. 2, found \in BOOLEAN : semicolons' = Cut(inner, last, found)
  BY DEF nlToSql
<1>2. semicolons'.inner \in Nat /\ semicolons'.last \in Nat
  BY <1>1 DEF Cut
<1>3. OneStatement(semicolons') => semicolons'.inner = 0
  BY <1>2 DEF OneStatement
<1>4. /\ phase = "reply" /\ head' = head /\ clauses' = clauses /\ beyond' = beyond
      /\ \/ OneStatement(semicolons') /\ phase' = "select" /\ verdict' = verdict
         \/ phase' = "done" /\ verdict' = "refused"
  BY DEF nlToSql, Go, RefuseText
<1>5. head = << >> /\ clauses = << >> /\ beyond = 0 /\ verdict = "none"
  BY <1>4 DEF GateIInv, HeadFits, ClausesFit, NoClauses, Outset
<1>6. ASSUME NEW p \in {"select", "done"} PROVE p \in Phases /\ HeadFits(p, head) /\ ClausesFit(p, clauses)
  BY <1>5 DEF GateIInv, HeadFits, ClausesFit, Phases, NoClauses, Outset, ListPhases, Tailing
<1> QED
  BY <1>3, <1>4, <1>5, <1>6 DEF GateIInv

LEMMA GateInvariant == SelectGateSpec => []GateIInv
<1>1. GateIInv /\ [SelectGateNext]_gateVars => GateIInv'
  <2>1. GateIInv /\ UNCHANGED gateVars => GateIInv'
    BY DEF GateIInv, gateVars
  <2> QED
    BY <2>1, CutKeeps, EndKeeps, SelectTokenKeeps, TableTokenKeeps, JoinTokenKeeps, ClauseTokenKeeps
    DEF SelectGateNext
<1> QED
  BY <1>1, GateStarts, PTL DEF SelectGateSpec

LEMMA FitsIsSelect == GateIInv => QuestionsOnlySelect
<1> SUFFICES ASSUME GateIInv, verdict = "ok" PROVE QuestionsOnlySelect
  BY DEF QuestionsOnlySelect
<1> DEFINE first == IF head[2] = "DISTINCT" THEN 3 ELSE 2
           list == SubSeq(head, first, Len(head) - 1)
<1>1. head \in Seq(Notes) /\ Complete(head) /\ PlacesRise(clauses) /\ semicolons.inner = 0 /\ beyond <= 1
  <2>1. phase # "reply"
    BY DEF GateIInv
  <2> QED
    BY <2>1 DEF GateIInv, ClausesFit
<1>2. /\ first = First(head) /\ Len(head) - first \in Nat \ {0} /\ first \in 1 .. Len(head)
      /\ head[1] = "SELECT" /\ head[Len(head)] = "FROM"
  BY <1>1 DEF Complete, ListedTo, First
<1> HIDE DEF first
<1>3. /\ Len(list) = Len(head) - first /\ DOMAIN list = 1 .. Len(list)
      /\ \A k \in 1 .. Len(list) : list[k] = head[first + k - 1]
  BY <1>1, <1>2
<1>4. /\ ~Even(Len(list))
      /\ \A k \in DOMAIN list : Even(k) => list[k] = "comma"
      /\ list[1] = "star" => Len(list) = 1
  BY <1>1, <1>2, <1>3 DEF Complete, ListedTo
<1>5. DOMAIN clauses = 1 .. Len(clauses)
  BY DEF GateIInv
<1> QED
  BY <1>1, <1>2, <1>4, <1>5 DEF QuestionsOnlySelect, PlacesRise, first

-----------------------------------------------------------------------------
LEMMA RowInvariant == RowSecuritySpec => []RowIInv
BY RowStarts, RowStep, PTL DEF RowSecuritySpec

LEMMA StorageInvariant == StorageSpec => []StorageIInv
BY StorageStarts, StorageSteps, PTL DEF StorageSpec

(* No query has rows of its own past the policies its builder was forked   *)
(* under; no object is handed out, listed or removed but under a policy    *)
(* that entitles to it, whatever the other callers did to the key between  *)
(* the look and the use; and the AI search runs no text but one SELECT: for*)
(* any builders and policies, callers, keys and uploads, and texts.        *)
THEOREM NothingGetsPast ==
  RowSecuritySpec /\ StorageSpec /\ SelectGateSpec => []GatesHold
<1>1. RowIInv => RowsGuarded
  BY DEF RowIInv
<1>2. StorageIInv => ObjectsGuarded
  BY DEF StorageIInv
<1> QED
  BY <1>1, <1>2, FitsIsSelect, RowInvariant, StorageInvariant, GateInvariant, PTL DEF GatesHold

-----------------------------------------------------------------------------
(* Studio: a statement is for the row its request named.                   *)

Loads == [table : GridNames \cup {NoTable}, late : BOOLEAN]

\* Whatever the answer sent last will show is what is selected, unless a
\* later one was there before it; then the grid is already right, if the
\* answer that came last was none of those overtaken.
GridFollows(sel, grid, waiting, over) ==
  /\ waiting \in Seq(Loads)
  /\ \A i \in 1 .. Len(waiting) : \A k \in 1 .. i : waiting[i].late => waiting[k].late
  /\ waiting # << >> /\ ~waiting[Len(waiting)].late => waiting[Len(waiting)].table = sel
  /\ grid # NoTable /\ ~over /\ (waiting = << >> \/ waiting[Len(waiting)].late) => grid = sel

\* The page's write names the key of the row that was clicked, or changes nothing.
WriteFits(w) ==
  w # NoRequest =>
    /\ w.row.table # w.table => w.row.stale
    /\ w.op = "delete" => KeyOfBody(w.body) = w.row.key
    /\ w.op = "update" => DOMAIN w.body \subseteq {"id", "_pk"} \/ KeyOfBody(w.body) = w.row.key
    /\ w.op \in {"insert", "update", "delete"}

\* What a statement that writes has to do with the request it is of.
StatementFits(s) ==
  s.by \in {"studio", "rest"} =>
    /\ s.sets \subseteq s.asked.columns
    /\ s.op # "insert" => s.where = <<PrimaryKeyOf(s.table), s.asked.key>>
    /\ s.by = "studio" /\ s.op = "update" => PrimaryKeyOf(s.table) \notin s.sets
    /\ s.asked.row # NoRow =>
         /\ s.op # "insert" => s.where[2] = s.asked.row.key
         /\ s.asked.row.table # s.table => s.asked.row.stale

StudioIInv ==
  /\ page \in {"tables", "other"} /\ {selected, shown} \subseteq GridNames \cup {NoTable}
  /\ editing \in RowKeys \cup {NoKeyYet} /\ Len(answers) <= MaxAnswers /\ crossed \in BOOLEAN
  /\ routeValues = [t \in GridNames |-> {}]
  /\ GridFollows(selected, shown, answers, crossed)
  /\ WriteFits(writing)
  /\ StatementFits(statement)

-----------------------------------------------------------------------------
\* A statement of Studio, of a request for the row with the key.
StatementFor(op, t, key, handedIn, sets, where) ==
  [by |-> "studio", op |-> op, table |-> t, sets |-> sets, where |-> where,
   asked |-> [table |-> t, key |-> key, columns |-> handedIn, row |-> NoRow]]

\* What RowStatement makes of any request.
LEMMA RowStatementFits ==
  ASSUME NEW op \in {"insert", "update", "delete"}, NEW t, NEW key, NEW handedIn,
         NEW s, s = RowStatement(op, t, key, handedIn), s # NoStatement
  PROVE  \E sets, where :
           /\ s = StatementFor(op, t, key, handedIn, sets, where)
           /\ sets \subseteq handedIn
           /\ op # "insert" => where = <<PrimaryKeyOf(t), key>>
           /\ op = "update" => PrimaryKeyOf(t) \notin sets /\ handedIn # {}
<1> DEFINE picked == PickColumns(t, handedIn, IF op = "update" THEN {PrimaryKeyOf(t)} ELSE {})
           sets == IF op = "delete" THEN {} ELSE picked
           where == IF op = "insert" THEN << >> ELSE <<PrimaryKeyOf(t), key>>
<1>1. ~(op # "delete" /\ picked = {})
  BY DEF RowStatement
<1>2. s = StatementFor(op, t, key, handedIn, sets, where)
  BY <1>1 DEF RowStatement, StatementFor
<1>3. picked \subseteq handedIn /\ (op = "update" => PrimaryKeyOf(t) \notin picked)
  BY DEF PickColumns
<1> HIDE DEF picked
<1>4. sets \subseteq handedIn /\ (op = "update" => PrimaryKeyOf(t) \notin sets /\ handedIn # {})
  BY <1>1, <1>3
<1>5. op # "insert" => where = <<PrimaryKeyOf(t), key>>
  OBVIOUS
<1> QED
  BY <1>2, <1>4, <1>5

\* The statement s is for the request with op, t and body.
WriteIs(op, t, body, s) ==
  \E key, handedIn, sets, where :
    /\ s = StatementFor(op, t, key, handedIn, sets, where)
    /\ sets \subseteq handedIn
    /\ op # "insert" => where = <<PrimaryKeyOf(t), key>> /\ key = KeyOfBody(body)
    /\ op = "update" => PrimaryKeyOf(t) \notin sets /\ ~(DOMAIN body \subseteq {"id", "_pk"})

LEMMA StudioWriteFits ==
  \A op \in {"insert", "update", "delete"} : \A t, body :
    StudioWrite(op, t, body) # NoStatement => WriteIs(op, t, body, StudioWrite(op, t, body))
<1> SUFFICES ASSUME NEW op \in {"insert", "update", "delete"}, NEW t, NEW body,
                    NEW s, s = StudioWrite(op, t, body), s # NoStatement
             PROVE  WriteIs(op, t, body, s)
  OBVIOUS
<1>1. CASE op = "insert"
  <2>1. s = RowStatement(op, t, NoKeyYet, DOMAIN body)
    BY <1>1 DEF StudioWrite
  <2>2. PICK sets, where : s = StatementFor(op, t, NoKeyYet, DOMAIN body, sets, where) /\ sets \subseteq DOMAIN body
    BY <2>1, RowStatementFits
  <2> QED
    BY <1>1, <2>2 DEF WriteIs
<1>2. CASE op # "insert"
  <2> DEFINE handedIn == DOMAIN body \ {"id", "_pk"}
  <2>1. s = RowStatement(op, t, KeyOfBody(body), handedIn)
    BY <1>2 DEF StudioWrite
  <2>2. PICK sets, where :
          /\ s = StatementFor(op, t, KeyOfBody(body), handedIn, sets, where)
          /\ sets \subseteq handedIn
          /\ op # "insert" => where = <<PrimaryKeyOf(t), KeyOfBody(body)>>
          /\ op = "update" => PrimaryKeyOf(t) \notin sets /\ handedIn # {}
    BY <2>1, RowStatementFits
  <2>3. handedIn # {} => ~(DOMAIN body \subseteq {"id", "_pk"})
    OBVIOUS
  <2> HIDE DEF handedIn
  <2> QED
    BY <1>2, <2>2, <2>3 DEF WriteIs
<1> QED
  BY <1>1, <1>2

\* A request of another client than the page.
LEMMA RequestFits ==
  ASSUME NEW op \in {"insert", "update", "delete"}, NEW t, NEW body
  PROVE  StatementFits(StudioWrite(op, t, body))
<1> SUFFICES ASSUME NEW s, s = StudioWrite(op, t, body) PROVE StatementFits(s)
  OBVIOUS
<1>1. CASE s = NoStatement
  BY <1>1 DEF StatementFits, NoStatement
<1>2. CASE s # NoStatement
  <2>0. WriteIs(op, t, body, s)
    BY <1>2, StudioWriteFits, Zenon
  <2>1. PICK key, handedIn, sets, where :
          /\ s = StatementFor(op, t, key, handedIn, sets, where)
          /\ sets \subseteq handedIn
          /\ op # "insert" => where = <<PrimaryKeyOf(t), key>> /\ key = KeyOfBody(body)
          /\ op = "update" => PrimaryKeyOf(t) \notin sets /\ ~(DOMAIN body \subseteq {"id", "_pk"})
    BY <2>0 DEF WriteIs
  <2> DEFINE a == StatementFor(op, t, key, handedIn, sets, where)
  <2>2. /\ a.op = op /\ a.table = t /\ a.sets = sets /\ a.where = where
        /\ a.asked.columns = handedIn /\ a.asked.key = key /\ a.asked.row = NoRow
    BY DEF StatementFor
  <2> HIDE DEF a
  <2>3. StatementFits(a)
    BY <2>1, <2>2 DEF StatementFits
  <2> QED
    BY <2>1, <2>3 DEF a
<1> QED
  BY <1>1, <1>2

-----------------------------------------------------------------------------
LEMMA ElementsMakeSeq == ASSUME NEW S, NEW n \in Nat, NEW f, \A k \in 1 .. n : f[k] \in S
                PROVE  LET q == [k \in 1 .. n |-> f[k]] IN q \in Seq(S) /\ Len(q) = n
OBVIOUS

LEMMA StudioStarts == StudioInit => StudioIInv
<1> SUFFICES ASSUME StudioInit PROVE StudioIInv
  OBVIOUS
<1>1. GridFollows(selected, shown, answers, crossed)
  BY DEF StudioInit, GridFollows
<1>2. WriteFits(writing) /\ StatementFits(statement)
  BY DEF StudioInit, WriteFits, StatementFits, NoStatement
<1>3. Len(answers) <= MaxAnswers
  BY StudioConstantsOK DEF StudioInit
<1> QED
  BY <1>1, <1>2, <1>3 DEF StudioInit, StudioIInv

\* A load of the table that will be selected is sent.
LEMMA LoadFollows ==
  ASSUME NEW sel \in GridNames \cup {NoTable}, NEW sel2 \in GridNames \cup {NoTable},
         NEW grid, NEW waiting, NEW over, GridFollows(sel, grid, waiting, over),
         NEW g, NEW o
  PROVE  /\ Len(Append(waiting, [table |-> sel2, late |-> FALSE])) = Len(waiting) + 1
         /\ GridFollows(sel2, g, Append(waiting, [table |-> sel2, late |-> FALSE]), o)
<1> DEFINE load == [table |-> sel2, late |-> FALSE]
           more == Append(waiting, load)
<1>1. waiting \in Seq(Loads) /\ load \in Loads /\ load.late = FALSE /\ load.table = sel2
  BY DEF GridFollows, Loads
<1> HIDE DEF load
<1>2. /\ more \in Seq(Loads) /\ Len(more) = Len(waiting) + 1 /\ Len(waiting) \in Nat
      /\ more[Len(waiting) + 1] = load /\ \A i \in 1 .. Len(waiting) : more[i] = waiting[i]
  BY <1>1
<1> HIDE DEF more
<1>3. \A i \in 1 .. Len(more) : \A k \in 1 .. i : more[i].late => more[k].late
  <2> SUFFICES ASSUME NEW i \in 1 .. Len(more), NEW k \in 1 .. i, more[i].late PROVE more[k].late
    OBVIOUS
  <2>1. i \in 1 .. Len(waiting)
    BY <1>1, <1>2
  <2> QED
    BY <1>2, <2>1 DEF GridFollows
<1>4. ~more[Len(more)].late /\ more[Len(more)].table = sel2 /\ more # << >>
  BY <1>1, <1>2
<1>5. GridFollows(sel2, g, more, o)
  BY <1>2, <1>3, <1>4 DEF GridFollows
<1> QED
  BY <1>2, <1>5 DEF more, load

\* Without the i-th answer, those sent before it are late.
LEMMA WithoutFits ==
  ASSUME StudioIInv, NEW i \in DOMAIN answers
  PROVE  /\ Without(i) \in Seq(Loads) /\ Len(Without(i)) = Len(answers) - 1
         /\ \A j \in 1 .. Len(Without(i)) : \A k \in 1 .. j : Without(i)[j].late => Without(i)[k].late
         /\ \A k \in 1 .. i - 1 : Without(i)[k].late
         /\ i < Len(answers) => Without(i)[Len(answers) - 1] = answers[Len(answers)]
<1> DEFINE n == Len(answers)
           w == Without(i)
<1>1. answers \in Seq(Loads) /\ n \in Nat /\ i \in 1 .. n
  BY DEF StudioIInv, GridFollows
<1>2. \A k \in 1 .. n : answers[k] \in Loads
  BY <1>1
<1>3. \A k \in 1 .. n - 1 : w[k] = IF k < i THEN [answers[k] EXCEPT !.late = TRUE] ELSE answers[k + 1]
  BY <1>1 DEF Without
<1>4. DOMAIN w = 1 .. n - 1
  BY DEF Without
<1>5. \A k \in 1 .. n - 1 : k < i => w[k] \in Loads /\ w[k].late
  <2>1. \A l \in Loads : [l EXCEPT !.late = TRUE] \in Loads
    BY DEF Loads
  <2>2. \A l \in Loads : [l EXCEPT !.late = TRUE].late = TRUE
    BY DEF Loads
  <2> SUFFICES ASSUME NEW k \in 1 .. n - 1, k < i PROVE w[k] \in Loads /\ w[k].late
    OBVIOUS
  <2>3. answers[k] \in Loads /\ w[k] = [answers[k] EXCEPT !.late = TRUE]
    BY <1>1, <1>2, <1>3
  <2>4. w[k] \in Loads /\ w[k].late = TRUE
    BY <2>1, <2>2, <2>3
  <2> QED
    BY <2>4
<1>6. \A k \in 1 .. n - 1 : ~(k < i) => w[k] \in Loads /\ w[k] = answers[k + 1]
  <2> SUFFICES ASSUME NEW k \in 1 .. n - 1, ~(k < i) PROVE w[k] \in Loads /\ w[k] = answers[k + 1]
    OBVIOUS
  <2>1. w[k] = answers[k + 1]
    BY <1>3
  <2>2. k + 1 \in 1 .. n
    BY <1>1
  <2> QED
    BY <1>2, <2>1, <2>2
<1> HIDE DEF w
<1>7. w \in Seq(Loads) /\ Len(w) = n - 1
  <2>1. w = [k \in 1 .. n - 1 |-> w[k]]
    BY <1>4 DEF w, Without
  <2>2. \A k \in 1 .. n - 1 : w[k] \in Loads
    BY <1>5, <1>6
  <2>3. n - 1 \in Nat
    BY <1>1
  <2> QED
    BY <2>1, <2>2, <2>3, ElementsMakeSeq
<1>8. \A j \in 1 .. n - 1 : \A k \in 1 .. j : w[j].late => w[k].late
  <2> SUFFICES ASSUME NEW j \in 1 .. n - 1, NEW k \in 1 .. j, w[j].late PROVE w[k].late
    OBVIOUS
  <2>1. CASE k < i
    BY <1>1, <1>5, <2>1
  <2>2. CASE ~(k < i)
    <3>1. w[j] = answers[j + 1] /\ w[k] = answers[k + 1]
      BY <1>1, <1>6, <2>2
    <3>2. j + 1 \in 1 .. n /\ k + 1 \in 1 .. j + 1
      BY <1>1
    <3> QED
      BY <3>1, <3>2 DEF StudioIInv, GridFollows
  <2> QED
    BY <2>1, <2>2
<1>9. \A k \in 1 .. i - 1 : w[k].late
  BY <1>1, <1>5
<1>10. i < n => w[n - 1] = answers[n]
  BY <1>1, <1>6
<1> QED
  BY <1>7, <1>8, <1>9, <1>10 DEF w

\* What the page does to what it shows, and what it leaves alone.
Unshown == UNCHANGED <<writing, routeValues>>

LEMMA RenderKeeps ==
  ASSUME StudioIInv, CanLoad, NEW p \in {"tables", "other"}, NEW t \in GridNames \cup {NoTable}, Render(p, t),
         (t \in GridNames /\ p = "tables") \/ t = selected, Unshown, statement' = NoStatement
  PROVE  StudioIInv'
<1> DEFINE load == [table |-> t, late |-> FALSE]
<1>1. /\ selected \in GridNames \cup {NoTable} /\ GridFollows(selected, shown, answers, crossed)
      /\ Len(answers) \in Nat
  BY DEF StudioIInv, GridFollows
<1>0. /\ Len(Append(answers, load)) = Len(answers) + 1
      /\ GridFollows(t, NoTable, Append(answers, load), FALSE)
  BY <1>1, LoadFollows
<1>2. /\ page' = p /\ selected' = t /\ shown' = NoTable /\ editing' = NoKeyYet /\ crossed' = FALSE
      /\ answers' = IF p = "tables" /\ t # NoTable THEN Append(answers, load) ELSE answers
  BY DEF Render, Loading
<1>3. GridFollows(t, NoTable, answers', FALSE) /\ Len(answers') <= MaxAnswers
  <2>1. CASE p = "tables" /\ t # NoTable
    <3>1. answers' = Append(answers, load)
      BY <1>2, <2>1
    <3>2. /\ Len(Append(answers, load)) = Len(answers) + 1
          /\ GridFollows(t, NoTable, Append(answers, load), FALSE)
      BY <1>0
    <3>3. Len(answers) + 1 <= MaxAnswers
      BY <1>1, StudioConstantsOK DEF CanLoad
    <3> QED
      BY <3>1, <3>2, <3>3
  <2>2. CASE ~(p = "tables" /\ t # NoTable)
    <3>1. answers' = answers /\ t = selected
      BY <1>2, <2>2, StudioConstantsOK DEF NoTable, GridNames
    <3> QED
      BY <1>1, <3>1 DEF GridFollows, StudioIInv
  <2> QED
    BY <2>1, <2>2
<1>4. StatementFits(statement)' /\ WriteFits(writing)'
  BY DEF StudioIInv, Unshown, StatementFits, NoStatement, WriteFits
<1>5. routeValues' = [u \in GridNames |-> {}]
  BY DEF StudioIInv, Unshown
<1> QED
  BY <1>2, <1>3, <1>4, <1>5 DEF StudioIInv, NoKeyYet

\* A load of the selected table is sent, and the grid stays.
LEMMA ReloadKeeps ==
  ASSUME StudioIInv, CanLoad, answers' = Loading(selected), UNCHANGED <<page, selected, shown, editing, crossed, routeValues>>,
         WriteFits(writing'), statement' = NoStatement
  PROVE  StudioIInv'
<1> DEFINE load == [table |-> selected, late |-> FALSE]
<1>1. /\ selected \in GridNames \cup {NoTable} /\ GridFollows(selected, shown, answers, crossed)
      /\ Len(answers) \in Nat
  BY DEF StudioIInv, GridFollows
<1>2. /\ Len(Append(answers, load)) = Len(answers) + 1
      /\ GridFollows(selected, shown, Append(answers, load), crossed)
  BY <1>1, LoadFollows
<1>3. answers' = Append(answers, load)
  BY DEF Loading
<1>4. Len(answers) + 1 <= MaxAnswers
  BY <1>1, StudioConstantsOK DEF CanLoad
<1> HIDE DEF load
<1>5. GridFollows(selected', shown', answers', crossed') /\ Len(answers') <= MaxAnswers
  BY <1>2, <1>3, <1>4
<1>6. StatementFits(statement')
  BY DEF StatementFits, NoStatement
<1> QED
  BY <1>5, <1>6 DEF StudioIInv

\* An answer comes, or fails to.
LEMMA AnswerKeeps ==
  ASSUME StudioIInv, NEW i \in DOMAIN answers, Arrive(i) \/ LoadFails(i), statement' = NoStatement
  PROVE  StudioIInv'
<1> DEFINE n == Len(answers)
           w == Without(i)
<1>1. /\ w \in Seq(Loads) /\ Len(w) = n - 1 /\ n \in Nat /\ i \in 1 .. n /\ answers \in Seq(Loads)
      /\ \A j \in 1 .. Len(w) : \A k \in 1 .. j : w[j].late => w[k].late
      /\ \A k \in 1 .. i - 1 : w[k].late
      /\ i < n => w[n - 1] = answers[n]
  BY WithoutFits DEF StudioIInv, GridFollows
<1>2. answers' = w /\ selected' = selected /\ UNCHANGED <<page, writing, routeValues>>
  BY DEF Arrive, LoadFails
<1>3. answers[i] \in Loads
  BY <1>1
<1>4. /\ answers[n].late => answers[i].late
      /\ ~answers[n].late => answers[n].table = selected
      /\ answers[n].late /\ ~crossed /\ shown # NoTable => shown = selected
  <2>1. n \in 1 .. n /\ answers # << >>
    BY <1>1
  <2> QED
    BY <1>1, <2>1 DEF StudioIInv, GridFollows
<1> HIDE DEF w
<1>5. ASSUME i = n PROVE n - 1 # 0 => w[n - 1].late
  BY <1>1, <1>5
<1>6. ASSUME w # << >> PROVE n - 1 \in 1 .. n - 1
  BY <1>1, <1>6
<1>7. n - 1 <= MaxAnswers
  BY <1>1, StudioConstantsOK DEF StudioIInv
<1>8. CASE Arrive(i)
  <2>1. shown' = answers[i].table /\ editing' = NoKeyYet /\ crossed' = answers[i].late
    BY <1>8 DEF Arrive
  <2>2. w # << >> /\ ~w[n - 1].late => w[n - 1].table = selected
    BY <1>1, <1>4, <1>5, <1>6
  <2>3. ~answers[i].late /\ (w = << >> \/ w[n - 1].late) => answers[i].table = selected
    BY <1>1, <1>4, <1>6
  <2>4. GridFollows(selected, answers[i].table, w, answers[i].late)
    BY <1>1, <2>2, <2>3 DEF GridFollows
  <2>5. GridFollows(selected', shown', answers', crossed')
    BY <1>2, <2>1, <2>4
  <2>6. crossed' \in BOOLEAN /\ shown' \in GridNames \cup {NoTable}
    BY <1>3, <2>1 DEF Loads
  <2>7. StatementFits(statement') /\ WriteFits(writing')
    BY <1>2 DEF StudioIInv, StatementFits, NoStatement
  <2>8. Len(answers') <= MaxAnswers
    BY <1>1, <1>2, <1>7
  <2> QED
    BY <1>2, <2>1, <2>5, <2>6, <2>7, <2>8 DEF StudioIInv
<1>9. CASE LoadFails(i)
  <2>1. crossed' = (crossed \/ i = n) /\ UNCHANGED <<shown, editing>>
    BY <1>9 DEF LoadFails
  <2>2. w # << >> /\ ~w[n - 1].late => w[n - 1].table = selected
    BY <1>1, <1>4, <1>5, <1>6
  <2>3. shown # NoTable /\ ~crossed' /\ (w = << >> \/ w[n - 1].late) => shown = selected
    <3> SUFFICES ASSUME shown # NoTable, ~crossed', w = << >> \/ w[n - 1].late PROVE shown = selected
      OBVIOUS
    <3>1. ~crossed /\ i # n
      BY <2>1
    <3>2. i < n /\ w # << >>
      BY <1>1, <3>1
    <3> QED
      BY <1>1, <1>4, <3>1, <3>2
  <2>4. GridFollows(selected', shown', answers', crossed')
    BY <1>1, <1>2, <2>1, <2>2, <2>3 DEF GridFollows
  <2>5. crossed' \in BOOLEAN
    BY <2>1 DEF StudioIInv
  <2>6. StatementFits(statement') /\ WriteFits(writing')
    BY <1>2 DEF StudioIInv, StatementFits, NoStatement
  <2>7. Len(answers') <= MaxAnswers
    BY <1>1, <1>2, <1>7
  <2> QED
    BY <1>2, <2>1, <2>4, <2>5, <2>6, <2>7 DEF StudioIInv
<1> QED
  BY <1>8, <1>9

\* A write of the page is sent.
LEMMA SendFits ==
  ASSUME StudioIInv, shown # NoTable, NEW op \in {"insert", "update", "delete"}, NEW k, NEW body, Send(op, k, body),
         op = "delete" => KeyOfBody(body) = k,
         op = "update" => DOMAIN body \subseteq {"id", "_pk"} \/ KeyOfBody(body) = k,
         statement' = NoStatement
  PROVE  StudioIInv'
<1> DEFINE row == [table |-> shown, key |-> k, stale |-> answers # << >> \/ crossed]
           w == [op |-> op, table |-> selected, body |-> body, ran |-> FALSE, row |-> row]
<1>1. writing' = w /\ UNCHANGED <<page, selected, shown, editing, answers, crossed, routeValues>>
  BY DEF Send, pageVars
<1>2. shown # selected => row.stale = TRUE
  <2>1. crossed \in BOOLEAN
    BY DEF StudioIInv
  <2>2. shown # selected => answers # << >> \/ crossed
    BY DEF StudioIInv, GridFollows
  <2> QED
    BY <2>1, <2>2
<1>3. /\ w.op = op /\ w.table = selected /\ w.body = body /\ w.row = row /\ row.table = shown /\ row.key = k
  OBVIOUS
<1> HIDE DEF w, row
<1>4. WriteFits(w)
  BY <1>2, <1>3 DEF WriteFits
<1>5. StatementFits(statement')
  BY DEF StatementFits, NoStatement
<1>6. GridFollows(selected', shown', answers', crossed')
  BY <1>1 DEF StudioIInv
<1> QED
  BY <1>1, <1>4, <1>5, <1>6 DEF StudioIInv

LEMMA CommitFits == ASSUME StudioIInv, Commit, statement' = NoStatement PROVE StudioIInv'
<1>1. PICK c \in Editable(shown), value \in RowKeys :
        Send("update", editing, [d \in {"id", c} |-> IF d = c THEN value ELSE editing])
  BY DEF Commit
<1> DEFINE body == [d \in {"id", c} |-> IF d = c THEN value ELSE editing]
<1>2. DOMAIN body \subseteq {"id", "_pk"} \/ KeyOfBody(body) = editing
  <2>1. CASE c = "id"
    BY <2>1
  <2>2. CASE c # "id"
    BY <2>2 DEF KeyOfBody
  <2> QED
    BY <2>1, <2>2
<1> HIDE DEF body
<1>3. shown # NoTable /\ Send("update", editing, body)
  BY <1>1 DEF Commit, body
<1> QED
  BY <1>2, <1>3, SendFits

LEMMA ClickDeleteFits == ASSUME StudioIInv, NEW k, ClickDelete(k), statement' = NoStatement PROVE StudioIInv'
<1> DEFINE body == [c \in {"id"} |-> k]
<1>1. KeyOfBody(body) = k
  BY DEF KeyOfBody
<1> HIDE DEF body
<1>2. shown # NoTable /\ Send("delete", k, body)
  BY DEF ClickDelete, body
<1> QED
  BY <1>1, <1>2, SendFits

LEMMA RunSentFits == ASSUME StudioIInv, RunSent PROVE StudioIInv'
<1> DEFINE s == StudioWrite(writing.op, writing.table, writing.body)
           row == writing.row
<1>1. /\ writing # NoRequest /\ WriteFits(writing) /\ writing' = [writing EXCEPT !.ran = TRUE]
      /\ statement' = IF s = NoStatement THEN s ELSE [s EXCEPT !.asked.row = row]
      /\ UNCHANGED <<page, selected, shown, editing, answers, crossed, routeValues>>
  BY DEF RunSent, StudioIInv, pageVars
<1>2. writing.op \in {"insert", "update", "delete"}
  BY <1>1 DEF WriteFits
<1>3. StatementFits(statement')
  <2>1. CASE s = NoStatement
    BY <1>1, <2>1 DEF StatementFits, NoStatement
  <2>2. CASE s # NoStatement
    <3>0. WriteIs(writing.op, writing.table, writing.body, s)
      BY <1>2, <2>2, StudioWriteFits, Zenon
    <3>1. PICK key, handedIn, sets, where :
            /\ s = StatementFor(writing.op, writing.table, key, handedIn, sets, where)
            /\ sets \subseteq handedIn
            /\ writing.op # "insert" =>
                 where = <<PrimaryKeyOf(writing.table), key>> /\ key = KeyOfBody(writing.body)
            /\ writing.op = "update" =>
                 PrimaryKeyOf(writing.table) \notin sets /\ ~(DOMAIN writing.body \subseteq {"id", "_pk"})
      BY <3>0 DEF WriteIs
    <3> DEFINE a == [StatementFor(writing.op, writing.table, key, handedIn, sets, where) EXCEPT !.asked.row = row]
    <3>2. /\ a.op = writing.op /\ a.table = writing.table /\ a.sets = sets /\ a.where = where
          /\ a.asked.columns = handedIn /\ a.asked.key = key /\ a.asked.row = row
      BY DEF StatementFor
    <3>3. statement' = a
      BY <1>1, <2>2, <3>1
    <3>4. writing.op # "insert" => key = row.key
      BY <1>1, <1>2, <3>1 DEF WriteFits
    <3>5. row.table # writing.table => row.stale
      BY <1>1 DEF WriteFits
    <3> HIDE DEF a, row
    <3>6. StatementFits(a)
      BY <3>1, <3>2, <3>4, <3>5 DEF StatementFits
    <3> QED
      BY <3>3, <3>6
  <2> QED
    BY <2>1, <2>2
<1>4. WriteFits(writing')
  <2> DEFINE w == writing
  <2>1. /\ writing'.op = w.op /\ writing'.table = w.table /\ writing'.body = w.body /\ writing'.row = w.row
    BY <1>1
  <2> QED
    BY <1>1, <2>1 DEF WriteFits
<1>5. GridFollows(selected', shown', answers', crossed')
  BY <1>1 DEF StudioIInv
<1> HIDE DEF s, row
<1> QED
  BY <1>1, <1>3, <1>4, <1>5 DEF StudioIInv

\* Nothing but the statement changes, to one that fits.
LEMMA StatementRuns ==
  ASSUME StudioIInv, UNCHANGED <<pageVars, writing, routeValues>>, StatementFits(statement') PROVE StudioIInv'
BY DEF StudioIInv, pageVars

LEMMA RestFits == ASSUME StudioIInv, RestRequest PROVE StudioIInv'
<1>0. PICK t \in GridNames, op \in {"insert", "update"}, k \in RowKeys :
        \E handedIn \in SUBSET (Grids[t].columns \cup {Foreign}) :
          /\ Merged1(t, handedIn)
          /\ statement' = [by |-> "rest", op |-> op, table |-> t, sets |-> routeValues[t] \cup handedIn,
                           where |-> IF op = "insert" THEN << >> ELSE <<PrimaryKeyOf(t), k>>,
                           asked |-> [table |-> t, key |-> k, columns |-> handedIn, row |-> NoRow]]
  BY DEF RestRequest
<1>1. PICK handedIn :
        /\ Merged1(t, handedIn)
        /\ statement' = [by |-> "rest", op |-> op, table |-> t, sets |-> routeValues[t] \cup handedIn,
                         where |-> IF op = "insert" THEN << >> ELSE <<PrimaryKeyOf(t), k>>,
                         asked |-> [table |-> t, key |-> k, columns |-> handedIn, row |-> NoRow]]
  BY <1>0
<1>2. routeValues[t] = {}
  BY DEF StudioIInv
<1>3. StatementFits(statement')
  <2>1. /\ statement'.by = "rest" /\ statement'.op = op /\ statement'.table = t /\ statement'.sets = handedIn
        /\ statement'.where = IF op = "insert" THEN << >> ELSE <<PrimaryKeyOf(t), k>>
        /\ statement'.asked.columns = handedIn /\ statement'.asked.key = k /\ statement'.asked.row = NoRow
    BY <1>1, <1>2
  <2> QED
    BY <2>1 DEF StatementFits
<1> QED
  BY <1>1, <1>3, StatementRuns DEF RestRequest, Merged1

LEMMA StudioNextFits == StudioIInv /\ [StudioNext]_studioVars => StudioIInv'
<1> SUFFICES ASSUME StudioIInv, [StudioNext]_studioVars PROVE StudioIInv'
  OBVIOUS
<1>1. ASSUME statement' = NoStatement, BrowserStep PROVE StudioIInv'
  <2>1. ASSUME NEW t \in GridNames, openTable(t) PROVE StudioIInv'
    BY <1>1, <2>1, RenderKeeps DEF openTable, Unshown
  <2>2. ASSUME NEW p \in {"tables", "other"}, nav(p) PROVE StudioIInv'
    <3>1. selected \in GridNames \cup {NoTable}
      BY DEF StudioIInv
    <3> QED
      BY <1>1, <2>2, <3>1, RenderKeeps DEF nav, Unshown
  <2>3. CASE Reload
    <3>1. WriteFits(writing')
      BY <2>3 DEF Reload, StudioIInv
    <3> QED
      BY <1>1, <2>3, <3>1, ReloadKeeps DEF Reload
  <2>4. ASSUME NEW i \in DOMAIN answers, Arrive(i) \/ LoadFails(i) PROVE StudioIInv'
    BY <1>1, <2>4, AnswerKeeps
  <2>5. ASSUME NEW k \in RowKeys, editCell(k) PROVE StudioIInv'
    <3>1. WriteFits(writing') /\ GridFollows(selected', shown', answers', crossed') /\ StatementFits(statement')
      BY <1>1, <2>5 DEF editCell, StudioIInv, StatementFits, NoStatement
    <3> QED
      BY <2>5, <3>1 DEF editCell, StudioIInv
  <2>6. ASSUME NEW k \in RowKeys, ClickDelete(k) PROVE StudioIInv'
    BY <1>1, <2>6, ClickDeleteFits
  <2>7. CASE Commit
    BY <1>1, <2>7, CommitFits
  <2>8. CASE AddRow
    <3> DEFINE body == [c \in Editable(shown) |-> NoKeyYet]
    <3>1. shown # NoTable /\ Send("insert", NoKeyYet, body)
      BY <2>8 DEF AddRow
    <3> HIDE DEF body
    <3> QED
      BY <1>1, <3>1, SendFits
  <2>9. CASE Answered
    <3>1. WriteFits(writing')
      BY <2>9 DEF Answered, WriteFits
    <3>2. CASE answers' = Loading(selected)
      BY <1>1, <2>9, <3>1, <3>2, ReloadKeeps DEF Answered
    <3>3. CASE UNCHANGED answers
      <4>1. StatementFits(statement') /\ GridFollows(selected', shown', answers', crossed')
        BY <1>1, <2>9, <3>3 DEF Answered, StudioIInv, StatementFits, NoStatement
      <4> QED
        BY <2>9, <3>1, <3>3, <4>1 DEF Answered, StudioIInv
    <3> QED
      BY <2>9, <3>2, <3>3 DEF Answered
  <2> QED
    BY <1>1, <2>1, <2>2, <2>3, <2>4, <2>5, <2>6, <2>7, <2>8, <2>9 DEF BrowserStep
<1>2. CASE RunSent
  BY <1>2, RunSentFits
<1>3. CASE StudioRequest
  <2>1. PICK t \in GridNames, op \in {"insert", "update", "delete"}, k \in RowKeys :
          \E handedIn \in SUBSET (Grids[t].columns \cup {"id", "_pk", Foreign}) :
            statement' = StudioWrite(op, t, [c \in handedIn |-> k])
    BY <1>3 DEF StudioRequest
  <2>2. StatementFits(statement')
    BY <2>1, RequestFits
  <2> QED
    BY <1>3, <2>2, StatementRuns DEF StudioRequest
<1>4. CASE RestRequest
  BY <1>4, RestFits
<1>5. ASSUME NEW word \in {"select", "with", "delete", "drop"}, NEW mentions \in BOOLEAN, Console(word, mentions)
      PROVE  StudioIInv'
  <2>1. statement'.by = "console"
    BY <1>5 DEF Console
  <2>2. StatementFits(statement')
    BY <2>1 DEF StatementFits
  <2> QED
    BY <1>5, <2>2, StatementRuns DEF Console
<1>6. CASE UNCHANGED studioVars
  <2>1. UNCHANGED <<pageVars, writing, routeValues>> /\ statement' = statement
    BY <1>6 DEF studioVars, pageVars
  <2>2. StatementFits(statement')
    BY <2>1 DEF StudioIInv
  <2> QED
    BY <2>1, <2>2, StatementRuns
<1> QED
  BY <1>1, <1>2, <1>3, <1>4, <1>5, <1>6 DEF StudioNext, PageNext, ClientNext

(* The inductive invariant of Studio, for any tables, keys and number of   *)
(* answers under way.                                                      *)
THEOREM StudioInvariant == StudioSpec => []StudioIInv
BY StudioStarts, StudioNextFits, PTL DEF StudioSpec

(* The page, what is under way to it and the statements keep their types.  *)
THEOREM StudioTypeCorrect == StudioSpec => []StudioTypeOK
<1>1. StudioIInv => StudioTypeOK
  BY DEF StudioIInv, StudioTypeOK
<1> QED
  BY <1>1, StudioInvariant, PTL

(* A statement of the studio or of the REST routes is for the row and the   *)
(* columns that its request named, and the page's request for the row that *)
(* was clicked in the grid of the selected table, unless the answers for   *)
(* two tables crossed: for any tables, rows, keys and number of answers    *)
(* under way.                                                              *)
THEOREM StatementsAreAddressed == StudioSpec => []StudioTouchesAddressed
<1>1. StudioIInv => StudioTouchesAddressed
  BY DEF StudioIInv, StudioTouchesAddressed, IsWrite, StatementFits, GridFollows
<1> QED
  BY <1>1, StudioInvariant, PTL

-----------------------------------------------------------------------------
(* CacheLock                                                               *)

Unexpired(w) == within[w] # NoLock /\ within[w] > moment

\* As long as nobody has released another's entry, a worker whose hold has
\* not expired is the one the entry is of.
HoldsEntry ==
  ~stolen => \A w \in Workers : Unexpired(w) =>
               lock # NoLock /\ lock.holder = w /\ lock.expires = within[w]

LastLeavesNothing == Inside = {} => lock = NoLock

LockIInv == CacheLockTypeOK /\ DOMAIN within = Workers /\ HoldsEntry /\ LastLeavesNothing

LEMMA LockInit == CacheLockInit => LockIInv
<1> SUFFICES ASSUME CacheLockInit PROVE LockIInv
  OBVIOUS
<1>1. DOMAIN within = Workers /\ \A w \in Workers : within[w] = NoLock
  BY DEF CacheLockInit
<1>2. stolen \in BOOLEAN
  BY DEF CacheLockInit
<1>3. moment \in 0 .. LastMoment
  BY CacheLockConstantsOK DEF CacheLockInit
<1>4. HoldsEntry /\ LastLeavesNothing
  BY <1>1 DEF CacheLockInit, HoldsEntry, LastLeavesNothing, Unexpired
<1> QED
  BY <1>1, <1>2, <1>3, <1>4 DEF CacheLockInit, CacheLockTypeOK, LockIInv

LEMMA LockStep == LockIInv /\ [CacheLockNext]_lockVars => LockIInv'
<1> SUFFICES ASSUME LockIInv, [CacheLockNext]_lockVars PROVE LockIInv'
  OBVIOUS
<1> USE CacheLockConstantsOK DEF LockIInv, CacheLockTypeOK, Inside, LastLeavesNothing
<1>1. ASSUME NEW w \in Workers, Acquire(w) PROVE LockIInv'
  <2>1. CacheLockTypeOK' /\ DOMAIN within' = Workers
    BY <1>1 DEF Acquire
  <2>2. LastLeavesNothing'
    BY <1>1 DEF Acquire
  <2>3. HoldsEntry'
    BY <1>1 DEF Acquire, CanAcquire, HoldsEntry, Unexpired
  <2> QED
    BY <2>1, <2>2, <2>3
<1>2. ASSUME NEW w \in Workers, Release(w) PROVE LockIInv'
  <2>1. CacheLockTypeOK' /\ DOMAIN within' = Workers
    BY <1>2 DEF Release
  <2>2. LastLeavesNothing'
    BY <1>2 DEF Release
  <2>3. HoldsEntry'
    BY <1>2 DEF Release, HoldsEntry, Unexpired
  <2> QED
    BY <2>1, <2>2, <2>3
<1>3. CASE MomentPasses
  <2>1. CacheLockTypeOK' /\ DOMAIN within' = Workers /\ LastLeavesNothing'
    BY <1>3 DEF MomentPasses
  <2>2. \A w \in Workers : Unexpired(w)' => Unexpired(w)
    BY <1>3 DEF MomentPasses, Unexpired
  <2> QED
    BY <1>3, <2>1, <2>2 DEF MomentPasses, HoldsEntry
<1>4. CASE UNCHANGED lockVars
  BY <1>4 DEF lockVars, HoldsEntry, Unexpired
<1> QED
  BY <1>1, <1>2, <1>3, <1>4 DEF CacheLockNext

LEMMA LockInvariant == CacheLockSpec => []LockIInv
BY LockInit, LockStep, PTL DEF CacheLockSpec

(* InProcessLock keeps its types, for any workers and any ttl.             *)
THEOREM LockTypeCorrect == CacheLockSpec => []CacheLockTypeOK
<1>1. LockIInv => CacheLockTypeOK
  BY DEF LockIInv
<1> QED
  BY <1>1, LockInvariant, PTL

(* withLock excludes, for any workers and any ttl: two are inside at once  *)
(* only when one of them has overstayed its ttl, or an overstayer has      *)
(* released the entry of another; and the last one out leaves no entry.    *)
THEOREM LockKeepsOut == CacheLockSpec => []LockExcludes
<1>1. LockIInv => LockExcludes
  <2> SUFFICES ASSUME LockIInv, NEW v \in Inside, NEW w \in Inside, v # w,
                      ~stolen, ~(moment >= within[v]), ~(moment >= within[w])
               PROVE FALSE
    BY DEF LockIInv, LockExcludes, LastLeavesNothing
  <2>1. Unexpired(v) /\ Unexpired(w) /\ v \in Workers /\ w \in Workers
    BY DEF LockIInv, CacheLockTypeOK, Inside, Unexpired
  <2> QED
    BY <2>1 DEF LockIInv, HoldsEntry
<1> QED
  BY <1>1, LockInvariant, PTL

-----------------------------------------------------------------------------
(* Refreshing                                                              *)

Suspended == [pc : {"decide", "fetch"}, key : Keys, age : Ages]
Replies == [key : Keys, stale : BOOLEAN]

\* Every slot that is counted is one of a refresh under way, or lost.
SlotsCounted == IsFiniteSet(pending) /\ concurrent = Cardinality(pending) + leaks

RefreshingIInv ==
  /\ RefreshingTypeOK /\ DOMAIN resolver = Resolvers
  /\ SlotsCounted /\ StaleMeansRefreshing

LEMMA RefreshingStarts == RefreshingInit => RefreshingIInv
<1> SUFFICES ASSUME RefreshingInit PROVE RefreshingIInv
  OBVIOUS
<1> USE RefreshingConstantsOK DEF RefreshingInit
<1>1. IsFiniteSet(pending) /\ Cardinality(pending) = 0
  BY FS_EmptySet
<1>2. SlotsCounted /\ StaleMeansRefreshing
  BY <1>1 DEF SlotsCounted, StaleMeansRefreshing
<1>3. aged \in [Keys -> Ages] /\ DOMAIN resolver = Resolvers
  BY DEF Ages
<1>4. \A r \in Resolvers : resolver[r] = NoResolve
  OBVIOUS
<1>5. pending \subseteq Keys /\ Cardinality(pending) <= MaxConcurrent
  BY <1>1
<1>6. concurrent \in 0 .. MaxConcurrent /\ leaks \in 0 .. MaxLeaks
  OBVIOUS
<1>7. RefreshingTypeOK
  BY <1>3, <1>4, <1>5, <1>6 DEF RefreshingTypeOK
<1> QED
  BY <1>2, <1>3, <1>7 DEF RefreshingIInv

\* A step that leaves the counter, the refreshes and the leaks alone and
\* gives no stale answer.
LEMMA NothingRefreshed ==
  ASSUME RefreshingIInv, UNCHANGED <<pending, concurrent, leaks>>,
         aged' \in [Keys -> Ages], DOMAIN resolver' = Resolvers,
         \A r \in Resolvers : resolver'[r] = NoResolve \/ resolver'[r] \in Suspended,
         reply' = NoResolve \/ (reply' \in Replies /\ reply'.stale = FALSE)
  PROVE  RefreshingIInv'
<1>1. RefreshingTypeOK'
  BY DEF RefreshingIInv, RefreshingTypeOK, Suspended, Replies
<1>2. SlotsCounted' /\ StaleMeansRefreshing'
  BY DEF RefreshingIInv, SlotsCounted, StaleMeansRefreshing
<1> QED
  BY <1>1, <1>2 DEF RefreshingIInv

LEMMA StaleAnswered ==
  ASSUME RefreshingIInv, NEW r \in Resolvers, AnswerStale(r)
  PROVE  RefreshingIInv'
<1> USE RefreshingConstantsOK DEF RefreshingIInv, SlotsCounted
<1> DEFINE k == resolver[r].key
           refused == k \in pending \/ concurrent >= MaxConcurrent
<1>1. /\ resolver[r] # NoResolve /\ resolver[r] \in Suspended /\ k \in Keys
      /\ resolver' = [resolver EXCEPT ![r] = NoResolve] /\ aged' = aged
  BY DEF AnswerStale, Waits, Finish, RefreshingTypeOK, Suspended
<1>2. /\ DOMAIN resolver' = Resolvers
      /\ \A q \in Resolvers : resolver'[q] = NoResolve \/ resolver'[q] \in Suspended
  BY <1>1 DEF RefreshingTypeOK, Suspended
<1>3. /\ Cardinality(pending) \in Nat
      /\ IsFiniteSet(pending \cup {k})
      /\ k \notin pending => Cardinality(pending \cup {k}) = Cardinality(pending) + 1
  BY FS_CardinalityType, FS_AddElement
<1>4. CASE refused /\ UNCHANGED <<pending, concurrent, leaks>> /\ reply' = [key |-> k, stale |-> TRUE]
  <2>1. reply'.key = k /\ reply' \in Replies
    BY <1>1, <1>4 DEF Replies
  <2>2. RefreshingTypeOK'
    BY <1>1, <1>2, <1>4, <2>1 DEF RefreshingTypeOK, Suspended, Replies
  <2>3. StaleMeansRefreshing'
    BY <1>3, <1>4, <2>1 DEF StaleMeansRefreshing
  <2> QED
    BY <1>2, <1>4, <2>2, <2>3
<1>5. CASE /\ ~refused /\ concurrent' = concurrent + 1 /\ pending' = pending \cup {k}
           /\ reply' = [key |-> k, stale |-> TRUE] /\ UNCHANGED leaks
  <2>1. reply'.key = k /\ reply' \in Replies
    BY <1>1, <1>5 DEF Replies
  <2>2. SlotsCounted' /\ StaleMeansRefreshing'
    BY <1>3, <1>5, <2>1 DEF StaleMeansRefreshing, RefreshingTypeOK
  <2>3. concurrent' \in 0 .. MaxConcurrent /\ Cardinality(pending') <= MaxConcurrent
    BY <1>3, <1>5 DEF RefreshingTypeOK
  <2>4. RefreshingTypeOK'
    BY <1>1, <1>2, <1>5, <2>1, <2>3 DEF RefreshingTypeOK, Suspended, Replies
  <2> QED
    BY <1>2, <2>2, <2>4
<1>6. CASE /\ ~refused /\ leaks < MaxLeaks /\ concurrent' = concurrent + 1 /\ leaks' = leaks + 1
           /\ reply' = NoResolve /\ UNCHANGED pending
  <2>1. SlotsCounted' /\ StaleMeansRefreshing'
    BY <1>3, <1>6 DEF StaleMeansRefreshing, RefreshingTypeOK
  <2>2. concurrent' \in 0 .. MaxConcurrent /\ leaks' \in 0 .. MaxLeaks
    BY <1>6 DEF RefreshingTypeOK
  <2>3. RefreshingTypeOK'
    BY <1>1, <1>2, <1>6, <2>2 DEF RefreshingTypeOK, Suspended
  <2> QED
    BY <1>2, <2>1, <2>3
<1> QED
  BY <1>4, <1>5, <1>6 DEF AnswerStale

LEMMA RefreshSettled ==
  ASSUME RefreshingIInv, NEW k \in Keys, RefreshSettles(k)
  PROVE  RefreshingIInv'
<1> USE RefreshingConstantsOK DEF RefreshingIInv, SlotsCounted, RefreshSettles
<1>1. /\ Cardinality(pending) \in Nat /\ IsFiniteSet(pending')
      /\ Cardinality(pending') = Cardinality(pending) - 1 /\ Cardinality(pending') \in Nat
  BY FS_CardinalityType, FS_RemoveElement
<1>2. SlotsCounted' /\ StaleMeansRefreshing'
  BY <1>1 DEF StaleMeansRefreshing, RefreshingTypeOK
<1>3. concurrent' \in 0 .. MaxConcurrent /\ Cardinality(pending') <= MaxConcurrent
  BY <1>1 DEF RefreshingTypeOK
<1>4. RefreshingTypeOK'
  BY <1>3 DEF RefreshingTypeOK
<1> QED
  BY <1>2, <1>4

LEMMA RefreshingRestarts ==
  ASSUME RefreshingIInv, NEW k \in Keys, RejectionUnhandled(k)
  PROVE  RefreshingIInv'
<1> USE RefreshingConstantsOK DEF RejectionUnhandled
<1>1. IsFiniteSet(pending') /\ Cardinality(pending') = 0
  BY FS_EmptySet
<1>2. SlotsCounted' /\ StaleMeansRefreshing'
  BY <1>1 DEF SlotsCounted, StaleMeansRefreshing
<1>3. aged' \in [Keys -> Ages] /\ DOMAIN resolver' = Resolvers
  BY DEF Ages
<1>4. \A r \in Resolvers : resolver'[r] = NoResolve
  OBVIOUS
<1>5. pending' \subseteq Keys /\ Cardinality(pending') <= MaxConcurrent
  BY <1>1
<1>6. concurrent' \in 0 .. MaxConcurrent /\ leaks' \in 0 .. MaxLeaks
  OBVIOUS
<1>7. reply' = NoResolve
  OBVIOUS
<1>8. RefreshingTypeOK'
  BY <1>3, <1>4, <1>5, <1>6, <1>7 DEF RefreshingTypeOK
<1> QED
  BY <1>2, <1>3, <1>8 DEF RefreshingIInv

LEMMA RefreshingSteps == RefreshingIInv /\ [RefreshingNext]_refreshingVars => RefreshingIInv'
<1> SUFFICES ASSUME RefreshingIInv, [RefreshingNext]_refreshingVars PROVE RefreshingIInv'
  OBVIOUS
<1> USE DEF Suspended
<1>0. /\ DOMAIN resolver = Resolvers /\ aged \in [Keys -> Ages]
      /\ \A r \in Resolvers : resolver[r] = NoResolve \/ resolver[r] \in Suspended
  BY DEF RefreshingIInv, RefreshingTypeOK
<1>1. ASSUME NEW r \in Resolvers, NEW k \in Keys, GetCached(r, k) PROVE RefreshingIInv'
  <2>1. [pc |-> "decide", key |-> k, age |-> aged[k]] \in Suspended
    BY <1>0
  <2>2. /\ DOMAIN resolver' = Resolvers
        /\ \A q \in Resolvers : resolver'[q] = NoResolve \/ resolver'[q] \in Suspended
    BY <1>0, <1>1, <2>1 DEF GetCached
  <2> QED
    BY <1>0, <1>1, <2>2, NothingRefreshed DEF GetCached
<1>2. ASSUME NEW r \in Resolvers, AnswerFresh(r) PROVE RefreshingIInv'
  <2>1. reply' \in Replies /\ reply'.stale = FALSE
    BY <1>0, <1>2 DEF AnswerFresh, Waits, Replies
  <2>2. /\ DOMAIN resolver' = Resolvers
        /\ \A q \in Resolvers : resolver'[q] = NoResolve \/ resolver'[q] \in Suspended
    BY <1>0, <1>2 DEF AnswerFresh, Finish
  <2> QED
    BY <1>0, <1>2, <2>1, <2>2, NothingRefreshed DEF AnswerFresh
<1>3. ASSUME NEW r \in Resolvers, FetchItself(r) PROVE RefreshingIInv'
  <2>1. [resolver[r] EXCEPT !.pc = "fetch"] \in Suspended
    BY <1>0, <1>3 DEF FetchItself, Waits
  <2>2. /\ DOMAIN resolver' = Resolvers
        /\ \A q \in Resolvers : resolver'[q] = NoResolve \/ resolver'[q] \in Suspended
    BY <1>0, <1>3, <2>1 DEF FetchItself
  <2> QED
    BY <1>0, <1>3, <2>2, NothingRefreshed DEF FetchItself
<1>4. ASSUME NEW r \in Resolvers, FetchSettles(r) PROVE RefreshingIInv'
  <2>1. reply' = NoResolve \/ (reply' \in Replies /\ reply'.stale = FALSE)
    <3>1. resolver[r].key \in Keys
      BY <1>0, <1>4 DEF FetchSettles, Waits
    <3>2. reply' = NoResolve \/ reply' = [key |-> resolver[r].key, stale |-> FALSE]
      BY <1>4 DEF FetchSettles
    <3>3. CASE reply' = [key |-> resolver[r].key, stale |-> FALSE]
      BY <3>1, <3>3 DEF Replies
    <3> QED
      BY <3>2, <3>3
  <2>2. /\ DOMAIN resolver' = Resolvers
        /\ \A q \in Resolvers : resolver'[q] = NoResolve \/ resolver'[q] \in Suspended
    BY <1>0, <1>4 DEF FetchSettles, Finish
  <2> QED
    BY <1>0, <1>4, <2>1, <2>2, NothingRefreshed DEF FetchSettles
<1>5. ASSUME NEW k \in Keys, CacheChanges(k) PROVE RefreshingIInv'
  <2>1. aged' \in [Keys -> Ages]
    BY <1>0, <1>5 DEF CacheChanges
  <2> QED
    BY <1>0, <1>5, <2>1, NothingRefreshed DEF CacheChanges
<1>6. CASE UNCHANGED refreshingVars
  <2>1. RefreshingTypeOK' /\ DOMAIN resolver' = Resolvers
    BY <1>6 DEF refreshingVars, RefreshingIInv, RefreshingTypeOK
  <2>2. SlotsCounted' /\ StaleMeansRefreshing'
    BY <1>6 DEF refreshingVars, RefreshingIInv, SlotsCounted, StaleMeansRefreshing
  <2> QED
    BY <2>1, <2>2 DEF RefreshingIInv
<1> QED
  BY <1>1, <1>2, <1>3, <1>4, <1>5, <1>6, StaleAnswered, RefreshSettled, RefreshingRestarts
  DEF RefreshingNext

LEMMA RefreshingInvariant == RefreshingSpec => []RefreshingIInv
BY RefreshingStarts, RefreshingSteps, PTL DEF RefreshingSpec

(* BackgroundRefresher keeps its types, for any keys and resolve calls; in *)
(* particular its counter stays within maxConcurrent.                      *)
THEOREM RefreshingTypeCorrect == RefreshingSpec => []RefreshingTypeOK
<1>1. RefreshingIInv => RefreshingTypeOK
  BY DEF RefreshingIInv
<1> QED
  BY <1>1, RefreshingInvariant, PTL

(* A stale answer comes with a refresh of its key on the way or with all   *)
(* slots taken, by refreshes under way or by fetch functions that threw,   *)
(* for any keys, calls and limit.                                          *)
THEOREM StaleIsRefreshed == RefreshingSpec => []StaleMeansRefreshing
<1>1. RefreshingIInv => StaleMeansRefreshing
  BY DEF RefreshingIInv
<1> QED
  BY <1>1, RefreshingInvariant, PTL

-----------------------------------------------------------------------------
(* LazyPool                                                                *)

Trips == [pc : {"notSent", "loading", "sent", "answered", "refused"},
          on : 0 .. Cardinality(Statements)]

\* Statements that will not open a pool any more: each may have opened one.
Past == {s \in Statements : trip[s].pc \in {"sent", "answered", "refused"}}

\* Pools are numbered in the order they are opened in, and the one in use is
\* one of them.
PoolsNumbered ==
  /\ opened = 1 .. Cardinality(opened) /\ Cardinality(opened) <= Cardinality(Past)
  /\ pool \in opened \cup {0}

\* Without hurry one statement at most waits for the import, and it found no
\* pool.
LoadsFirst ==
  ~hurried => \A s, t \in Statements :
                trip[s].pc = "loading" => pool = 0 /\ (trip[t].pc = "loading" => s = t)

PoolIInv ==
  /\ LazyPoolTypeOK /\ PoolsNumbered /\ LoadsFirst
  /\ installed => ~broken
  /\ PoolReachable

LEMMA PastFinite ==
  ASSUME PoolIInv
  PROVE  /\ Cardinality(Statements) \in Nat /\ IsFiniteSet(Past)
         /\ Cardinality(Past) \in Nat /\ Cardinality(Past) <= Cardinality(Statements)
         /\ IsFiniteSet(opened) /\ Cardinality(opened) \in Nat
<1>1. Past \in SUBSET Statements
  BY DEF Past
<1>2. opened \in SUBSET (1 .. Cardinality(Statements))
  BY DEF PoolIInv, LazyPoolTypeOK
<1>3. Cardinality(Statements) \in Nat
  BY LazyPoolOK, FS_CardinalityType
<1>4. IsFiniteSet(Past) /\ Cardinality(Past) <= Cardinality(Statements)
  BY <1>1, LazyPoolOK, FS_Subset
<1>5. IsFiniteSet(opened)
  <2>1. IsFiniteSet(1 .. Cardinality(Statements))
    BY <1>3, FS_Interval
  <2> QED
    BY <1>2, <2>1, FS_Subset
<1> QED
  BY <1>3, <1>4, <1>5, FS_CardinalityType

LEMMA PoolStarts == LazyPoolInit => PoolIInv
<1> SUFFICES ASSUME LazyPoolInit PROVE PoolIInv
  OBVIOUS
<1> USE DEF LazyPoolInit
<1>1. Cardinality(Statements) \in Nat
  BY LazyPoolOK, FS_CardinalityType
<1>2. Cardinality({}) = 0
  BY FS_EmptySet
<1>3. \A s \in Statements : trip[s] = NotSent
  OBVIOUS
<1>4. Past = {}
  BY <1>3 DEF Past, NotSent
<1>5. PoolsNumbered
  BY <1>2, <1>4 DEF PoolsNumbered
<1>6. LoadsFirst /\ PoolReachable
  BY <1>3 DEF LoadsFirst, PoolReachable, NotSent
<1>7. NotSent \in Trips
  BY <1>1 DEF NotSent, Trips
<1>8. trip \in [Statements -> Trips]
  BY <1>7
<1>9. installed \in BOOLEAN /\ broken \in BOOLEAN /\ hurried \in BOOLEAN
  OBVIOUS
<1>10. /\ pool \in 0 .. Cardinality(Statements)
       /\ opened \subseteq 1 .. Cardinality(Statements) /\ ended \subseteq opened
  BY <1>1
<1> QED
  BY <1>5, <1>6, <1>8, <1>9, <1>10 DEF PoolIInv, LazyPoolTypeOK, Trips

\* The statements that are past at least stay so.
LEMMA PastGrows ==
  ASSUME PoolIInv, \A s \in Statements : s \in Past => s \in Past', UNCHANGED opened
  PROVE  Cardinality(opened') <= Cardinality(Past')
<1>1. IsFiniteSet(Past') /\ Past \in SUBSET Past'
  <2>1. Past' \in SUBSET Statements
    BY DEF Past
  <2> QED
    BY <2>1, LazyPoolOK, FS_Subset DEF Past
<1>2. Cardinality(Past) <= Cardinality(Past') /\ Cardinality(Past') \in Nat
  BY <1>1, FS_Subset, FS_CardinalityType
<1> QED
  BY <1>2, PastFinite DEF PoolIInv, PoolsNumbered

LEMMA UseKeeps == ASSUME PoolIInv, NEW s \in Statements, Use(s) PROVE PoolIInv'
<1> USE DEF PoolIInv
<1> DEFINE next == [pc |-> IF broken THEN "refused" ELSE IF pool = 0 THEN "loading" ELSE "sent",
                    on |-> pool]
<1>1. /\ trip[s].pc = "notSent" /\ trip' = [trip EXCEPT ![s] = next]
      /\ hurried' = (hurried \/ (~broken /\ pool = 0 /\ OnItsWay))
      /\ UNCHANGED <<installed, pool, broken, opened, ended>>
  BY DEF Use
<1>2. trip \in [Statements -> Trips] /\ next \in Trips
  BY PastFinite DEF LazyPoolTypeOK, Trips
<1>3. trip'[s] = next /\ \A t \in Statements : t # s => trip'[t] = trip[t]
  BY <1>1, <1>2
<1>4. LazyPoolTypeOK'
  <2>1. trip' \in [Statements -> Trips]
    BY <1>1, <1>2
  <2>2. hurried' \in BOOLEAN
    BY <1>1 DEF LazyPoolTypeOK
  <2> QED
    BY <1>1, <2>1, <2>2 DEF LazyPoolTypeOK, Trips
<1>5. PoolsNumbered'
  <2>1. \A t \in Statements : t \in Past => t \in Past'
    BY <1>1, <1>3 DEF Past
  <2> QED
    BY <1>1, <2>1, PastGrows DEF PoolsNumbered
<1>6. LoadsFirst'
  <2> SUFFICES ASSUME ~hurried', NEW q \in Statements, NEW t \in Statements, trip'[q].pc = "loading"
               PROVE  pool = 0 /\ (trip'[t].pc = "loading" => q = t)
    BY <1>1 DEF LoadsFirst
  <2>1. ~hurried /\ (~broken /\ pool = 0 => ~OnItsWay)
    BY <1>1
  <2>2. CASE q = s
    BY <1>3, <2>1, <2>2 DEF OnItsWay
  <2>3. CASE q # s
    <3>1. trip[q].pc = "loading" /\ pool = 0
      BY <1>3, <2>1, <2>3 DEF LoadsFirst
    <3> QED
      BY <1>3, <2>1, <3>1 DEF LoadsFirst, OnItsWay
  <2> QED
    BY <2>2, <2>3
<1>7. PoolReachable'
  <2>1. ASSUME installed, NEW t \in Statements, trip'[t].pc = "refused" PROVE trip[t].pc = "refused"
    BY <1>3, <2>1
  <2>2. hurried => hurried'
    BY <1>1
  <2> QED
    BY <1>1, <2>1, <2>2 DEF PoolReachable
<1> QED
  BY <1>1, <1>4, <1>5, <1>6, <1>7

LEMMA LoadedKeeps == ASSUME PoolIInv, NEW s \in Statements, Loaded(s) PROVE PoolIInv'
<1> USE DEF PoolIInv
<1> DEFINE new == Cardinality(opened) + 1
<1>0. trip[s].pc = "loading" /\ UNCHANGED <<installed, ended, hurried>>
  BY DEF Loaded
<1>1. /\ trip \in [Statements -> Trips] /\ s \notin Past
      /\ Cardinality(Past \cup {s}) = Cardinality(Past) + 1
      /\ Cardinality(Past \cup {s}) <= Cardinality(Statements)
  <2>1. trip \in [Statements -> Trips] /\ s \notin Past
    BY <1>0 DEF LazyPoolTypeOK, Trips, Past
  <2>2. Past \cup {s} \in SUBSET Statements
    BY DEF Past
  <2> QED
    BY <2>1, <2>2, PastFinite, LazyPoolOK, FS_AddElement, FS_Subset
<1>2. new \in 1 .. Cardinality(Statements) /\ new <= Cardinality(Past) + 1
  BY <1>1, PastFinite DEF PoolsNumbered
<1>3. CASE installed
  <2>1. /\ opened' = opened \cup {new} /\ pool' = new /\ broken' = broken
        /\ trip' = [trip EXCEPT ![s] = [pc |-> "sent", on |-> new]]
    BY <1>3 DEF Loaded
  <2>2. [pc |-> "sent", on |-> new] \in Trips
    BY <1>2, PastFinite DEF Trips
  <2>3. /\ trip' \in [Statements -> Trips] /\ trip'[s] = [pc |-> "sent", on |-> new]
        /\ \A t \in Statements : t # s => trip'[t] = trip[t]
    BY <1>1, <2>1, <2>2
  <2>4. LazyPoolTypeOK'
    BY <1>0, <1>2, <2>1, <2>3, PastFinite DEF LazyPoolTypeOK, Trips
  <2>5. Past' = Past \cup {s}
    BY <2>3 DEF Past
  <2>6. opened' = 1 .. new /\ Cardinality(opened') = new
    <3>1. opened = 1 .. new - 1
      BY PastFinite DEF PoolsNumbered
    <3>2. opened \cup {new} = 1 .. new
      BY <1>2, <3>1
    <3>3. new \notin opened
      BY <1>2, <3>1
    <3> QED
      BY <2>1, <3>2, <3>3, PastFinite, FS_AddElement
  <2>7. PoolsNumbered'
    BY <1>1, <1>2, <2>1, <2>5, <2>6 DEF PoolsNumbered
  <2>8. LoadsFirst'
    <3>1. \A q \in Statements : ~hurried => trip'[q].pc # "loading"
      BY <1>0, <2>3 DEF LoadsFirst
    <3> QED
      BY <1>0, <3>1 DEF LoadsFirst
  <2>9. PoolReachable'
    <3>1. ~hurried => opened = {}
      BY <1>0, <1>2 DEF LoadsFirst, PoolReachable, PoolsNumbered, LazyPoolTypeOK
    <3> QED
      BY <1>0, <2>1, <2>3, <3>1 DEF PoolReachable
  <2> QED
    BY <1>0, <1>3, <2>1, <2>4, <2>7, <2>8, <2>9
<1>4. CASE ~installed
  <2>1. /\ broken' = TRUE /\ trip' = [trip EXCEPT ![s].pc = "refused"]
        /\ UNCHANGED <<opened, pool>>
    BY <1>4 DEF Loaded
  <2>2. [trip[s] EXCEPT !.pc = "refused"] \in Trips
    BY <1>1 DEF Trips
  <2>3. /\ trip' \in [Statements -> Trips] /\ trip'[s].pc = "refused"
        /\ \A t \in Statements : t # s => trip'[t] = trip[t]
    BY <1>1, <2>1, <2>2 DEF Trips
  <2>4. LazyPoolTypeOK'
    BY <1>0, <2>1, <2>3 DEF LazyPoolTypeOK, Trips
  <2>5. \A t \in Statements : t \in Past => t \in Past'
    BY <2>3 DEF Past
  <2>6. PoolsNumbered'
    BY <2>1, <2>5, PastGrows DEF PoolsNumbered
  <2>7. LoadsFirst'
    BY <1>0, <2>1, <2>3 DEF LoadsFirst
  <2>8. PoolReachable'
    BY <1>0, <1>4, <2>1 DEF PoolReachable
  <2> QED
    BY <1>0, <1>4, <2>4, <2>6, <2>7, <2>8
<1> QED
  BY <1>3, <1>4 DEF LazyPoolTypeOK

LEMMA RunsOnKeeps == ASSUME PoolIInv, NEW s \in Statements, RunsOn(s) PROVE PoolIInv'
<1> USE DEF PoolIInv
<1> DEFINE end == IF trip[s].on \in ended THEN "refused" ELSE "answered"
<1>1. /\ trip[s].pc = "sent" /\ trip' = [trip EXCEPT ![s].pc = end]
      /\ UNCHANGED <<installed, pool, broken, opened, ended, hurried>>
  BY DEF RunsOn
<1>2. trip \in [Statements -> Trips] /\ [trip[s] EXCEPT !.pc = end] \in Trips
  BY DEF LazyPoolTypeOK, Trips
<1>3. /\ trip' \in [Statements -> Trips] /\ trip'[s].pc = end
      /\ \A t \in Statements : t # s => trip'[t] = trip[t]
  BY <1>1, <1>2 DEF Trips
<1>4. LazyPoolTypeOK'
  BY <1>1, <1>3 DEF LazyPoolTypeOK, Trips
<1>5. PoolsNumbered'
  <2>1. \A t \in Statements : t \in Past => t \in Past'
    BY <1>3 DEF Past
  <2> QED
    BY <1>1, <2>1, PastGrows DEF PoolsNumbered
<1>6. LoadsFirst' /\ PoolReachable'
  BY <1>1, <1>3 DEF LoadsFirst, PoolReachable
<1> QED
  BY <1>1, <1>4, <1>5, <1>6

LEMMA CloseKeeps == ASSUME PoolIInv, Close PROVE PoolIInv'
<1> USE DEF PoolIInv, Close
<1>1. LazyPoolTypeOK'
  <2>1. ended' \subseteq opened
    BY DEF LazyPoolTypeOK, PoolsNumbered
  <2>2. hurried' \in BOOLEAN
    BY DEF LazyPoolTypeOK
  <2> QED
    BY <2>1, <2>2 DEF LazyPoolTypeOK
<1>2. PoolsNumbered'
  BY DEF PoolsNumbered, Past
<1>3. LoadsFirst' /\ PoolReachable'
  BY DEF LoadsFirst, PoolReachable
<1> QED
  BY <1>1, <1>2, <1>3

LEMMA PoolStep == PoolIInv /\ [LazyPoolNext]_poolVars => PoolIInv'
<1> SUFFICES ASSUME PoolIInv, [LazyPoolNext]_poolVars PROVE PoolIInv'
  OBVIOUS
<1>1. CASE UNCHANGED poolVars
  BY <1>1 DEF poolVars, PoolIInv, LazyPoolTypeOK, PoolsNumbered, Past, LoadsFirst, PoolReachable
<1> QED
  BY <1>1, UseKeeps, LoadedKeeps, RunsOnKeeps, CloseKeeps DEF LazyPoolNext

LEMMA PoolInvariant == LazyPoolSpec => []PoolIInv
BY PoolStarts, PoolStep, PTL DEF LazyPoolSpec

(* MysqlDriver opens no more pools than it is sent statements, and ends    *)
(* only pools that it opened, for any finite number of statements.         *)
THEOREM LazyPoolTypeCorrect == LazyPoolSpec => []LazyPoolTypeOK
<1>1. PoolIInv => LazyPoolTypeOK
  BY DEF PoolIInv
<1> QED
  BY <1>1, PoolInvariant, PTL

(* close() reaches the one pool there is, unless a statement or a close()  *)
(* came while the first statement was waiting for the import; and only a   *)
(* close() keeps statements from their answers when mysql2 is there, for   *)
(* any statements.                                                         *)
THEOREM OnePoolReached == LazyPoolSpec => []PoolReachable
<1>1. PoolIInv => PoolReachable
  BY DEF PoolIInv
<1> QED
  BY <1>1, PoolInvariant, PTL

-----------------------------------------------------------------------------
(* SqliteDriver: transactions over its one connection are durable as a     *)
(* whole or not at all, for any clients, statements and savepoints.        *)

(* One function runs in a transaction at a time, and the connection is in  *)
(* one exactly then: BEGIN fails for everybody else.                       *)
OneInside ==
  /\ open <=> inside # {}
  /\ \A c, d \in inside : c = d
  /\ ~open => staged = {} /\ savepoints = << >>

(* What is staged was written by the function that is running or by        *)
(* queries beside it, and by no earlier transaction.                       *)
Staging ==
  /\ staged \cap durable = {}
  /\ \A c \in inside : outcome[c] = "none" /\ made[c] \subseteq staged
  /\ \A c \in Clients : c \notin inside => made[c] \cap staged = {}

(* Savepoints nest: each has the writes of the earlier ones.               *)
Nested ==
  /\ \A i \in 1 .. Len(savepoints) : savepoints[i] \subseteq staged
  /\ \A i, j \in 1 .. Len(savepoints) : i <= j => savepoints[i] \subseteq savepoints[j]

Orderly == OneInside /\ Staging /\ Nested
SqliteIInv == SqliteTypeOK /\ (~byHand => Orderly) /\ SqliteAllOrNothing

SetsOK ==
  /\ durable \subseteq Writes /\ staged \subseteq Writes
  /\ {open, byHand} \subseteq BOOLEAN
  /\ inside \subseteq Clients
  /\ outcome \in [Clients -> {"none", "committed", "threw"}]
  /\ made \in [Clients -> SUBSET Writes] /\ amid \in [Clients -> SUBSET Writes]
StackOK == savepoints \in Seq(SUBSET Writes) /\ Len(savepoints) <= MaxSavepoints

-----------------------------------------------------------------------------
(* The stack of savepoints.                                                *)

LEMMA StackEmpty == << >> \in Seq(SUBSET Writes) /\ Len(<< >>) = 0
BY EmptySeq

LEMMA StackPushed ==
  ASSUME StackOK, NEW set \in SUBSET Writes
  PROVE  /\ Append(savepoints, set) \in Seq(SUBSET Writes)
         /\ Len(Append(savepoints, set)) = Len(savepoints) + 1 /\ Len(savepoints) \in Nat
         /\ \A i \in 1 .. Len(savepoints) : Append(savepoints, set)[i] = savepoints[i]
         /\ Append(savepoints, set)[Len(savepoints) + 1] = set
BY AppendProperties, LenProperties DEF StackOK

LEMMA StackTop ==
  ASSUME StackOK, savepoints # << >>
  PROVE  Len(savepoints) \in 1 .. Len(savepoints) /\ Last(savepoints) = savepoints[Len(savepoints)]
         /\ Last(savepoints) \in SUBSET Writes
<1>1. Len(savepoints) \in Nat \ {0}
  BY EmptySeq DEF StackOK
<1> QED
  BY <1>1, ElementOfSeq DEF StackOK, Last

LEMMA StackPopped ==
  ASSUME StackOK, savepoints # << >>
  PROVE  /\ Front(savepoints) \in Seq(SUBSET Writes)
         /\ Len(Front(savepoints)) = Len(savepoints) - 1 /\ Len(savepoints) \in Nat \ {0}
         /\ \A i \in 1 .. Len(savepoints) - 1 : Front(savepoints)[i] = savepoints[i]
<1> DEFINE n == Len(savepoints)
<1>1. n \in Nat \ {0} /\ 1 \in Int /\ n - 1 \in Int
  BY EmptySeq DEF StackOK
<1>2. \A i \in 1 .. n - 1 : savepoints[i] \in SUBSET Writes
  BY <1>1, ElementOfSeq DEF StackOK
<1> HIDE DEF n
<1>3. /\ SubSeq(savepoints, 1, n - 1) \in Seq(SUBSET Writes)
      /\ Len(SubSeq(savepoints, 1, n - 1)) = (IF 1 <= n - 1 THEN n - 1 - 1 + 1 ELSE 0)
      /\ \A i \in 1 .. n - 1 - 1 + 1 : SubSeq(savepoints, 1, n - 1)[i] = savepoints[1 + i - 1]
  BY <1>1, <1>2, SubSeqProperties
<1>4. Len(SubSeq(savepoints, 1, n - 1)) = n - 1
  BY <1>1, <1>3
<1>5. \A i \in 1 .. n - 1 : SubSeq(savepoints, 1, n - 1)[i] = savepoints[i]
  <2> SUFFICES ASSUME NEW i \in 1 .. n - 1 PROVE SubSeq(savepoints, 1, n - 1)[i] = savepoints[i]
    OBVIOUS
  <2>1. i \in 1 .. n - 1 - 1 + 1 /\ 1 + i - 1 = i
    BY <1>1
  <2> QED
    BY <1>3, <2>1
<1> QED
  BY <1>1, <1>3, <1>4, <1>5 DEF Front, n

-----------------------------------------------------------------------------
LEMMA SqliteTypes == SqliteTypeOK <=> SetsOK /\ StackOK
BY DEF SqliteTypeOK, SetsOK, StackOK

LEMMA SqliteStarts == SqliteInit => SqliteIInv
<1> SUFFICES ASSUME SqliteInit PROVE SqliteIInv
  OBVIOUS
<1> USE DEF SqliteInit
<1>1. SetsOK
  BY DEF SetsOK
<1>2. StackOK
  BY StackEmpty, SqliteConstantsOK DEF StackOK
<1>3. Orderly
  BY StackEmpty DEF Orderly, OneInside, Staging, Nested
<1>4. SqliteAllOrNothing
  BY DEF SqliteAllOrNothing
<1> QED
  BY <1>1, <1>2, <1>3, <1>4, SqliteTypes DEF SqliteIInv

\* A statement that nobody has made before, in a transaction or not; made is
\* changed, if at all, for the client whose function makes it.
LEMMA StatementKeeps ==
  ASSUME SqliteIInv, NEW w \in Writes, Fresh(w), Execute(w),
         \/ UNCHANGED made
         \/ \E c \in inside : made' = [made EXCEPT ![c] = @ \cup {w}]
  PROVE  SqliteIInv'
<1>0. /\ SetsOK /\ StackOK /\ SqliteAllOrNothing /\ (~byHand => Orderly)
      /\ UNCHANGED <<open, savepoints, inside, outcome, amid, byHand>>
  BY SqliteTypes DEF SqliteIInv, Execute
<1>1. /\ durable' = IF open THEN durable ELSE durable \cup {w}
      /\ staged'  = IF open THEN staged \cup {w} ELSE staged
      /\ w \notin durable /\ w \notin staged
      /\ \A c \in Clients : w \notin made[c]
  BY DEF Execute, Fresh
<1>2. /\ made' \in [Clients -> SUBSET Writes]
      /\ \A c \in Clients : made'[c] = made[c] \/ (c \in inside /\ made'[c] = made[c] \cup {w})
  BY <1>0 DEF SetsOK
<1>3. SetsOK' /\ StackOK'
  BY <1>0, <1>1, <1>2 DEF SetsOK, StackOK
<1>4. ASSUME ~byHand PROVE Orderly'
  <2>1. OneInside'
    BY <1>0, <1>1, <1>4 DEF Orderly, OneInside
  <2>2. Staging'
    BY <1>0, <1>1, <1>2, <1>4 DEF Orderly, OneInside, Staging, SetsOK
  <2>3. Nested'
    BY <1>0, <1>1, <1>4 DEF Orderly, Nested
  <2> QED
    BY <2>1, <2>2, <2>3 DEF Orderly
<1>5. SqliteAllOrNothing'
  <2> SUFFICES ASSUME ~byHand, NEW c \in Clients
               PROVE  /\ outcome[c] = "committed" => made'[c] \subseteq amid[c] /\ amid[c] \subseteq durable'
                      /\ outcome[c] # "committed" => made'[c] \cap durable' = {}
    BY <1>0 DEF SqliteAllOrNothing
  <2>1. /\ outcome[c] = "committed" => made[c] \subseteq amid[c] /\ amid[c] \subseteq durable
        /\ outcome[c] # "committed" => made[c] \cap durable = {}
    BY <1>0 DEF SqliteAllOrNothing
  <2>2. c \in inside => open /\ outcome[c] = "none"
    BY <1>0 DEF Orderly, OneInside, Staging
  <2> QED
    BY <1>1, <1>2, <2>1, <2>2
<1> QED
  BY <1>0, <1>3, <1>4, <1>5 DEF SqliteIInv, SqliteTypeOK, SetsOK, StackOK

LEMMA BeginKeeps == ASSUME SqliteIInv, NEW c \in Clients, Begin(c) PROVE SqliteIInv'
<1>0. /\ SetsOK /\ StackOK /\ SqliteAllOrNothing /\ (~byHand => Orderly)
      /\ c \notin inside /\ UNCHANGED <<durable, staged, savepoints, byHand>>
  BY SqliteTypes DEF SqliteIInv, Begin
<1>1. /\ made' = [made EXCEPT ![c] = {}] /\ amid' = [amid EXCEPT ![c] = {}]
      /\ \/ /\ open /\ outcome' = [outcome EXCEPT ![c] = "threw"]
            /\ open' = open /\ inside' = inside
         \/ /\ ~open /\ outcome' = [outcome EXCEPT ![c] = "none"]
            /\ open' = TRUE /\ inside' = inside \cup {c}
  BY DEF Begin
<1>2. /\ made'[c] = {} /\ outcome'[c] \in {"none", "threw"}
      /\ \A d \in Clients : d # c => made'[d] = made[d] /\ amid'[d] = amid[d] /\ outcome'[d] = outcome[d]
  BY <1>0, <1>1 DEF SetsOK
<1>3. SetsOK' /\ StackOK'
  BY <1>0, <1>1 DEF SetsOK, StackOK
<1>4. ASSUME ~byHand PROVE Orderly'
  <2>1. OneInside'
    BY <1>0, <1>1, <1>4 DEF Orderly, OneInside
  <2>2. Staging'
    BY <1>0, <1>1, <1>2, <1>4 DEF Orderly, OneInside, Staging, SetsOK
  <2>3. Nested'
    BY <1>0, <1>4 DEF Orderly, Nested
  <2> QED
    BY <2>1, <2>2, <2>3 DEF Orderly
<1>5. SqliteAllOrNothing'
  BY <1>0, <1>2 DEF SqliteAllOrNothing
<1> QED
  BY <1>0, <1>3, <1>4, <1>5 DEF SqliteIInv, SqliteTypeOK, SetsOK, StackOK

\* A function ends without a commit: its transaction is rolled back, or was
\* ended before.
LEMMA LeaveKeeps ==
  ASSUME SqliteIInv, NEW c \in inside, End(c, "threw"), UNCHANGED <<durable, made, amid, byHand>>,
         \/ staged' = {} /\ savepoints' = << >> /\ open' = FALSE
         \/ ~open /\ UNCHANGED <<open, staged, savepoints>>
  PROVE  SqliteIInv'
<1>0. /\ SetsOK /\ StackOK /\ SqliteAllOrNothing /\ (~byHand => Orderly)
      /\ inside' = inside \ {c} /\ outcome' = [outcome EXCEPT ![c] = "threw"]
  BY SqliteTypes DEF SqliteIInv, End
<1>1. /\ outcome'[c] = "threw" /\ \A d \in Clients : d # c => outcome'[d] = outcome[d]
      /\ c \in Clients
  BY <1>0 DEF SetsOK
<1>2. SetsOK' /\ StackOK'
  <2>1. open' \in BOOLEAN /\ byHand' \in BOOLEAN
    <3>1. open \in BOOLEAN /\ byHand \in BOOLEAN
      BY <1>0 DEF SetsOK
    <3>2. open' = FALSE \/ open' = open
      OBVIOUS
    <3> QED
      BY <3>1, <3>2
  <2>2. staged' \subseteq Writes /\ StackOK'
    <3>1. CASE UNCHANGED <<staged, savepoints>>
      BY <1>0, <3>1 DEF SetsOK, StackOK
    <3>2. CASE staged' = {} /\ savepoints' = << >>
      BY <3>2, StackEmpty, SqliteConstantsOK DEF StackOK
    <3> QED
      BY <3>1, <3>2
  <2> QED
    BY <1>0, <2>1, <2>2 DEF SetsOK
<1>3. ASSUME ~byHand PROVE Orderly'
  BY <1>0, <1>1, <1>3, StackEmpty DEF Orderly, OneInside, Staging, Nested, SetsOK
<1>4. SqliteAllOrNothing'
  <2> SUFFICES ASSUME ~byHand, NEW d \in Clients
               PROVE  /\ outcome'[d] = "committed" => made[d] \subseteq amid[d] /\ amid[d] \subseteq durable
                      /\ outcome'[d] # "committed" => made[d] \cap durable = {}
    BY DEF SqliteAllOrNothing
  <2>1. d = c => outcome[d] = "none"
    BY <1>0 DEF Orderly, Staging
  <2> QED
    BY <1>0, <1>1, <2>1 DEF SqliteAllOrNothing
<1> QED
  BY <1>0, <1>2, <1>3, <1>4 DEF SqliteIInv, SqliteTypeOK, SetsOK, StackOK

LEMMA ReturnKeeps == ASSUME SqliteIInv, NEW c \in Clients, FunctionReturns(c) PROVE SqliteIInv'
<1>0. /\ SetsOK /\ StackOK /\ SqliteAllOrNothing /\ (~byHand => Orderly)
      /\ c \in inside /\ UNCHANGED <<made, byHand>>
  BY SqliteTypes DEF SqliteIInv, FunctionReturns
<1>1. \A d \in Clients : d # c /\ ~byHand => d \notin inside
  BY <1>0 DEF Orderly, OneInside
<1>2. CASE open /\ Committed /\ End(c, "committed") /\ amid' = [amid EXCEPT ![c] = staged]
  <2>1. /\ durable' = durable \cup staged /\ staged' = {} /\ savepoints' = << >> /\ open' = FALSE
        /\ inside' = inside \ {c} /\ outcome' = [outcome EXCEPT ![c] = "committed"]
        /\ amid' = [amid EXCEPT ![c] = staged]
    BY <1>2 DEF Committed, End
  <2>2. /\ amid'[c] = staged /\ outcome'[c] = "committed"
        /\ \A d \in Clients : d # c => amid'[d] = amid[d] /\ outcome'[d] = outcome[d]
    BY <1>0, <2>1 DEF SetsOK
  <2>3. SetsOK' /\ StackOK'
    <3>1. open' \in BOOLEAN /\ byHand' \in BOOLEAN
      BY <1>0, <2>1 DEF SetsOK
    <3>2. StackOK'
      BY <2>1, StackEmpty, SqliteConstantsOK DEF StackOK
    <3> QED
      BY <1>0, <2>1, <3>1, <3>2 DEF SetsOK
  <2>4. ~byHand => Orderly'
    BY <1>0, <1>1, <2>1, StackEmpty DEF Orderly, OneInside, Staging, Nested, SetsOK
  <2>5. SqliteAllOrNothing'
    <3> SUFFICES ASSUME ~byHand, NEW d \in Clients
                 PROVE  /\ outcome'[d] = "committed" => made[d] \subseteq amid'[d] /\ amid'[d] \subseteq durable'
                        /\ outcome'[d] # "committed" => made[d] \cap durable' = {}
      BY <1>0 DEF SqliteAllOrNothing
    <3>1. CASE d = c
      BY <1>0, <2>1, <2>2, <3>1 DEF Orderly, Staging
    <3>2. CASE d # c
      <4>1. made[d] \cap staged = {}
        BY <1>0, <1>1, <3>2 DEF Orderly, Staging
      <4> QED
        BY <1>0, <2>1, <2>2, <3>2, <4>1 DEF SqliteAllOrNothing
    <3> QED
      BY <3>1, <3>2
  <2> QED
    BY <1>0, <2>3, <2>4, <2>5 DEF SqliteIInv, SqliteTypeOK, SetsOK, StackOK
<1>3. CASE open /\ RolledBack /\ End(c, "threw") /\ UNCHANGED amid
  BY <1>0, <1>3, LeaveKeeps DEF RolledBack
<1>4. CASE ~open /\ End(c, "threw") /\ UNCHANGED <<durable, open, staged, savepoints, amid>>
  BY <1>0, <1>4, LeaveKeeps
<1> QED
  BY <1>2, <1>3, <1>4 DEF FunctionReturns

LEMMA ThrowKeeps == ASSUME SqliteIInv, NEW c \in Clients, FunctionThrows(c) PROVE SqliteIInv'
<1>1. /\ c \in inside /\ End(c, "threw") /\ UNCHANGED <<durable, made, amid, byHand>>
      /\ \/ staged' = {} /\ savepoints' = << >> /\ open' = FALSE
         \/ ~open /\ UNCHANGED <<open, staged, savepoints>>
  BY DEF FunctionThrows, RolledBack
<1> QED
  BY <1>1, LeaveKeeps

LEMMA ByHandKeeps == ASSUME SqliteIInv, NEW c \in Clients, EndByHand(c) PROVE SqliteIInv'
<1>1. /\ staged' = {} /\ savepoints' = << >> /\ open' = FALSE /\ byHand' = TRUE
      /\ durable' = durable \cup staged \/ durable' = durable
      /\ UNCHANGED <<inside, outcome, made, amid>>
  BY DEF EndByHand, Committed, RolledBack
<1>2. SetsOK' /\ StackOK'
  <2>1. open' \in BOOLEAN /\ byHand' \in BOOLEAN
    BY <1>1
  <2>2. StackOK'
    BY <1>1, StackEmpty, SqliteConstantsOK DEF StackOK
  <2> QED
    BY <1>1, <2>1, <2>2, SqliteTypes DEF SqliteIInv, SetsOK
<1> QED
  BY <1>1, <1>2 DEF SqliteIInv, SqliteAllOrNothing, SqliteTypeOK, SetsOK, StackOK

LEMMA SavepointKeeps == ASSUME SqliteIInv, NEW c \in Clients, SetSavepoint(c) PROVE SqliteIInv'
<1>0. /\ SetsOK /\ StackOK /\ SqliteAllOrNothing /\ (~byHand => Orderly)
      /\ open /\ Len(savepoints) < MaxSavepoints /\ savepoints' = Append(savepoints, staged)
      /\ UNCHANGED <<durable, open, staged, inside, outcome, made, amid, byHand>>
  BY SqliteTypes DEF SqliteIInv, SetSavepoint
<1>1. /\ savepoints' \in Seq(SUBSET Writes) /\ Len(savepoints) \in Nat
      /\ Len(savepoints') = Len(savepoints) + 1
      /\ \A i \in 1 .. Len(savepoints) : savepoints'[i] = savepoints[i]
      /\ savepoints'[Len(savepoints) + 1] = staged
  BY <1>0, StackPushed DEF SetsOK
<1>2. SetsOK' /\ StackOK'
  BY <1>0, <1>1, SqliteConstantsOK DEF SetsOK, StackOK
<1>3. ASSUME ~byHand PROVE Nested'
  <2> DEFINE n == Len(savepoints)
  <2>0. n \in Nat /\ Len(savepoints') = n + 1 /\ Nested
    BY <1>0, <1>1, <1>3 DEF Orderly
  <2>1. \A i \in 1 .. n : savepoints'[i] = savepoints[i] /\ savepoints[i] \subseteq staged
    BY <1>1, <2>0 DEF Nested
  <2>2. \A i, j \in 1 .. n : i <= j => savepoints[i] \subseteq savepoints[j]
    BY <2>0 DEF Nested
  <2>3. savepoints'[n + 1] = staged
    BY <1>1
  <2> HIDE DEF n
  <2>4. \A i \in 1 .. n + 1 : i \in 1 .. n \/ i = n + 1
    BY <2>0
  <2>5. \A i \in 1 .. n + 1 : savepoints'[i] \subseteq staged
    BY <2>1, <2>3, <2>4
  <2>6. \A i, j \in 1 .. n + 1 : i <= j => savepoints'[i] \subseteq savepoints'[j]
    <3> SUFFICES ASSUME NEW i \in 1 .. n + 1, NEW j \in 1 .. n + 1, i <= j
                 PROVE  savepoints'[i] \subseteq savepoints'[j]
      OBVIOUS
    <3>1. CASE j = n + 1
      BY <2>3, <2>5, <3>1
    <3>2. CASE j \in 1 .. n
      <4>1. i \in 1 .. n
        BY <2>0, <3>2
      <4> QED
        BY <2>1, <2>2, <3>2, <4>1
    <3> QED
      BY <2>4, <3>1, <3>2
  <2> QED
    BY <1>0, <2>0, <2>5, <2>6 DEF Nested
<1>4. ~byHand => Orderly'
  BY <1>0, <1>3 DEF Orderly, OneInside, Staging
<1>5. SqliteAllOrNothing'
  BY <1>0 DEF SqliteAllOrNothing
<1> QED
  BY <1>0, <1>2, <1>4, <1>5 DEF SqliteIInv, SqliteTypeOK, SetsOK, StackOK

LEMMA RollbackToKeeps == ASSUME SqliteIInv, NEW c \in Clients, RollbackTo(c) PROVE SqliteIInv'
<1>0. /\ SetsOK /\ StackOK /\ SqliteAllOrNothing /\ (~byHand => Orderly)
      /\ c \in inside /\ open /\ savepoints # << >> /\ staged' = Last(savepoints)
      /\ made' = [made EXCEPT ![c] = @ \ (staged \ staged')]
      /\ UNCHANGED <<durable, open, savepoints, inside, outcome, amid, byHand>>
  BY SqliteTypes DEF SqliteIInv, RollbackTo
<1> DEFINE n == Len(savepoints)
<1>1. n \in 1 .. n /\ staged' = savepoints[n] /\ staged' \subseteq Writes
  BY <1>0, StackTop
<1>2. /\ made'[c] = made[c] \ (staged \ staged')
      /\ \A d \in Clients : d # c => made'[d] = made[d]
      /\ made' \in [Clients -> SUBSET Writes]
  BY <1>0 DEF SetsOK
<1>3. SetsOK' /\ StackOK'
  BY <1>0, <1>1, <1>2 DEF SetsOK, StackOK
<1>4. ASSUME ~byHand PROVE Orderly'
  <2>1. staged' \subseteq staged
    BY <1>0, <1>1, <1>4 DEF Orderly, Nested
  <2>2. OneInside'
    BY <1>0, <1>4 DEF Orderly, OneInside
  <2>3. Staging'
    BY <1>0, <1>2, <1>4, <2>1 DEF Orderly, OneInside, Staging, SetsOK
  <2>4. Nested'
    <3>1. \A i \in 1 .. n : i <= n
      BY <1>1
    <3> QED
      BY <1>0, <1>1, <1>4, <3>1 DEF Orderly, Nested
  <2> QED
    BY <2>2, <2>3, <2>4 DEF Orderly
<1>5. SqliteAllOrNothing'
  <2> SUFFICES ASSUME ~byHand, NEW d \in Clients
               PROVE  /\ outcome[d] = "committed" => made'[d] \subseteq amid[d] /\ amid[d] \subseteq durable
                      /\ outcome[d] # "committed" => made'[d] \cap durable = {}
    BY <1>0 DEF SqliteAllOrNothing
  <2>1. made'[d] \subseteq made[d]
    BY <1>2
  <2> QED
    BY <1>0, <2>1 DEF SqliteAllOrNothing
<1> QED
  BY <1>0, <1>3, <1>4, <1>5 DEF SqliteIInv, SqliteTypeOK, SetsOK, StackOK

LEMMA ReleaseKeeps == ASSUME SqliteIInv, NEW c \in Clients, ReleaseSavepoint(c) PROVE SqliteIInv'
<1>0. /\ SetsOK /\ StackOK /\ SqliteAllOrNothing /\ (~byHand => Orderly)
      /\ open /\ savepoints # << >> /\ savepoints' = Front(savepoints)
      /\ UNCHANGED <<durable, open, staged, inside, outcome, made, amid, byHand>>
  BY SqliteTypes DEF SqliteIInv, ReleaseSavepoint
<1> DEFINE n == Len(savepoints)
<1>1. /\ savepoints' \in Seq(SUBSET Writes) /\ n \in Nat \ {0}
      /\ Len(savepoints') = n - 1
      /\ \A i \in 1 .. n - 1 : savepoints'[i] = savepoints[i]
  BY <1>0, StackPopped
<1>2. SetsOK' /\ StackOK'
  BY <1>0, <1>1, SqliteConstantsOK DEF SetsOK, StackOK
<1>3. ASSUME ~byHand PROVE Nested'
  <2>1. /\ \A i \in 1 .. n : savepoints[i] \subseteq staged
        /\ \A i, j \in 1 .. n : i <= j => savepoints[i] \subseteq savepoints[j]
    BY <1>0, <1>3 DEF Orderly, Nested
  <2> HIDE DEF n
  <2>2. \A i \in 1 .. n - 1 : i \in 1 .. n
    BY <1>1
  <2> QED
    BY <1>0, <1>1, <2>1, <2>2 DEF Nested
<1>4. ~byHand => Orderly'
  BY <1>0, <1>3 DEF Orderly, OneInside, Staging
<1>5. SqliteAllOrNothing'
  BY <1>0 DEF SqliteAllOrNothing
<1> QED
  BY <1>0, <1>2, <1>4, <1>5 DEF SqliteIInv, SqliteTypeOK, SetsOK, StackOK

-----------------------------------------------------------------------------
LEMMA SqliteSteps == SqliteIInv /\ [SqliteNext]_sqliteVars => SqliteIInv'
<1> SUFFICES ASSUME SqliteIInv, [SqliteNext]_sqliteVars PROVE SqliteIInv'
  OBVIOUS
<1>1. ASSUME NEW w \in Writes, PlainQuery(w) PROVE SqliteIInv'
  BY <1>1, StatementKeeps DEF PlainQuery
<1>2. ASSUME NEW c \in Clients, NEW w \in Writes, TxQuery(c, w) PROVE SqliteIInv'
  BY <1>2, StatementKeeps DEF TxQuery
<1>3. CASE UNCHANGED sqliteVars
  <2>1. SqliteTypeOK' /\ SqliteAllOrNothing'
    BY <1>3 DEF sqliteVars, SqliteIInv, SqliteTypeOK, SqliteAllOrNothing
  <2>2. ~byHand' => Orderly'
    BY <1>3 DEF sqliteVars, SqliteIInv, Orderly, OneInside, Staging, Nested
  <2> QED
    BY <2>1, <2>2 DEF SqliteIInv
<1> QED
  BY <1>1, <1>2, <1>3, BeginKeeps, ReturnKeeps, ThrowKeeps, ByHandKeeps, SavepointKeeps,
     RollbackToKeeps, ReleaseKeeps
  DEF SqliteNext

LEMMA SqliteInvariant == SqliteSpec => []SqliteIInv
BY SqliteStarts, SqliteSteps, PTL DEF SqliteSpec

(* The SQLite driver keeps its types, for any clients and statements.      *)
THEOREM SqliteTypeCorrect == SqliteSpec => []SqliteTypeOK
<1>1. SqliteIInv => SqliteTypeOK
  BY DEF SqliteIInv
<1> QED
  BY <1>1, SqliteInvariant, PTL

(* The writes of a transaction become durable with its commit or not at    *)
(* all, for any clients that share the connection and whatever queries run *)
(* beside it, as long as no function ends a transaction by hand.           *)
THEOREM SqliteAtomic == SqliteSpec => []SqliteAllOrNothing
<1>1. SqliteIInv => SqliteAllOrNothing
  BY DEF SqliteIInv
<1> QED
  BY <1>1, SqliteInvariant, PTL

-----------------------------------------------------------------------------
(* Realtime                                                                *)

\* A fetch that is alone has read what the table holds, or not yet.
LoneFetchTrue ==
  ~overlapped =>
    /\ \A f, g \in InFlight : f = g
    /\ announced /\ ~silenced => \A f \in InFlight : fetched[f] # Unread => fetched[f] = rows

\* A viewer whose own fetch is under way is subscribed.
StartersFetch == \A v \in Viewers \cap InFlight : viewing[v] = "starting"

RealtimeIInv == RealtimeTypeOK /\ LoneFetchTrue /\ StartersFetch /\ LiveFollows

LEMMA RealtimeStarts == RealtimeInit => RealtimeIInv
<1> SUFFICES ASSUME RealtimeInit PROVE RealtimeIInv
  OBVIOUS
<1>1. InFlight = {}
  BY DEF RealtimeInit, InFlight
<1>2. RealtimeTypeOK
  BY <1>1 DEF RealtimeInit, RealtimeTypeOK, Contents
<1> QED
  BY <1>1, <1>2 DEF RealtimeInit, RealtimeIInv, LoneFetchTrue, StartersFetch, LiveFollows

\* A fetch is called; only the caller's view and place have changed.
LEMMA FetchBegins ==
  ASSUME RealtimeIInv, NEW f \in Fetches, f \notin InFlight, BeginFetch(f), rows' = rows,
         \A v \in Viewers : f = v => viewing'[v] = "starting",
         \A v \in Viewers : f # v => viewing'[v] = viewing[v]
  PROVE  /\ InFlight' = InFlight \cup {f}
         /\ \A g \in InFlight' : fetched'[g] \in Contents \cup {Unread}
         /\ overlapped' \in BOOLEAN /\ announced'
         /\ LoneFetchTrue' /\ StartersFetch' /\ LiveFollows'
<1>1. /\ fetched' = [g \in InFlight \cup {f} |-> IF g = f THEN Unread ELSE fetched[g]]
      /\ overlapped' = (InFlight # {}) /\ announced'
  BY DEF BeginFetch
<1>2. InFlight' = InFlight \cup {f}
  BY <1>1 DEF InFlight
<1>3. \A g \in InFlight' : fetched'[g] = IF g = f THEN Unread ELSE fetched[g]
  BY <1>1, <1>2
<1>4. \A g \in InFlight' : fetched'[g] \in Contents \cup {Unread}
  BY <1>2, <1>3 DEF RealtimeIInv, RealtimeTypeOK
<1>5. LoneFetchTrue'
  BY <1>1, <1>2, <1>3 DEF LoneFetchTrue
<1>6. StartersFetch'
  BY <1>2 DEF StartersFetch, RealtimeIInv
<1>7. LiveFollows'
  BY <1>2 DEF LiveFollows
<1> QED
  BY <1>1, <1>2, <1>4, <1>5, <1>6, <1>7

LEMMA RealtimeSteps == RealtimeIInv /\ [RealtimeNext]_realtimeVars => RealtimeIInv'
<1> SUFFICES ASSUME RealtimeIInv, [RealtimeNext]_realtimeVars PROVE RealtimeIInv'
  OBVIOUS
<1>0. /\ RealtimeTypeOK /\ LoneFetchTrue /\ StartersFetch /\ LiveFollows
      /\ viewing \in [Viewers -> {"idle", "starting", "on", "failed"}]
      /\ view \in [Viewers -> Contents \cup {Unread}]
      /\ rows \in Contents /\ current \in Contents
      /\ InFlight \subseteq Fetches /\ \A f \in InFlight : fetched[f] \in Contents \cup {Unread}
  BY DEF RealtimeIInv, RealtimeTypeOK
<1>b. live \in BOOLEAN /\ announced \in BOOLEAN /\ overlapped \in BOOLEAN /\ silenced \in BOOLEAN
  BY <1>0 DEF RealtimeTypeOK
<1>1. ASSUME NEW v \in Viewers, Live(v) PROVE RealtimeIInv'
  <2>1. /\ viewing[v] = "idle" /\ v \notin InFlight /\ v \in Fetches
        /\ viewing' = [viewing EXCEPT ![v] = "starting"]
        /\ view' = [view EXCEPT ![v] = IF live THEN current ELSE Unread]
        /\ live' = TRUE /\ silenced' = FALSE /\ BeginFetch(v) /\ rows' = rows /\ current' = current
    BY <1>1 DEF Live, Fetches
  <2>2. /\ InFlight' = InFlight \cup {v}
        /\ \A g \in InFlight' : fetched'[g] \in Contents \cup {Unread}
        /\ overlapped' \in BOOLEAN /\ announced'
        /\ LoneFetchTrue' /\ StartersFetch' /\ LiveFollows'
    BY <1>0, <2>1, FetchBegins
  <2>3. announced' = TRUE
    BY <2>1 DEF BeginFetch
  <2>4. view' \in [Viewers -> Contents \cup {Unread}] /\ viewing' \in [Viewers -> {"idle", "starting", "on", "failed"}]
    BY <1>0, <2>1
  <2>5. RealtimeTypeOK'
    BY <1>0, <2>1, <2>2, <2>3, <2>4 DEF RealtimeTypeOK, Contents
  <2> QED
    BY <2>2, <2>5 DEF RealtimeIInv
<1>2. ASSUME NEW v \in Viewers, Unsubscribe(v) PROVE RealtimeIInv'
  <2>1. /\ viewing[v] = "on" /\ viewing' = [viewing EXCEPT ![v] = "idle"]
        /\ view' = [view EXCEPT ![v] = Unread] /\ live' = FALSE
        /\ UNCHANGED <<rows, current, fetched, announced, overlapped, silenced>>
    BY <1>2 DEF Unsubscribe
  <2>2. InFlight' = InFlight
    BY <2>1 DEF InFlight
  <2>3. view' \in [Viewers -> Contents \cup {Unread}] /\ viewing' \in [Viewers -> {"idle", "starting", "on", "failed"}]
    BY <1>0, <2>1
  <2>4. RealtimeTypeOK'
    BY <1>0, <1>b, <2>1, <2>2, <2>3 DEF RealtimeTypeOK, Contents
  <2>5. LoneFetchTrue' /\ StartersFetch'
    BY <1>0, <2>1, <2>2 DEF LoneFetchTrue, StartersFetch
  <2>6. LiveFollows'
    BY <1>0, <2>1, <2>2 DEF LiveFollows
  <2> QED
    BY <2>4, <2>5, <2>6 DEF RealtimeIInv
<1>3. ASSUME NEW n \in Notices, Invalidate(n) PROVE RealtimeIInv'
  <2>1. n \notin InFlight /\ n \in Fetches /\ n \notin Viewers /\ UNCHANGED <<rows, live, current, viewing, view>>
    BY <1>3, RealtimeConstantsOK DEF Invalidate, Fetches
  <2>2. CASE live
    <3>1. BeginFetch(n) /\ silenced' = silenced
      BY <1>3, <2>2 DEF Invalidate
    <3>2. /\ InFlight' = InFlight \cup {n}
          /\ \A g \in InFlight' : fetched'[g] \in Contents \cup {Unread}
          /\ overlapped' \in BOOLEAN /\ announced'
          /\ LoneFetchTrue' /\ StartersFetch' /\ LiveFollows'
      BY <2>1, <3>1, FetchBegins
    <3>3. announced' = TRUE
      BY <3>1 DEF BeginFetch
    <3>4. RealtimeTypeOK'
      BY <1>0, <1>b, <2>1, <3>1, <3>2, <3>3 DEF RealtimeTypeOK, Contents
    <3> QED
      BY <3>2, <3>4 DEF RealtimeIInv
  <2>3. CASE ~live
    <3>1. announced' = TRUE /\ silenced' = TRUE /\ fetched' = fetched /\ overlapped' = overlapped
      BY <1>3, <2>3 DEF Invalidate
    <3>2. InFlight' = InFlight
      BY <3>1 DEF InFlight
    <3>3. RealtimeTypeOK'
      BY <1>0, <1>b, <2>1, <3>1, <3>2 DEF RealtimeTypeOK, Contents
    <3> QED
      BY <1>0, <2>1, <3>1, <3>2, <3>3 DEF RealtimeIInv, LoneFetchTrue, StartersFetch, LiveFollows
  <2> QED
    BY <2>2, <2>3
<1>4. ASSUME NEW f \in Fetches, ReadTable(f) PROVE RealtimeIInv'
  <2>1. /\ f \in InFlight /\ fetched' = [fetched EXCEPT ![f] = rows]
        /\ UNCHANGED <<rows, live, current, viewing, view, announced, overlapped, silenced>>
    BY <1>4 DEF ReadTable
  <2>2. InFlight' = InFlight /\ \A g \in InFlight : fetched'[g] = IF g = f THEN rows ELSE fetched[g]
    BY <2>1 DEF InFlight
  <2>3. RealtimeTypeOK'
    BY <1>0, <1>b, <2>1, <2>2 DEF RealtimeTypeOK, Contents
  <2>4. LoneFetchTrue' /\ StartersFetch' /\ LiveFollows'
    BY <1>0, <2>1, <2>2 DEF LoneFetchTrue, StartersFetch, LiveFollows
  <2> QED
    BY <2>3, <2>4 DEF RealtimeIInv
<1>5. ASSUME NEW f \in Fetches, TakeResult(f) PROVE RealtimeIInv'
  <2>1. /\ f \in InFlight /\ fetched[f] # Unread /\ current' = fetched[f] /\ view' = Published(f)
        /\ viewing' = [v \in Viewers |-> IF v = f THEN "on" ELSE viewing[v]]
        /\ fetched' = [g \in InFlight \ {f} |-> fetched[g]]
        /\ UNCHANGED <<rows, live, announced, overlapped, silenced>>
    BY <1>5 DEF TakeResult
  <2>2. InFlight' = InFlight \ {f} /\ \A g \in InFlight' : fetched'[g] = fetched[g]
    BY <2>1 DEF InFlight
  <2>3. fetched[f] \in Contents
    BY <1>0, <2>1
  <2>4. viewing' \in [Viewers -> {"idle", "starting", "on", "failed"}]
    BY <1>0, <2>1
  <2>5. view' \in [Viewers -> Contents \cup {Unread}]
    BY <1>0, <2>1, <2>3 DEF Published
  <2>6. RealtimeTypeOK'
    BY <1>0, <1>b, <2>1, <2>2, <2>3, <2>4, <2>5 DEF RealtimeTypeOK, Contents
  <2>7. LoneFetchTrue'
    BY <1>0, <2>1, <2>2 DEF LoneFetchTrue
  <2>8. StartersFetch'
    BY <1>0, <2>1, <2>2 DEF StartersFetch
  <2>9. LiveFollows'
    <3> SUFFICES ASSUME announced, ~overlapped, ~silenced, NEW v \in Viewers, viewing'[v] = "on"
                 PROVE  view'[v] = rows
      BY <2>1 DEF LiveFollows
    <3>1. viewing[v] = "on" \/ v = f
      BY <2>1
    <3>2. v \in Subscribed
      BY <1>0, <2>1, <3>1 DEF Subscribed, StartersFetch
    <3>3. fetched[f] = rows
      BY <1>0, <2>1 DEF LoneFetchTrue
    <3> QED
      BY <2>1, <3>2, <3>3 DEF Published
  <2> QED
    BY <2>6, <2>7, <2>8, <2>9 DEF RealtimeIInv
<1>6. ASSUME NEW f \in Fetches, FetchRejects(f) PROVE RealtimeIInv'
  <2>1. /\ f \in InFlight /\ overlapped' = TRUE
        /\ viewing' = [v \in Viewers |-> IF v = f THEN "failed" ELSE viewing[v]]
        /\ fetched' = [g \in InFlight \ {f} |-> fetched[g]]
        /\ UNCHANGED <<rows, live, current, view, announced, silenced>>
    BY <1>6 DEF FetchRejects
  <2>2. InFlight' = InFlight \ {f} /\ \A g \in InFlight' : fetched'[g] = fetched[g]
    BY <2>1 DEF InFlight
  <2>3. viewing' \in [Viewers -> {"idle", "starting", "on", "failed"}]
    BY <1>0, <2>1
  <2>4. RealtimeTypeOK'
    BY <1>0, <1>b, <2>1, <2>2, <2>3 DEF RealtimeTypeOK, Contents
  <2>5. StartersFetch'
    BY <1>0, <2>1, <2>2 DEF StartersFetch
  <2> QED
    BY <2>1, <2>4, <2>5 DEF RealtimeIInv, LoneFetchTrue, LiveFollows
<1>7. CASE TableChanges
  <2>1. /\ rows' \in Contents /\ announced' = FALSE
        /\ UNCHANGED <<live, current, viewing, view, fetched, overlapped, silenced>>
    BY <1>7 DEF TableChanges, Contents
  <2>2. InFlight' = InFlight
    BY <2>1 DEF InFlight
  <2>3. RealtimeTypeOK'
    BY <1>0, <1>b, <2>1, <2>2 DEF RealtimeTypeOK, Contents
  <2> QED
    BY <1>0, <2>1, <2>2, <2>3 DEF RealtimeIInv, LoneFetchTrue, StartersFetch, LiveFollows
<1>8. CASE UNCHANGED realtimeVars
  <2>1. InFlight' = InFlight
    BY <1>8 DEF InFlight, realtimeVars
  <2>2. RealtimeTypeOK'
    BY <1>0, <1>b, <1>8, <2>1 DEF RealtimeTypeOK, Contents, realtimeVars
  <2> QED
    BY <1>0, <1>8, <2>1, <2>2 DEF RealtimeIInv, LoneFetchTrue, StartersFetch, LiveFollows, realtimeVars
<1> QED
  BY <1>1, <1>2, <1>3, <1>4, <1>5, <1>6, <1>7, <1>8 DEF RealtimeNext

-----------------------------------------------------------------------------
(* Presence                                                                *)

NamesOn(list) == {p \in People : list[p] # Absent}

\* base: who was in the room, at each site, after the last change. Since
\* then only the lists of these have been merged.
Since(base, mem, lists, got) ==
  /\ \A s \in Sites : base[s] \subseteq NamesOn(mem[s]) /\ NamesOn(mem[s]) \subseteq UNION {base[t] : t \in Sites}
  /\ \A m \in lists : m.current =>
       base[m.from] \subseteq NamesOn(m.list) /\ NamesOn(m.list) \subseteq UNION {base[t] : t \in Sites}
  /\ \A s, t \in Sites : <<s, t>> \in got => base[s] \subseteq NamesOn(mem[t])

PresenceIInv == PresenceTypeOK /\ \E base \in [Sites -> SUBSET People] : Since(base, members, sent, heard)

\* After a change everything begins anew.
LEMMA RoomChanges ==
  ASSUME PresenceTypeOK', heard' = {}, \A m \in sent' : ~m.current
  PROVE  PresenceIInv'
<1> DEFINE base == [s \in Sites |-> NamesOn(members'[s])]
<1>1. base \in [Sites -> SUBSET People] /\ \A s \in Sites : base[s] = NamesOn(members'[s])
  BY DEF NamesOn
<1> HIDE DEF base
<1>2. Since(base, members', sent', heard')
  BY <1>1 DEF Since
<1> QED
  BY <1>1, <1>2 DEF PresenceIInv

LEMMA ListsAge ==
  ASSUME PresenceTypeOK
  PROVE  /\ Aged \subseteq [from : Sites, to : Sites, list : Lists, current : BOOLEAN]
         /\ \A m \in Aged : ~m.current
BY DEF PresenceTypeOK, Aged

LEMMA PresenceStarts == PresenceInit => PresenceIInv
<1> SUFFICES ASSUME PresenceInit PROVE PresenceIInv
  OBVIOUS
<1>1. PresenceTypeOK
  BY DEF PresenceInit, PresenceTypeOK, Lists
<1> DEFINE base == [s \in Sites |-> {}]
<1>2. base \in [Sites -> SUBSET People] /\ \A s \in Sites : base[s] = {}
  OBVIOUS
<1>3. \A s \in Sites : NamesOn(members[s]) = {}
  BY DEF PresenceInit, NamesOn
<1> HIDE DEF base
<1>4. Since(base, members, sent, heard)
  BY <1>2, <1>3 DEF Since, PresenceInit
<1> QED
  BY <1>1, <1>2, <1>4 DEF PresenceIInv

LEMMA PresenceSteps == PresenceIInv /\ [PresenceNext]_presenceVars => PresenceIInv'
<1> SUFFICES ASSUME PresenceIInv, [PresenceNext]_presenceVars PROVE PresenceIInv'
  OBVIOUS
<1>0. /\ PresenceTypeOK /\ members \in [Sites -> Lists]
      /\ sent \subseteq [from : Sites, to : Sites, list : Lists, current : BOOLEAN]
      /\ heard \subseteq Sites \X Sites
  BY DEF PresenceIInv, PresenceTypeOK
<1>1. PICK base \in [Sites -> SUBSET People] : Since(base, members, sent, heard)
  BY DEF PresenceIInv
<1>2. ASSUME NEW s \in Sites, NEW p \in People, Join(s, p) \/ LeaveRoom(s, p) PROVE PresenceIInv'
  <2>1. PICK meta \in Metas \cup {Absent} : Change(s, p, meta)
    BY <1>2 DEF Join, LeaveRoom
  <2>2. members' = [members EXCEPT ![s] = [members[s] EXCEPT ![p] = meta]] /\ sent' = Aged /\ heard' = {}
    BY <2>1 DEF Change
  <2>3. [members[s] EXCEPT ![p] = meta] \in Lists
    BY <1>0 DEF Lists
  <2>4. members' \in [Sites -> Lists]
    BY <1>0, <2>2, <2>3
  <2>5. PresenceTypeOK'
    BY <1>0, <2>2, <2>4, ListsAge DEF PresenceTypeOK
  <2> QED
    BY <1>0, <2>2, <2>5, ListsAge, RoomChanges
<1>3. ASSUME NEW s \in Sites, NEW t \in Sites, SendList(s, t) PROVE PresenceIInv'
  <2> DEFINE m == [from |-> s, to |-> t, list |-> members[s], current |-> TRUE]
  <2>1. sent' = sent \cup {m} /\ members' = members /\ heard' = heard
    BY <1>3 DEF SendList
  <2>2. m \in [from : Sites, to : Sites, list : Lists, current : BOOLEAN] /\ m.from = s /\ m.list = members[s]
    BY <1>0
  <2> HIDE DEF m
  <2>3. PresenceTypeOK'
    BY <1>0, <2>1, <2>2 DEF PresenceTypeOK
  <2>4. Since(base, members', sent', heard')
    BY <1>1, <2>1, <2>2 DEF Since
  <2> QED
    BY <2>3, <2>4 DEF PresenceIInv
<1>4. ASSUME NEW m \in sent, Merge(m) PROVE PresenceIInv'
  <2> DEFINE merged == Merged(members[m.to], m.list)
  <2>1. members' = [members EXCEPT ![m.to] = merged]
    BY <1>4 DEF Merge
  <2>2. m.to \in Sites /\ m.from \in Sites /\ m.list \in Lists /\ members[m.to] \in Lists
    BY <1>0
  <2>3. merged \in Lists
    BY <2>2 DEF Merged, Lists
  <2>4. NamesOn(merged) = NamesOn(members[m.to]) \cup NamesOn(m.list)
    BY DEF Merged, NamesOn
  <2> HIDE DEF merged
  <2>5. members' \in [Sites -> Lists]
    BY <1>0, <2>1, <2>3
  <2>6. /\ NamesOn(members'[m.to]) = NamesOn(members[m.to]) \cup NamesOn(m.list)
        /\ \A s \in Sites \ {m.to} : members'[s] = members[s]
    BY <1>0, <2>1, <2>2, <2>4
  <2>7. CASE m.current
    <3>1. heard' = heard \cup {<<m.from, m.to>>} /\ sent' = sent
      BY <1>4, <2>7 DEF Merge
    <3>2. PresenceTypeOK'
      BY <1>0, <2>2, <2>5, <3>1 DEF PresenceTypeOK
    <3>3. \A s \in Sites : NamesOn(members[s]) \subseteq NamesOn(members'[s])
      BY <2>6
    <3>4. /\ base[m.from] \subseteq NamesOn(m.list) /\ NamesOn(m.list) \subseteq UNION {base[t] : t \in Sites}
      BY <1>1, <2>7 DEF Since
    <3>5. \A s \in Sites : /\ base[s] \subseteq NamesOn(members'[s])
                           /\ NamesOn(members'[s]) \subseteq UNION {base[t] : t \in Sites}
      <4> SUFFICES ASSUME NEW s \in Sites
                   PROVE  /\ base[s] \subseteq NamesOn(members'[s])
                          /\ NamesOn(members'[s]) \subseteq UNION {base[t] : t \in Sites}
        OBVIOUS
      <4>1. base[s] \subseteq NamesOn(members[s]) /\ NamesOn(members[s]) \subseteq UNION {base[t] : t \in Sites}
        BY <1>1 DEF Since
      <4>2. NamesOn(members'[s]) = NamesOn(members[s]) \/ NamesOn(members'[s]) = NamesOn(members[s]) \cup NamesOn(m.list)
        BY <2>6
      <4> QED
        BY <3>4, <4>1, <4>2
    <3>6. \A s, t \in Sites : <<s, t>> \in heard' => base[s] \subseteq NamesOn(members'[t])
      <4> SUFFICES ASSUME NEW s \in Sites, NEW t \in Sites, <<s, t>> \in heard'
                   PROVE  base[s] \subseteq NamesOn(members'[t])
        OBVIOUS
      <4>1. CASE <<s, t>> \in heard
        BY <1>1, <3>3, <4>1 DEF Since
      <4>2. CASE s = m.from /\ t = m.to
        BY <2>6, <3>4, <4>2
      <4> QED
        BY <3>1, <4>1, <4>2
    <3>7. Since(base, members', sent', heard')
      BY <1>1, <3>1, <3>5, <3>6 DEF Since
    <3> QED
      BY <3>2, <3>7 DEF PresenceIInv
  <2>8. CASE ~m.current
    <3>1. heard' = {} /\ sent' = Aged
      BY <1>4, <2>8 DEF Merge
    <3>2. PresenceTypeOK'
      BY <1>0, <2>5, <3>1, ListsAge DEF PresenceTypeOK
    <3> QED
      BY <1>0, <3>1, <3>2, ListsAge, RoomChanges
  <2> QED
    BY <2>7, <2>8
<1>5. ASSUME NEW m \in sent, LoseList(m) PROVE PresenceIInv'
  <2>1. sent' = sent \ {m} /\ members' = members /\ heard' = heard
    BY <1>5 DEF LoseList
  <2>2. PresenceTypeOK' /\ Since(base, members', sent', heard')
    BY <1>0, <1>1, <2>1 DEF PresenceTypeOK, Since
  <2> QED
    BY <2>2 DEF PresenceIInv
<1>6. CASE UNCHANGED presenceVars
  <2>1. PresenceTypeOK' /\ Since(base, members', sent', heard')
    BY <1>0, <1>1, <1>6 DEF PresenceTypeOK, Since, presenceVars
  <2> QED
    BY <2>1 DEF PresenceIInv
<1> QED
  BY <1>2, <1>3, <1>4, <1>5, <1>6 DEF PresenceNext

LEMMA TwoSites ==
  ASSUME NEW s \in Sites, NEW t \in Sites, s # t
  PROVE  Sites = {s, t}
<1>1. IsFiniteSet({s}) /\ Cardinality({s}) = 1
  BY FS_Singleton
<1>2. IsFiniteSet({s} \cup {t}) /\ Cardinality({s} \cup {t}) = 2
  BY <1>1, FS_AddElement
<1>3. {s} \cup {t} = {s, t}
  OBVIOUS
<1>4. Cardinality({s, t}) = Cardinality(Sites) /\ {s, t} \in SUBSET Sites
  BY <1>2, <1>3, PresenceConstantsOK
<1> QED
  BY <1>4, FS_Subset, PresenceConstantsOK

(* A viewer whose queries did not overlap, and for whom no change went     *)
(* unannounced, shows the rows of the table, for any viewers, notices and  *)
(* rows; and two sites that have heard each other's list since the last    *)
(* change of a room list the same people in it, for any people and lists   *)
(* on their way (LiveQuery and Presence of packages/realtime).             *)
THEOREM ViewersAreTold == RealtimeSpec /\ PresenceSpec => []ViewersFollow
<1>1. RealtimeIInv => LiveFollows
  BY DEF RealtimeIInv
<1>2. PresenceIInv => RoomsAgree
  <2> SUFFICES ASSUME PresenceIInv, NEW s \in Sites, NEW t \in Sites, <<s, t>> \in heard, <<t, s>> \in heard
               PROVE  Present(s) = Present(t)
    BY DEF RoomsAgree
  <2>1. PICK base \in [Sites -> SUBSET People] : Since(base, members, sent, heard)
    BY DEF PresenceIInv
  <2>2. CASE s = t
    BY <2>2
  <2>3. CASE s # t
    <3>1. UNION {base[u] : u \in Sites} = base[s] \cup base[t]
      BY <2>3, TwoSites
    <3>2. NamesOn(members[s]) = base[s] \cup base[t] /\ NamesOn(members[t]) = base[s] \cup base[t]
      BY <2>1, <3>1 DEF Since
    <3> QED
      BY <3>2 DEF NamesOn, Present
  <2> QED
    BY <2>2, <2>3
<1> QED
  BY <1>1, <1>2, RealtimeStarts, RealtimeSteps, PresenceStarts, PresenceSteps, PTL
  DEF RealtimeSpec, PresenceSpec, ViewersFollow

-----------------------------------------------------------------------------
(* SchemaInit: a process that is up finds its tables. What init has done   *)
(* for a table stays done while the database only grows.                   *)

TheirColumns == UNION {UNION {Fields[p][t] : t \in TablesOf(p)} : p \in Processes}
OlderColumns == UNION {Legacy[t] : t \in DOMAIN Legacy}
AllColumns == OlderColumns \cup TheirColumns
Making == {"create", "describe", "add", "unlink", "renumber", "default"}
Whereabouts ==
  [pc : {"away", "connect", "ready", "refused"} \cup Making,
   attempt : Nat, table : Nat, seen : SUBSET AllColumns, byHand : BOOLEAN]

\* A table of p that is as p wants it.
Made(p, t, cols, num, bare) ==
  /\ t \in DOMAIN cols
  /\ server # "sqlite" => Fields[p][t] \subseteq cols[t]
  /\ server = "mysql" => t \in num /\ \A s \in bare : s[1] # t

\* What p, at a, has behind it.
Behind(p, a, cols, num, bare) ==
  LET t == Order[p][a.table]
  IN  /\ a.table \in 0 .. Len(Order[p])
      /\ a.pc \in Making =>
           a.table # 0 /\ \A i \in 1 .. a.table - 1 : Made(p, Order[p][i], cols, num, bare)
      /\ a.pc \in Making \ {"create"} => t \in DOMAIN cols /\ server # "sqlite"
      /\ a.pc \in {"add", "unlink", "renumber"} => a.seen \subseteq cols[t]
      /\ a.pc = "add" /\ ~a.byHand /\ server = "mysql" => t \in num
      /\ a.pc \in {"unlink", "renumber"} => a.byHand
      /\ a.byHand => a.pc \in {"add", "unlink", "renumber"} /\ server = "mysql" /\ older /\ t \in DOMAIN Legacy
      /\ a.pc = "default" => server = "mysql" /\ t \in num /\ Fields[p][t] \subseteq cols[t]
      /\ a.pc = "connect" => a.table = 1
      /\ a.pc = "ready" /\ Tried => \A i \in 1 .. Len(Order[p]) : Made(p, Order[p][i], cols, num, bare)

\* No key is gone but those that MySQL drops.
LinksKept(cols, keys, without) ==
  \A r \in References \ (keys \cup without) :
    \/ r[1] \notin DOMAIN cols
    \/ r[2] \notin cols[r[1]]
    \/ server = "mysql" /\ older /\ r[3] \in DOMAIN Legacy

\* The tables that are numbered by hand were there before.
LegacyByHand(cols, num) ==
  server = "mysql" => \A t \in DOMAIN cols \ num : older /\ t \in DOMAIN Legacy

DatabaseFits(cols, num, bare, keys, without) ==
  /\ \A t \in DOMAIN cols : cols[t] \subseteq AllColumns
  /\ num \subseteq DOMAIN cols /\ bare \subseteq Required
  /\ keys \subseteq References /\ without \subseteq References
  /\ LinksKept(cols, keys, without) /\ LegacyByHand(cols, num)

StartIInv ==
  /\ server \in {"sqlite", "postgres", "mysql"} /\ maxRetries \in Attempts /\ older \in BOOLEAN
  /\ at \in [Processes -> Whereabouts]
  /\ DatabaseFits(columns, numbered, strict, links, unkeyed)
  /\ \A p \in Processes : Behind(p, at[p], columns, numbered, strict)

\* The database grows: tables, columns and numbered keys stay, and a table
\* that is there gets no column that refuses a row.
Grown(cols, num, bare, cols2, num2, bare2) ==
  /\ DOMAIN cols \subseteq DOMAIN cols2 /\ num \subseteq num2
  /\ \A t \in DOMAIN cols : cols[t] \subseteq cols2[t]
  /\ \A s \in bare2 : s[1] \in DOMAIN cols => s \in bare

LEMMA MadeStays ==
  ASSUME NEW p \in Processes, NEW t, NEW cols, NEW num, NEW bare, NEW cols2, NEW num2, NEW bare2,
         Made(p, t, cols, num, bare), Grown(cols, num, bare, cols2, num2, bare2)
  PROVE  Made(p, t, cols2, num2, bare2)
<1>1. t \in DOMAIN cols /\ t \in DOMAIN cols2 /\ cols[t] \subseteq cols2[t]
  BY DEF Made, Grown
<1>2. server # "sqlite" => Fields[p][t] \subseteq cols2[t]
  BY <1>1 DEF Made
<1>3. server = "mysql" => t \in num2 /\ \A s \in bare2 : s[1] # t
  BY <1>1 DEF Made, Grown
<1> QED
  BY <1>1, <1>2, <1>3 DEF Made

LEMMA BehindStays ==
  ASSUME NEW p \in Processes, NEW a, NEW cols, NEW num, NEW bare, NEW cols2, NEW num2, NEW bare2,
         Behind(p, a, cols, num, bare), Grown(cols, num, bare, cols2, num2, bare2)
  PROVE  Behind(p, a, cols2, num2, bare2)
<1> DEFINE t == Order[p][a.table]
<1>1. \A u : Made(p, u, cols, num, bare) => Made(p, u, cols2, num2, bare2)
  BY MadeStays
<1>2. \A u \in DOMAIN cols : u \in DOMAIN cols2 /\ cols[u] \subseteq cols2[u] /\ (u \in num => u \in num2)
  BY DEF Grown
<1>3. a.pc \in Making => a.table # 0 /\ \A i \in 1 .. a.table - 1 : Made(p, Order[p][i], cols2, num2, bare2)
  BY <1>1 DEF Behind
<1>4. a.pc \in Making \ {"create"} => t \in DOMAIN cols
  BY DEF Behind
<1>5. a.pc \in Making \ {"create"} => t \in DOMAIN cols2 /\ cols[t] \subseteq cols2[t] /\ (t \in num => t \in num2)
  BY <1>2, <1>4
<1>6. a.pc \in {"add", "unlink", "renumber"} => a.seen \subseteq cols2[t]
  <2> SUFFICES ASSUME a.pc \in {"add", "unlink", "renumber"} PROVE a.seen \subseteq cols2[t]
    OBVIOUS
  <2>1. a.seen \subseteq cols[t]
    BY DEF Behind
  <2> QED
    BY <1>5, <2>1 DEF Making
<1>7. a.pc = "default" => server = "mysql" /\ t \in num2 /\ Fields[p][t] \subseteq cols2[t]
  <2> SUFFICES ASSUME a.pc = "default" PROVE server = "mysql" /\ t \in num2 /\ Fields[p][t] \subseteq cols2[t]
    OBVIOUS
  <2>1. server = "mysql" /\ t \in num /\ Fields[p][t] \subseteq cols[t]
    BY DEF Behind
  <2> QED
    BY <1>5, <2>1 DEF Making
<1>8. a.pc = "ready" /\ Tried => \A i \in 1 .. Len(Order[p]) : Made(p, Order[p][i], cols2, num2, bare2)
  BY <1>1 DEF Behind
<1>9. a.pc = "add" /\ ~a.byHand /\ server = "mysql" => t \in num2
  <2> SUFFICES ASSUME a.pc = "add", ~a.byHand, server = "mysql" PROVE t \in num2
    OBVIOUS
  <2>1. t \in num
    BY DEF Behind
  <2> QED
    BY <1>5, <2>1 DEF Making
<1>10. /\ a.table \in 0 .. Len(Order[p]) /\ (a.pc = "connect" => a.table = 1)
       /\ a.pc \in Making \ {"create"} => server # "sqlite"
       /\ a.pc \in {"unlink", "renumber"} => a.byHand
       /\ a.byHand => a.pc \in {"add", "unlink", "renumber"} /\ server = "mysql" /\ older /\ t \in DOMAIN Legacy
  BY DEF Behind
<1> QED
  BY <1>3, <1>5, <1>6, <1>7, <1>8, <1>9, <1>10 DEF Behind

LEMMA InitStarts == SchemaInitInit => StartIInv
<1> SUFFICES ASSUME SchemaInitInit PROVE StartIInv
  OBVIOUS
<1>1. Away \in Whereabouts
  BY DEF Away, Whereabouts
<1>2. at \in [Processes -> Whereabouts] /\ \A p \in Processes : at[p] = Away
  BY <1>1 DEF SchemaInitInit
<1>3. ASSUME NEW p \in Processes PROVE Behind(p, Away, columns, numbered, strict)
  <2>1. Len(Order[p]) \in Nat
    BY SchemaInitConstantsOK
  <2> QED
    BY <2>1 DEF Behind, Away, Making
<1>4. \A t \in DOMAIN columns : columns[t] = Legacy[t] /\ older /\ t \in DOMAIN Legacy
  BY DEF SchemaInitInit, NoTables
<1>5. LinksKept(columns, links, unkeyed)
  BY <1>4 DEF SchemaInitInit, LinksKept, Had
<1>6. LegacyByHand(columns, numbered)
  BY <1>4 DEF LegacyByHand
<1>7. DatabaseFits(columns, numbered, strict, links, unkeyed)
  BY <1>4, <1>5, <1>6 DEF SchemaInitInit, DatabaseFits, AllColumns, OlderColumns, Had
<1> QED
  BY <1>2, <1>3, <1>7 DEF SchemaInitInit, StartIInv

Settled == UNCHANGED <<server, maxRetries, older>>

\* A process goes on, and the database grows or stays as it is.
LEMMA ProcessMoves ==
  ASSUME StartIInv, Settled, NEW p \in Processes, NEW a \in Whereabouts, at' = [at EXCEPT ![p] = a],
         Behind(p, a, columns', numbered', strict'),
         Grown(columns, numbered, strict, columns', numbered', strict'),
         DatabaseFits(columns', numbered', strict', links', unkeyed')
  PROVE  StartIInv'
<1>1. at' \in [Processes -> Whereabouts] /\ \A q \in Processes : at'[q] = IF q = p THEN a ELSE at[q]
  BY DEF StartIInv
<1>2. server' = server /\ maxRetries' = maxRetries /\ older' = older
  BY DEF Settled
<1>3. ASSUME NEW q \in Processes PROVE Behind(q, at[q], columns, numbered, strict)'
  <2>1. Behind(q, at'[q], columns', numbered', strict')
    <3>1. CASE q = p
      BY <1>1, <3>1
    <3>2. CASE q # p
      <4>1. Behind(q, at[q], columns, numbered, strict)
        BY DEF StartIInv
      <4> QED
        BY <1>1, <3>2, <4>1, BehindStays
    <3> QED
      BY <3>1, <3>2
  <2> QED
    BY <1>2, <2>1 DEF Behind, Made, Tried
<1>4. DatabaseFits(columns, numbered, strict, links, unkeyed)'
  BY <1>2 DEF DatabaseFits, LinksKept, LegacyByHand
<1> QED
  BY <1>1, <1>2, <1>3, <1>4 DEF StartIInv

\* A process goes on, and the database stays as it is.
LEMMA OnlyMoves ==
  ASSUME StartIInv, Settled, NEW p \in Processes, NEW a \in Whereabouts, at' = [at EXCEPT ![p] = a],
         Behind(p, a, columns, numbered, strict), UNCHANGED Database
  PROVE  StartIInv'
<1>1. columns' = columns /\ numbered' = numbered /\ strict' = strict /\ links' = links /\ unkeyed' = unkeyed
  BY DEF Database
<1>2. Grown(columns, numbered, strict, columns', numbered', strict')
  BY <1>1 DEF Grown
<1>3. DatabaseFits(columns, numbered, strict, links, unkeyed)
  BY DEF StartIInv
<1> QED
  BY <1>1, <1>2, <1>3, ProcessMoves

LEMMA OrderFilled == \A p \in Processes : Len(Order[p]) \in Nat \ {0}
BY SchemaInitConstantsOK

\* Where nothing has been done yet, nothing has to be there.
LEMMA FreshBehind ==
  ASSUME NEW p \in Processes, NEW a \in Whereabouts, NEW cols, NEW num, NEW bare,
         ~a.byHand,
         \/ a.pc \in {"away", "refused"} /\ a.table = 0
         \/ a.pc \in {"connect", "create"} /\ a.table = 1
         \/ a.pc = "ready" /\ ~Tried /\ a.table \in {0, 1}
  PROVE  Behind(p, a, cols, num, bare)
BY OrderFilled DEF Behind, Making

LEMMA FailedMoves ==
  ASSUME StartIInv, NEW p \in Processes, Failed(p)
  PROVE  \E a \in Whereabouts : at' = [at EXCEPT ![p] = a] /\
           \A cols, num, bare : Behind(p, a, cols, num, bare)
<1> DEFINE again == [Away EXCEPT !.pc = "connect", !.attempt = at[p].attempt + 1, !.table = 1]
           over  == [Away EXCEPT !.pc = "refused"]
<1>1. at[p].attempt \in Nat
  BY DEF StartIInv, Whereabouts
<1>2. again \in Whereabouts /\ again.pc = "connect" /\ again.table = 1 /\ again.byHand = FALSE
  <2>1. \A n \in Nat : LET a == [Away EXCEPT !.pc = "connect", !.attempt = n, !.table = 1]
                       IN  a \in Whereabouts /\ a.pc = "connect" /\ a.table = 1 /\ a.byHand = FALSE
    BY DEF Away, Whereabouts
  <2>2. at[p].attempt + 1 \in Nat
    BY <1>1
  <2> QED
    BY <2>1, <2>2
<1>3. over \in Whereabouts /\ over.pc = "refused" /\ over.table = 0 /\ over.byHand = FALSE
  BY DEF Away, Whereabouts
<1>4. at' = [at EXCEPT ![p] = again] \/ at' = [at EXCEPT ![p] = over]
  BY DEF Failed
<1> HIDE DEF again, over
<1>5. \A cols, num, bare : Behind(p, again, cols, num, bare) /\ Behind(p, over, cols, num, bare)
  BY <1>2, <1>3, FreshBehind
<1> QED
  BY <1>2, <1>3, <1>4, <1>5

LEMMA LaunchKeeps == ASSUME StartIInv, Settled, NEW p \in Processes, Launch(p) PROVE StartIInv'
<1> DEFINE pc == CASE server # "postgres" -> "create"
                   [] server = "postgres" /\ maxRetries = 0 -> "ready"
                   [] OTHER -> "connect"
           a == [Away EXCEPT !.attempt = 1, !.table = 1, !.pc = pc]
<1>1. pc \in {"create", "connect"} \/ (pc = "ready" /\ ~Tried)
  <2>1. maxRetries \in Nat
    BY SchemaInitConstantsOK DEF StartIInv
  <2>2. CASE server # "postgres"
    BY <2>2
  <2>3. CASE server = "postgres" /\ maxRetries = 0
    BY <2>3 DEF Tried
  <2>4. CASE server = "postgres" /\ maxRetries # 0
    BY <2>4
  <2> QED
    BY <2>2, <2>3, <2>4
<1>2. at' = [at EXCEPT ![p] = a] /\ UNCHANGED Database
  BY DEF Launch
<1> HIDE DEF pc
<1>3. a \in Whereabouts /\ a.pc = pc /\ a.table = 1 /\ a.byHand = FALSE
  BY <1>1 DEF Away, Whereabouts, Making
<1> HIDE DEF a
<1>4. Behind(p, a, columns, numbered, strict)
  BY <1>1, <1>3, FreshBehind
<1> QED
  BY <1>2, <1>3, <1>4, OnlyMoves

LEMMA ExitKeeps == ASSUME StartIInv, Settled, NEW p \in Processes, Exit(p) PROVE StartIInv'
<1>1. Away \in Whereabouts /\ Away.pc = "away" /\ Away.table = 0 /\ Away.byHand = FALSE
  BY DEF Away, Whereabouts
<1>2. Behind(p, Away, columns, numbered, strict)
  BY <1>1, FreshBehind
<1> QED
  BY <1>1, <1>2, OnlyMoves DEF Exit

LEMMA FailsKeep ==
  ASSUME StartIInv, Settled, NEW p \in Processes, Failed(p), UNCHANGED Database PROVE StartIInv'
BY FailedMoves, OnlyMoves

LEMMA ConnectKeeps == ASSUME StartIInv, Settled, NEW p \in Processes, Connect(p) PROVE StartIInv'
<1>1. CASE Goto(p, "create")
  <2> DEFINE a == [at[p] EXCEPT !.pc = "create"]
  <2>1. at[p] \in Whereabouts /\ Behind(p, at[p], columns, numbered, strict) /\ at[p].pc = "connect"
    BY DEF StartIInv, Connect
  <2>2. a \in Whereabouts /\ a.pc = "create" /\ a.table = at[p].table /\ a.byHand = at[p].byHand
    BY <2>1 DEF Whereabouts, Making
  <2>3. at' = [at EXCEPT ![p] = a]
    BY <1>1, <2>1 DEF Goto
  <2> HIDE DEF a
  <2>4. a.table = 1 /\ ~a.byHand
    BY <2>1, <2>2 DEF Behind
  <2> QED
    BY <2>2, <2>3, <2>4, FreshBehind, OnlyMoves DEF Connect
<1>2. CASE Failed(p)
  BY <1>2, FailsKeep DEF Connect
<1> QED
  BY <1>1, <1>2 DEF Connect

\* Where a process is with a table, the table is one of its own.
LEMMA TableIsWanted ==
  ASSUME StartIInv, NEW p \in Processes, at[p].pc \in Making
  PROVE  /\ at[p] \in Whereabouts /\ Behind(p, at[p], columns, numbered, strict)
         /\ at[p].table \in 1 .. Len(Order[p])
         /\ Wanted(p) \subseteq AllColumns
<1>1. at[p] \in Whereabouts /\ Behind(p, at[p], columns, numbered, strict)
  BY DEF StartIInv
<1>2. at[p].table \in 1 .. Len(Order[p])
  <2>1. at[p].table \in 0 .. Len(Order[p]) /\ at[p].table # 0 /\ Len(Order[p]) \in Nat
    BY <1>1, OrderFilled DEF Behind
  <2> QED
    BY <2>1
<1>3. Table(p) \in TablesOf(p)
  BY <1>2, SchemaInitConstantsOK DEF Table, TablesOf
<1>4. Wanted(p) \subseteq AllColumns
  <2>1. Wanted(p) \subseteq TheirColumns
    BY <1>3 DEF Wanted, TheirColumns
  <2> QED
    BY <2>1 DEF AllColumns
<1> QED
  BY <1>1, <1>2, <1>4

\* With a table made, the next one, or the end.
LEMMA NextMoves ==
  ASSUME StartIInv, NEW p \in Processes, at[p].pc \in Making, ~at[p].byHand, NextTable(p),
         NEW cols, NEW num, NEW bare,
         \A i \in 1 .. at[p].table : Made(p, Order[p][i], cols, num, bare)
  PROVE  \E a \in Whereabouts : at' = [at EXCEPT ![p] = a] /\ Behind(p, a, cols, num, bare)
<1> DEFINE n == at[p].table
           next == [at[p] EXCEPT !.pc = "create", !.table = n + 1, !.seen = {}]
           over == [Away EXCEPT !.pc = "ready"]
<1>1. at[p] \in Whereabouts /\ n \in 1 .. Len(Order[p]) /\ Len(Order[p]) \in Nat
  BY TableIsWanted, OrderFilled
<1>2. at' = [at EXCEPT ![p] = IF n < Len(Order[p]) THEN next ELSE over]
  BY DEF NextTable, StartIInv
<1>3. CASE n < Len(Order[p])
  <2>1. /\ next \in Whereabouts /\ next.pc = "create" /\ next.table = n + 1
        /\ next.byHand = at[p].byHand
    <3>1. \A w \in Whereabouts, m \in Nat :
            LET a == [w EXCEPT !.pc = "create", !.table = m, !.seen = {}]
            IN  a \in Whereabouts /\ a.pc = "create" /\ a.table = m /\ a.byHand = w.byHand
      BY DEF Whereabouts, Making
    <3>2. n + 1 \in Nat
      BY <1>1
    <3> HIDE DEF n
    <3> QED
      BY <1>1, <3>1, <3>2
  <2>2. at' = [at EXCEPT ![p] = next]
    BY <1>2, <1>3
  <2> HIDE DEF next
  <2>3. Behind(p, next, cols, num, bare)
    <3>1. \A i \in 1 .. next.table - 1 : Made(p, Order[p][i], cols, num, bare)
      BY <1>1, <2>1
    <3>2. next.table \in 0 .. Len(Order[p]) /\ next.table # 0
      BY <1>1, <1>3, <2>1
    <3> QED
      BY <2>1, <3>1, <3>2 DEF Behind, Making
  <2> QED
    BY <2>1, <2>2, <2>3
<1>4. CASE ~(n < Len(Order[p]))
  <2>1. over \in Whereabouts /\ over.pc = "ready" /\ over.table = 0 /\ over.byHand = FALSE
    BY DEF Away, Whereabouts
  <2>2. at' = [at EXCEPT ![p] = over]
    BY <1>2, <1>4
  <2> HIDE DEF over
  <2>3. Behind(p, over, cols, num, bare)
    <3>1. n = Len(Order[p])
      BY <1>1, <1>4
    <3> QED
      BY <1>1, <2>1, <3>1 DEF Behind, Making
  <2> QED
    BY <2>1, <2>2, <2>3
<1> QED
  BY <1>3, <1>4

\* A statement that makes a table, or finds it there.
LEMMA CreateGrows ==
  ASSUME StartIInv, NEW p \in Processes, Create(p)
  PROVE  /\ Grown(columns, numbered, strict, columns', numbered', strict')
         /\ DatabaseFits(columns', numbered', strict', links', unkeyed')
         /\ Table(p) \in DOMAIN columns'
<1> DEFINE t == Table(p)
           own == {r \in References : r[1] = t /\ r[2] \in Wanted(p)}
<1>1. at[p].pc = "create" /\ at[p].pc \in Making
  BY DEF Create, Making
<1>2. DatabaseFits(columns, numbered, strict, links, unkeyed) /\ Wanted(p) \subseteq AllColumns
  BY <1>1, TableIsWanted DEF StartIInv
<1>3. CASE t \in DOMAIN columns
  <2>1. columns' = columns /\ numbered' = numbered /\ strict' = strict /\ links' = links
        /\ unkeyed' = unkeyed
    BY <1>3 DEF Create, Database
  <2> QED
    BY <1>2, <1>3, <2>1 DEF Grown
<1>4. CASE t \notin DOMAIN columns
  <2>1. /\ columns' = [u \in DOMAIN columns \cup {t} |-> IF u = t THEN Wanted(p) ELSE columns[u]]
        /\ strict' = strict \cup {s \in Required : s[1] = t /\ s[2] \in Wanted(p)}
        /\ numbered' = IF server = "mysql" THEN numbered \cup {t} ELSE numbered
        /\ links' = links \cup own /\ unkeyed' = unkeyed
    BY <1>4 DEF Create
  <2> HIDE DEF t
  <2>2. DOMAIN columns' = DOMAIN columns \cup {t}
    BY <2>1
  <2>3. \A u \in DOMAIN columns : columns'[u] = columns[u]
    BY <1>4, <2>1
  <2>4. columns'[t] = Wanted(p)
    BY <2>1
  <2>5. Grown(columns, numbered, strict, columns', numbered', strict')
    <3>1. \A s \in strict' : s[1] \in DOMAIN columns => s \in strict
      BY <1>4, <2>1
    <3>2. numbered \subseteq numbered'
      BY <2>1
    <3> QED
      BY <2>2, <2>3, <3>1, <3>2 DEF Grown
  <2>6. \A u \in DOMAIN columns' : columns'[u] \subseteq AllColumns
    BY <1>2, <2>2, <2>3, <2>4 DEF DatabaseFits
  <2>7. numbered' \subseteq DOMAIN columns'
    BY <1>2, <2>1, <2>2 DEF DatabaseFits
  <2>8. strict' \subseteq Required /\ links' \subseteq References /\ unkeyed' \subseteq References
    BY <1>2, <2>1 DEF DatabaseFits
  <2>9. LinksKept(columns', links', unkeyed')
    BY <1>2, <1>4, <2>1, <2>2, <2>3, <2>4 DEF DatabaseFits, LinksKept
  <2>10. LegacyByHand(columns', numbered')
    BY <1>2, <2>1, <2>2 DEF DatabaseFits, LegacyByHand
  <2>11. DatabaseFits(columns', numbered', strict', links', unkeyed')
    BY <2>6, <2>7, <2>8, <2>9, <2>10 DEF DatabaseFits
  <2> QED
    BY <2>2, <2>5, <2>11 DEF t
<1> QED
  BY <1>3, <1>4

LEMMA CreateKeeps == ASSUME StartIInv, Settled, NEW p \in Processes, Create(p) PROVE StartIInv'
<1> DEFINE B(a) == Behind(p, a, columns', numbered', strict')
<1>1. /\ Grown(columns, numbered, strict, columns', numbered', strict')
      /\ DatabaseFits(columns', numbered', strict', links', unkeyed')
      /\ Table(p) \in DOMAIN columns'
  BY CreateGrows
<1>2. at[p].pc = "create" /\ at[p].pc \in Making
  BY DEF Create, Making
<1>3. /\ at[p] \in Whereabouts /\ at[p].table \in 1 .. Len(Order[p])
      /\ Behind(p, at[p], columns, numbered, strict) /\ Len(Order[p]) \in Nat
  BY <1>2, TableIsWanted, OrderFilled
<1>4. B(at[p])
  BY <1>1, <1>3, BehindStays
<1>5. ~at[p].byHand
  BY <1>2, <1>3 DEF Behind
<1>6. \E a \in Whereabouts : at' = [at EXCEPT ![p] = a] /\ B(a)
  <2>1. CASE server = "sqlite"
    <3>1. Made(p, Table(p), columns', numbered', strict')
      BY <1>1, <2>1 DEF Made
    <3>2. \A i \in 1 .. at[p].table - 1 : Made(p, Order[p][i], columns', numbered', strict')
      BY <1>2, <1>4 DEF Behind
    <3>3. \A i \in 1 .. at[p].table : Made(p, Order[p][i], columns', numbered', strict')
      BY <1>3, <3>1, <3>2 DEF Table
    <3>4. NextTable(p)
      BY <2>1 DEF Create
    <3> QED
      BY <1>2, <1>5, <3>3, <3>4, NextMoves
  <2>2. CASE server # "sqlite"
    <3> DEFINE a == [at[p] EXCEPT !.pc = "describe"]
    <3>1. /\ a \in Whereabouts /\ a.pc = "describe" /\ a.table = at[p].table
          /\ a.byHand = at[p].byHand
      BY <1>3 DEF Whereabouts, Making
    <3>2. at' = [at EXCEPT ![p] = a]
      BY <2>2, <1>3 DEF Create, Goto
    <3> HIDE DEF a
    <3>3. B(a)
      BY <1>1, <1>2, <1>4, <1>5, <2>2, <3>1 DEF Behind, Making, Table
    <3> QED
      BY <3>1, <3>2, <3>3
  <2> QED
    BY <2>1, <2>2
<1> QED
  BY <1>1, <1>6, ProcessMoves

LEMMA DescribeKeeps == ASSUME StartIInv, Settled, NEW p \in Processes, Describe(p) PROVE StartIInv'
<1> DEFINE t == Table(p)
           a == [at[p] EXCEPT !.seen = columns[t], !.pc = "add", !.byHand = server = "mysql" /\ t \notin numbered]
<1>1. at[p].pc = "describe" /\ at[p].pc \in Making /\ UNCHANGED Database
  BY DEF Describe, Making
<1>2. /\ at[p] \in Whereabouts /\ at[p].table \in 1 .. Len(Order[p])
      /\ Behind(p, at[p], columns, numbered, strict)
  BY <1>1, TableIsWanted
<1>3. t \in DOMAIN columns /\ server # "sqlite" /\ DatabaseFits(columns, numbered, strict, links, unkeyed)
  BY <1>1, <1>2 DEF Behind, Making, StartIInv, Table
<1>4. columns[t] \subseteq AllColumns
  BY <1>3 DEF DatabaseFits
<1>5. at' = [at EXCEPT ![p] = a]
  BY DEF Describe, StartIInv
<1>6. a \in Whereabouts
  BY <1>2, <1>4 DEF Whereabouts, Making
<1>7. /\ a.pc = "add" /\ a.table = at[p].table /\ a.seen = columns[t]
      /\ a.byHand = (server = "mysql" /\ t \notin numbered)
  BY <1>2 DEF Whereabouts
<1>8. a.byHand => server = "mysql" /\ older /\ t \in DOMAIN Legacy
  BY <1>3, <1>7 DEF DatabaseFits, LegacyByHand
<1> HIDE DEF a
<1>9. Behind(p, a, columns, numbered, strict)
  BY <1>1, <1>2, <1>3, <1>7, <1>8 DEF Behind, Making, Table
<1> QED
  BY <1>1, <1>5, <1>6, <1>9, OnlyMoves

LEMMA AddColumnKeeps == ASSUME StartIInv, Settled, NEW p \in Processes, AddColumn(p) PROVE StartIInv'
<1> DEFINE t == Table(p)
<1>1. PICK c \in Wanted(p) \ at[p].seen :
        /\ columns' = [columns EXCEPT ![t] = @ \cup {c}]
        /\ unkeyed' = unkeyed \cup {r \in References : r[1] = t /\ r[2] = c}
        /\ at' = [at EXCEPT ![p].seen = @ \cup {c}]
  BY DEF AddColumn
<1>2. at[p].pc = "add" /\ at[p].pc \in Making /\ UNCHANGED <<strict, numbered, links>>
  BY DEF AddColumn, Making
<1>3. /\ at[p] \in Whereabouts /\ Wanted(p) \subseteq AllColumns /\ at[p].table \in 1 .. Len(Order[p])
      /\ Behind(p, at[p], columns, numbered, strict)
  BY <1>2, TableIsWanted
<1>4. t \in DOMAIN columns /\ DatabaseFits(columns, numbered, strict, links, unkeyed)
  BY <1>2, <1>3 DEF Behind, Making, StartIInv, Table
<1> DEFINE a == [at[p] EXCEPT !.seen = at[p].seen \cup {c}]
<1>5. /\ DOMAIN columns' = DOMAIN columns /\ columns'[t] = columns[t] \cup {c}
      /\ \A u \in DOMAIN columns : u # t => columns'[u] = columns[u]
  BY <1>1, <1>4
<1>6. at' = [at EXCEPT ![p] = a]
  BY <1>1 DEF StartIInv
<1>7. /\ a \in Whereabouts /\ a.pc = at[p].pc /\ a.table = at[p].table /\ a.byHand = at[p].byHand
      /\ a.seen = at[p].seen \cup {c}
  BY <1>1, <1>3 DEF Whereabouts
<1> HIDE DEF a, t
<1>8. Grown(columns, numbered, strict, columns', numbered', strict')
  BY <1>2, <1>5 DEF Grown
<1>9. DatabaseFits(columns', numbered', strict', links', unkeyed')
  <2>1. \A u \in DOMAIN columns' : columns'[u] \subseteq AllColumns
    BY <1>1, <1>3, <1>4, <1>5 DEF DatabaseFits
  <2>2. LinksKept(columns', links', unkeyed') /\ LegacyByHand(columns', numbered')
    BY <1>1, <1>2, <1>4, <1>5 DEF DatabaseFits, LinksKept, LegacyByHand
  <2> QED
    BY <1>1, <1>2, <1>4, <1>5, <2>1, <2>2 DEF DatabaseFits
<1>10. Behind(p, at[p], columns', numbered', strict')
  BY <1>3, <1>8, BehindStays
<1>11. Behind(p, a, columns', numbered', strict')
  <2>1. at[p].seen \subseteq columns'[t]
    BY <1>2, <1>10 DEF Behind, Making, Table, t
  <2>2. a.seen \subseteq columns'[t]
    BY <1>5, <1>7, <2>1
  <2> QED
    BY <1>2, <1>7, <1>10, <2>2 DEF Behind, Making, Table, t
<1> QED
  BY <1>6, <1>7, <1>8, <1>9, <1>11, ProcessMoves

LEMMA ModifyKeeps ==
  ASSUME StartIInv, Settled, NEW p \in Processes, at[p].pc \in {"add", "renumber"}, at[p].byHand, Modify(p)
  PROVE  StartIInv'
<1> DEFINE t == Table(p)
           a == [at[p] EXCEPT !.pc = "add", !.byHand = FALSE]
<1>1. at[p].pc \in Making /\ UNCHANGED <<columns, strict, links, unkeyed>> /\ numbered' = numbered \cup {t}
  BY DEF Modify, Making
<1>2. /\ at[p] \in Whereabouts /\ at[p].table \in 1 .. Len(Order[p])
      /\ Behind(p, at[p], columns, numbered, strict)
  BY <1>1, TableIsWanted
<1>3. t \in DOMAIN columns /\ DatabaseFits(columns, numbered, strict, links, unkeyed)
  BY <1>1, <1>2 DEF Behind, Making, StartIInv, Table
<1>4. at' = [at EXCEPT ![p] = a]
  BY DEF Modify, StartIInv
<1>5. a \in Whereabouts /\ a.pc = "add" /\ a.table = at[p].table /\ a.byHand = FALSE /\ a.seen = at[p].seen
  BY <1>2 DEF Whereabouts, Making
<1> HIDE DEF a, t
<1>6. Grown(columns, numbered, strict, columns', numbered', strict')
  BY <1>1 DEF Grown
<1>7. DatabaseFits(columns', numbered', strict', links', unkeyed')
  BY <1>1, <1>3 DEF DatabaseFits, LinksKept, LegacyByHand
<1>8. Behind(p, at[p], columns', numbered', strict')
  BY <1>2, <1>6, BehindStays
<1>9. Behind(p, a, columns', numbered', strict')
  <2>1. at[p].seen \subseteq columns'[t] /\ t \in numbered' /\ t \in DOMAIN columns'
    BY <1>1, <1>3, <1>8 DEF Behind, Table, t
  <2> QED
    BY <1>1, <1>5, <1>8, <2>1 DEF Behind, Making, Table, t
<1> QED
  BY <1>4, <1>5, <1>6, <1>7, <1>9, ProcessMoves

LEMMA NumberKeyKeeps == ASSUME StartIInv, Settled, NEW p \in Processes, NumberKey(p) PROVE StartIInv'
<1>1. CASE Modify(p)
  BY <1>1, ModifyKeeps DEF NumberKey
<1>2. CASE Goto(p, "unlink") /\ UNCHANGED Database
  <2> DEFINE a == [at[p] EXCEPT !.pc = "unlink"]
  <2>1. at[p].pc = "add" /\ at[p].pc \in Making /\ at[p].byHand
    BY DEF NumberKey, Making
  <2>2. at[p] \in Whereabouts /\ Behind(p, at[p], columns, numbered, strict)
    BY <2>1, TableIsWanted
  <2>3. at' = [at EXCEPT ![p] = a]
    BY <1>2, <2>2 DEF Goto
  <2>4. /\ a \in Whereabouts /\ a.pc = "unlink" /\ a.table = at[p].table /\ a.byHand = at[p].byHand
        /\ a.seen = at[p].seen
    BY <2>2 DEF Whereabouts, Making
  <2> HIDE DEF a
  <2>5. Behind(p, a, columns, numbered, strict)
    BY <2>1, <2>2, <2>4 DEF Behind, Making
  <2> QED
    BY <1>2, <2>3, <2>4, <2>5, OnlyMoves
<1> QED
  BY <1>1, <1>2 DEF NumberKey

LEMMA UnlinkKeeps == ASSUME StartIInv, Settled, NEW p \in Processes, Unlink(p) PROVE StartIInv'
<1>1. at[p].pc = "unlink" /\ at[p].pc \in Making /\ UNCHANGED <<columns, strict, numbered, unkeyed>>
  BY DEF Unlink, Making
<1>2. CASE links' = links /\ Failed(p)
  BY <1>1, <1>2, FailsKeep DEF Database
<1>3. CASE /\ links' \in {links \ gone : gone \in SUBSET {r \in links : r[3] = Table(p)}}
           /\ Goto(p, "renumber")
  <2> DEFINE a == [at[p] EXCEPT !.pc = "renumber"]
             t == Table(p)
  <2>1. /\ at[p] \in Whereabouts /\ Behind(p, at[p], columns, numbered, strict)
        /\ DatabaseFits(columns, numbered, strict, links, unkeyed)
    BY <1>1, TableIsWanted DEF StartIInv
  <2>2. server = "mysql" /\ older /\ t \in DOMAIN Legacy
    BY <1>1, <2>1 DEF Behind, Table
  <2>3. links' \subseteq links /\ \A r \in links \ links' : r[3] = t
    BY <1>3
  <2>4. at' = [at EXCEPT ![p] = a]
    BY <1>3, <2>1 DEF Goto
  <2>5. /\ a \in Whereabouts /\ a.pc = "renumber" /\ a.table = at[p].table /\ a.byHand = at[p].byHand
        /\ a.seen = at[p].seen
    BY <2>1 DEF Whereabouts, Making
  <2> HIDE DEF a, t
  <2>6. Behind(p, a, columns, numbered, strict)
    BY <1>1, <2>1, <2>5 DEF Behind, Making
  <2>7. DatabaseFits(columns, numbered, strict, links', unkeyed')
    BY <1>1, <2>1, <2>2, <2>3 DEF DatabaseFits, LinksKept
  <2>8. columns' = columns /\ numbered' = numbered /\ strict' = strict /\ unkeyed' = unkeyed
    BY <1>1
  <2>9. Grown(columns, numbered, strict, columns', numbered', strict')
    BY <2>8 DEF Grown
  <2> QED
    BY <2>4, <2>5, <2>6, <2>7, <2>8, <2>9, ProcessMoves
<1> QED
  BY <1>2, <1>3 DEF Unlink

LEMMA AddedKeeps == ASSUME StartIInv, Settled, NEW p \in Processes, Added(p) PROVE StartIInv'
<1>1. /\ at[p].pc = "add" /\ at[p].pc \in Making /\ UNCHANGED Database
      /\ Wanted(p) \subseteq at[p].seen /\ ~at[p].byHand
  BY DEF Added, Making
<1>2. /\ at[p] \in Whereabouts /\ at[p].table \in 1 .. Len(Order[p])
      /\ Behind(p, at[p], columns, numbered, strict)
  BY <1>1, TableIsWanted
<1>3. /\ Table(p) \in DOMAIN columns /\ server # "sqlite" /\ Fields[p][Table(p)] \subseteq columns[Table(p)]
      /\ server = "mysql" => Table(p) \in numbered
  BY <1>1, <1>2 DEF Behind, Making, Table, Wanted
<1>4. CASE server = "mysql"
  <2> DEFINE a == [at[p] EXCEPT !.pc = "default"]
  <2>1. at' = [at EXCEPT ![p] = a]
    BY <1>2, <1>4 DEF Added, Goto
  <2>2. /\ a \in Whereabouts /\ a.pc = "default" /\ a.table = at[p].table /\ a.byHand = at[p].byHand
    BY <1>2 DEF Whereabouts, Making
  <2> HIDE DEF a
  <2>3. Behind(p, a, columns, numbered, strict)
    BY <1>1, <1>2, <1>3, <1>4, <2>2 DEF Behind, Making, Table
  <2> QED
    BY <1>1, <2>1, <2>2, <2>3, OnlyMoves
<1>5. CASE server # "mysql"
  <2>1. Made(p, Table(p), columns, numbered, strict)
    BY <1>3, <1>5 DEF Made
  <2>2. \A i \in 1 .. at[p].table - 1 : Made(p, Order[p][i], columns, numbered, strict)
    BY <1>1, <1>2 DEF Behind
  <2>3. \A i \in 1 .. at[p].table : Made(p, Order[p][i], columns, numbered, strict)
    BY <1>2, <2>1, <2>2 DEF Table
  <2>4. NextTable(p)
    BY <1>5 DEF Added
  <2>5. \E a \in Whereabouts : at' = [at EXCEPT ![p] = a] /\ Behind(p, a, columns, numbered, strict)
    BY <1>1, <2>3, <2>4, NextMoves
  <2> QED
    BY <1>1, <2>5, OnlyMoves
<1> QED
  BY <1>4, <1>5

LEMMA DefaultKeeps == ASSUME StartIInv, Settled, NEW p \in Processes, Default(p) PROVE StartIInv'
<1> DEFINE bare == {s \in strict : s[1] = Table(p)}
<1>1. at[p].pc = "default" /\ at[p].pc \in Making /\ UNCHANGED <<columns, numbered, links, unkeyed>>
  BY DEF Default, Making
<1>2. /\ at[p] \in Whereabouts /\ at[p].table \in 1 .. Len(Order[p])
      /\ Behind(p, at[p], columns, numbered, strict) /\ DatabaseFits(columns, numbered, strict, links, unkeyed)
  BY <1>1, TableIsWanted DEF StartIInv
<1>3. CASE bare = {}
  <2>1. strict' = strict /\ NextTable(p)
    BY <1>3 DEF Default
  <2>2. Made(p, Table(p), columns, numbered, strict)
    BY <1>1, <1>2, <1>3 DEF Behind, Made, Making, Table
  <2>3. \A i \in 1 .. at[p].table - 1 : Made(p, Order[p][i], columns, numbered, strict)
    BY <1>1, <1>2 DEF Behind
  <2>4. \A i \in 1 .. at[p].table : Made(p, Order[p][i], columns, numbered, strict)
    BY <1>2, <2>2, <2>3 DEF Table
  <2>5. ~at[p].byHand
    BY <1>1, <1>2 DEF Behind
  <2>6. \E a \in Whereabouts : at' = [at EXCEPT ![p] = a] /\ Behind(p, a, columns, numbered, strict)
    BY <1>1, <2>1, <2>4, <2>5, NextMoves
  <2> QED
    BY <1>1, <2>1, <2>6, OnlyMoves DEF Database
<1>4. CASE bare # {}
  <2>1. strict' \subseteq strict /\ at' = at
    BY <1>4 DEF Default
  <2>2. columns' = columns /\ numbered' = numbered /\ links' = links /\ unkeyed' = unkeyed
    BY <1>1
  <2>3. Grown(columns, numbered, strict, columns', numbered', strict')
    BY <2>1, <2>2 DEF Grown
  <2>4. DatabaseFits(columns', numbered', strict', links', unkeyed')
    BY <1>2, <2>1, <2>2 DEF DatabaseFits
  <2>5. at' = [at EXCEPT ![p] = at[p]]
    BY <2>1 DEF StartIInv
  <2>6. Behind(p, at[p], columns', numbered', strict')
    BY <1>2, <2>3, BehindStays
  <2> QED
    BY <1>2, <2>3, <2>4, <2>5, <2>6, ProcessMoves
<1> QED
  BY <1>3, <1>4

LEMMA StartNext == StartIInv /\ [SchemaInitNext]_initVars => StartIInv'
<1> SUFFICES ASSUME StartIInv, [SchemaInitNext]_initVars PROVE StartIInv'
  OBVIOUS
<1>1. ASSUME NEW p \in Processes, Settled, InitSteps(p) PROVE StartIInv'
  <2>1. CASE Launch(p)         BY <1>1, <2>1, LaunchKeeps
  <2>2. CASE Connect(p)        BY <1>1, <2>2, ConnectKeeps
  <2>3. CASE StatementFails(p) BY <1>1, <2>3, FailsKeep DEF StatementFails
  <2>4. CASE Create(p)         BY <1>1, <2>4, CreateKeeps
  <2>5. CASE Describe(p)       BY <1>1, <2>5, DescribeKeeps
  <2>6. CASE AddColumn(p)      BY <1>1, <2>6, AddColumnKeeps
  <2>7. CASE Added(p)          BY <1>1, <2>7, AddedKeeps
  <2>8. CASE NumberKey(p)      BY <1>1, <2>8, NumberKeyKeeps
  <2>9. CASE Unlink(p)         BY <1>1, <2>9, UnlinkKeeps
  <2>10. CASE Renumber(p)
    <3>1. at[p].pc = "renumber" /\ Behind(p, at[p], columns, numbered, strict)
      BY <2>10 DEF Renumber, StartIInv
    <3>2. at[p].byHand
      BY <3>1 DEF Behind
    <3> QED
      BY <1>1, <2>10, <3>1, <3>2, ModifyKeeps DEF Renumber
  <2>11. CASE Default(p)       BY <1>1, <2>11, DefaultKeeps
  <2>12. CASE Exit(p)          BY <1>1, <2>12, ExitKeeps
  <2> QED
    BY <1>1, <2>1, <2>2, <2>3, <2>4, <2>5, <2>6, <2>7, <2>8, <2>9, <2>10, <2>11, <2>12 DEF InitSteps
<1>2. CASE UNCHANGED initVars
  <2>1. /\ server' = server /\ maxRetries' = maxRetries /\ older' = older /\ columns' = columns
        /\ numbered' = numbered /\ strict' = strict /\ links' = links /\ unkeyed' = unkeyed /\ at' = at
    BY <1>2 DEF initVars
  <2> QED
    BY <2>1 DEF StartIInv, DatabaseFits, LinksKept, LegacyByHand, Behind, Made, Tried
<1> QED
  BY <1>1, <1>2 DEF SchemaInitNext, Settled

(* The inductive invariant of init, for any processes, schemas, servers    *)
(* and numbers of attempts.                                                *)
THEOREM StartInvariant == SchemaInitSpec => []StartIInv
BY InitStarts, StartNext, PTL DEF SchemaInitSpec

LEMMA StartedWhole == StartIInv => InitLeavesSchema
<1> SUFFICES ASSUME StartIInv PROVE InitLeavesSchema
  OBVIOUS
<1>1. ASSUME NEW p \in Processes, at[p].pc = "ready", Tried, NEW t \in TablesOf(p)
      PROVE  Made(p, t, columns, numbered, strict)
  <2>1. Behind(p, at[p], columns, numbered, strict)
    BY DEF StartIInv
  <2>2. PICK i \in DOMAIN Order[p] : t = Order[p][i]
    BY DEF TablesOf
  <2>3. i \in 1 .. Len(Order[p])
    BY SchemaInitConstantsOK
  <2> QED
    BY <1>1, <2>1, <2>2, <2>3 DEF Behind
<1>2. LinksKept(columns, links, unkeyed)
  BY DEF StartIInv, DatabaseFits
<1> QED
  BY <1>1, <1>2 DEF InitLeavesSchema, Made, LinksKept

-----------------------------------------------------------------------------
(* Configuration: a handle has the database open that its file names.      *)

\* What a handle says of the database it has open.
HandleFits(h) ==
  h \notin {NoHandle, Refused} =>
    /\ h.file # << >> /\ h.url = "relative" /\ h.driver = "sqlite" /\ AtHome(h) =>
         h.database = <<"file", h.file[1]>>
    /\ h.file # << >> => ~Conflicting(h.tables) /\ ~h.rls

ConfigIInv == DOMAIN handle = Programs /\ \A p \in Programs : HandleFits(handle[p])

\* One program's handle changes, to one that fits.
LEMMA HandleSet ==
  ASSUME ConfigIInv, NEW p \in Programs, NEW h, HandleFits(h), handle' = [handle EXCEPT ![p] = h]
  PROVE  ConfigIInv'
<1>1. DOMAIN handle' = Programs
  BY DEF ConfigIInv
<1>2. \A q \in Programs : handle'[q] = IF q = p THEN h ELSE handle[q]
  BY DEF ConfigIInv
<1>3. ASSUME NEW q \in Programs PROVE HandleFits(handle'[q])
  <2>1. CASE q = p
    BY <1>2, <2>1
  <2>2. CASE q # p
    BY <1>2, <2>2 DEF ConfigIInv
  <2> QED
    BY <2>1, <2>2
<1> QED
  BY <1>1, <1>3 DEF ConfigIInv

LEMMA ClosedFits == HandleFits(NoHandle) /\ HandleFits(Refused)
BY DEF HandleFits

LEMMA OpenDbKeeps == ASSUME ConfigIInv, NEW p \in Programs, OpenDb(p) PROVE ConfigIInv'
<1> DEFINE k == call[p]
           c == k.content[1]
           url == Or(k.url, c.url)
           place == IF k.way = "app" THEN Resolve(url, k.file[1], k.cwd) ELSE Unresolved(url, k.cwd)
           h == [way |-> k.way, file |-> k.file, url |-> url, home |-> k.way # "app" /\ k.cwd = k.file[1],
                 driver |-> Or(c.driver, "sqlite"), database |-> Opened(k, c.driver, place),
                 tables |-> Listed(c), rls |-> FALSE]
<1>1. CASE Usable(c) /\ Registered(k, c.driver)
  <2>1. handle' = [handle EXCEPT ![p] = h]
    BY <1>1 DEF OpenDb
  <2>2. HandleFits(h)
    <3>1. ~Conflicting(h.tables) /\ ~h.rls
      BY <1>1 DEF Usable
    <3>2. ASSUME h.url = "relative", h.driver = "sqlite", AtHome(h) PROVE h.database = <<"file", h.file[1]>>
      <4>1. url = "relative" /\ h.file = k.file
        BY <3>2
      <4>2. c.driver \in {None, "sqlite"}
        BY <3>2 DEF Or, None
      <4>3. h.database = place
        BY <4>2 DEF Opened
      <4>4. CASE k.way # "app"
        <5>1. k.cwd = k.file[1]
          BY <3>2, <4>4 DEF AtHome
        <5>2. place = Resolve(url, k.cwd, k.cwd)
          BY <4>4 DEF Unresolved
        <5> QED
          BY <4>1, <4>3, <5>1, <5>2 DEF Resolve, None
      <4>5. CASE k.way = "app"
        BY <4>1, <4>3, <4>5 DEF Resolve, None
      <4> QED
        BY <4>4, <4>5
    <3> HIDE DEF h
    <3> QED
      BY <3>1, <3>2 DEF HandleFits
  <2> HIDE DEF h
  <2> QED
    BY <2>1, <2>2, HandleSet
<1>2. CASE ~(Usable(c) /\ Registered(k, c.driver))
  <2>1. handle' = [handle EXCEPT ![p] = Refused]
    BY <1>2 DEF OpenDb
  <2> QED
    BY <2>1, HandleSet, ClosedFits
<1> QED
  BY <1>1, <1>2

LEMMA CallInlineKeeps == ASSUME ConfigIInv, NEW p \in Programs, CallInline(p) PROVE ConfigIInv'
<1>1. CASE handle' = [handle EXCEPT ![p] = Refused]
  BY <1>1, ClosedFits, HandleSet
<1>2. ASSUME NEW url, NEW driver, NEW database, NEW tables, NEW rls,
             handle' = [handle EXCEPT ![p] =
               [way |-> "inline", file |-> << >>, home |-> FALSE, url |-> url, driver |-> driver,
                database |-> database, tables |-> tables, rls |-> rls]]
      PROVE  ConfigIInv'
  <2> DEFINE h == [way |-> "inline", file |-> << >>, home |-> FALSE, url |-> url, driver |-> driver,
                   database |-> database, tables |-> tables, rls |-> rls]
  <2>1. h.file = << >>
    OBVIOUS
  <2>2. handle' = [handle EXCEPT ![p] = h]
    BY <1>2
  <2> HIDE DEF h
  <2>3. HandleFits(h)
    BY <2>1 DEF HandleFits
  <2> QED
    BY <2>2, <2>3, HandleSet
<1> QED
  BY <1>1, <1>2 DEF CallInline

LEMMA ConfigNextKeeps == ConfigIInv /\ [ConfigurationNext]_configVars => ConfigIInv'
<1> SUFFICES ASSUME ConfigIInv, [ConfigurationNext]_configVars PROVE ConfigIInv'
  OBVIOUS
<1>1. CASE UNCHANGED handle
  BY <1>1 DEF ConfigIInv
<1>2. ASSUME NEW p \in Programs, CallInline(p) PROVE ConfigIInv'
  BY <1>2, CallInlineKeeps
<1>3. ASSUME NEW p \in Programs, CallWithFile(p) PROVE ConfigIInv'
  <2>1. handle' = [handle EXCEPT ![p] = NoHandle] \/ handle' = [handle EXCEPT ![p] = Refused]
    BY <1>3 DEF CallWithFile
  <2> QED
    BY <2>1, HandleSet, ClosedFits
<1>4. ASSUME NEW p \in Programs, Load(p) PROVE ConfigIInv'
  <2>1. handle' = handle \/ handle' = [handle EXCEPT ![p] = Refused]
    BY <1>4 DEF Load
  <2> QED
    BY <1>1, <2>1, HandleSet, ClosedFits
<1>5. ASSUME NEW p \in Programs, OpenDb(p) PROVE ConfigIInv'
  BY <1>5, OpenDbKeeps
<1>6. ASSUME NEW p \in Programs, Leave(p) PROVE ConfigIInv'
  BY <1>6, HandleSet, ClosedFits DEF Leave
<1>7. CASE Edit
  BY <1>1, <1>7 DEF Edit
<1>8. CASE UNCHANGED configVars
  BY <1>1, <1>8 DEF configVars
<1> QED
  BY <1>2, <1>3, <1>4, <1>5, <1>6, <1>7, <1>8 DEF ConfigurationNext

(* A relative url is the database beside the configuration's file, for any *)
(* directories, files, drivers and programs (OpensConfigured).             *)
THEOREM ConfiguredOpens == ConfigurationSpec => []OpensConfigured
<1>1. ConfigurationInit => ConfigIInv
  BY ClosedFits DEF ConfigurationInit, ConfigIInv
<1>2. ConfigIInv => OpensConfigured
  BY DEF ConfigIInv, OpensConfigured, HandleFits, FromFile, IsOpen
<1> QED
  BY <1>1, <1>2, ConfigNextKeeps, PTL DEF ConfigurationSpec

(* Startup: however any number of processes start, edit files and die, one *)
(* that is up has its tables, one that has a handle has the database that  *)
(* its configuration names, and the pool under it is the one that close()  *)
(* ends.                                                                   *)
THEOREM ProcessesStartRight == SchemaInitSpec /\ ConfigurationSpec /\ LazyPoolSpec => []StartsRight
<1>1. StartIInv => InitLeavesSchema
  BY StartedWhole
<1> QED
  BY <1>1, StartInvariant, ConfiguredOpens, OnePoolReached, PTL DEF StartsRight

-----------------------------------------------------------------------------
(* SchemaSync                                                              *)

Columns == UNION {[C -> Definitions] : C \in SUBSET ColumnNames}

LEMMA ASchema ==
  ASSUME NEW S \in SUBSET TableNames, NEW s \in [S -> Columns]
  PROVE  s \in Schemas
BY DEF Schemas, Columns

LEMMA SchemaHas ==
  ASSUME NEW s \in Schemas
  PROVE  DOMAIN s \in SUBSET TableNames /\ s \in [DOMAIN s -> Columns]
<1>1. PICK S \in SUBSET TableNames : s \in [S -> Columns]
  BY DEF Schemas, Columns
<1> QED
  BY <1>1

LEMMA AColumnsMap ==
  ASSUME NEW C \in SUBSET ColumnNames, NEW f \in [C -> Definitions]
  PROVE  f \in Columns
BY DEF Columns

LEMMA ColumnsHave ==
  ASSUME NEW f \in Columns
  PROVE  DOMAIN f \in SUBSET ColumnNames /\ f \in [DOMAIN f -> Definitions]
<1>1. PICK C \in SUBSET ColumnNames : f \in [C -> Definitions]
  BY DEF Columns
<1> QED
  BY <1>1

LEMMA EmptySchema == Empty \in Schemas /\ DOMAIN Empty = {}
<1>1. DOMAIN Empty = {} /\ Empty \in [{} -> Columns]
  BY DEF Empty
<1> QED
  BY <1>1, ASchema

\* What is different is among the changes.
LEMMA DiffFinds ==
  ASSUME NEW b, NEW a
  PROVE  /\ \A t \in DOMAIN a \ DOMAIN b : ChangeOf("create_table", t, "all") \in diffSchemas(b, a)
         /\ \A t \in DOMAIN b \ DOMAIN a : ChangeOf("drop_table", t, "all") \in diffSchemas(b, a)
         /\ \A t \in DOMAIN a \cap DOMAIN b :
              /\ \A c \in DOMAIN a[t] \ DOMAIN b[t] : ChangeOf("add_column", t, c) \in diffSchemas(b, a)
              /\ \A c \in DOMAIN b[t] \ DOMAIN a[t] : ChangeOf("drop_column", t, c) \in diffSchemas(b, a)
              /\ \A c \in DOMAIN b[t] \cap DOMAIN a[t] :
                   b[t][c] # a[t][c] => ChangeOf("alter_column", t, c) \in diffSchemas(b, a)
<1> DEFINE created == {ChangeOf("create_table", t, "all") : t \in DOMAIN a \ DOMAIN b}
           dropped == {ChangeOf("drop_table", t, "all") : t \in DOMAIN b \ DOMAIN a}
           altered == UNION {ColumnChanges(b, a, t) : t \in Both(b, a)}
<1>1. created \subseteq diffSchemas(b, a) /\ dropped \subseteq diffSchemas(b, a)
  <2>1. diffSchemas(b, a) = created \cup altered \cup dropped
    BY DEF diffSchemas
  <2> HIDE DEF created, altered, dropped
  <2> QED
    BY <2>1
<1>2. ASSUME NEW t \in DOMAIN a \cap DOMAIN b
      PROVE  /\ \A c \in DOMAIN a[t] \ DOMAIN b[t] : ChangeOf("add_column", t, c) \in diffSchemas(b, a)
             /\ \A c \in DOMAIN b[t] \ DOMAIN a[t] : ChangeOf("drop_column", t, c) \in diffSchemas(b, a)
             /\ \A c \in DOMAIN b[t] \cap DOMAIN a[t] :
                  b[t][c] # a[t][c] => ChangeOf("alter_column", t, c) \in diffSchemas(b, a)
  <2>1. ColumnChanges(b, a, t) \subseteq diffSchemas(b, a)
    BY DEF diffSchemas, Both
  <2>2. /\ \A c \in DOMAIN a[t] \ DOMAIN b[t] : ChangeOf("add_column", t, c) \in ColumnChanges(b, a, t)
        /\ \A c \in DOMAIN b[t] \ DOMAIN a[t] : ChangeOf("drop_column", t, c) \in ColumnChanges(b, a, t)
    BY DEF ColumnChanges
  <2>3. \A c \in DOMAIN b[t] \cap DOMAIN a[t] :
          b[t][c] # a[t][c] => ChangeOf("alter_column", t, c) \in ColumnChanges(b, a, t)
    BY DEF ColumnChanges, Both
  <2> QED
    BY <2>1, <2>2, <2>3
<1>3. \A t \in DOMAIN a \ DOMAIN b : ChangeOf("create_table", t, "all") \in diffSchemas(b, a)
  BY <1>1
<1>4. \A t \in DOMAIN b \ DOMAIN a : ChangeOf("drop_table", t, "all") \in diffSchemas(b, a)
  BY <1>1
<1> QED
  BY <1>2, <1>3, <1>4

(* On Postgres nothing was ever applied.                                   *)
SyncIInv == SyncTypeOK /\ ReportsHold /\ (dialect = "postgres" => stored = Empty)

LEMMA Introspects ==
  ASSUME SyncTypeOK
  PROVE  /\ dialect = "sqlite" => DOMAIN Introspected = DOMAIN stored
         /\ dialect = "postgres" => LogTable \in DOMAIN Introspected
         /\ \A t \in DOMAIN stored : /\ t \in DOMAIN Introspected
                                     /\ DOMAIN Introspected[t] = DOMAIN stored[t]
                                     /\ \A c \in DOMAIN stored[t] : Introspected[t][c] = SeenColumn(stored[t][c])
<1>1. DOMAIN stored \in SUBSET TableNames
  BY SchemaHas DEF SyncTypeOK
<1>2. \A t \in DOMAIN stored : t # LogTable
  BY <1>1, SchemaSyncConstantsOK DEF LogTable
<1>3. /\ dialect = "sqlite" => DOMAIN Introspected = DOMAIN stored
      /\ dialect = "postgres" => LogTable \in DOMAIN Introspected
  BY DEF Introspected
<1>4. ASSUME NEW t \in DOMAIN stored
      PROVE  t \in DOMAIN Introspected /\ Introspected[t] = [c \in DOMAIN stored[t] |-> SeenColumn(stored[t][c])]
  BY <1>2, <1>4 DEF Introspected
<1> QED
  BY <1>3, <1>4

\* The log is a table to drop, and a drop of it does not run.
LEMMA LogInTheWay ==
  ASSUME SyncTypeOK, dialect = "postgres"
  PROVE  \E ch \in diffSchemas(Introspected, target) : ch.kind = "drop_table" /\ ~Runs(ch)
<1> DEFINE ch == ChangeOf("drop_table", LogTable, "all")
<1>1. LogTable \in DOMAIN Introspected \ DOMAIN target
  BY Introspects, SchemaHas, SchemaSyncConstantsOK DEF SyncTypeOK, LogTable
<1>2. ch \in diffSchemas(Introspected, target)
  BY <1>1, DiffFinds
<1>3. ch.kind = "drop_table" /\ ch.table = LogTable
  BY DEF ChangeOf
<1> HIDE DEF ch
<1>4. ~Runs(ch)
  BY <1>3 DEF Runs
<1> QED
  BY <1>2, <1>3, <1>4

\* Tables and columns are the same if no change says otherwise.
LEMMA SameShape ==
  ASSUME NEW a, NEW b, DOMAIN a = DOMAIN b, \A t \in DOMAIN a : DOMAIN a[t] = DOMAIN b[t]
  PROVE  Shape(a) = Shape(b)
BY DEF Shape

LEMMA SyncStart == SyncInit => SyncIInv
BY EmptySchema, SchemaSyncConstantsOK DEF SyncInit, SyncIInv, SyncTypeOK, ReportsHold

LEMMA InspectHolds == ASSUME SyncIInv, Inspect, dialect' = dialect, target' = target PROVE SyncIInv'
<1> DEFINE changes == diffSchemas(Introspected, target)
<1>1. SyncTypeOK'
  BY DEF Inspect, SyncIInv, SyncTypeOK
<1>2. CASE dialect = "postgres"
  <2>1. changes # {} /\ Destructive(changes)
    BY <1>2, LogInTheWay DEF SyncIInv, Destructive
  <2>2. report' = "review"
    BY <2>1 DEF Inspect
  <2> QED
    BY <1>1, <2>2 DEF SyncIInv, ReportsHold, Inspect
<1>3. CASE dialect = "sqlite"
  <2>1. /\ DOMAIN Introspected = DOMAIN stored
        /\ \A t \in DOMAIN stored : /\ DOMAIN Introspected[t] = DOMAIN stored[t]
                                    /\ \A c \in DOMAIN stored[t] : Introspected[t][c] = SeenColumn(stored[t][c])
    BY <1>3, Introspects DEF SyncIInv
  <2>2. CASE changes = {}
    <3>1. DOMAIN stored = DOMAIN target /\ \A t \in DOMAIN stored : DOMAIN stored[t] = DOMAIN target[t]
      BY <2>1, <2>2, DiffFinds
    <3>2. \A t \in DOMAIN stored : \A c \in DOMAIN stored[t] : AsConfigured(t, c)
      <4> SUFFICES ASSUME NEW t \in DOMAIN stored, NEW c \in DOMAIN stored[t] PROVE AsConfigured(t, c)
        OBVIOUS
      <4>1. Introspected[t][c] = target[t][c]
        BY <2>1, <2>2, <3>1, DiffFinds
      <4> QED
        BY <2>1, <4>1 DEF AsConfigured
    <3>3. Shape(stored) = Shape(target)
      BY <3>1, SameShape
    <3>4. report' = "inSync"
      BY <2>2 DEF Inspect
    <3> QED
      BY <1>1, <1>3, <3>2, <3>3, <3>4 DEF SyncIInv, ReportsHold, Inspect, AsConfigured, Shape
  <2>3. CASE changes # {} /\ ~Destructive(changes)
    <3>1. report' = "safe"
      BY <2>3 DEF Inspect
    <3>2. \A ch \in changes : ch.kind \notin {"drop_table", "drop_column", "alter_column"}
      BY <2>3 DEF Destructive
    <3>3. \A kind, t, c : ChangeOf(kind, t, c).kind = kind
      BY DEF ChangeOf
    <3>4. \A t \in DOMAIN stored :
            /\ t \in DOMAIN target /\ DOMAIN stored[t] \subseteq DOMAIN target[t]
            /\ \A c \in DOMAIN stored[t] : AsConfigured(t, c)
      <4> SUFFICES ASSUME NEW t \in DOMAIN stored
                   PROVE  /\ t \in DOMAIN target /\ DOMAIN stored[t] \subseteq DOMAIN target[t]
                          /\ \A c \in DOMAIN stored[t] : AsConfigured(t, c)
        OBVIOUS
      <4>1. t \in DOMAIN target
        <5>1. t \notin DOMAIN target => ChangeOf("drop_table", t, "all") \in changes
          BY <2>1, DiffFinds
        <5> QED
          BY <3>2, <3>3, <5>1
      <4>2. \A c \in DOMAIN stored[t] \ DOMAIN target[t] : ChangeOf("drop_column", t, c) \in changes
        BY <2>1, <4>1, DiffFinds
      <4>3. DOMAIN stored[t] \subseteq DOMAIN target[t]
        BY <3>2, <3>3, <4>2
      <4>4. ASSUME NEW c \in DOMAIN stored[t] PROVE AsConfigured(t, c)
        <5>1. Introspected[t][c] # target[t][c] => ChangeOf("alter_column", t, c) \in changes
          BY <2>1, <4>1, <4>3, DiffFinds
        <5>2. Introspected[t][c] = target[t][c]
          BY <3>2, <3>3, <5>1
        <5> QED
          BY <2>1, <5>2 DEF AsConfigured
      <4> QED
        BY <4>1, <4>3, <4>4
    <3> QED
      BY <1>1, <1>3, <3>1, <3>4 DEF SyncIInv, ReportsHold, Inspect, AsConfigured
  <2>4. CASE changes # {} /\ Destructive(changes)
    <3>1. report' = "review"
      BY <2>4 DEF Inspect
    <3> QED
      BY <1>1, <1>3, <3>1 DEF SyncIInv, ReportsHold, Inspect
  <2> QED
    BY <2>2, <2>3, <2>4
<1> QED
  BY <1>2, <1>3 DEF SyncIInv, SyncTypeOK

LEMMA UpIsASchema == ASSUME SyncTypeOK PROVE Up \in Schemas /\ DOMAIN Up = DOMAIN target
<1> DEFINE col(t) == [c \in DOMAIN target[t] |-> IF c \in DOMAIN stored[t] THEN stored[t][c] ELSE target[t][c]]
<1>1. /\ DOMAIN target \in SUBSET TableNames /\ target \in [DOMAIN target -> Columns]
      /\ DOMAIN stored \in SUBSET TableNames /\ stored \in [DOMAIN stored -> Columns]
  BY SchemaHas DEF SyncTypeOK
<1>2. ASSUME NEW t \in DOMAIN target, t \in DOMAIN stored PROVE col(t) \in Columns
  <2>1. /\ DOMAIN target[t] \in SUBSET ColumnNames /\ target[t] \in [DOMAIN target[t] -> Definitions]
        /\ stored[t] \in [DOMAIN stored[t] -> Definitions]
    BY <1>1, <1>2, ColumnsHave
  <2>2. col(t) \in [DOMAIN target[t] -> Definitions]
    BY <2>1
  <2> QED
    BY <2>1, <2>2, AColumnsMap
<1>3. Up = [t \in DOMAIN target |-> IF t \notin DOMAIN stored THEN target[t] ELSE col(t)]
  BY DEF Up
<1> HIDE DEF col
<1>4. Up \in [DOMAIN target -> Columns] /\ DOMAIN Up = DOMAIN target
  BY <1>1, <1>2, <1>3
<1> QED
  BY <1>1, <1>4, ASchema

LEMMA ApplyHolds ==
  ASSUME SyncIInv, NEW allow \in BOOLEAN, Apply(allow), dialect' = dialect, target' = target
  PROVE  SyncIInv'
<1> DEFINE changes == diffSchemas(Introspected, target)
           refused == Destructive(changes) /\ ~allow
<1>1. CASE changes = {} \/ refused \/ \E ch \in changes : ~Runs(ch)
  <2>1. CASE stored' = stored /\ records' = records /\
             report' = IF changes = {} THEN "inSync" ELSE IF refused THEN "refused" ELSE "failed"
    <3>1. SyncTypeOK'
      BY <2>1 DEF SyncIInv, SyncTypeOK
    <3>2. CASE changes = {}
      <4>1. Inspect
        BY <2>1, <3>2 DEF Inspect
      <4> QED
        BY <4>1, InspectHolds
    <3>3. CASE changes # {}
      <4>1. report' \in {"refused", "failed"}
        BY <2>1, <3>3
      <4> QED
        BY <2>1, <3>1, <4>1 DEF SyncIInv, ReportsHold
    <3> QED
      BY <3>2, <3>3
  <2> QED
    BY <1>1, <2>1 DEF Apply
<1>2. CASE ~(changes = {} \/ refused \/ \E ch \in changes : ~Runs(ch))
  <2>1. /\ \A ch \in changes : Runs(ch)
        /\ records < MaxRecords /\ stored' = Up /\ records' = records + 1 /\ report' = "applied"
    BY <1>2 DEF Apply
  <2>2. dialect = "sqlite"
    BY <2>1, LogInTheWay DEF SyncIInv, SyncTypeOK
  <2>3. Up \in Schemas /\ DOMAIN Up = DOMAIN target
    BY UpIsASchema DEF SyncIInv
  <2>4. SyncTypeOK'
    BY <2>1, <2>3, SchemaSyncConstantsOK DEF SyncIInv, SyncTypeOK
  <2>5. \A t \in DOMAIN target :
          /\ DOMAIN Up[t] = DOMAIN target[t]
          /\ \A c \in DOMAIN target[t] : target[t][c] \in {Up[t][c], SeenColumn(Up[t][c])}
    <3> SUFFICES ASSUME NEW t \in DOMAIN target
                 PROVE  /\ DOMAIN Up[t] = DOMAIN target[t]
                        /\ \A c \in DOMAIN target[t] : target[t][c] \in {Up[t][c], SeenColumn(Up[t][c])}
      OBVIOUS
    <3>1. CASE t \notin DOMAIN stored
      BY <3>1 DEF Up
    <3>2. CASE t \in DOMAIN stored
      <4>1. Up[t] = [c \in DOMAIN target[t] |-> IF c \in DOMAIN stored[t] THEN stored[t][c] ELSE target[t][c]]
        BY <3>2 DEF Up
      <4>2. /\ t \in DOMAIN Introspected /\ DOMAIN Introspected[t] = DOMAIN stored[t]
            /\ \A c \in DOMAIN stored[t] : Introspected[t][c] = SeenColumn(stored[t][c])
        BY <3>2, Introspects DEF SyncIInv
      <4>3. ASSUME NEW c \in DOMAIN target[t], c \in DOMAIN stored[t] PROVE target[t][c] = SeenColumn(stored[t][c])
        <5> DEFINE ch == ChangeOf("alter_column", t, c)
        <5>1. Introspected[t][c] # target[t][c] => ch \in changes
          BY <3>2, <4>2, <4>3, DiffFinds
        <5>2. ch.kind = "alter_column"
          BY DEF ChangeOf
        <5> HIDE DEF ch
        <5>3. ~Runs(ch)
          BY <5>2 DEF Runs
        <5> QED
          BY <2>1, <4>2, <4>3, <5>1, <5>3
      <4> QED
        BY <4>1, <4>3
    <3> QED
      BY <3>1, <3>2
  <2>6. Shape(Up) = Shape(target)
    BY <2>3, <2>5, SameShape
  <2>7. ReportsHold'
    BY <2>1, <2>2, <2>3, <2>5, <2>6 DEF ReportsHold, AsConfigured, Shape
  <2> QED
    BY <2>2, <2>4, <2>7 DEF SyncIInv
<1> QED
  BY <1>1, <1>2

LEMMA DownHolds == ASSUME SyncIInv, Down, dialect' = dialect, target' = target PROVE SyncIInv'
<1> DEFINE changes == diffSchemas(target, Introspected)
<1>1. CASE stored' = stored /\ records' = records /\ report' \in {"nothing", "failed"}
  BY <1>1 DEF SyncIInv, SyncTypeOK, ReportsHold
<1>2. CASE /\ records > 0 /\ \A ch \in changes : UndoRuns(ch)
           /\ stored' = [t \in Both(stored, target) |-> [c \in Kept(t) |-> stored[t][c]]]
           /\ records' = records - 1 /\ report' = "down"
  <2>1. /\ DOMAIN target \in SUBSET TableNames /\ target \in [DOMAIN target -> Columns]
        /\ DOMAIN stored \in SUBSET TableNames /\ stored \in [DOMAIN stored -> Columns]
    BY SchemaHas DEF SyncTypeOK, SyncIInv
  <2>2. dialect = "sqlite"
    BY <1>2 DEF SyncIInv, SyncTypeOK, ReportsHold
  <2>3. ASSUME NEW t \in Both(stored, target)
        PROVE  /\ [c \in Kept(t) |-> stored[t][c]] \in Columns
               /\ t \in DOMAIN target /\ Kept(t) \subseteq DOMAIN target[t]
               /\ \A c \in Kept(t) : AsConfigured(t, c)
    <3>1. t \in DOMAIN stored /\ t \in DOMAIN target
      BY DEF Both
    <3>2. DOMAIN stored[t] \in SUBSET ColumnNames /\ stored[t] \in [DOMAIN stored[t] -> Definitions]
      BY <2>1, <3>1, ColumnsHave
    <3>3. Kept(t) \in SUBSET ColumnNames /\ [c \in Kept(t) |-> stored[t][c]] \in [Kept(t) -> Definitions]
      BY <3>2 DEF Kept
    <3>4. /\ t \in DOMAIN Introspected /\ DOMAIN Introspected[t] = DOMAIN stored[t]
          /\ \A c \in DOMAIN stored[t] : Introspected[t][c] = SeenColumn(stored[t][c])
      BY <3>1, Introspects DEF SyncIInv
    <3>5. ASSUME NEW c \in Kept(t) PROVE AsConfigured(t, c)
      <4> DEFINE ch == ChangeOf("alter_column", t, c)
      <4>1. c \in DOMAIN target[t] \cap DOMAIN stored[t]
        BY DEF Kept
      <4>2. target[t][c] # Introspected[t][c] => ch \in changes
        BY <3>1, <3>4, <4>1, DiffFinds
      <4>3. ch.kind = "alter_column"
        BY DEF ChangeOf
      <4> HIDE DEF ch
      <4>4. ~UndoRuns(ch)
        BY <4>3 DEF UndoRuns
      <4> QED
        BY <1>2, <3>4, <4>1, <4>2, <4>4 DEF AsConfigured
    <3> QED
      BY <3>1, <3>3, <3>5, AColumnsMap DEF Kept
  <2>4. Both(stored, target) \in SUBSET TableNames /\ stored' \in [Both(stored, target) -> Columns]
    BY <1>2, <2>1, <2>3 DEF Both
  <2>5. stored' \in Schemas
    BY <2>4, ASchema
  <2>6. SyncTypeOK'
    BY <1>2, <2>5, SchemaSyncConstantsOK DEF SyncIInv, SyncTypeOK
  <2>7. \A t \in DOMAIN stored' : /\ t \in DOMAIN target /\ DOMAIN stored'[t] \subseteq DOMAIN target[t]
                                   /\ \A c \in DOMAIN stored'[t] : AsConfigured(t, c)'
    <3> SUFFICES ASSUME NEW t \in DOMAIN stored'
                 PROVE  /\ t \in DOMAIN target /\ DOMAIN stored'[t] \subseteq DOMAIN target[t]
                        /\ \A c \in DOMAIN stored'[t] : AsConfigured(t, c)'
      OBVIOUS
    <3>1. t \in Both(stored, target) /\ stored'[t] = [c \in Kept(t) |-> stored[t][c]]
      BY <1>2
    <3>2. DOMAIN stored'[t] = Kept(t) /\ \A c \in Kept(t) : stored'[t][c] = stored[t][c]
      BY <3>1
    <3> QED
      BY <2>3, <3>1, <3>2 DEF AsConfigured
  <2> QED
    BY <1>2, <2>2, <2>6, <2>7 DEF SyncIInv, ReportsHold
<1> QED
  BY <1>1, <1>2 DEF Down

LEMMA SyncSteps == SyncIInv /\ [SyncNext]_syncVars => SyncIInv'
<1> SUFFICES ASSUME SyncIInv, [SyncNext]_syncVars PROVE SyncIInv'
  OBVIOUS
<1>1. CASE EditConfig /\ UNCHANGED dialect
  BY <1>1 DEF EditConfig, SyncIInv, SyncTypeOK, ReportsHold
<1>2. CASE Inspect /\ UNCHANGED <<dialect, target>>
  BY <1>2, InspectHolds
<1>3. CASE Down /\ UNCHANGED <<dialect, target>>
  BY <1>3, DownHolds
<1>4. ASSUME NEW allow \in BOOLEAN, Apply(allow) /\ UNCHANGED <<dialect, target>> PROVE SyncIInv'
  BY <1>4, ApplyHolds
<1>5. CASE UNCHANGED syncVars
  BY <1>5 DEF syncVars, SyncIInv, SyncTypeOK, ReportsHold, Shape, AsConfigured
<1> QED
  BY <1>1, <1>2, <1>3, <1>4, <1>5 DEF SyncNext

LEMMA SyncInvariant == SyncSpec => []SyncIInv
BY SyncStart, SyncSteps, PTL DEF SyncSpec

(* The schema commands keep the schemas and the count of migrations well   *)
(* formed: apply and down build a schema from parts of the stored and the  *)
(* configured one (lib.ts).                                                *)
THEOREM SyncTypeCorrect == SyncSpec => []SyncTypeOK
BY SyncInvariant, PTL DEF SyncIInv

-----------------------------------------------------------------------------
(* Warming                                                                 *)

\* The flag is up while a run is under way, and then there is no other.
OneRun == /\ \A r, s \in runs : r = s
          /\ runs # {} => running

WarmingIInv ==
  /\ timers \subseteq Jobs /\ running \in BOOLEAN
  /\ runs \subseteq [job : Jobs, pc : {"fetch", "store"}]
  /\ OneRun

LEMMA BeginRunHolds ==
  ASSUME WarmingIInv, NEW j \in Jobs, BeginRun(j), timers' \subseteq Jobs
  PROVE  WarmingIInv'
<1>1. CASE running
  BY <1>1 DEF WarmingIInv, OneRun, BeginRun
<1>2. CASE ~running
  <2>1. running' = TRUE /\ runs' = {[job |-> j, pc |-> "fetch"]}
    BY <1>2 DEF WarmingIInv, OneRun, BeginRun
  <2> QED
    BY <2>1 DEF WarmingIInv, OneRun
<1> QED
  BY <1>1, <1>2

LEMMA WarmingSteps == WarmingIInv /\ [WarmingNext]_warmingVars => WarmingIInv'
<1> SUFFICES ASSUME WarmingIInv, [WarmingNext]_warmingVars PROVE WarmingIInv'
  OBVIOUS
<1>1. ASSUME NEW j \in Jobs, StartJob(j) \/ TimerFires(j) PROVE WarmingIInv'
  BY <1>1, BeginRunHolds DEF StartJob, TimerFires, WarmingIInv
<1>2. ASSUME NEW j \in Jobs, StopJob(j) PROVE WarmingIInv'
  BY <1>2 DEF StopJob, WarmingIInv, OneRun
<1>3. CASE StopAll
  BY <1>3 DEF StopAll, WarmingIInv, OneRun
<1>4. ASSUME NEW r \in runs, FetchDone(r) PROVE WarmingIInv'
  BY <1>4 DEF FetchDone, WarmingIInv, OneRun
<1>5. ASSUME NEW r \in runs, EndRun(r) PROVE WarmingIInv'
  BY <1>5 DEF EndRun, WarmingIInv, OneRun
<1>6. CASE UNCHANGED warmingVars
  BY <1>6 DEF warmingVars, WarmingIInv, OneRun
<1> QED
  BY <1>1, <1>2, <1>3, <1>4, <1>5, <1>6 DEF WarmingNext

LEMMA RunsCounted == WarmingIInv => WarmingTypeOK
<1> SUFFICES ASSUME WarmingIInv PROVE Cardinality(runs) <= 1
  BY DEF WarmingIInv, WarmingTypeOK
<1>1. CASE runs = {}
  BY <1>1, FS_EmptySet
<1>2. ASSUME NEW r \in runs PROVE Cardinality(runs) <= 1
  <2>1. runs = {r}
    BY DEF WarmingIInv, OneRun
  <2>2. Cardinality(runs) = 1
    BY <2>1, FS_Singleton
  <2> QED
    BY <2>2
<1> QED
  BY <1>1, <1>2

LEMMA WarmingTypes == WarmingInit /\ [][WarmingNext]_warmingVars => []WarmingTypeOK
<1>1. WarmingInit => WarmingIInv
  BY DEF WarmingInit, WarmingIInv, OneRun
<1> QED
  BY <1>1, RunsCounted, WarmingSteps, PTL

(* The jobs of a warmer run one at a time, whatever is started, stopped,   *)
(* fires and fails meanwhile (warming.ts:46 "avoid concurrent runs").      *)
THEOREM JobsRunAlone == WarmingSpec => []WarmingTypeOK
BY WarmingTypes, PTL DEF WarmingSpec

-----------------------------------------------------------------------------
(* DevServer                                                               *)

LEMMA AdmittedCounts ==
  ASSUME checks \in 0 .. MaxChecks, NEW n \in Nat, Admitted(n)
  PROVE  checks' \in 0 .. MaxChecks
BY DevServerConstantsOK DEF Admitted

(* A client is never let through more often than the limit of its window,  *)
(* although handle and the REST handler both count, and a response has a   *)
(* status the server sends (cli server.ts, api index.ts).                  *)
THEOREM ServerAnswers == DevServerSpec => []DevServerTypeOK
<1>1. DevServerInit => DevServerTypeOK
  BY DevServerConstantsOK DEF DevServerInit, DevServerTypeOK, NoResponse
<1>2. ASSUME DevServerTypeOK, RestRead PROVE DevServerTypeOK'
  <2>1. checks' \in 0 .. MaxChecks /\ contents' = contents
    BY <1>2, AdmittedCounts DEF RestRead, DevServerTypeOK
  <2>2. PICK q \in QueryStrings, item \in DOMAIN contents, one \in BOOLEAN :
          LET keys == IF one THEN {item} ELSE DOMAIN contents
              out  == IF checks + 2 > MaxChecks THEN [status |-> 429, list |-> << >>] ELSE Read(q, keys)
          IN  response' = [status |-> out.status, list |-> out.list, keys |-> keys, query |-> q,
                           seen |-> contents]
    BY <1>2 DEF RestRead
  <2> DEFINE keys == IF one THEN {item} ELSE DOMAIN contents
             out  == IF checks + 2 > MaxChecks THEN [status |-> 429, list |-> << >>] ELSE Read(q, keys)
  <2>3. Read(q, keys).status \in {200, 500}
    BY DEF Read
  <2>4. out.status \in {200, 429, 500}
    BY <2>3
  <2>5. response'.status = out.status
    BY <2>2
  <2> QED
    BY <1>2, <2>1, <2>4, <2>5 DEF DevServerTypeOK
<1>3. ASSUME DevServerTypeOK, NEW b \in BOOLEAN, RestWrite(b) PROVE DevServerTypeOK'
  <2>1. checks' \in 0 .. MaxChecks
    BY <1>3, AdmittedCounts DEF RestWrite, DevServerTypeOK
  <2> QED
    BY <1>3, <2>1 DEF RestWrite, DevServerTypeOK
<1>4. ASSUME DevServerTypeOK, Forget \/ NextWindow \/ UNCHANGED devVars PROVE DevServerTypeOK'
  BY <1>4, DevServerConstantsOK DEF Forget, NextWindow, devVars, DevServerTypeOK, NoResponse
<1>5. DevServerTypeOK /\ [DevServerNext]_devVars => DevServerTypeOK'
  BY <1>2, <1>3, <1>4 DEF DevServerNext
<1> QED
  BY <1>1, <1>5, PTL DEF DevServerSpec

-----------------------------------------------------------------------------
(* DevServer                                                               *)
\* The keys in the order of a direction, each once.
ListsAll(list, S, dir) ==
  /\ list \in [1 .. Cardinality(S) -> S]
  /\ \A i, j \in 1 .. Cardinality(S) : i < j => Before(dir, list[i], list[j])

LEMMA ListingIs ==
  ASSUME NEW S \in SUBSET Nat, IsFiniteSet(S), NEW dir
  PROVE  ListsAll(Listing(S, dir), S, dir)
<1> DEFINE n == Cardinality(S)
           P(s) == \A i, j \in 1 .. n : i < j => Before(dir, s[i], s[j])
<1>0. n \in Nat /\ S \in SUBSET Int
  BY FS_CardinalityType
<1>1. PICK s : Ascends(s, S)
  BY <1>0, AscendingExists
<1>2. s \in [1 .. n -> S] /\ \A i, j \in 1 .. n : i < j => s[i] < s[j]
  BY <1>1 DEF Ascends
<1>3. \E t \in [1 .. n -> S] : P(t)
  <2>1. CASE dir = "asc"
    <3>1. P(s)
      BY <1>2, <2>1 DEF Before
    <3> QED
      BY <1>2, <3>1
  <2>2. CASE dir # "asc"
    <3> DEFINE t == [i \in 1 .. n |-> s[n + 1 - i]]
    <3>0. \A i \in 1 .. n : n + 1 - i \in 1 .. n
      BY <1>0
    <3>1. t \in [1 .. n -> S]
      BY <1>2, <3>0
    <3>2. ASSUME NEW i \in 1 .. n, NEW j \in 1 .. n, i < j PROVE t[j] < t[i]
      <4>1. n + 1 - j < n + 1 - i
        BY <1>0, <3>2
      <4> QED
        BY <1>2, <3>0, <4>1
    <3> HIDE DEF t
    <3>3. P(t)
      BY <2>2, <3>2 DEF Before
    <3> QED
      BY <3>1, <3>3
  <2> QED
    BY <2>1, <2>2
<1>4. Listing(S, dir) = CHOOSE t \in [1 .. n -> S] : P(t)
  BY DEF Listing
<1> HIDE DEF P
<1>5. Listing(S, dir) \in [1 .. n -> S] /\ P(Listing(S, dir))
  BY <1>3, <1>4
<1> QED
  BY <1>5 DEF ListsAll, P

\* Where a row is, is how many of the rows are before it.
Rank(S, dir, k) == Cardinality({j \in S : Before(dir, j, k)})
Ranked(list, S, dir) ==
  /\ Cardinality(S) \in Nat /\ list \in Seq(S) /\ Len(list) = Cardinality(S) /\ DOMAIN list = 1 .. Cardinality(S)
  /\ \A k \in S : \E i \in 1 .. Cardinality(S) : list[i] = k
  /\ \A i \in 1 .. Cardinality(S) : list[i] \in S /\ Rank(S, dir, list[i]) = i - 1

LEMMA ListingRanked ==
  ASSUME NEW S \in SUBSET Nat, IsFiniteSet(S), NEW dir
  PROVE  Ranked(Listing(S, dir), S, dir)
<1> DEFINE n == Cardinality(S)
           list == Listing(S, dir)
<1>0. n \in Nat
  BY FS_CardinalityType
<1>1. ListsAll(list, S, dir)
  BY ListingIs
<1> HIDE DEF list
<1>2. list \in [1 .. n -> S] /\ \A i, j \in 1 .. n : i < j => Before(dir, list[i], list[j])
  BY <1>1 DEF ListsAll
<1> HIDE DEF n
<1>3. list \in Seq(S) /\ Len(list) = n /\ DOMAIN list = 1 .. n
  BY <1>0, <1>2, IsASeq
<1>4. \A j, k \in S : ~(Before(dir, j, k) /\ Before(dir, k, j)) /\ ~Before(dir, j, j)
  <2>1. ASSUME NEW j \in S, NEW k \in S PROVE ~(Before(dir, j, k) /\ Before(dir, k, j)) /\ ~Before(dir, j, j)
    <3>1. j \in Nat /\ k \in Nat
      OBVIOUS
    <3> QED
      BY <3>1 DEF Before
  <2> QED
    BY <2>1
<1>5. \A i, j \in 1 .. n : list[i] = list[j] => i = j
  <2> SUFFICES ASSUME NEW i \in 1 .. n, NEW j \in 1 .. n, list[i] = list[j] PROVE i = j
    OBVIOUS
  <2>1. i \in Int /\ j \in Int /\ list[i] \in S /\ list[j] \in S
    BY <1>0, <1>2
  <2>2. ~(i < j) /\ ~(j < i)
    BY <1>2, <1>4, <2>1
  <2> QED
    BY <2>1, <2>2
<1>6. list \in Injection(1 .. n, S)
  BY <1>2, <1>5 DEF Injection, IsInjective
<1>7. Cardinality(1 .. n) = n
  BY <1>0, FS_Interval
<1>8. list \in Surjection(1 .. n, S)
  BY <1>6, <1>7, FS_Injection DEF n
<1>9. \A k \in S : \E i \in 1 .. n : list[i] = k
  BY <1>8 DEF Surjection
<1>10. ASSUME NEW i \in 1 .. n PROVE Rank(S, dir, list[i]) = i - 1
  <2> DEFINE T == {j \in S : Before(dir, j, list[i])}
             m == i - 1
             f == [k \in 1 .. m |-> list[k]]
  <2>1. m \in Nat /\ i \in Nat /\ i <= n /\ \A k \in 1 .. m : k \in 1 .. n /\ k < i
    BY <1>0
  <2>2. \A k \in 1 .. m : f[k] \in T
    BY <1>2, <2>1
  <2>3. f \in [1 .. m -> T]
    BY <2>2
  <2>4. \A k, l \in 1 .. m : f[k] = f[l] => k = l
    BY <1>5, <2>1
  <2>5. \A j \in T : \E k \in 1 .. m : f[k] = j
    <3>1. ASSUME NEW j \in T PROVE \E k \in 1 .. m : f[k] = j
      <4>1. j \in S /\ Before(dir, j, list[i])
        OBVIOUS
      <4>2. PICK k \in 1 .. n : list[k] = j
        BY <1>9, <4>1
      <4>3. list[i] \in S /\ k \in Nat
        BY <1>0, <1>2
      <4>4. ~(i < k) /\ k # i
        BY <1>2, <1>4, <4>1, <4>2, <4>3
      <4>5. k \in 1 .. m
        BY <2>1, <4>3, <4>4
      <4> QED
        BY <4>2, <4>5
    <3> QED
      BY <3>1
  <2> HIDE DEF f
  <2>6. f \in Bijection(1 .. m, T)
    BY <2>3, <2>4, <2>5 DEF Bijection, Injection, Surjection, IsInjective
  <2>7. Cardinality(T) = m
    <3> HIDE DEF T, m
    <3> QED
      BY <2>1, <2>6, FS_CountingElements DEF ExistsBijection
  <2> QED
    BY <2>7 DEF Rank
<1> QED
  BY <1>0, <1>2, <1>3, <1>9, <1>10 DEF Ranked, n, list

\* A list of keys in order is the only one.
LEMMA RanksDiffer ==
  ASSUME NEW S \in SUBSET Nat, IsFiniteSet(S), NEW dir, NEW n \in Int
  PROVE  (\E k \in S : Rank(S, dir, k) >= n) <=> Cardinality(S) > n /\ (Cardinality(S) > 0)
<1> DEFINE list == Listing(S, dir)
           c == Cardinality(S)
<1>1. Ranked(list, S, dir)
  BY ListingRanked
<1> HIDE DEF list
<1>2. c \in Nat /\ (\A k \in S : \E i \in 1 .. c : list[i] = k)
      /\ \A i \in 1 .. c : list[i] \in S /\ Rank(S, dir, list[i]) = i - 1
  BY <1>1 DEF Ranked
<1> HIDE DEF c
<1>3. ASSUME NEW k \in S, Rank(S, dir, k) >= n PROVE c > n /\ c > 0
  <2>1. PICK i \in 1 .. c : list[i] = k
    BY <1>2
  <2>2. i - 1 >= n
    BY <1>2, <1>3, <2>1
  <2> QED
    BY <1>2, <2>2
<1>4. ASSUME c > n, c > 0 PROVE \E k \in S : Rank(S, dir, k) >= n
  <2>1. c \in 1 .. c
    BY <1>2, <1>4
  <2>2. list[c] \in S /\ Rank(S, dir, list[c]) = c - 1
    BY <1>2, <2>1
  <2>3. c - 1 >= n
    BY <1>2, <1>4
  <2> QED
    BY <2>2, <2>3
<1> QED
  BY <1>3, <1>4 DEF c

-----------------------------------------------------------------------------
\* parseFilterQuery.
IsQuery(q) == q \in Seq(Params) /\ \A j, k \in DOMAIN q : q[j].name = q[k].name => j = k
UpToPlace(q, name, n) == {i \in Given(q, name) : i <= n}
Direction(q, n) == IF \E i \in 1 .. n : q[i].name = "sort" /\ q[i].dir = "desc" THEN "desc" ELSE "asc"
\* The size by which a page was counted.
PageSize(q) ==
  IF \E i \in Given(q, "page"), j \in Given(q, "per_page") : j < i THEN SizeOf(q, "per_page", 10) ELSE 10
\* What is known of n parameters.
ParsedUpTo(q, n, parsed) ==
  /\ parsed = [filters |-> {q[i] : i \in {j \in 1 .. n : q[j].name = "filter"}}, dir |-> Direction(q, n),
               limit |-> IF UpToPlace(q, "per_page", n) = {} THEN 0 ELSE SizeOf(q, "per_page", 10),
               offset |-> IF UpToPlace(q, "page", n) = {} THEN 0 ELSE (SizeOf(q, "page", 1) - 1) * PageSize(q)]

\* The parameters, and their sizes.
ParamFits(x) ==
  \/ x.name = "filter" /\ x.op \in {"eq", "gt"} /\ x.value \in AgeValues
  \/ x.name = "sort" /\ x.dir \in {"asc", "desc"}
  \/ x.name \in {"page", "per_page"} /\ x.size \in Nat
LEMMA ParamsFit == ASSUME NEW x \in Params PROVE ParamFits(x)
<1>1. CASE x \in [name : {"filter"}, op : {"eq", "gt"}, value : AgeValues]
  BY <1>1 DEF ParamFits
<1>2. CASE x \in [name : {"sort"}, dir : {"asc", "desc"}]
  BY <1>2 DEF ParamFits
<1>3. CASE x \in [name : {"page", "per_page"}, size : Sizes]
  BY <1>3, DevServerConstantsOK DEF ParamFits
<1> QED
  BY <1>1, <1>2, <1>3 DEF Params

LEMMA QueriesFit ==
  ASSUME NEW q \in QueryStrings
  PROVE  IsQuery(q)
<1>1. PICK n \in 0 .. MaxParams : q \in [1 .. n -> Params]
  BY DEF QueryStrings
<1>2. n \in Nat
  BY <1>1, DevServerConstantsOK
<1>3. q \in Seq(Params)
  <2>1. \E m \in Nat : q \in [1 .. m -> Params]
    BY <1>1, <1>2, Zenon
  <2> QED
    BY <2>1, SeqDef, Zenon
<1> QED
  BY <1>3 DEF QueryStrings, IsQuery

\* A name that was given has one place.
LEMMA GivenOnce ==
  ASSUME NEW q, IsQuery(q), NEW name \in {"page", "per_page"}
  PROVE  /\ \A i \in Given(q, name) : /\ i \in 1 .. Len(q) /\ q[i].name = name /\ q[i].size \in Nat /\ q[i].size >= 1
                                      /\ Given(q, name) = {i}
                                      /\ \A default : SizeOf(q, name, default) = q[i].size
         /\ \A default : Given(q, name) = {} => SizeOf(q, name, default) = default
         /\ \A i \in 1 .. Len(q) : q[i].name = name /\ q[i].size > 0 => i \in Given(q, name)
<1>1. q \in Seq(Params) /\ DOMAIN q = 1 .. Len(q) /\ Len(q) \in Nat
  BY DEF IsQuery
<1>2. \A i \in 1 .. Len(q) : ParamFits(q[i])
  BY <1>1, ParamsFit
<1>3. ASSUME NEW i \in Given(q, name)
      PROVE  /\ i \in 1 .. Len(q) /\ q[i].name = name /\ q[i].size \in Nat /\ q[i].size >= 1
             /\ Given(q, name) = {i} /\ \A default : SizeOf(q, name, default) = q[i].size
  <2>1. i \in 1 .. Len(q) /\ q[i].name = name /\ q[i].size > 0
    BY <1>1, <1>3 DEF Given
  <2>2. q[i].size \in Nat
    BY <1>2, <2>1 DEF ParamFits
  <2>3. \A j \in Given(q, name) : j = i
    BY <1>1, <2>1 DEF Given, IsQuery
  <2>4. Given(q, name) = {i}
    BY <2>3
  <2>5. (CHOOSE j \in Given(q, name) : TRUE) = i
    BY <2>4
  <2> QED
    BY <2>1, <2>2, <2>4, <2>5 DEF SizeOf
<1>4. \A default : Given(q, name) = {} => SizeOf(q, name, default) = default
  BY DEF SizeOf
<1>5. \A i \in 1 .. Len(q) : q[i].name = name /\ q[i].size > 0 => i \in Given(q, name)
  BY <1>1 DEF Given
<1> QED
  BY <1>3, <1>4, <1>5

\* One more parameter.
LEMMA ParameterFits ==
  ASSUME NEW q, IsQuery(q), NEW n \in 1 .. Len(q), NEW parsed, ParsedUpTo(q, n - 1, parsed)
  PROVE  ParsedUpTo(q, n, Parameter(parsed, q[n]))
<1> DEFINE x == q[n]
           F(m) == {q[i] : i \in {j \in 1 .. m : q[j].name = "filter"}}
           L(m) == IF UpToPlace(q, "per_page", m) = {} THEN 0 ELSE SizeOf(q, "per_page", 10)
           O(m) == IF UpToPlace(q, "page", m) = {} THEN 0 ELSE (SizeOf(q, "page", 1) - 1) * PageSize(q)
           D(m) == Direction(q, m)
<1>1. q \in Seq(Params) /\ DOMAIN q = 1 .. Len(q) /\ Len(q) \in Nat /\ n \in Nat /\ n >= 1 /\ n <= Len(q)
  BY DEF IsQuery
<1>2. ParamFits(x)
  BY <1>1, ParamsFit
<1>3. \A j : j \in 1 .. n <=> j \in 1 .. n - 1 \/ j = n
  BY <1>1
<1>4. \A name : UpToPlace(q, name, n) = UpToPlace(q, name, n - 1) \cup (IF n \in Given(q, name) THEN {n} ELSE {})
  <2>1. ASSUME NEW name, NEW i PROVE i \in UpToPlace(q, name, n) <=> i \in UpToPlace(q, name, n - 1) \/ (i = n /\ n \in Given(q, name))
    <3>1. i \in Given(q, name) => i \in Nat
      BY <1>1 DEF Given
    <3> QED
      BY <1>1, <3>1 DEF UpToPlace
  <2> QED
    BY <2>1
<1>5. \A name : n \in Given(q, name) <=> x.name = name /\ (name \in {"page", "per_page"} => x.size > 0)
  BY <1>1 DEF Given
<1>6. parsed = [filters |-> F(n - 1), dir |-> D(n - 1), limit |-> L(n - 1), offset |-> O(n - 1)]
  BY DEF ParsedUpTo
<1>7. F(n) = IF x.name = "filter" THEN F(n - 1) \cup {x} ELSE F(n - 1)
  <2>1. ASSUME NEW v PROVE v \in F(n) <=> v \in F(n - 1) \/ (x.name = "filter" /\ v = x)
    BY <1>3
  <2> QED
    BY <2>1
<1>8. x.name = "sort" => D(n) = x.dir
  <2> SUFFICES ASSUME x.name = "sort" PROVE D(n) = x.dir
    OBVIOUS
  <2>1. x.dir \in {"asc", "desc"}
    BY <1>2 DEF ParamFits
  <2>2. \A i \in 1 .. n : q[i].name = "sort" => i = n
    BY <1>1 DEF IsQuery
  <2> QED
    BY <1>3, <2>1, <2>2 DEF Direction
<1>9. x.name # "sort" => D(n) = D(n - 1)
  BY <1>3 DEF Direction
<1>10. n \notin Given(q, "per_page") => L(n) = L(n - 1)
  BY <1>4
<1>11. n \in Given(q, "per_page") => L(n) = x.size
  <2> SUFFICES ASSUME n \in Given(q, "per_page") PROVE L(n) = x.size
    OBVIOUS
  <2>1. SizeOf(q, "per_page", 10) = x.size
    BY GivenOnce
  <2> QED
    BY <1>4, <2>1
<1>12. n \notin Given(q, "page") => O(n) = O(n - 1)
  BY <1>4
<1>13. n \in Given(q, "page") => O(n) = (x.size - 1) * (IF L(n - 1) = 0 THEN 10 ELSE L(n - 1))
  <2> SUFFICES ASSUME n \in Given(q, "page") PROVE O(n) = (x.size - 1) * (IF L(n - 1) = 0 THEN 10 ELSE L(n - 1))
    OBVIOUS
  <2>1. SizeOf(q, "page", 1) = x.size /\ Given(q, "page") = {n}
    BY GivenOnce
  <2>2. PageSize(q) = IF \E j \in Given(q, "per_page") : j < n THEN SizeOf(q, "per_page", 10) ELSE 10
    BY <2>1 DEF PageSize
  <2>3. (\E j \in Given(q, "per_page") : j < n) <=> UpToPlace(q, "per_page", n - 1) # {}
    <3>1. \A j \in Given(q, "per_page") : j \in Nat
      BY <1>1 DEF Given
    <3> DEFINE G == Given(q, "per_page")
    <3>2. \A j \in G : j < n <=> j <= n - 1
      BY <1>1, <3>1
    <3>3. UpToPlace(q, "per_page", n - 1) = {j \in G : j <= n - 1}
      BY DEF UpToPlace
    <3> HIDE DEF G
    <3>4. (\E j \in G : j < n) <=> UpToPlace(q, "per_page", n - 1) # {}
      BY <3>2, <3>3
    <3> QED
      BY <3>4 DEF G
  <2>4. ASSUME NEW j \in Given(q, "per_page") PROVE SizeOf(q, "per_page", 10) # 0
    BY GivenOnce
  <2>5. PageSize(q) = IF L(n - 1) = 0 THEN 10 ELSE L(n - 1)
    BY <2>2, <2>3, <2>4
  <2>6. O(n) = (SizeOf(q, "page", 1) - 1) * PageSize(q)
    BY <1>4
  <2> QED
    BY <2>1, <2>5, <2>6
<1> HIDE DEF F, L, O, D
<1> DEFINE y == Parameter(parsed, x)
<1>f. parsed.limit = L(n - 1)
  BY <1>6
<1>14. y = [filters |-> F(n), dir |-> D(n), limit |-> L(n), offset |-> O(n)]
  <2>1. CASE x.name = "filter"
    <3>1. y = [parsed EXCEPT !.filters = @ \cup {x}]
      BY <2>1 DEF Parameter
    <3>2. n \notin Given(q, "page") /\ n \notin Given(q, "per_page")
      BY <1>5, <2>1
    <3>3. F(n) = F(n - 1) \cup {x} /\ D(n) = D(n - 1) /\ L(n) = L(n - 1) /\ O(n) = O(n - 1)
      BY <1>7, <1>9, <1>10, <1>12, <2>1, <3>2, Zenon
    <3>4. y = [filters |-> F(n - 1) \cup {x}, dir |-> D(n - 1), limit |-> L(n - 1), offset |-> O(n - 1)]
      BY <1>6, <3>1
    <3> QED
      BY <3>3, <3>4
  <2>2. CASE x.name = "sort"
    <3>1. y = [parsed EXCEPT !.dir = x.dir]
      BY <2>2 DEF Parameter
    <3>2. n \notin Given(q, "page") /\ n \notin Given(q, "per_page")
      BY <1>5, <2>2
    <3> QED
      BY <1>6, <1>7, <1>8, <1>10, <1>12, <2>2, <3>1, <3>2
  <2>3. CASE x.name = "page" /\ x.size > 0
    <3> DEFINE o == (x.size - 1) * (IF L(n - 1) = 0 THEN 10 ELSE L(n - 1))
    <3>1. y = Page(parsed, x.size)
      BY <2>3 DEF Parameter
    <3>2. Page(parsed, x.size) = [parsed EXCEPT !.offset = o]
      BY <1>f DEF Page, NoLimit, DefaultSize
    <3>3. n \in Given(q, "page") /\ n \notin Given(q, "per_page")
      BY <1>5, <2>3
    <3>4. O(n) = o
      BY <1>13, <3>3
    <3> HIDE DEF o
    <3> QED
      BY <1>6, <1>7, <1>9, <1>10, <2>3, <3>1, <3>2, <3>3, <3>4
  <2>4. CASE x.name = "per_page" /\ x.size > 0
    <3>1. y = [parsed EXCEPT !.limit = x.size]
      BY <2>4 DEF Parameter
    <3>2. n \notin Given(q, "page") /\ n \in Given(q, "per_page")
      BY <1>5, <2>4
    <3> QED
      BY <1>6, <1>7, <1>9, <1>11, <1>12, <2>4, <3>1, <3>2
  <2>5. CASE x.name \in {"page", "per_page"} /\ ~(x.size > 0)
    <3>1. y = parsed
      BY <2>5 DEF Parameter
    <3>2. n \notin Given(q, "page") /\ n \notin Given(q, "per_page")
      BY <1>5, <2>5
    <3> QED
      BY <1>6, <1>7, <1>9, <1>10, <1>12, <2>5, <3>1, <3>2
  <2> QED
    BY <1>2, <2>1, <2>2, <2>3, <2>4, <2>5 DEF ParamFits
<1> QED
  BY <1>14 DEF ParsedUpTo, F, L, O, D

\* The parameters one after the other, as parseFilterQuery takes them.
StartParsed == [filters |-> {}, dir |-> "asc", limit |-> NoLimit, offset |-> 0]
ParseSteps(g, q, k) == g = [n \in 0 .. k |-> IF n = 0 THEN StartParsed ELSE Parameter(g[n - 1], q[n])]

LEMMA ParseChosen ==
  ASSUME NEW q
  PROVE  parseFilterQuery(q) = (CHOOSE g : ParseSteps(g, q, Len(q)))[Len(q)]
BY DEF parseFilterQuery, ParseSteps, StartParsed

LEMMA ParseExists ==
  ASSUME NEW q, NEW k \in Nat
  PROVE  \E g : ParseSteps(g, q, k)
<1> DEFINE S == {n \in 0 .. k : \E g : ParseSteps(g, q, n)}
<1>1. 0 \in S
  <2> DEFINE g == [n \in 0 .. 0 |-> StartParsed]
  <2>1. g = [n \in 0 .. 0 |-> IF n = 0 THEN StartParsed ELSE Parameter(g[n - 1], q[n])]
    OBVIOUS
  <2>2. ParseSteps(g, q, 0)
    BY <2>1 DEF ParseSteps
  <2> QED
    BY <2>2
<1>2. ASSUME NEW n \in 1 .. k, n - 1 \in S PROVE n \in S
  <2>1. PICK g : ParseSteps(g, q, n - 1)
    BY <1>2
  <2> DEFINE h == [m \in 0 .. n |-> IF m = n THEN Parameter(g[n - 1], q[n]) ELSE g[m]]
  <2>2. g = [m \in 0 .. n - 1 |-> IF m = 0 THEN StartParsed ELSE Parameter(g[m - 1], q[m])]
    BY <2>1 DEF ParseSteps
  <2>3. ASSUME NEW m \in 0 .. n PROVE h[m] = IF m = 0 THEN StartParsed ELSE Parameter(h[m - 1], q[m])
    <3>1. CASE m = n
      <4>1. n - 1 \in 0 .. n /\ n - 1 # n /\ m # 0
        BY <3>1
      <4>2. h[m] = Parameter(g[n - 1], q[n]) /\ h[n - 1] = g[n - 1]
        BY <3>1, <4>1
      <4> QED
        BY <3>1, <4>1, <4>2
    <3>2. CASE m # n
      <4>1. m \in 0 .. n - 1 /\ h[m] = g[m]
        BY <3>2
      <4>2. g[m] = IF m = 0 THEN StartParsed ELSE Parameter(g[m - 1], q[m])
        BY <2>2, <4>1
      <4>3. m # 0 => m - 1 \in 0 .. n /\ m - 1 # n /\ h[m - 1] = g[m - 1]
        BY <4>1
      <4> QED
        BY <4>1, <4>2, <4>3
    <3> QED
      BY <3>1, <3>2
  <2>4. h = [m \in 0 .. n |-> h[m]]
    OBVIOUS
  <2> HIDE DEF h
  <2>5. h = [m \in 0 .. n |-> IF m = 0 THEN StartParsed ELSE Parameter(h[m - 1], q[m])]
    BY <2>3, <2>4
  <2>6. ParseSteps(h, q, n)
    BY <2>5 DEF ParseSteps
  <2> QED
    BY <2>6
<1> HIDE DEF S
<1>3. \A n \in 0 .. k : n \in S
  BY <1>1, <1>2, Induct
<1> QED
  BY <1>3 DEF S

LEMMA ParsedRight ==
  ASSUME NEW q, IsQuery(q)
  PROVE  ParsedUpTo(q, Len(q), parseFilterQuery(q))
<1> DEFINE k == Len(q)
           g == CHOOSE f : ParseSteps(f, q, k)
           S == {n \in 0 .. k : ParsedUpTo(q, n, g[n])}
<1>0. k \in Nat /\ DOMAIN q = 1 .. k
  BY DEF IsQuery
<1>1. ParseSteps(g, q, k) /\ parseFilterQuery(q) = g[k]
  <2> HIDE DEF k
  <2>1. ParseSteps(g, q, k)
    BY <1>0, ParseExists
  <2> QED
    BY <2>1, ParseChosen DEF k
<1> HIDE DEF g
<1>2. \A n \in 0 .. k : g[n] = IF n = 0 THEN StartParsed ELSE Parameter(g[n - 1], q[n])
  BY <1>1 DEF ParseSteps
<1>3. 0 \in S
  <2>1. g[0] = StartParsed /\ 0 \in 0 .. k
    BY <1>0, <1>2
  <2>2. UpToPlace(q, "per_page", 0) = {} /\ UpToPlace(q, "page", 0) = {}
    <3>1. \A name : \A i \in Given(q, name) : i \in Nat /\ i >= 1
      BY <1>0 DEF Given
    <3> QED
      BY <3>1 DEF UpToPlace
  <2>3. {q[i] : i \in {j \in 1 .. 0 : q[j].name = "filter"}} = {} /\ Direction(q, 0) = "asc"
    BY DEF Direction
  <2>4. ParsedUpTo(q, 0, StartParsed)
    BY <2>2, <2>3 DEF ParsedUpTo, StartParsed, NoLimit
  <2> QED
    BY <2>1, <2>4
<1>4. ASSUME NEW n \in 1 .. k, n - 1 \in S PROVE n \in S
  <2>1. g[n] = Parameter(g[n - 1], q[n]) /\ n \in 0 .. k
    BY <1>0, <1>2
  <2>2. ParsedUpTo(q, n - 1, g[n - 1])
    BY <1>4
  <2>3. ParsedUpTo(q, n, Parameter(g[n - 1], q[n]))
    BY <2>2, ParameterFits
  <2> QED
    BY <2>1, <2>3
<1>5. \A n \in 0 .. k : n \in S
  <2> HIDE DEF S, k
  <2> QED
    BY <1>0, <1>3, <1>4, Induct
<1>6. k \in S
  BY <1>0, <1>5
<1> QED
  BY <1>1, <1>6

-----------------------------------------------------------------------------
\* The smaller and the larger of two numbers.
LEMMA MinOfTwo == ASSUME NEW a \in Int, NEW b \in Int PROVE Min({a, b}) = IF a <= b THEN a ELSE b
<1> DEFINE m == IF a <= b THEN a ELSE b
<1>1. m \in {a, b} /\ \A y \in {a, b} : m <= y
  OBVIOUS
<1>2. \A x \in {a, b} : (\A y \in {a, b} : x <= y) => x = m
  OBVIOUS
<1> HIDE DEF m
<1>3. Min({a, b}) = m
  BY <1>1, <1>2 DEF Min
<1> QED
  BY <1>3 DEF m
LEMMA MaxOfTwo == ASSUME NEW a \in Int, NEW b \in Int PROVE Max({a, b}) = IF a >= b THEN a ELSE b
<1> DEFINE m == IF a >= b THEN a ELSE b
<1>1. m \in {a, b} /\ \A y \in {a, b} : m >= y
  OBVIOUS
<1>2. \A x \in {a, b} : (\A y \in {a, b} : x >= y) => x = m
  OBVIOUS
<1> HIDE DEF m
<1>3. Max({a, b}) = m
  BY <1>1, <1>2 DEF Max
<1> QED
  BY <1>3 DEF m

\* LIMIT and OFFSET: the rows from offset on, at most as many as the limit.
SliceIs(list, n, p, s) ==
  /\ Len(s) = IF p.limit = 0 \/ n - p.offset <= p.limit THEN (IF n > p.offset THEN n - p.offset ELSE 0) ELSE p.limit
  /\ DOMAIN s = 1 .. Len(s)
  /\ \A i \in 1 .. Len(s) : s[i] = list[p.offset + i] /\ p.offset + i \in 1 .. n
LEMMA SlicedRight ==
  ASSUME NEW S, NEW list \in Seq(S), NEW p, p.offset \in Nat, p.limit \in Nat
  PROVE  SliceIs(list, Len(list), p, Sliced(list, p))
<1> DEFINE n == Len(list)
           o == p.offset
           l == p.limit
           e == IF l = 0 THEN n ELSE Min({n, o + l})
           s == Sliced(list, p)
<1>1. n \in Nat /\ o \in Nat /\ l \in Nat /\ DOMAIN list = 1 .. n /\ \A i \in 1 .. n : list[i] \in S
  OBVIOUS
<1>2. e = IF l = 0 \/ n <= o + l THEN n ELSE o + l
  <2>1. Min({n, o + l}) = IF n <= o + l THEN n ELSE o + l
    BY <1>1, MinOfTwo
  <2> QED
    BY <2>1
<1>3. s = SubSeq(list, o + 1, e)
  BY DEF Sliced, NoLimit
<1> HIDE DEF n, o, l, e, s
<1>4. e \in Nat /\ e <= n /\ o + 1 \in Int /\ e \in Int
  BY <1>1, <1>2
<1>5. \A i \in o + 1 .. e : list[i] \in S
  BY <1>1, <1>4
<1>6. /\ SubSeq(list, o + 1, e) \in Seq(S)
      /\ Len(SubSeq(list, o + 1, e)) = IF o + 1 <= e THEN e - (o + 1) + 1 ELSE 0
      /\ \A i \in 1 .. e - (o + 1) + 1 : SubSeq(list, o + 1, e)[i] = list[o + 1 + i - 1]
  BY <1>4, <1>5, SubSeqProperties
<1>7. s \in Seq(S) /\ Len(s) = (IF o < e THEN e - o ELSE 0) /\ \A i \in 1 .. e - o : s[i] = list[o + i]
  BY <1>1, <1>3, <1>4, <1>6
<1>8. DOMAIN s = 1 .. Len(s)
  BY <1>7
<1>9. Len(s) = IF l = 0 \/ n - o <= l THEN (IF n > o THEN n - o ELSE 0) ELSE l
  BY <1>1, <1>2, <1>7
<1>10. \A i \in 1 .. Len(s) : i \in 1 .. e - o /\ o + i \in 1 .. n
  BY <1>1, <1>4, <1>7
<1> QED
  BY <1>7, <1>8, <1>9, <1>10 DEF SliceIs, n, o, l, s

-----------------------------------------------------------------------------
\* What a read answers, of a table.
RowsOf(q, keys, table) == {k \in keys : \A i \in DOMAIN q : q[i].name = "filter" => Holds(q[i], table[k])}
DirOf(q) == IF Descending(q) THEN "desc" ELSE "asc"
StartOf(q) == (SizeOf(q, "page", 1) - 1) * (IF PageFirst(q) THEN 10 ELSE SizeOf(q, "per_page", 10))
Sized(q) == Given(q, "per_page") # {}
RowsRight(q, rows1, r) ==
  /\ \A i \in DOMAIN r.list : r.list[i] \in rows1 /\ Rank(rows1, DirOf(q), r.list[i]) = StartOf(q) + i - 1
  /\ ~Sized(q) => Len(r.list) = Cardinality(rows1)
  /\ Sized(q) => Len(r.list) = Min({SizeOf(q, "per_page", 10), Max({0, Cardinality(rows1) - StartOf(q)})})
MetaRight(q, rows1) ==
  Sized(q) /\ SizeOf(q, "per_page", 10) <= MaxPerPage /\ ~PageFirst(q) =>
    /\ paginationMeta(q, Cardinality(rows1)).hasNext <=>
         \E k \in rows1 : Rank(rows1, DirOf(q), k) >= StartOf(q) + SizeOf(q, "per_page", 10)
    /\ paginationMeta(q, Cardinality(rows1)).hasPrev <=> StartOf(q) > 0
Answers(q, rows1, r) ==
  /\ r.status \in {200, 500} /\ (r.status = 500 <=> SizeOf(q, "page", 1) > 1 /\ ~Sized(q))
  /\ r.status = 200 => RowsRight(q, rows1, r) /\ MetaRight(q, rows1)

\* The sizes of a query string, and its statement's.
SizesFit(q) ==
  /\ SizeOf(q, "page", 1) \in Nat /\ SizeOf(q, "page", 1) >= 1
  /\ SizeOf(q, "per_page", 10) \in Nat /\ SizeOf(q, "per_page", 10) >= 1
  /\ parseFilterQuery(q).filters = {q[i] : i \in {j \in DOMAIN q : q[j].name = "filter"}}
  /\ parseFilterQuery(q).dir = DirOf(q)
  /\ parseFilterQuery(q).limit = IF Sized(q) THEN SizeOf(q, "per_page", 10) ELSE 0
  /\ parseFilterQuery(q).offset = StartOf(q)
  /\ ~Sized(q) => StartOf(q) = (SizeOf(q, "page", 1) - 1) * 10
LEMMA SizesRight ==
  ASSUME NEW q, IsQuery(q)
  PROVE  SizesFit(q)
<1> DEFINE n == Len(q)
           page1 == SizeOf(q, "page", 1)
           size == SizeOf(q, "per_page", 10)
           p == parseFilterQuery(q)
<1>0. n \in Nat /\ DOMAIN q = 1 .. n
  BY DEF IsQuery
<1>1. ParsedUpTo(q, n, p)
  BY ParsedRight
<1>2. \A name : UpToPlace(q, name, n) = Given(q, name)
  <2>1. ASSUME NEW name, NEW i \in Given(q, name) PROVE i <= n
    BY <1>0 DEF Given
  <2> QED
    BY <2>1 DEF UpToPlace
<1>3. page1 \in Nat /\ page1 >= 1 /\ (Given(q, "page") = {} => page1 = 1)
  <2>1. CASE Given(q, "page") = {}
    <3>1. page1 = 1
      BY <2>1, GivenOnce
    <3> QED
      BY <3>1
  <2>2. ASSUME NEW i \in Given(q, "page") PROVE page1 \in Nat /\ page1 >= 1
    <3>1. page1 = q[i].size /\ q[i].size \in Nat /\ q[i].size >= 1
      BY GivenOnce
    <3> QED
      BY <3>1
  <2> QED
    BY <2>1, <2>2
<1>4. size \in Nat /\ size >= 1 /\ (~Sized(q) => size = 10)
  <2>1. CASE Given(q, "per_page") = {}
    <3>1. size = 10
      BY <2>1, GivenOnce
    <3> QED
      BY <3>1
  <2>2. ASSUME NEW i \in Given(q, "per_page") PROVE size \in Nat /\ size >= 1
    <3>1. size = q[i].size /\ q[i].size \in Nat /\ q[i].size >= 1
      BY GivenOnce
    <3> QED
      BY <3>1
  <2> QED
    BY <2>1, <2>2 DEF Sized
<1>5. Given(q, "page") # {} => PageSize(q) = IF PageFirst(q) THEN 10 ELSE size
  <2> SUFFICES ASSUME NEW i \in Given(q, "page") PROVE PageSize(q) = IF PageFirst(q) THEN 10 ELSE size
    OBVIOUS
  <2>1. Given(q, "page") = {i} /\ i \in Nat /\ q[i].name = "page"
    BY <1>0, GivenOnce
  <2>2. CASE Given(q, "per_page") = {}
    BY <1>4, <2>2 DEF PageSize, PageFirst, Sized
  <2>3. ASSUME NEW j \in Given(q, "per_page") PROVE PageSize(q) = IF PageFirst(q) THEN 10 ELSE size
    <3>1. Given(q, "per_page") = {j} /\ j \in Nat /\ q[j].name = "per_page"
      BY <1>0, GivenOnce
    <3>2. i # j
      BY <2>1, <3>1
    <3>3. PageFirst(q) <=> i < j
      BY <2>1, <3>1 DEF PageFirst
    <3>4. PageSize(q) = IF j < i THEN size ELSE 10
      BY <2>1, <3>1 DEF PageSize
    <3> QED
      BY <2>1, <3>1, <3>2, <3>3, <3>4
  <2> QED
    BY <2>2, <2>3
<1>6. p = [filters |-> {q[i] : i \in {j \in 1 .. n : q[j].name = "filter"}}, dir |-> Direction(q, n),
           limit |-> IF Given(q, "per_page") = {} THEN 0 ELSE size,
           offset |-> IF Given(q, "page") = {} THEN 0 ELSE (page1 - 1) * PageSize(q)]
  BY <1>1, <1>2 DEF ParsedUpTo
<1>7. Direction(q, n) = DirOf(q)
  BY <1>0 DEF Direction, DirOf, Descending
<1>8. StartOf(q) = (page1 - 1) * (IF PageFirst(q) THEN 10 ELSE size)
  BY DEF StartOf
<1>9. ~Sized(q) => StartOf(q) = (page1 - 1) * 10
  BY <1>4, <1>8
<1> HIDE DEF page1, size, p
<1>10. (IF Given(q, "page") = {} THEN 0 ELSE (page1 - 1) * PageSize(q)) = StartOf(q)
  <2>1. CASE Given(q, "page") = {}
    <3>1. (page1 - 1) * (IF PageFirst(q) THEN 10 ELSE size) = 0
      BY <1>3, <1>4, <2>1
    <3> QED
      BY <1>8, <2>1, <3>1
  <2>2. CASE Given(q, "page") # {}
    BY <1>5, <1>8, <2>2
  <2> QED
    BY <2>1, <2>2
<1>11. /\ p.filters = {q[i] : i \in {j \in 1 .. n : q[j].name = "filter"}} /\ p.dir = DirOf(q)
       /\ p.limit = (IF Sized(q) THEN size ELSE 0) /\ p.offset = StartOf(q)
  BY <1>6, <1>7, <1>10 DEF Sized
<1> QED
  BY <1>0, <1>3, <1>4, <1>9, <1>11 DEF SizesFit, page1, size, p

LEMMA ReadAnswers ==
  ASSUME contents \in RowSets, NEW q, IsQuery(q), NEW keys \in SUBSET DOMAIN contents
  PROVE  Answers(q, RowsOf(q, keys, contents), Read(q, keys))
<1> DEFINE rows1 == RowsOf(q, keys, contents)
           p == parseFilterQuery(q)
           page1 == SizeOf(q, "page", 1)
           size == SizeOf(q, "per_page", 10)
           start == StartOf(q)
           c == Cardinality(rows1)
           list == Selected(p, keys)
           r == Read(q, keys)
           s == Sliced(list, p)
           dir == DirOf(q)
<1>1. SizesFit(q)
  BY SizesRight
<1>2. rows1 \in SUBSET Nat /\ IsFiniteSet(rows1) /\ c \in Nat
  <2>1. DOMAIN contents \subseteq Nat /\ IsFiniteSet(DOMAIN contents)
    BY DevServerConstantsOK
  <2>2. rows1 \in SUBSET DOMAIN contents
    BY DEF RowsOf
  <2> HIDE DEF rows1
  <2> QED
    BY <2>1, <2>2, FS_Subset, FS_CardinalityType
<1>3. /\ page1 \in Nat /\ page1 >= 1 /\ size \in Nat /\ size >= 1 /\ p.dir = dir
      /\ p.limit = (IF Sized(q) THEN size ELSE 0) /\ p.offset = start
      /\ p.filters = {q[i] : i \in {j \in DOMAIN q : q[j].name = "filter"}}
      /\ ~Sized(q) => start = (page1 - 1) * 10
  BY <1>1 DEF SizesFit
<1>4. list = Listing(rows1, dir)
  <2>1. \A k \in keys : (\A f \in p.filters : Holds(f, contents[k])) <=>
          \A i \in DOMAIN q : q[i].name = "filter" => Holds(q[i], contents[k])
    BY <1>3
  <2>2. {k \in keys : \A f \in p.filters : Holds(f, contents[k])} = rows1
    BY <2>1 DEF RowsOf
  <2> QED
    BY <1>3, <2>2 DEF Selected
<1>5. r = IF IsStatement(p) THEN [status |-> 200, list |-> s] ELSE [status |-> 500, list |-> << >>]
  BY DEF Read
<1>6. start \in Nat
  <2>1. start = (page1 - 1) * (IF PageFirst(q) THEN 10 ELSE size)
    BY DEF StartOf
  <2>2. (page1 - 1) \in Nat /\ (IF PageFirst(q) THEN 10 ELSE size) \in Nat
    BY <1>3
  <2> DEFINE a == page1 - 1
             b == IF PageFirst(q) THEN 10 ELSE size
  <2>3. a \in Nat /\ b \in Nat /\ start = a * b
    BY <2>1, <2>2
  <2> HIDE DEF a, b, start
  <2> QED
    BY <2>3
<1>7. Ranked(list, rows1, dir)
  BY <1>2, <1>4, ListingRanked
<1>r. \A n \in Int : (\E k \in rows1 : Rank(rows1, dir, k) >= n) <=> c > n /\ c > 0
  BY <1>2, RanksDiffer
<1> HIDE DEF rows1, p, page1, size, start, list, r, s, dir
<1>8. list \in Seq(rows1) /\ Len(list) = c /\ \A i \in 1 .. c : list[i] \in rows1 /\ Rank(rows1, dir, list[i]) = i - 1
  BY <1>7 DEF Ranked
<1>9. p.offset \in Nat /\ p.limit \in Nat
  BY <1>3, <1>6
<1>10. SliceIs(list, c, p, s)
  BY <1>8, <1>9, SlicedRight DEF s
<1> HIDE DEF c
<1>11. /\ Len(s) = IF ~Sized(q) \/ c - start <= size THEN (IF c > start THEN c - start ELSE 0) ELSE size
       /\ DOMAIN s = 1 .. Len(s)
       /\ \A i \in 1 .. Len(s) : s[i] = list[start + i] /\ start + i \in 1 .. c
  <2>1. p.limit = 0 <=> ~Sized(q)
    BY <1>3
  <2>2. p.limit = 0 \/ c - p.offset <= p.limit <=> ~Sized(q) \/ c - start <= size
    BY <1>3, <2>1
  <2> QED
    BY <1>3, <1>10, <2>2 DEF SliceIs
<1>12. Len(s) \in Nat
  BY <1>2, <1>3, <1>6, <1>11
<1>13. IsStatement(p) <=> Sized(q) \/ page1 = 1
  BY <1>3 DEF IsStatement, NoLimit
<1>14. r.status \in {200, 500} /\ (r.status = 500 <=> page1 > 1 /\ ~Sized(q)) /\ (r.status = 200 => r.list = s)
  <2>1. CASE IsStatement(p)
    <3>1. r.status = 200 /\ r.list = s
      BY <1>5, <2>1
    <3> QED
      BY <1>3, <1>13, <2>1, <3>1
  <2>2. CASE ~IsStatement(p)
    <3>1. r.status = 500
      BY <1>5, <2>2
    <3> QED
      BY <1>3, <1>13, <2>2, <3>1
  <2> QED
    BY <2>1, <2>2
<1>15. \A i \in DOMAIN s : s[i] \in rows1 /\ Rank(rows1, dir, s[i]) = start + i - 1
  <2>1. ASSUME NEW i \in 1 .. Len(s) PROVE s[i] \in rows1 /\ Rank(rows1, dir, s[i]) = start + i - 1
    <3>1. s[i] = list[start + i] /\ start + i \in 1 .. c
      BY <1>11
    <3>2. PICK j \in 1 .. c : j = start + i
      BY <3>1
    <3>3. list[j] \in rows1 /\ Rank(rows1, dir, list[j]) = j - 1
      BY <1>8, Zenon
    <3>4. s[i] = list[j]
      BY <3>1, <3>2, Zenon
    <3>5. j - 1 = start + i - 1
      <4>1. start \in Int
        BY <1>6
      <4> HIDE DEF start, s, c
      <4> QED
        BY <3>2, <4>1
    <3> QED
      BY <3>3, <3>4, <3>5, Zenon
  <2> QED
    BY <1>11, <2>1
<1>16. r.status = 200 /\ ~Sized(q) => Len(s) = c
  <2> SUFFICES ASSUME page1 = 1, ~Sized(q) PROVE Len(s) = c
    BY <1>3, <1>14
  <2>1. start = 0
    BY <1>3
  <2> QED
    BY <1>2, <1>11, <2>1
<1>17. Sized(q) => Len(s) = Min({size, Max({0, c - start})})
  <2> SUFFICES ASSUME Sized(q) PROVE Len(s) = Min({size, Max({0, c - start})})
    OBVIOUS
  <2> DEFINE m == Max({0, c - start})
  <2>1. m = IF 0 >= c - start THEN 0 ELSE c - start
    BY <1>2, <1>6, MaxOfTwo
  <2>2. m \in Int
    BY <1>2, <1>6, <2>1
  <2> HIDE DEF m
  <2>3. Min({size, m}) = IF size <= m THEN size ELSE m
    BY <1>3, <2>2, MinOfTwo
  <2>4. Len(s) = IF size <= m THEN size ELSE m
    BY <1>2, <1>3, <1>6, <1>11, <2>1
  <2> QED
    BY <2>3, <2>4 DEF m
<1>18. r.status = 200 => RowsRight(q, rows1, r)
  BY <1>14, <1>15, <1>16, <1>17 DEF RowsRight, page1, size, start, dir, c
<1>19. MetaRight(q, rows1)
  <2> SUFFICES ASSUME Sized(q), size <= MaxPerPage, ~PageFirst(q)
               PROVE  /\ paginationMeta(q, c).hasNext <=> \E k \in rows1 : Rank(rows1, dir, k) >= start + size
                      /\ paginationMeta(q, c).hasPrev <=> start > 0
    BY DEF MetaRight, size, start, dir, c
  <2>1. start = (page1 - 1) * size
    BY DEF StartOf, start, page1, size
  <2>2. MaxPerPage \in Int /\ Min({MaxPerPage, size}) = size
    <3>1. MaxPerPage \in Int
      BY DevServerConstantsOK
    <3>2. Min({MaxPerPage, size}) = IF MaxPerPage <= size THEN MaxPerPage ELSE size
      BY <1>3, <3>1, MinOfTwo
    <3> QED
      BY <1>3, <3>1, <3>2
  <2>3. paginationMeta(q, c) = [hasNext |-> page1 * size < c, hasPrev |-> page1 > 1]
    BY <2>2 DEF paginationMeta, page1, size, DefaultSize
  <2>4. page1 * size = start + size
    BY <1>3, <2>1
  <2>5. page1 > 1 <=> start > 0
    BY <1>3, <2>1
  <2>6. paginationMeta(q, c).hasNext = (page1 * size < c) /\ paginationMeta(q, c).hasPrev = (page1 > 1)
    BY <2>3
  <2>7. (\E k \in rows1 : Rank(rows1, dir, k) >= start + size) <=> c > start + size /\ c > 0
    BY <1>r, <1>3, <1>6
  <2>8. c > start + size <=> start + size < c
    BY <1>2, <1>3, <1>6
  <2>9. c > start + size => c > 0
    BY <1>2, <1>3, <1>6
  <2> QED
    BY <2>4, <2>5, <2>6, <2>7, <2>8, <2>9
<1> QED
  BY <1>14, <1>18, <1>19 DEF Answers, rows1, r, page1

\* What is kept: the last response, and that the table is one of the tables.
DevReads == contents \in RowSets /\ ReadsTile
LEMMA DevReadsStart == DevServerInit => DevReads
<1> SUFFICES ASSUME DevServerInit PROVE DevReads
  OBVIOUS
<1>1. response.status = 0
  BY DEF DevServerInit, NoResponse
<1> QED
  BY <1>1 DEF DevServerInit, DevReads, ReadsTile

LEMMA TilesMeans ==
  ASSUME response.status \in {200, 500} /\ response # [status |-> 500] =>
           Answers(response.query, RowsOf(response.query, response.keys, response.seen), response)
  PROVE  ReadsTile
<1> SUFFICES ASSUME response.status \in {200, 500} /\ response # [status |-> 500] PROVE ReadsTile
  BY DEF ReadsTile
<1> DEFINE q == response.query
           rows1 == RowsOf(q, response.keys, response.seen)
<1>1. Answers(q, rows1, response)
  OBVIOUS
<1> QED
  BY <1>1 DEF ReadsTile, Answers, RowsRight, MetaRight, RowsOf, Rank, DirOf, StartOf, Sized

\* What a response means does not depend on how it is come by: another one of
\* the same status, list and question means the same.
LEMMA AnswersAgree ==
  ASSUME NEW q, NEW rowSet, NEW r, NEW u, r.status = u.status, r.list = u.list, Answers(q, rowSet, r)
  PROVE  Answers(q, rowSet, u)
<1>1. RowsRight(q, rowSet, r) => RowsRight(q, rowSet, u)
  BY Zenon DEF RowsRight
<1>2. u.status = 200 => RowsRight(q, rowSet, u) /\ MetaRight(q, rowSet)
  <2>1. r.status = 200 => RowsRight(q, rowSet, r) /\ MetaRight(q, rowSet)
    BY Zenon DEF Answers
  <2> QED
    BY <1>1, <2>1, Z3
<1>3. u.status \in {200, 500} /\ (u.status = 500 <=> SizeOf(q, "page", 1) > 1 /\ ~Sized(q))
  BY Z3 DEF Answers
<1> QED
  BY <1>2, <1>3 DEF Answers

LEMMA TilesNext ==
  ASSUME (response.status \in {200, 500} /\ response # [status |-> 500])' =>
           Answers(response'.query, RowsOf(response'.query, response'.keys, response'.seen), response')
  PROVE  ReadsTile'
<1> SUFFICES ASSUME response'.status \in {200, 500} /\ response' # [status |-> 500] PROVE ReadsTile'
  BY DEF ReadsTile
<1> DEFINE q == response'.query
           rows1 == RowsOf(q, response'.keys, response'.seen)
<1>1. Answers(q, rows1, response')
  OBVIOUS
<1> QED
  BY <1>1 DEF ReadsTile, Answers, RowsRight, MetaRight, RowsOf, Rank, DirOf, StartOf, Sized

LEMMA ReadsKept == ASSUME DevReads, RestRead PROVE DevReads'
<1> USE DEF DevReads
<1>1. PICK q \in QueryStrings, item \in DOMAIN contents, one \in BOOLEAN :
        LET keys == IF one THEN {item} ELSE DOMAIN contents
            out  == IF checks + 2 > MaxChecks THEN [status |-> 429, list |-> << >>] ELSE Read(q, keys)
        IN  response' = [status |-> out.status, list |-> out.list, keys |-> keys, query |-> q,
                         seen |-> contents]
  BY Zenon DEF RestRead
<1> DEFINE keys == IF one THEN {item} ELSE DOMAIN contents
           out == IF checks + 2 > MaxChecks THEN [status |-> 429, list |-> << >>] ELSE Read(q, keys)
<1>2. response' = [status |-> out.status, list |-> out.list, keys |-> keys, query |-> q, seen |-> contents]
  BY <1>1
<1>3. keys \in SUBSET DOMAIN contents
  OBVIOUS
<1>4. contents' = contents
  BY DEF RestRead
<1> DEFINE u == response'
<1>5. u.status = out.status /\ u.list = out.list /\ u.keys = keys /\ u.query = q /\ u.seen = contents
  <2> HIDE DEF out, keys
  <2> QED
    BY <1>2
<1>6. CASE checks + 2 > MaxChecks
  <2>1. u.status = 429
    BY <1>5, <1>6
  <2>2. ReadsTile'
    BY <2>1, TilesNext
  <2> QED
    BY <1>4, <2>2
<1>7. CASE ~(checks + 2 > MaxChecks)
  <2>1. out = Read(q, keys)
    BY <1>7
  <2>2. IsQuery(q)
    BY QueriesFit
  <2> HIDE DEF out, keys
  <2>3. Answers(q, RowsOf(q, keys, contents), out)
    BY <1>3, <2>1, <2>2, ReadAnswers
  <2>4. Answers(q, RowsOf(q, keys, contents), u)
    BY <1>5, <2>3, AnswersAgree, Zenon
  <2>5. ReadsTile'
    BY <1>5, <2>4, TilesNext
  <2> QED
    BY <1>4, <2>5
<1> QED
  BY <1>6, <1>7

LEMMA WritesKept == ASSUME DevReads, NEW behindServer \in BOOLEAN, RestWrite(behindServer) PROVE DevReads'
<1>1. contents' \in RowSets
  BY DEF DevReads, RestWrite
<1>2. response' = [status |-> 500] \/ response'.status \in {201, 429}
  BY DEF RestWrite
<1>3. ReadsTile'
  BY <1>2, TilesNext
<1> QED
  BY <1>1, <1>3 DEF DevReads

LEMMA RestKept == ASSUME DevReads, Forget \/ NextWindow \/ UNCHANGED devVars PROVE DevReads'
<1>1. CASE Forget
  <2>1. response'.status = 0 /\ contents' = contents
    BY <1>1 DEF Forget, NoResponse
  <2>2. ReadsTile'
    BY <2>1, TilesNext
  <2> QED
    BY <2>1, <2>2 DEF DevReads
<1>2. CASE NextWindow \/ UNCHANGED devVars
  <2>1. response' = response /\ contents' = contents
    BY <1>2 DEF NextWindow, devVars
  <2>2. ReadsTile' <=> ReadsTile
    <3> DEFINE Tiles(w) ==
          w.status \in {200, 500} /\ w # [status |-> 500] =>
            LET q     == w.query
                rows1 == {k \in w.keys : \A i \in DOMAIN q :
                            q[i].name = "filter" => Holds(q[i], w.seen[k])}
                rank(k) == Cardinality({j \in rows1 : Before(IF Descending(q) THEN "desc" ELSE "asc", j, k)})
                page1 == SizeOf(q, "page", 1)
                size  == SizeOf(q, "per_page", 10)
                sized == Given(q, "per_page") # {}
                start == (page1 - 1) * (IF PageFirst(q) THEN 10 ELSE size)
                meta  == paginationMeta(q, Cardinality(rows1))
            IN  /\ w.status = 500 <=> page1 > 1 /\ ~sized
                /\ w.status = 200 =>
                     /\ \A i \in DOMAIN w.list : /\ w.list[i] \in rows1
                                                /\ rank(w.list[i]) = start + i - 1
                     /\ ~sized => Len(w.list) = Cardinality(rows1)
                     /\ sized => Len(w.list) = Min({size, Max({0, Cardinality(rows1) - start})})
                     /\ sized /\ size <= MaxPerPage /\ ~PageFirst(q) =>
                          /\ meta.hasNext <=> \E k \in rows1 : rank(k) >= start + size
                          /\ meta.hasPrev <=> start > 0
    <3>1. ReadsTile <=> Tiles(response)
      BY Zenon DEF ReadsTile
    <3>2. ReadsTile' <=> Tiles(response')
      BY Zenon DEF ReadsTile
    <3> HIDE DEF Tiles
    <3> QED
      BY <2>1, <3>1, <3>2
  <2>3. contents' \in RowSets
    BY <2>1 DEF DevReads
  <2> QED
    BY <2>2, <2>3 DEF DevReads
<1> QED
  BY <1>1, <1>2

LEMMA ReadsStay == DevReads /\ [DevServerNext]_devVars => DevReads'
<1> SUFFICES ASSUME DevReads, [DevServerNext]_devVars PROVE DevReads'
  OBVIOUS
<1>1. CASE RestRead
  BY <1>1, ReadsKept
<1>2. CASE \E behindServer \in BOOLEAN : RestWrite(behindServer)
  BY <1>2, WritesKept
<1>3. CASE Forget \/ NextWindow \/ UNCHANGED devVars
  BY <1>3, RestKept
<1> QED
  BY <1>1, <1>2, <1>3 DEF DevServerNext

\* A read of the development server answers the rows that its query string
\* asks for, in their order and on their page, and paginationMeta says whether
\* there are others: for every table, query string and number of rows
\* (parseFilterQuery and paginationMeta of packages/api/src/index.ts).
THEOREM ReadsAreRight == DevServerSpec => []ReadsTile
<1>1. DevServerInit => DevReads
  BY DevReadsStart
<1>2. DevReads /\ [DevServerNext]_devVars => DevReads'
  BY ReadsStay
<1>3. DevReads => ReadsTile
  BY DEF DevReads
<1> QED
  BY <1>1, <1>2, <1>3, PTL DEF DevServerSpec

-----------------------------------------------------------------------------
\* The pages of a builder's paginate, one behind the other.
FlatSteps(g, seqs, k) == g = [i \in 1 .. k |-> IF i = 1 THEN seqs[i] ELSE g[i - 1] \o seqs[i]]
LEMMA FlattenChosen ==
  ASSUME NEW seqs, Len(seqs) # 0
  PROVE  FlattenSeq(seqs) = (CHOOSE g : FlatSteps(g, seqs, Len(seqs)))[Len(seqs)]
BY DEF FlattenSeq, FlatSteps

LEMMA PaginateIs ==
  ASSUME NEW size \in Nat
  PROVE  \E pp \in Nat : /\ pp >= 1
                         /\ \A i \in Nat : i >= 1 => /\ paginate(i, size).limit = pp
                                                     /\ paginate(i, size).offset = (i - 1) * pp
<1> DEFINE m == Min({MaxPerPage, size})
           pp == Max({1, m})
<1>1. MaxPerPage \in Nat
  BY DevServerConstantsOK
<1>2. m = IF MaxPerPage <= size THEN MaxPerPage ELSE size
  BY <1>1, MinOfTwo
<1>3. m \in Nat
  BY <1>1, <1>2
<1> HIDE DEF m
<1>4. pp = IF 1 >= m THEN 1 ELSE m
  BY <1>3, MaxOfTwo
<1>5. pp \in Nat /\ pp >= 1
  BY <1>3, <1>4
<1>6. ASSUME NEW i \in Nat, i >= 1
      PROVE  paginate(i, size).limit = pp /\ paginate(i, size).offset = (i - 1) * pp
  <2>1. Max({1, i}) = i
    <3>1. Max({1, i}) = IF 1 >= i THEN 1 ELSE i
      BY MaxOfTwo
    <3> QED
      BY <1>6, <3>1
  <2>2. paginate(i, size) = [limit |-> pp, offset |-> (Max({1, i}) - 1) * pp]
    BY DEF paginate, pp, m
  <2> HIDE DEF pp
  <2>3. paginate(i, size) = [limit |-> pp, offset |-> (i - 1) * pp]
    BY <2>1, <2>2, Zenon
  <2> QED
    BY <2>3
<1> HIDE DEF pp
<1> QED
  BY <1>5, <1>6

\* The end of page i.
EndOf(n, pp, i) == IF i * pp <= n THEN i * pp ELSE n
LEMMA EndsRise ==
  ASSUME NEW n \in Nat, NEW pp \in Nat, pp >= 1, NEW i \in 1 .. n
  PROVE  /\ EndOf(n, pp, i - 1) \in 0 .. n /\ EndOf(n, pp, i) \in EndOf(n, pp, i - 1) .. n
         /\ EndOf(n, pp, 0) = 0 /\ EndOf(n, pp, n) = n
         /\ (i - 1) * pp \in Nat /\ (i - 1) * pp + pp = i * pp
<1> DEFINE a == (i - 1) * pp
           b == i * pp
<1>1. i - 1 \in Nat /\ i \in Nat
  OBVIOUS
<1>2. a \in Nat /\ b = a + pp
  <2>1. i * pp = (i - 1) * pp + pp
    OBVIOUS
  <2>2. (i - 1) * pp \in Nat
    <3> DEFINE j == i - 1
    <3>1. j \in Nat
      BY <1>1
    <3> HIDE DEF j
    <3>2. j * pp \in Nat
      BY <3>1
    <3> QED
      BY <3>2 DEF j
  <2> QED
    BY <2>1, <2>2
<1>3. n * pp >= n
  <2>1. n * (pp - 1) >= 0 /\ n * pp = n * (pp - 1) + n
    OBVIOUS
  <2> QED
    BY <2>1
<1>4. n * pp \in Nat /\ (n * pp <= n => n * pp = n)
  BY <1>3
<1>5. EndOf(n, pp, n) = n
  BY <1>4 DEF EndOf
<1>6. EndOf(n, pp, 0) = 0
  <2>1. 0 * pp = 0
    OBVIOUS
  <2> QED
    BY <2>1 DEF EndOf
<1>7. EndOf(n, pp, i - 1) = (IF a <= n THEN a ELSE n) /\ EndOf(n, pp, i) = IF b <= n THEN b ELSE n
  BY DEF EndOf
<1>8. b = i * pp /\ a = (i - 1) * pp
  OBVIOUS
<1> HIDE DEF a, b
<1>9. (IF a <= n THEN a ELSE n) \in 0 .. n /\ (IF b <= n THEN b ELSE n) \in (IF a <= n THEN a ELSE n) .. n
  BY <1>2
<1> QED
  BY <1>2, <1>5, <1>6, <1>7, <1>8, <1>9

LEMMA PageIs ==
  ASSUME NEW S, NEW list \in Seq(S), NEW pp \in Nat, pp >= 1, NEW i \in 1 .. Len(list),
         NEW p, p.limit = pp, p.offset = (i - 1) * pp
  PROVE  Sliced(list, p) = SubSeq(list, EndOf(Len(list), pp, i - 1) + 1, EndOf(Len(list), pp, i))
<1> DEFINE n == Len(list)
           a == (i - 1) * pp
           d == EndOf(n, pp, i - 1)
           e == EndOf(n, pp, i)
<1>0. n \in Nat
  OBVIOUS
<1>1. /\ d \in 0 .. n /\ e \in d .. n /\ a \in Nat /\ a + pp = i * pp
  BY <1>0, EndsRise
<1>2. e = (IF a + pp <= n THEN a + pp ELSE n) /\ d = IF a <= n THEN a ELSE n
  BY <1>1 DEF EndOf
<1>3. Sliced(list, p) = SubSeq(list, a + 1, Min({n, a + pp}))
  <2>1. p.limit # NoLimit
    BY DEF NoLimit
  <2> QED
    BY <2>1 DEF Sliced
<1> SUFFICES Sliced(list, p) = SubSeq(list, d + 1, e)
  OBVIOUS
<1> HIDE DEF n, a, d, e
<1>4. Min({n, a + pp}) = e
  <2>1. Min({n, a + pp}) = IF n <= a + pp THEN n ELSE a + pp
    BY <1>0, <1>1, MinOfTwo
  <2> QED
    BY <1>0, <1>1, <1>2, <2>1
<1>5. CASE a <= n
  BY <1>2, <1>3, <1>4, <1>5
<1>6. CASE a > n
  <2>1. d = n /\ e = n
    BY <1>0, <1>1, <1>2, <1>6
  <2>2. SubSeq(list, a + 1, n) = << >>
    <3>1. n < a + 1 /\ a + 1 \in Int /\ n \in Int
      BY <1>0, <1>1, <1>6
    <3> QED
      BY <3>1, SubSeqEmpty
  <2>3. SubSeq(list, n + 1, n) = << >>
    <3>1. n < n + 1 /\ n + 1 \in Int /\ n \in Int
      BY <1>0
    <3> QED
      BY <3>1, SubSeqEmpty
  <2> QED
    BY <1>3, <1>4, <2>1, <2>2, <2>3
<1> QED
  BY <1>0, <1>1, <1>5, <1>6

LEMMA PagesJoin ==
  ASSUME NEW S, NEW list \in Seq(S), NEW pp \in Nat, pp >= 1, NEW pages,
         pages = [i \in 1 .. Len(list) |-> pages[i]],
         \A i \in 1 .. Len(list) :
           pages[i] = SubSeq(list, EndOf(Len(list), pp, i - 1) + 1, EndOf(Len(list), pp, i))
  PROVE  FlattenSeq(pages) = list
<1> DEFINE n == Len(list)
           E(i) == EndOf(n, pp, i)
<1>0. n \in Nat
  OBVIOUS
<1>1. DOMAIN pages = 1 .. n /\ Len(pages) = n
  BY <1>0
<1>2. CASE n = 0
  <2>1. FlattenSeq(pages) = pages
    BY <1>1, <1>2 DEF FlattenSeq
  <2>2. pages = << >> /\ list = << >>
    BY <1>1, <1>2
  <2> QED
    BY <2>1, <2>2
<1>3. CASE n # 0
  <2> DEFINE h == [i \in 1 .. n |-> SubSeq(list, 1, E(i))]
  <2>1. ASSUME NEW i \in 1 .. n
        PROVE  SubSeq(list, 1, E(i)) = IF i = 1 THEN pages[i] ELSE SubSeq(list, 1, E(i - 1)) \o pages[i]
    <3>1. /\ E(i - 1) \in 0 .. n /\ E(i) \in E(i - 1) .. n /\ E(0) = 0
          /\ pages[i] = SubSeq(list, E(i - 1) + 1, E(i))
      BY <1>0, EndsRise
    <3> DEFINE d == E(i - 1)
               e == E(i)
    <3>2. d \in 0 .. n /\ e \in d .. n /\ (i = 1 => d = 0) /\ pages[i] = SubSeq(list, d + 1, e)
      BY <3>1
    <3>3. SubSeq(list, 1, d) \o SubSeq(list, d + 1, e) = SubSeq(list, 1, e)
      <4> HIDE DEF d, e
      <4>1. 1 \in 1 .. Len(list) + 1 /\ d \in 1 - 1 .. Len(list) /\ e \in d .. Len(list)
        BY <1>0, <3>2
      <4> QED
        BY <4>1, ConcatAdjacentSubSeq
    <3> HIDE DEF d, e
    <3>4. CASE i = 1
      <4>1. d + 1 = 1
        BY <3>2, <3>4
      <4>2. pages[i] = SubSeq(list, 1, e)
        BY <3>2, <4>1, Zenon
      <4> QED
        BY <3>4, <4>2 DEF e
    <3>5. CASE i # 1
      BY <3>2, <3>3, <3>5 DEF d, e
    <3> QED
      BY <3>4, <3>5
  <2>2. FlatSteps(h, pages, n)
    <3>1. ASSUME NEW i \in 1 .. n PROVE h[i] = IF i = 1 THEN pages[i] ELSE h[i - 1] \o pages[i]
      <4>1. i # 1 => i - 1 \in 1 .. n
        OBVIOUS
      <4>2. h[i] = SubSeq(list, 1, E(i)) /\ (i # 1 => h[i - 1] = SubSeq(list, 1, E(i - 1)))
        BY <4>1, Zenon
      <4> QED
        BY <2>1, <4>2, Zenon
    <3>2. h = [i \in 1 .. n |-> h[i]]
      OBVIOUS
    <3> HIDE DEF h
    <3>3. h = [i \in 1 .. n |-> IF i = 1 THEN pages[i] ELSE h[i - 1] \o pages[i]]
      BY <3>1, <3>2
    <3> QED
      BY <3>3, Zenon DEF FlatSteps
  <2> DEFINE g == CHOOSE g : FlatSteps(g, pages, n)
  <2>3. FlatSteps(g, pages, n)
    <3> HIDE DEF h
    <3> QED
      BY <2>2, Zenon
  <2>4. FlattenSeq(pages) = g[n]
    BY <1>1, <1>3, FlattenChosen
  <2> HIDE DEF g
  <2>5. g = [i \in 1 .. n |-> IF i = 1 THEN pages[i] ELSE g[i - 1] \o pages[i]]
    BY <2>3, Zenon DEF FlatSteps
  <2> DEFINE T == {i \in 0 .. n : i = 0 \/ g[i] = SubSeq(list, 1, E(i))}
  <2>6. 0 \in T
    BY <1>0
  <2>7. ASSUME NEW i \in 1 .. n, i - 1 \in T PROVE i \in T
    <3>1. g[i] = IF i = 1 THEN pages[i] ELSE g[i - 1] \o pages[i]
      BY <2>5, Zenon
    <3>2. i # 1 => g[i - 1] = SubSeq(list, 1, E(i - 1))
      BY <2>7
    <3>3. g[i] = SubSeq(list, 1, E(i))
      BY <2>1, <3>1, <3>2, Zenon
    <3>4. i \in 0 .. n
      OBVIOUS
    <3> QED
      BY <3>3, <3>4
  <2> HIDE DEF T
  <2>8. n \in T
    <3>1. \A i \in 0 .. n : i \in T
      BY <1>0, <2>6, <2>7, Induct
    <3> QED
      BY <1>0, <3>1
  <2>9. g[n] = SubSeq(list, 1, E(n))
    BY <1>3, <2>8, Zenon DEF T
  <2>10. E(n) = n
    <3>1. n \in 1 .. n
      BY <1>0, <1>3
    <3> QED
      BY <1>0, <3>1, EndsRise
  <2>11. SubSeq(list, 1, n) = list
    BY SubSeqFull
  <2> QED
    BY <2>4, <2>9, <2>10, <2>11, Zenon
<1> QED
  BY <1>2, <1>3

LEMMA TablesArePaged == ASSUME contents \in RowSets PROVE PagesTile
<1> SUFFICES ASSUME NEW size \in Sizes
             PROVE  LET list  == Listing(DOMAIN contents, "asc")
                        pages == [p \in 1 .. Len(list) |-> Sliced(list, paginate(p, size))]
                    IN  FlattenSeq(pages) = list
  BY DEF PagesTile
<1> DEFINE K == DOMAIN contents
           list == Listing(K, "asc")
           pages == [p \in 1 .. Len(list) |-> Sliced(list, paginate(p, size))]
<1>1. K \in SUBSET Nat /\ IsFiniteSet(K) /\ size \in Nat
  BY DevServerConstantsOK
<1>2. list \in Seq(K)
  <2>1. list \in [1 .. Cardinality(K) -> K] /\ Cardinality(K) \in Nat
    BY <1>1, ListingIs, FS_CardinalityType DEF ListsAll
  <2> QED
    BY <2>1
<1>3. PICK pp \in Nat : /\ pp >= 1
                        /\ \A i \in Nat : i >= 1 => /\ paginate(i, size).limit = pp
                                                    /\ paginate(i, size).offset = (i - 1) * pp
  BY <1>1, PaginateIs
<1> HIDE DEF K, list
<1>4. ASSUME NEW i \in 1 .. Len(list)
      PROVE  pages[i] = SubSeq(list, EndOf(Len(list), pp, i - 1) + 1, EndOf(Len(list), pp, i))
  <2> DEFINE p == paginate(i, size)
  <2>1. i \in Nat /\ i >= 1
    BY <1>2
  <2>2. p.limit = pp /\ p.offset = (i - 1) * pp
    BY <1>3, <2>1
  <2>3. pages[i] = Sliced(list, p)
    OBVIOUS
  <2> HIDE DEF p
  <2>4. Sliced(list, p) = SubSeq(list, EndOf(Len(list), pp, i - 1) + 1, EndOf(Len(list), pp, i))
    BY <1>2, <1>3, <2>2, PageIs
  <2> QED
    BY <2>3, <2>4
<1>5. pages = [i \in 1 .. Len(list) |-> pages[i]]
  OBVIOUS
<1> HIDE DEF pages
<1>6. FlattenSeq(pages) = list
  BY <1>2, <1>3, <1>4, <1>5, PagesJoin
<1> QED
  BY <1>6 DEF pages, list, K

\* The pages of paginate are the table, each row of it once: for every table
\* and size, those that are none and those above the largest as well
\* (QueryBuilder.paginate of packages/query/src/index.ts).
THEOREM PagesAreTheTable == DevServerSpec => []PagesTile
<1>1. DevServerInit => DevReads
  BY DevReadsStart
<1>2. DevReads /\ [DevServerNext]_devVars => DevReads'
  BY ReadsStay
<1>3. DevReads => PagesTile
  BY TablesArePaged DEF DevReads
<1> QED
  BY <1>1, <1>2, <1>3, PTL DEF DevServerSpec

-----------------------------------------------------------------------------
(* Configuration: types                                                    *)

\* The way up from a directory ends: at the root, as many steps away as the
\* directory is deep.
Above(g, D) == g = [d \in D |-> IF Parent[d] = d THEN <<d>> ELSE <<d>> \o g[Parent[d]]]
LEMMA UpwardChosen == Upward = CHOOSE g : Above(g, Dirs)
BY DEF Upward, Above

\* The directories at most so deep.
Within(depth, n) == {d \in Dirs : depth[d] <= n}
LEMMA AboveOneMore ==
  ASSUME NEW depth, NEW n \in Nat, NEW g, depth \in [Dirs -> Nat],
         \A d \in Dirs : Parent[d] # d => depth[Parent[d]] < depth[d],
         Above(g, Within(depth, n - 1)), \A d \in Within(depth, n - 1) : g[d] \in Seq(Dirs)
  PROVE  \E h : Above(h, Within(depth, n)) /\ \A d \in Within(depth, n) : h[d] \in Seq(Dirs)
<1> DEFINE D == Within(depth, n)
           C == Within(depth, n - 1)
           h == [d \in D |-> IF d \in C THEN g[d] ELSE IF Parent[d] = d THEN <<d>> ELSE <<d>> \o g[Parent[d]]]
<1>0. Parent \in [Dirs -> Dirs]
  BY ConfigurationConstantsOK
<1>1. \A d \in C : d \in D /\ d \in Dirs
  BY DEF Within
<1>2. \A d \in D : d \in Dirs /\ (Parent[d] # d => Parent[d] \in C)
  BY <1>0 DEF Within
<1>3. \A d \in C : g[d] = IF Parent[d] = d THEN <<d>> ELSE <<d>> \o g[Parent[d]]
  BY DEF Above
<1> HIDE DEF C, D
<1>4. \A d \in D : h[d] = IF Parent[d] = d THEN <<d>> ELSE <<d>> \o g[Parent[d]]
  BY <1>3
<1>5. \A d \in C : h[d] = g[d]
  BY <1>1
<1>6. ASSUME NEW d \in D PROVE h[d] = (IF Parent[d] = d THEN <<d>> ELSE <<d>> \o h[Parent[d]]) /\ h[d] \in Seq(Dirs)
  <2>1. CASE Parent[d] = d
    <3>1. h[d] = <<d>>
      BY <1>4, <2>1
    <3>2. <<d>> \in Seq(Dirs)
      BY <1>2
    <3> QED
      BY <2>1, <3>1, <3>2
  <2>2. CASE Parent[d] # d
    <3>1. Parent[d] \in C /\ d \in Dirs
      BY <1>2, <2>2
    <3>2. h[Parent[d]] = g[Parent[d]] /\ g[Parent[d]] \in Seq(Dirs)
      BY <1>5, <3>1 DEF C
    <3>3. h[d] = <<d>> \o g[Parent[d]]
      BY <1>4, <2>2
    <3>4. <<d>> \in Seq(Dirs)
      BY <3>1
    <3> DEFINE t == g[Parent[d]]
    <3> HIDE DEF h, t
    <3>5. <<d>> \o t \in Seq(Dirs)
      BY <3>2, <3>4, ConcatProperties DEF t
    <3> QED
      BY <2>2, <3>2, <3>3, <3>5 DEF t
  <2> QED
    BY <2>1, <2>2
<1>7. h = [d \in D |-> h[d]]
  OBVIOUS
<1> HIDE DEF h
<1>8. h = [d \in D |-> IF Parent[d] = d THEN <<d>> ELSE <<d>> \o h[Parent[d]]]
  BY <1>6, <1>7
<1>9. Above(h, D)
  BY <1>8, Zenon DEF Above
<1> QED
  BY <1>6, <1>9 DEF D

\* The list of directories is one for every directory.
LEMMA UpwardFits == \A d \in Dirs : Upward[d] \in Seq(Dirs)
<1> DEFINE N == Cardinality(Dirs)
<1>0. N \in Nat
  BY ConfigurationConstantsOK, FS_CardinalityType
<1>1. PICK depth \in [Dirs -> 0 .. N] : \A d \in Dirs : Parent[d] # d => depth[Parent[d]] < depth[d]
  BY ConfigurationConstantsOK
<1>2. depth \in [Dirs -> Nat] /\ \A d \in Dirs : depth[d] \in Nat /\ depth[d] <= N
  BY <1>0
<1> HIDE DEF N
<1> DEFINE Ended(n) == \E g : Above(g, Within(depth, n)) /\ \A d \in Within(depth, n) : g[d] \in Seq(Dirs)
           S == {n \in 0 .. N : Ended(n)}
<1>3. ASSUME NEW n \in Nat, NEW g, Above(g, Within(depth, n - 1)), \A d \in Within(depth, n - 1) : g[d] \in Seq(Dirs)
      PROVE  Ended(n)
  BY <1>1, <1>2, <1>3, AboveOneMore
<1>4. Ended(0)
  <2> DEFINE g == [d \in {} |-> <<d>>]
  <2>1. Within(depth, 0 - 1) = {}
    BY <1>2 DEF Within
  <2>2. g = [d \in {} |-> IF Parent[d] = d THEN <<d>> ELSE <<d>> \o g[Parent[d]]]
    OBVIOUS
  <2> HIDE DEF g
  <2>3. Above(g, Within(depth, 0 - 1)) /\ \A d \in Within(depth, 0 - 1) : g[d] \in Seq(Dirs)
    BY <2>1, <2>2 DEF Above
  <2> HIDE DEF Ended
  <2> QED
    BY <1>3, <2>3
<1>5. ASSUME NEW n \in 1 .. N, Ended(n - 1) PROVE Ended(n)
  <2>1. PICK g : Above(g, Within(depth, n - 1)) /\ \A d \in Within(depth, n - 1) : g[d] \in Seq(Dirs)
    BY <1>5
  <2> HIDE DEF Ended
  <2> QED
    BY <1>3, <2>1
<1> HIDE DEF Ended
<1>6. 0 \in S /\ \A n \in 1 .. N : n - 1 \in S => n \in S
  BY <1>0, <1>4, <1>5
<1> HIDE DEF S
<1>7. N \in S
  <2>1. \A n \in 0 .. N : n \in S
    BY <1>0, <1>6, Induct
  <2> QED
    BY <1>0, <2>1
<1>8. PICK g : Above(g, Within(depth, N))
  BY <1>7 DEF S, Ended
<1>9. Within(depth, N) = Dirs
  BY <1>2 DEF Within
<1>10. \E h : Above(h, Dirs)
  BY <1>8, <1>9
<1>11. Above(Upward, Dirs)
  BY <1>10, UpwardChosen, Zenon
<1> DEFINE T == {n \in 0 .. N : \A d \in Within(depth, n) : Upward[d] \in Seq(Dirs)}
<1>12. Upward = [d \in Dirs |-> IF Parent[d] = d THEN <<d>> ELSE <<d>> \o Upward[Parent[d]]]
  BY <1>11, Zenon DEF Above
<1>13. ASSUME NEW n \in 0 .. N, n = 0 \/ n - 1 \in T, NEW d \in Within(depth, n)
       PROVE  Upward[d] \in Seq(Dirs)
  <2>0. d \in Dirs /\ depth[d] <= n /\ <<d>> \in Seq(Dirs)
    BY DEF Within
  <2>1. Upward[d] = IF Parent[d] = d THEN <<d>> ELSE <<d>> \o Upward[Parent[d]]
    BY <1>12, <2>0, Zenon
  <2>2. CASE Parent[d] = d
    BY <2>0, <2>1, <2>2
  <2>3. CASE Parent[d] # d
    <3>1. Parent[d] \in Dirs /\ depth[Parent[d]] < depth[d]
      BY <1>1, <2>0, <2>3, ConfigurationConstantsOK
    <3>2. n # 0 /\ Parent[d] \in Within(depth, n - 1)
      BY <1>2, <2>0, <3>1 DEF Within
    <3>3. Upward[Parent[d]] \in Seq(Dirs)
      BY <1>13, <3>2
    <3> DEFINE t == Upward[Parent[d]]
    <3> HIDE DEF t
    <3>4. <<d>> \o t \in Seq(Dirs)
      BY <2>0, <3>3, ConcatProperties DEF t
    <3> QED
      BY <2>1, <2>3, <3>4 DEF t
  <2> QED
    BY <2>2, <2>3
<1>14. 0 \in T /\ \A n \in 1 .. N : n - 1 \in T => n \in T
  <2>1. 0 \in T
    BY <1>0, <1>13
  <2>2. ASSUME NEW n \in 1 .. N, n - 1 \in T PROVE n \in T
    <3>1. n \in 0 .. N
      OBVIOUS
    <3>2. \A d \in Within(depth, n) : Upward[d] \in Seq(Dirs)
      <4> HIDE DEF T
      <4> QED
        BY <1>13, <2>2, <3>1
    <3> QED
      BY <3>1, <3>2
  <2> QED
    BY <2>1, <2>2
<1> HIDE DEF T
<1>15. N \in T
  <2>1. \A n \in 0 .. N : n \in T
    BY <1>0, <1>14, Induct
  <2> QED
    BY <1>0, <2>1
<1> QED
  BY <1>9, <1>15 DEF T

\* A file that is found is one of the files there are.
LEMMA FoundIsThere ==
  ASSUME NEW cwd \in Dirs, IsFound(cwd)
  PROVE  Found(cwd) \in DOMAIN files
<1> DEFINE places == Upward[cwd] \o Upward[Script]
           n == Len(places) * Len(FileNames)
           c == Candidates(cwd)
           T == {i \in 1 .. n : c[i] \in DOMAIN files}
<1>1. places \in Seq(Dirs)
  BY UpwardFits, ConfigurationConstantsOK, ConcatProperties
<1>2. n \in Nat
  <2>1. Len(places) \in Nat /\ Len(FileNames) \in Nat
    <3> DEFINE S == ToSet(FileNames)
    <3>1. FileNames \in Seq(S)
      BY ConfigurationConstantsOK
    <3> HIDE DEF S, places
    <3> QED
      BY <1>1, <3>1
  <2> DEFINE a == Len(places)
             b == Len(FileNames)
  <2>2. a \in Nat /\ b \in Nat
    BY <2>1
  <2> HIDE DEF a, b
  <2>3. a * b \in Nat
    BY <2>2
  <2> QED
    BY <2>3 DEF a, b
<1>3. DOMAIN c = 1 .. n
  BY DEF Candidates
<1> HIDE DEF n, c
<1>4. PICK i \in 1 .. n : c[i] \in DOMAIN files
  <2>1. PICK f \in ToSet(c) : f \in DOMAIN files
    BY Zenon DEF IsFound, c
  <2>2. PICK i \in DOMAIN c : f = c[i]
    BY <2>1, Zenon DEF ToSet
  <2>3. i \in 1 .. n /\ c[i] \in DOMAIN files
    BY <1>3, <2>1, <2>2, Zenon
  <2> QED
    BY <2>3, Zenon
<1>5. T # {} /\ T \in SUBSET Nat
  BY <1>4
<1>6. PICK j \in T : \A k \in T : j <= k
  <2> HIDE DEF T
  <2> QED
    BY <1>5, LeastNumber
<1>7. \A k \in 1 .. j - 1 : c[k] \notin DOMAIN files
  BY <1>2, <1>6
<1>8. j \in DOMAIN c /\ c[j] \in DOMAIN files
  BY <1>3, <1>6
<1> DEFINE P(l) == c[l] \in DOMAIN files /\ \A k \in 1 .. l - 1 : c[k] \notin DOMAIN files
<1>9. \E l \in DOMAIN c : P(l)
  BY <1>7, <1>8
<1>10. P(CHOOSE l \in DOMAIN c : P(l))
  <2> HIDE DEF P
  <2> QED
    BY <1>9, Zenon
<1>11. Found(cwd) = c[CHOOSE l \in DOMAIN c : P(l)]
  BY Zenon DEF Found, c
<1> QED
  BY <1>10, <1>11, Zenon

\* What is in the files, in the loader's cache and in the calls.
CallFits(k) ==
  k # NoCall =>
    /\ DOMAIN k = {"way", "cwd", "url", "imported", "file", "content"}
    /\ k.cwd \in Dirs /\ k.file[1] \in Dirs /\ k.url \in Urls
    /\ k.content # << >> => k.content[1].url \in Urls
OpenFits(h) == h \notin {NoHandle, Refused} => h.home \in BOOLEAN /\ h.url \in Urls
FilesFit(fs) == /\ DOMAIN fs \subseteq Dirs \X ToSet(FileNames)
                /\ \A f \in DOMAIN fs : fs[f].url \in Urls
ModulesFit(m) == \A f \in DOMAIN m : m[f].url \in Urls
IsOf(f, S) == f = [p \in S |-> f[p]]
ConfigTypes ==
  /\ FilesFit(files) /\ edits \in 0 .. MaxEdits
  /\ IsOf(modules, Programs) /\ IsOf(call, Programs) /\ IsOf(handle, Programs)
  /\ \A p \in Programs : ModulesFit(modules[p]) /\ CallFits(call[p]) /\ OpenFits(handle[p])

LEMMA NothingFits == ModulesFit(<< >>) /\ CallFits(NoCall) /\ OpenFits(NoHandle) /\ OpenFits(Refused)
BY DEF ModulesFit, CallFits, OpenFits

\* One program's part changes, to one that fits.
LEMMA PartsFit ==
  ASSUME ConfigTypes, NEW p \in Programs, NEW m, NEW k, NEW h, ModulesFit(m), CallFits(k), OpenFits(h),
         modules' = [modules EXCEPT ![p] = m], call' = [call EXCEPT ![p] = k],
         handle' = [handle EXCEPT ![p] = h], UNCHANGED <<files, edits>>
  PROVE  ConfigTypes'
<1>1. FilesFit(files') /\ edits' \in 0 .. MaxEdits
  BY DEF ConfigTypes
<1>2. IsOf(modules', Programs) /\ IsOf(call', Programs) /\ IsOf(handle', Programs)
  BY DEF ConfigTypes, IsOf
<1>3. ASSUME NEW q \in Programs PROVE ModulesFit(modules'[q]) /\ CallFits(call'[q]) /\ OpenFits(handle'[q])
  <2>1. CASE q = p
    <3>1. modules'[q] = m /\ call'[q] = k /\ handle'[q] = h
      BY <2>1 DEF ConfigTypes, IsOf
    <3> QED
      BY <3>1
  <2>2. CASE q # p
    <3>1. modules'[q] = modules[q] /\ call'[q] = call[q] /\ handle'[q] = handle[q]
      BY <2>2 DEF ConfigTypes, IsOf
    <3> QED
      BY <3>1 DEF ConfigTypes
  <2> QED
    BY <2>1, <2>2
<1> QED
  BY <1>1, <1>2, <1>3 DEF ConfigTypes

\* What does not change, said as a change.
LEMMA PartStays == ASSUME NEW S, NEW f, IsOf(f, S), NEW p \in S PROVE f = [f EXCEPT ![p] = f[p]]
BY DEF IsOf

LEMMA InlineFits == ASSUME ConfigTypes, NEW p \in Programs, CallInline(p) PROVE ConfigTypes'
<1>1. modules' = [modules EXCEPT ![p] = modules[p]] /\ call' = [call EXCEPT ![p] = call[p]] /\ UNCHANGED <<files, edits>>
  BY PartStays DEF CallInline, ConfigTypes
<1>2. ModulesFit(modules[p]) /\ CallFits(call[p])
  BY DEF ConfigTypes
<1>3. CASE handle' = [handle EXCEPT ![p] = Refused]
  BY <1>1, <1>2, <1>3, NothingFits, PartsFit
<1>4. ASSUME NEW url \in Overrides, NEW driver, NEW database, NEW tables, NEW rls,
             handle' = [handle EXCEPT ![p] =
               [way |-> "inline", file |-> << >>, home |-> FALSE, url |-> url, driver |-> driver,
                database |-> database, tables |-> tables, rls |-> rls]]
      PROVE  ConfigTypes'
  <2> DEFINE h == [way |-> "inline", file |-> << >>, home |-> FALSE, url |-> url, driver |-> driver,
                   database |-> database, tables |-> tables, rls |-> rls]
  <2>1. OpenFits(h)
    BY ConfigurationConstantsOK DEF OpenFits
  <2>2. handle' = [handle EXCEPT ![p] = h]
    BY <1>4
  <2> HIDE DEF h
  <2> QED
    BY <1>1, <1>2, <2>1, <2>2, PartsFit
<1> QED
  BY <1>3, <1>4 DEF CallInline

LEMMA WithFileFits == ASSUME ConfigTypes, NEW p \in Programs, CallWithFile(p) PROVE ConfigTypes'
<1> DEFINE k(cwd, way, url, drivers) ==
             [way |-> way, cwd |-> cwd, url |-> url, imported |-> drivers, file |-> Found(cwd), content |-> << >>]
<1>1. PICK cwd \in Dirs, way \in {"app", "loaded", "cli"}, url \in Overrides, drivers \in SUBSET Drivers :
        IF IsFound(cwd)
        THEN call' = [call EXCEPT ![p] = k(cwd, way, url, drivers)] /\ handle' = [handle EXCEPT ![p] = NoHandle]
        ELSE handle' = [handle EXCEPT ![p] = Refused] /\ call' = call
  BY DEF CallWithFile
<1>2. modules' = [modules EXCEPT ![p] = modules[p]] /\ UNCHANGED <<files, edits>> /\ ModulesFit(modules[p])
  BY PartStays DEF CallWithFile, ConfigTypes
<1>3. CASE IsFound(cwd)
  <2>1. Found(cwd)[1] \in Dirs
    BY <1>3, FoundIsThere DEF ConfigTypes, FilesFit
  <2>2. CallFits(k(cwd, way, url, drivers))
    BY <2>1, ConfigurationConstantsOK DEF CallFits
  <2> HIDE DEF k
  <2> QED
    BY <1>1, <1>2, <1>3, <2>2, NothingFits, PartsFit
<1>4. CASE ~IsFound(cwd)
  <2>1. call' = [call EXCEPT ![p] = call[p]] /\ CallFits(call[p])
    BY <1>1, <1>4, PartStays DEF ConfigTypes
  <2> HIDE DEF k
  <2> QED
    BY <1>1, <1>2, <1>4, <2>1, NothingFits, PartsFit
<1> QED
  BY <1>3, <1>4

LEMMA LoadFits == ASSUME ConfigTypes, NEW p \in Programs, Load(p) PROVE ConfigTypes'
<1> DEFINE k == call[p]
           f == k.file
           known == f \in DOMAIN modules[p]
           c == IF known THEN modules[p][f] ELSE files[f]
           kept == [g \in DOMAIN modules[p] \cup {f} |-> IF g = f THEN c ELSE modules[p][g]]
<1>1. /\ k # NoCall /\ CallFits(k) /\ ModulesFit(modules[p]) /\ OpenFits(handle[p]) /\ FilesFit(files)
      /\ UNCHANGED <<files, edits>>
  BY DEF Load, ConfigTypes
<1>2. CASE /\ known \/ f \in DOMAIN files
           /\ call' = [call EXCEPT ![p].content = <<c>>]
           /\ modules' = IF known \/ c.json THEN modules ELSE [modules EXCEPT ![p] = kept]
           /\ handle' = handle
  <2>1. c.url \in Urls
    BY <1>1, <1>2 DEF ModulesFit, FilesFit
  <2> DEFINE l == [k EXCEPT !.content = <<c>>]
  <2>2. call' = [call EXCEPT ![p] = l]
    BY <1>2
  <2>3. CallFits(l)
    <3> HIDE DEF c
    <3>1. /\ DOMAIN k = {"way", "cwd", "url", "imported", "file", "content"}
          /\ k.cwd \in Dirs /\ k.file[1] \in Dirs /\ k.url \in Urls
      BY <1>1 DEF CallFits
    <3> HIDE DEF k
    <3>2. DOMAIN l = DOMAIN k /\ l.cwd = k.cwd /\ l.file = k.file /\ l.url = k.url /\ l.content = <<c>>
      BY <3>1
    <3> QED
      BY <2>1, <3>1, <3>2 DEF CallFits
  <2>4. ModulesFit(kept)
    <3> HIDE DEF c
    <3> QED
      BY <1>1, <2>1 DEF ModulesFit
  <2>5. handle' = [handle EXCEPT ![p] = handle[p]]
    BY <1>2, PartStays DEF ConfigTypes
  <2>6. modules' = [modules EXCEPT ![p] = modules[p]] \/ modules' = [modules EXCEPT ![p] = kept]
    BY <1>2, PartStays DEF ConfigTypes
  <2> HIDE DEF l, kept
  <2> QED
    BY <1>1, <2>2, <2>3, <2>4, <2>5, <2>6, PartsFit
<1>3. CASE call' = [call EXCEPT ![p] = NoCall] /\ modules' = modules /\ handle' = [handle EXCEPT ![p] = Refused]
  <2>1. modules' = [modules EXCEPT ![p] = modules[p]]
    BY <1>3, PartStays DEF ConfigTypes
  <2> QED
    BY <1>1, <1>3, <2>1, NothingFits, PartsFit
<1> QED
  BY <1>2, <1>3 DEF Load

LEMMA OpenDbFits == ASSUME ConfigTypes, NEW p \in Programs, OpenDb(p) PROVE ConfigTypes'
<1> DEFINE k == call[p]
           c == k.content[1]
           url == Or(k.url, c.url)
           place == IF k.way = "app" THEN Resolve(url, k.file[1], k.cwd) ELSE Unresolved(url, k.cwd)
           h == [way |-> k.way, file |-> k.file, url |-> url, home |-> k.way # "app" /\ k.cwd = k.file[1],
                 driver |-> Or(c.driver, "sqlite"), database |-> Opened(k, c.driver, place),
                 tables |-> Listed(c), rls |-> FALSE]
<1>1. /\ modules' = [modules EXCEPT ![p] = modules[p]] /\ ModulesFit(modules[p]) /\ UNCHANGED <<files, edits>>
      /\ call' = [call EXCEPT ![p] = NoCall]
  BY PartStays DEF OpenDb, ConfigTypes
<1>2. k # NoCall /\ k.content # << >> /\ CallFits(k)
  BY DEF OpenDb, ConfigTypes
<1>3. url \in Urls
  BY <1>2 DEF CallFits, Or
<1>4. OpenFits(h)
  <2>1. h.home \in BOOLEAN /\ h.url = url
    OBVIOUS
  <2> HIDE DEF h, url
  <2> QED
    BY <1>3, <2>1 DEF OpenFits
<1>5. handle' = [handle EXCEPT ![p] = h] \/ handle' = [handle EXCEPT ![p] = Refused]
  BY DEF OpenDb
<1> HIDE DEF h
<1> QED
  BY <1>1, <1>4, <1>5, NothingFits, PartsFit

LEMMA ConfigTypesKept == ConfigTypes /\ [ConfigurationNext]_configVars => ConfigTypes'
<1> SUFFICES ASSUME ConfigTypes, [ConfigurationNext]_configVars PROVE ConfigTypes'
  OBVIOUS
<1>1. ASSUME NEW p \in Programs, CallInline(p) PROVE ConfigTypes'
  BY <1>1, InlineFits
<1>2. ASSUME NEW p \in Programs, CallWithFile(p) PROVE ConfigTypes'
  BY <1>2, WithFileFits
<1>3. ASSUME NEW p \in Programs, Load(p) PROVE ConfigTypes'
  BY <1>3, LoadFits
<1>4. ASSUME NEW p \in Programs, OpenDb(p) PROVE ConfigTypes'
  BY <1>4, OpenDbFits
<1>5. ASSUME NEW p \in Programs, Leave(p) PROVE ConfigTypes'
  BY <1>5, NothingFits, PartsFit DEF Leave
<1>6. CASE Edit
  <2>1. FilesFit(files) /\ edits \in 0 .. MaxEdits /\ MaxEdits \in Nat /\ \A c \in FileContents : c.url \in Urls
    BY ConfigurationConstantsOK DEF ConfigTypes
  <2>2. edits' \in 0 .. MaxEdits
    BY <1>6, <2>1 DEF Edit
  <2>3. FilesFit(files')
    <3>1. ASSUME NEW f \in Dirs \X ToSet(FileNames), NEW c \in FileContents,
                 files' = [g \in DOMAIN files \cup {f} |-> IF g = f THEN c ELSE files[g]]
          PROVE  FilesFit(files')
      BY <2>1, <3>1 DEF FilesFit
    <3>2. ASSUME NEW f \in DOMAIN files, files' = [g \in DOMAIN files \ {f} |-> files[g]]
          PROVE  FilesFit(files')
      BY <2>1, <3>2 DEF FilesFit
    <3> QED
      BY <1>6, <3>1, <3>2 DEF Edit
  <2> QED
    BY <1>6, <2>2, <2>3 DEF Edit, ConfigTypes
<1>7. CASE UNCHANGED configVars
  BY <1>7 DEF configVars, ConfigTypes
<1> QED
  BY <1>1, <1>2, <1>3, <1>4, <1>5, <1>6, <1>7 DEF ConfigurationNext

\* What is found, loaded and opened is of the types that the code gives it: a
\* file found is in a directory on the way up, for any tree of directories
\* (findMountConfig and loadMountConfig of packages/core/src/config.ts).
THEOREM ConfigurationTypeCorrect == ConfigurationSpec => []ConfigurationTypeOK
<1>1. ConfigurationInit => ConfigTypes
  <2> SUFFICES ASSUME ConfigurationInit PROVE ConfigTypes
    OBVIOUS
  <2>1. FilesFit(files) /\ edits \in 0 .. MaxEdits
    BY ConfigurationConstantsOK DEF ConfigurationInit, FilesFit
  <2>2. \A p \in Programs : ModulesFit(modules[p]) /\ CallFits(call[p]) /\ OpenFits(handle[p])
    BY NothingFits DEF ConfigurationInit
  <2>3. IsOf(modules, Programs) /\ IsOf(call, Programs) /\ IsOf(handle, Programs)
    BY DEF ConfigurationInit, IsOf
  <2> QED
    BY <2>1, <2>2, <2>3 DEF ConfigTypes
<1>2. ConfigTypes => ConfigurationTypeOK
  BY DEF ConfigTypes, ConfigurationTypeOK, FilesFit, CallFits, OpenFits, IsOpen
<1> QED
  BY <1>1, <1>2, ConfigTypesKept, PTL DEF ConfigurationSpec

-----------------------------------------------------------------------------
(* The types of those of which a safety invariant was shown above.         *)
LEMMA RealtimeTypes == RealtimeSpec => []RealtimeTypeOK
<1>1. RealtimeIInv => RealtimeTypeOK
  BY DEF RealtimeIInv
<1> QED
  BY <1>1, RealtimeStarts, RealtimeSteps, PTL DEF RealtimeSpec

LEMMA PresenceTypes == PresenceSpec => []PresenceTypeOK
<1>1. PresenceIInv => PresenceTypeOK
  BY DEF PresenceIInv
<1> QED
  BY <1>1, PresenceStarts, PresenceSteps, PTL DEF PresenceSpec

LEMMA SchemaInitTypes == SchemaInitSpec => []SchemaInitTypeOK
<1>1. StartIInv => SchemaInitTypeOK
  <2> SUFFICES ASSUME StartIInv PROVE SchemaInitTypeOK
    OBVIOUS
  <2>1. /\ server \in {"sqlite", "postgres", "mysql"} /\ maxRetries \in Attempts
        /\ numbered \subseteq DOMAIN columns /\ strict \subseteq Required
        /\ links \subseteq References /\ unkeyed \subseteq References
    BY DEF StartIInv, DatabaseFits
  <2>2. ASSUME NEW p \in Processes
        PROVE  /\ at[p].attempt \in Nat /\ at[p].byHand \in BOOLEAN
               /\ at[p].table \in 0 .. Len(Order[p])
               /\ at[p].pc \in {"away", "connect", "create", "describe", "add", "unlink",
                                "renumber", "default", "ready", "refused"}
    <3>1. at[p] \in Whereabouts /\ Behind(p, at[p], columns, numbered, strict)
      BY DEF StartIInv
    <3>2. at[p].table \in 0 .. Len(Order[p])
      BY <3>1, Zenon DEF Behind
    <3>3. at[p].attempt \in Nat /\ at[p].byHand \in BOOLEAN
      BY <3>1 DEF Whereabouts
    <3>4. at[p].pc \in {"away", "connect", "ready", "refused"} \cup Making
      BY <3>1 DEF Whereabouts
    <3> QED
      BY <3>2, <3>3, <3>4 DEF Making
  <2> QED
    BY <2>1, <2>2 DEF SchemaInitTypeOK
<1> QED
  BY <1>1, StartInvariant, PTL

LEMMA RowSecurityTypes == RowSecuritySpec => []RowSecurityTypeOK
<1>1. RowIInv => RowSecurityTypeOK
  <2> SUFFICES ASSUME RowIInv PROVE RowSecurityTypeOK
    OBVIOUS
  <2>1. enforce \in BOOLEAN /\ builders \in Seq(Plans) /\ Len(builders) <= MaxBuilders
    BY DEF RowIInv
  <2>2. ASSUME NEW i \in DOMAIN builders
        PROVE  /\ builders[i].table \in RowTables /\ builders[i].owners \subseteq Owners
               /\ builders[i].terms \in Seq(SUBSET Owners)
               /\ builders[i].source \cup builders[i].beside \subseteq Everything
    <3>1. builders[i] \in Plans
      BY <2>1
    <3> QED
      BY <3>1 DEF Plans, Terms
  <2> QED
    BY <2>1, <2>2 DEF RowSecurityTypeOK
<1> QED
  BY <1>1, RowInvariant, PTL

LEMMA StorageTypes == StorageSpec => []StorageTypeOK
<1>1. StorageIInv => StorageTypeOK
  <2> SUFFICES ASSUME StorageIInv PROVE StorageTypeOK
    OBVIOUS
  <2>1. /\ DOMAIN held \subseteq StoreKeys
        /\ \A k \in DOMAIN held : held[k] \in Objects
    BY DEF StorageIInv, ObjectsHeld
  <2>2. ASSUME NEW c \in Callers PROVE working[c].op \in {"none", "remove", "list", "transform"}
    <3>1. working[c] \in Works
      BY DEF StorageIInv
    <3> QED
      BY <3>1 DEF Works, NoWork
  <2> QED
    BY <2>1, <2>2 DEF StorageTypeOK, Objects
<1> QED
  BY <1>1, StorageInvariant, PTL

LEMMA SelectGateTypes == SelectGateSpec => []SelectGateTypeOK
<1>1. GateIInv => SelectGateTypeOK
  BY DEF GateIInv, SelectGateTypeOK
<1> QED
  BY <1>1, GateInvariant, PTL
=============================================================================
