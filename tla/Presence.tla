------------------------------ MODULE Presence ------------------------------
(***************************************************************************)
(* PresenceChannel of packages/realtime/src/index.ts: the members of one   *)
(* room as several processes see them. A process tells others its list();  *)
(* they merge it, whenever it arrives and as often (the transport is the   *)
(* host's). The merge adds and replaces members and never removes one.     *)
(***************************************************************************)
EXTENDS Integers, FiniteSets, FiniteSetsExt

CONSTANTS
  Sites,    \* two processes with a Hub
  People,   \* ids
  Metas,    \* what a member says of itself
  Absent,   \* no such member
  MaxLists  \* bound on the lists under way

ASSUME PresenceConstantsOK ==
  IsFiniteSet(Sites) /\ Cardinality(Sites) = 2 /\ Absent \notin Metas /\ MaxLists \in Nat \ {0}

VARIABLES
  members,  \* site -> id -> its meta, Absent when not a member
  sent,     \* lists under way: [to, list], delivered any number of times
  heard     \* history: the pairs <<from, to>> whose list was sent and merged
            \* after the last join, leave, or arrival of a list older than those
presenceVars == <<members, sent, heard>>

PresenceInit ==
  /\ members = [s \in Sites |-> [p \in People |-> Absent]]
  /\ sent = {} /\ heard = {}

Aged == {[m EXCEPT !.current = FALSE] : m \in sent}

\* A local operation; lists sent before it are old.
Change(s, p, meta) ==
  /\ members' = [members EXCEPT ![s][p] = meta]
  /\ sent' = Aged /\ heard' = {}
Join(s, p) == \E meta \in Metas : Change(s, p, meta)
LeaveRoom(s, p) == Change(s, p, Absent)

SendList(s, t) ==
  /\ s # t /\ Cardinality(sent) < MaxLists
  /\ sent' = sent \cup {[from |-> s, to |-> t, list |-> members[s], current |-> TRUE]}
  /\ UNCHANGED <<members, heard>>

Merged(mine, list) == [p \in People |-> IF list[p] = Absent THEN mine[p] ELSE list[p]]

Merge(m) ==
  /\ m \in sent
  /\ members' = [members EXCEPT ![m.to] = Merged(@, m.list)]
  /\ IF m.current THEN heard' = heard \cup {<<m.from, m.to>>} /\ UNCHANGED sent
     ELSE heard' = {} /\ sent' = Aged

LoseList(m) ==
  /\ m \in sent
  /\ sent' = sent \ {m}
  /\ UNCHANGED <<members, heard>>

PresenceNext ==
  \/ \E s \in Sites, p \in People : Join(s, p) \/ LeaveRoom(s, p)
  \/ \E s, t \in Sites : SendList(s, t)
  \/ \E m \in sent : Merge(m) \/ LoseList(m)

PresenceSpec == PresenceInit /\ [][PresenceNext]_presenceVars

-----------------------------------------------------------------------------
Lists == [People -> Metas \cup {Absent}]
PresenceTypeOK ==
  /\ members \in [Sites -> Lists]
  /\ sent \subseteq [from : Sites, to : Sites, list : Lists, current : BOOLEAN]
  /\ heard \subseteq Sites \X Sites

Present(s) == {p \in People : members[s][p] # Absent}

(* Two sites agree on who is in the room once each has merged a list that  *)
(* the other sent after the last join or leave, whichever list came first, *)
(* and unless an older list came in between (they may not agree on the     *)
(* meta of a member: the merge is last write wins by arrival, and a member *)
(* who left may be back).                                                  *)
RoomsAgree ==
  \A s, t \in Sites :
    {<<s, t>>, <<t, s>>} \subseteq heard => Present(s) = Present(t)
=============================================================================
