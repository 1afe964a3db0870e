----------------------------- MODULE MCPlatform -----------------------------
(***************************************************************************)
(* The smaller components side by side, for TLC, and what several of them  *)
(* answer together, where one question concerns them all. No two of them   *)
(* share state, so a behaviour is one of a single component, the one named *)
(* by part. (Studio's page and its other clients count as two: they share  *)
(* nothing but the history variable statement.)                            *)
(***************************************************************************)
EXTENDS Warming, CacheLock, SqliteDriver, QueryPlans, Relations, Api, DevServer,
        Studio, Realtime, Presence, SchemaInit, Configuration, LazyPool,
        RowSecurity, Storage, SelectGate, SchemaSync, ExampleApp

VARIABLE part   \* the component that runs

vars == <<part, warmingVars, refreshingVars, lockVars, realtimeVars, presenceVars,
          sqliteVars, plansVars, relationsVars, apiVars, syncVars, initVars,
          configVars, rowVars, storageVars, gateVars, devVars, studioVars, poolVars, exampleVars>>

Init ==
  /\ part \in {"warming", "refreshing", "lock", "realtime", "presence",
              "sqlite", "plans", "relations", "api", "sync", "startup",
              "config", "rows", "storage", "gate", "dev", "page", "clients", "pool", "example"}
  \* One initial state per component: the others' choices are not made.
  /\ part = "realtime" \/ rows = {}
  /\ part = "relations" \/ people = [id \in {} |-> NoKey]
  /\ part = "api" \/ counted = 0
  /\ part = "startup" \/ (server = "sqlite" /\ maxRetries = 0 /\ older = FALSE)
  /\ part = "rows" \/ enforce = FALSE
  /\ part = "pool" \/ installed = TRUE
  /\ part = "example" \/ points = [u \in Account |-> 0]
  /\ part = "dev" \/ contents = 2 :> 1
  /\ part = "storage" \/ adapter = "memory"
  /\ part = "sync" \/ (target = Empty /\ dialect = "sqlite")
  /\ WarmingInit /\ RefreshingInit /\ CacheLockInit /\ RealtimeInit
  /\ PresenceInit /\ SqliteInit /\ PlansInit /\ RelationsInit /\ ApiInit
  /\ SyncInit /\ SchemaInitInit /\ ConfigurationInit /\ RowSecurityInit
  /\ StorageInit /\ SelectGateInit /\ DevServerInit /\ StudioInit /\ LazyPoolInit
  /\ ExampleInit

WarmingStep ==
  /\ part = "warming" /\ WarmingNext
  /\ UNCHANGED <<part, refreshingVars, lockVars, realtimeVars, presenceVars,
                 sqliteVars, plansVars, relationsVars, apiVars, syncVars,
                 initVars, configVars, rowVars, storageVars, gateVars,
                 devVars, studioVars, poolVars, exampleVars>>
RefreshingStep ==
  /\ part = "refreshing" /\ RefreshingNext
  /\ UNCHANGED <<part, warmingVars, lockVars, realtimeVars, presenceVars,
                 sqliteVars, plansVars, relationsVars, apiVars, syncVars,
                 initVars, configVars, rowVars, storageVars, gateVars,
                 devVars, studioVars, poolVars, exampleVars>>
CacheLockStep ==
  /\ part = "lock" /\ CacheLockNext
  /\ UNCHANGED <<part, warmingVars, refreshingVars, realtimeVars, presenceVars,
                 sqliteVars, plansVars, relationsVars, apiVars, syncVars,
                 initVars, configVars, rowVars, storageVars, gateVars,
                 devVars, studioVars, poolVars, exampleVars>>
RealtimeStep ==
  /\ part = "realtime" /\ RealtimeNext
  /\ UNCHANGED <<part, warmingVars, refreshingVars, lockVars, presenceVars,
                 sqliteVars, plansVars, relationsVars, apiVars, syncVars,
                 initVars, configVars, rowVars, storageVars, gateVars,
                 devVars, studioVars, poolVars, exampleVars>>
PresenceStep ==
  /\ part = "presence" /\ PresenceNext
  /\ UNCHANGED <<part, warmingVars, refreshingVars, lockVars, realtimeVars,
                 sqliteVars, plansVars, relationsVars, apiVars, syncVars,
                 initVars, configVars, rowVars, storageVars, gateVars,
                 devVars, studioVars, poolVars, exampleVars>>
SqliteStep ==
  /\ part = "sqlite" /\ SqliteNext
  /\ UNCHANGED <<part, warmingVars, refreshingVars, lockVars, realtimeVars,
                 presenceVars, plansVars, relationsVars, apiVars, syncVars,
                 initVars, configVars, rowVars, storageVars, gateVars,
                 devVars, studioVars, poolVars, exampleVars>>
PlansStep ==
  /\ part = "plans" /\ PlansNext
  /\ UNCHANGED <<part, warmingVars, refreshingVars, lockVars, realtimeVars,
                 presenceVars, sqliteVars, relationsVars, apiVars, syncVars,
                 initVars, configVars, rowVars, storageVars, gateVars,
                 devVars, studioVars, poolVars, exampleVars>>
RelationsStep ==
  /\ part = "relations" /\ RelationsNext
  /\ UNCHANGED <<part, warmingVars, refreshingVars, lockVars, realtimeVars,
                 presenceVars, sqliteVars, plansVars, apiVars, syncVars,
                 initVars, configVars, rowVars, storageVars, gateVars,
                 devVars, studioVars, poolVars, exampleVars>>
ApiStep ==
  /\ part = "api" /\ ApiNext
  /\ UNCHANGED <<part, warmingVars, refreshingVars, lockVars, realtimeVars,
                 presenceVars, sqliteVars, plansVars, relationsVars,
                 syncVars, initVars, configVars, rowVars, storageVars,
                 gateVars, devVars, studioVars, poolVars, exampleVars>>
SyncStep ==
  /\ part = "sync" /\ SyncNext
  /\ UNCHANGED <<part, warmingVars, refreshingVars, lockVars, realtimeVars,
                 presenceVars, sqliteVars, plansVars, relationsVars, apiVars,
                 initVars, configVars, rowVars, storageVars, gateVars,
                 devVars, studioVars, poolVars, exampleVars>>
SchemaInitStep ==
  /\ part = "startup" /\ SchemaInitNext
  /\ UNCHANGED <<part, warmingVars, refreshingVars, lockVars, realtimeVars,
                 presenceVars, sqliteVars, plansVars, relationsVars, apiVars,
                 syncVars, configVars, rowVars, storageVars, gateVars,
                 devVars, studioVars, poolVars, exampleVars>>
ConfigurationStep ==
  /\ part = "config" /\ ConfigurationNext
  /\ UNCHANGED <<part, warmingVars, refreshingVars, lockVars, realtimeVars,
                 presenceVars, sqliteVars, plansVars, relationsVars, apiVars,
                 syncVars, initVars, rowVars, storageVars, gateVars, devVars,
                 studioVars, poolVars, exampleVars>>
RowSecurityStep ==
  /\ part = "rows" /\ RowSecurityNext
  /\ UNCHANGED <<part, warmingVars, refreshingVars, lockVars, realtimeVars,
                 presenceVars, sqliteVars, plansVars, relationsVars, apiVars,
                 syncVars, initVars, configVars, storageVars, gateVars,
                 devVars, studioVars, poolVars, exampleVars>>
StorageStep ==
  /\ part = "storage" /\ StorageNext
  /\ UNCHANGED <<part, warmingVars, refreshingVars, lockVars, realtimeVars,
                 presenceVars, sqliteVars, plansVars, relationsVars, apiVars,
                 syncVars, initVars, configVars, rowVars, gateVars, devVars,
                 studioVars, poolVars, exampleVars>>
SelectGateStep ==
  /\ part = "gate" /\ SelectGateNext
  /\ UNCHANGED <<part, warmingVars, refreshingVars, lockVars, realtimeVars,
                 presenceVars, sqliteVars, plansVars, relationsVars, apiVars,
                 syncVars, initVars, configVars, rowVars, storageVars,
                 devVars, studioVars, poolVars, exampleVars>>
DevServerStep ==
  /\ part = "dev" /\ DevServerNext
  /\ UNCHANGED <<part, warmingVars, refreshingVars, lockVars, realtimeVars,
                 presenceVars, sqliteVars, plansVars, relationsVars, apiVars,
                 syncVars, initVars, configVars, rowVars, storageVars,
                 gateVars, studioVars, poolVars, exampleVars>>
PageStep ==
  /\ part = "page" /\ PageNext
  /\ UNCHANGED <<part, warmingVars, refreshingVars, lockVars, realtimeVars,
                 presenceVars, sqliteVars, plansVars, relationsVars, apiVars,
                 syncVars, initVars, configVars, rowVars, storageVars,
                 gateVars, devVars, poolVars, exampleVars>>
ClientStep ==
  /\ part = "clients" /\ ClientNext
  /\ UNCHANGED <<part, warmingVars, refreshingVars, lockVars, realtimeVars,
                 presenceVars, sqliteVars, plansVars, relationsVars, apiVars,
                 syncVars, initVars, configVars, rowVars, storageVars,
                 gateVars, devVars, poolVars, exampleVars>>
LazyPoolStep ==
  /\ part = "pool" /\ LazyPoolNext
  /\ UNCHANGED <<part, warmingVars, refreshingVars, lockVars, realtimeVars,
                 presenceVars, sqliteVars, plansVars, relationsVars, apiVars,
                 syncVars, initVars, configVars, rowVars, storageVars,
                 gateVars, devVars, studioVars, exampleVars>>
ExampleStep ==
  /\ part = "example" /\ ExampleNext
  /\ UNCHANGED <<part, warmingVars, refreshingVars, lockVars, realtimeVars,
                 presenceVars, sqliteVars, plansVars, relationsVars, apiVars,
                 syncVars, initVars, configVars, rowVars, storageVars,
                 gateVars, devVars, studioVars, poolVars>>

Next ==
  \/ WarmingStep \/ RefreshingStep \/ CacheLockStep \/ RealtimeStep
  \/ PresenceStep \/ SqliteStep \/ PlansStep \/ RelationsStep \/ ApiStep
  \/ SyncStep \/ SchemaInitStep \/ ConfigurationStep \/ RowSecurityStep
  \/ StorageStep \/ SelectGateStep \/ DevServerStep \/ PageStep \/ ClientStep
  \/ LazyPoolStep \/ ExampleStep

\* WarmingFairness, among the rest.
Others == <<part, refreshingVars, lockVars, realtimeVars, presenceVars, sqliteVars,
            plansVars, relationsVars, apiVars, syncVars, initVars,
            configVars, rowVars, storageVars, gateVars, devVars, studioVars, poolVars, exampleVars>>
Fairness ==
  /\ \A j \in Jobs : WF_vars(part = "warming" /\ TimerFires(j) /\ UNCHANGED Others)
  /\ WF_vars(part = "warming" /\ (\E r \in runs : EndRun(r)) /\ UNCHANGED Others)

Spec == Init /\ [][Next]_vars /\ Fairness

Leaf(rel) == [rel |-> rel, below |-> << >>]
MCTrees == {<<Leaf("heir"), [rel |-> "children", below |-> <<Leaf("parent")>>]>>,
            <<[rel |-> "parent", below |-> <<Leaf("children")>>]>>}
MCNodes ==
  LET tops == UNION {ToSet(tree) : tree \in MCTrees}
  IN  tops \cup UNION {ToSet(node.below) : node \in tops}
Column(type, nullable, unique, extra) ==
  [type |-> type, nullable |-> nullable, unique |-> unique, extra |-> extra]
MCDefinitions == {Column("int", TRUE, FALSE, "none"), Column("bool", TRUE, FALSE, "none"),
                  Column("int", FALSE, FALSE, "default"), Column("int", TRUE, TRUE, "none"),
                  Column("int", TRUE, FALSE, "check")}
MCOrder == [p1 |-> <<"users", "posts">>, p2 |-> <<"users", "posts">>]
MCFields == [p1 |-> [users |-> {"id", "name"}, posts |-> {"id"}],
             p2 |-> [users |-> {"id", "mail"}, posts |-> {"id", "by"}]]
MCReferences == {<<"posts", "by", "users">>}
MCLegacy == [users |-> {"id", "mail"}, posts |-> {"id", "by"}]
MCRequired == {<<"users", "mail">>, <<"posts", "by">>}
MCParent == [root |-> "root", app |-> "root"]
MCNames == <<"new", "old">>
Config(url, drv, list, schema, json) ==
  [url |-> url, driver |-> drv, tables |-> list, schema |-> schema, json |-> json]
Conflicts == Config("absolute", "pg", <<<<"a", 1>>, <<"a", 2>>>>, << >>, FALSE)
MCContents == {Config("relative", "sqlite", <<<<"a", 1>>>>, << >>, FALSE), Conflicts}
MCLayouts ==
  {(<<"app", "old">> :> Config("none", "none", << >>, <<<<"a", 1>>, <<"a", 2>>>>, TRUE)) @@
   (<<"root", "new">> :> Config("absolute", "pg", <<<<"a", 1>>>>, << >>, FALSE))}
MCInline == {<<<<"given", 1>>>>, <<<<"given", 1>>, <<"given", 2>>>>}
Policy(user, sure, filter) ==
  [user |-> user, strict |-> sure, open |-> FALSE, filter |-> filter]
MCPolicies == {Policy("ann", TRUE, "="), Policy(Nobody, FALSE, "!="), Policy("ann", FALSE, "group")}
MCAllows == [s \in {"ann", "root", "anon"} |-> IF s = "root" THEN Owners ELSE {s} \cap Owners]
MCRowSets == {(1 :> 1) @@ (2 :> 2) @@ (3 :> 2), (2 :> 1)}
MCGrids == [users |-> [columns |-> {"id", "name"}, key |-> <<"id">>],
            posts |-> [columns |-> {"uid", "id"}, key |-> <<"uid">>]]

(* Type correctness of the components.                                     *)
PlatformTypesOK ==
  /\ WarmingTypeOK /\ RefreshingTypeOK /\ CacheLockTypeOK /\ RealtimeTypeOK /\ PresenceTypeOK
  /\ SqliteTypeOK /\ PlansTypeOK /\ RelationsTypeOK /\ ApiTypeOK /\ SyncTypeOK
  /\ SchemaInitTypeOK /\ ConfigurationTypeOK /\ RowSecurityTypeOK /\ StorageTypeOK /\ StudioTypeOK
  /\ SelectGateTypeOK /\ DevServerTypeOK /\ LazyPoolTypeOK
  /\ ExampleTypeOK

(* A read loses no row and adds none: related rows are those of findMany's *)
(* tables at the time, pages tile the list, and the example's routes serve *)
(* what is listed, but for two (RelationsComplete, ReadsTile, PagesTile,   *)
(* RoutesServeOrHidden).                                                   *)
ReadsComplete == RelationsComplete /\ ReadsTile /\ PagesTile /\ RoutesServeOrHidden

(* Viewers end with the rows of the table, and rooms with the same people  *)
(* (LiveFollows, RoomsAgree).                                              *)
ViewersFollow == LiveFollows /\ RoomsAgree

(* However the processes that start interleave, edit files or die: one that*)
(* is up has its tables, and one that has a handle has the database its    *)
(* configuration names, over one pool that close() ends (InitLeavesSchema, *)
(* OpensConfigured, PoolReachable).                                        *)
StartsRight == InitLeavesSchema /\ OpensConfigured /\ PoolReachable

(* Nothing that a policy hides gets through a builder, however it was      *)
(* forked, or out of the object store, whatever happens to the key between *)
(* the look and the use; and no text of a model that is not one SELECT     *)
(* (RowsGuarded, ObjectsGuarded, QuestionsOnlySelect).                     *)
GatesHold == RowsGuarded /\ ObjectsGuarded /\ QuestionsOnlySelect

(* What is said holds: a schema command's report describes the database,   *)
(* and the points that an example's transfer moves are kept (ReportsHold,  *)
(* PointsKept).                                                            *)
SaidIsSo == ReportsHold /\ PointsKept
=============================================================================
