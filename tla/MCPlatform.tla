------------------------------ MODULE MCPlatform ------------------------------
(***************************************************************************)
(* The shared services of the platform: who may run a task, the catalog of *)
(* artifacts, the locks and connections around it, the inventory of hosts  *)
(* and the settings, for one TLC run.  They share no state here; part says *)
(* which of them a behaviour is about.                                     *)
(***************************************************************************)
EXTENDS Access, Catalog, ConnPool, KeyedLock, Inventory, Settings

VARIABLE part

\* Two teams, one that shares nothing and one that inherits the roles of its
\* owners; a service group that spans all components.
PlatformRole == [r \in Roles |-> {"deploy"}]
PlatformTeam ==
  [t \in Teams |-> IF t = "t1" THEN [policy |-> "off", members |-> {"u1"}]
                               ELSE [policy |-> "inherit", members |-> {"u2"}]]
PlatformGroup == [g \in SvcGroups |-> Comps]
PlatformGrant ==
  [x \in Teams \X SvcGroups |->
     IF x[1] = "t1" THEN [perms |-> {}, roles |-> Roles, services |-> {"c1"}, hosts |-> {"A"}]
     ELSE [perms |-> {"read"}, roles |-> {}, services |-> {"*"}, hosts |-> {}]]
PlatformGrants ==
  { [perms |-> {"deploy"}, roles |-> {}, services |-> {"c2"}, hosts |-> {"B"}],
    [perms |-> {}, roles |-> Roles, services |-> {"*"}, hosts |-> {"A"}] }

\* Hosts of two groups, one with an unknown system; a component for every
\* system and one with an order of its own for each.
PlatformHosts ==
  [h \in TaskHosts |-> [tag |-> IF h = 2 THEN "B" ELSE "A",
                        os |-> IF h = 3 THEN "windows" ELSE IF h = 1 THEN "linux" ELSE ""]]
PlatformHints ==
  [c \in Comps |-> IF c = "c1" THEN << "", "linux", "windows", "" >> ELSE << "", "", "", "" >>]
PlatformStrategies ==
  { [mode |-> "canary", canary |-> 1, batch |-> 0], [mode |-> "percent", canary |-> 0, batch |-> 67] }

\* A mapping that overwrites what a person wrote and one that does not.
PlatformMappings ==
  { << [key |-> "a", overwrite |-> FALSE], [key |-> "b", overwrite |-> TRUE] >> }

platformVars == << aVars, cVars, lVars, pVars, kVars, iVars, sVars, part >>

PlatformInit ==
  /\ part \in {"access", "catalog", "pool", "keyedlock", "inventory", "settings"}
  /\ AccessInit /\ CatalogInit /\ PoolInit /\ KeyedLockInit /\ InventoryInit /\ SettingsInit
  /\ part # "pool" => lLimit = defaultArtifactUploadConcurrency
  /\ part # "keyedlock" => kKey = [t \in Threads |-> CHOOSE k \in LockKeys : TRUE]
  /\ part # "inventory" => iListed["consul"] = IPs \X {0}
  /\ part # "settings" => sKey = "ai"

PlatformNext ==
  /\ UNCHANGED part
  /\ \/ part = "access" /\ AccessNext /\ UNCHANGED << cVars, lVars, pVars, kVars, iVars, sVars >>
     \/ part = "catalog" /\ CatalogNext /\ UNCHANGED << aVars, lVars, pVars, kVars, iVars, sVars >>
     \/ part = "pool" /\ PoolNext /\ UNCHANGED << aVars, cVars, kVars, iVars, sVars >>
     \/ part = "keyedlock" /\ KeyedLockNext /\ UNCHANGED << aVars, cVars, lVars, pVars, iVars, sVars >>
     \/ part = "inventory" /\ InventoryNext /\ UNCHANGED << aVars, cVars, lVars, pVars, kVars, sVars >>
     \/ part = "settings" /\ SettingsNext /\ UNCHANGED << aVars, cVars, lVars, pVars, kVars, iVars >>

PlatformSpec == PlatformInit /\ [][PlatformNext]_platformVars
=============================================================================
