\* The shared services of the platform, each part on its own instance.
CONSTANTS
  Members = {"u1", "u2"}
  Teams = {"t1", "t2"}
  Roles = {"r1"}
  SvcGroups = {"g1"}
  Comps = {"c1", "c2"}
  CompHints <- PlatformHints
  TaskHosts = {1, 2, 3}
  HostTags = {"A", "B"}
  Strategies <- PlatformStrategies
  StartRole <- PlatformRole
  StartTeam <- PlatformTeam
  StartGroup <- PlatformGroup
  StartGrant <- PlatformGrant
  StartHost <- PlatformHosts
  GrantChoices <- PlatformGrants
  MaxOrgEdits = 2
  MaxHostEdits = 1
  CatComps = {c}
  Versions = {v1}
  FileNames = {"f", "g"}
  Requests = {q1, q2}
  MaxUploads = 2
  MaxBreaks = 1
  MaxCatTasks = 1
  Uploads = {up1, up2}
  LimitChoices = {0, 1, 3}
  defaultArtifactUploadConcurrency = 1
  maxArtifactUploadConcurrency = 2
  Removals = {d1, d2, d3, d4, d5}
  BaseConns = 3
  Threads = {th1, th2, th3}
  LockKeys = {x, y}
  Entries = {e1, e2, e3}
  NoEntry = NoEntry
  IPs = {1, 2}
  Groups = {1}
  MetaKeys = {"a", "b"}
  MappingLists <- PlatformMappings
  MaxRounds = 2
  MaxInvEvents = 1
  SetReplicas = {"r1", "r2"}
  SetValues = {"v", "w"}
  FileValue = "f"
  MaxSaves = 2
  MaxBoots = 1
SPECIFICATION PlatformSpec
INVARIANTS
  AccessInv
  CatalogInv
  PoolInv
  InventoryInv
  SettingsInv
PROPERTY LocksAreMutexes
CHECK_DEADLOCK FALSE
