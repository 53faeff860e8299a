\* What the server offers beside the rollout, each part on its own instance.
CONSTANTS
  KeyOrder <- FileKeys
  Fold <- FileFold
  LinuxNames = {}
  Builtins <- FileBuiltins
  Urls = {"u1", "u2"}
  SaveItems <- FileSaves
  Askers = {"p", "q"}
  MaxAsks = 2
  MaxFileEvents = 2
  AccReplicas = {"r1", "r2"}
  Accounts = {"ann", "lead", "root", "new"}
  Newcomers = {"new"}
  Visitors = {"ann"}
  Deeds <- AccountDeeds
  StartRow <- AccountRows
  RoleChoices <- AccountRoles
  Skew <- ReplicaSkew
  MaxSkew = 1
  MaxChanges = 2
  MaxLooks = 1
  TokenUsers = {"ann", "lead"}
  TokenIds = {1, 2}
  Makers = {"m1", "m2"}
  TokenRank <- TokenRanks
  TokenTenant <- TokenTenants
  Providers = {"builtin", "casdoor"}
  RankChoices = {0, 1}
  ChangedUsers = {"lead"}
  MinRank = 1
  MaxPerUser = 1
  WebReplicas = {"r1"}
  Lists = {"hosts", "tasks"}
  Readers = {"p"}
  Writers = {"w"}
  Databases = 2
  CacheOptions <- CacheChoices
  MaxWrites = 2
  MaxReloads = 1
  Families <- NetFamilies
  Pool <- NetPool
  ReservedAddrs = {1}
  OverlayRequests = {"p1", "p2"}
  NodeNames = {"x"}
  Asks <- NetAsks
  AddrOf <- NetAddrs
  MaxNodes <- NetNodes
  MaxOverlayFaults = 1
  Fingerprints = {"f"}
  Gateways = {"g1", "g2"}
  RouteSets <- NetRoutes
  Loaders = {"run"}
  MaxRenewals = 1
  MaxRouteEdits = 1
  MaxClientFaults = 1
  Starters = {"a", "b", "c"}
  StoreScripts = {1, 2}
  Release <- Releases
  MaxStarts = 4
  MaxAborts = 1
  AiUsers = {"ann", "root"}
  AiAdmins = {"root"}
  AiRoots = {"root"}
  WriteTokens = {"ann"}
  Tools = {"audit", "start"}
  ReadOnly = {"audit"}
  ForAdmins = {"audit"}
  AsksFirst = {"start"}
  AiRequests = {"p", "q"}
  AiIds = {1}
  McpBodies <- Posts
  AssistantMaxSteps = 2
  MaxCalls = 1
  RateMax = 1
  Minute = 2
  ActionTTL = 1
  MaxNow = 2
  MaxAiEvents = 1
  EdgeRequests = {"p", "q"}
  EdgeClients = {"c1", "c2"}
  EdgeAddrs = {1, 2}
  SlugOf <- SameSlug
  RandomSuffixes = {1}
  NameTries = 2
  EdgeDomain <- DomainLabels
  ManualServices <- EdgeServices
  AskedHosts <- HostsAsked
  EdgePorts = {7}
  MaxServices = 2
  MaxEdgeEvents = 1
  OverlayClients = {"c"}
  Machines = {"m1", "m2"}
  MaxTokens = 2
  MaxSecrets = 3
  LServers = {"s1", "s2"}
  Policies = {"all", "term", "data"}
  PolicyRole <- PolicyRoles
  PolicyRights <- PolicyGrants
  DefaultPolicies = {"all"}
  PolicyAdmins = {"a", "b"}
  SessionKinds = {"ssh", "vnc", "rdp"}
  DSNs = {"d1", "d2"}
  MaxPolicyCalls = 2
  MaxLiaisonStarts = 2
  MaxChunks = 2
  MaxConnections = 2
SPECIFICATION ServicesSpec
INVARIANTS
  ServedInv
  SignInInv
  NetworkInv
  MigrationsInv
CHECK_DEADLOCK FALSE
