\* The fleet, each part on its own instance.
CONSTANTS
  m1 = m1
  m2 = m2
  lo = lo
  Machines <- FleetMachines
  Loop = lo
  Tenants = {1, 2}
  MaxTokens = 2
  EnrolPolicies <- FleetPolicies
  MaxHosts = 2
  MaxRegs = 2
  MaxLost = 1
  TunnelAddrs = {"x", "bad"}
  Unresolvable = {"bad"}
  Testers = {"a1"}
  MaxActs = 3
  UpAgents = {"a"}
  Builds = {"x", "y"}
  MaxReleases = 2
  MaxOrders = 1
  MaxMishaps = 2
  RemHosts = {1, 2, 3}
  RemJobs = {1, 2}
  HostLists = {{1, 2, 3}, {1, 3}}
  Replicas = {"r1", "r2"}
  hostDeleteJobChunk = 2
  MaxCreations = 1
  MaxStops = 1
  v1 = v1
  v2 = v2
  n1 = n1
  Versions <- HostVersions
  TmpNames <- HostTmpNames
  Jobs <- HostJobs
  MaxRetries = 3
  MaxCrashes = 1
  Images = {"v1", "v2", "v3"}
  Broken = {"v2"}
  Managed = TRUE
  MaxUpdates = 2
  MaxCuts = 1
  MaxIdentity = 2
  MaxDeaths = 1
  MaxMeets = 1
  MaxPieces = 3
  MaxLines = 7
  LogMax = 2
  Backups = 2
  MaxRotateFails = 2
SPECIFICATION FleetSpec
INVARIANTS
  EnrolmentInv
  ServerViewInv
  HostJobsInv
  HostInv
PROPERTIES
  FleetConverges
  ActiveWorkSurvives
  RollbackNeedsSilence
  IdentityStays
  AgentComesBack
CHECK_DEADLOCK FALSE
