SPECIFICATION Spec
CONSTANTS
  u1 = u1
  u2 = u2
  c1 = c1
  c2 = c2
  c3 = c3
  a = a
  b = b
  Ids = {1, 2}
  Users = {u1, u2}
  Calls = {c1, c2, c3}
  Caller <- CallerOf
  Requests <- Lists
  Replicas <- Servers
  Chunk = 1
  MaxJobs = 2
  MaxFaults = 1
  MaxReopens = 1
SYMMETRY Alike
INVARIANTS Accounts CountsRealDeletes OneOpenJob
PROPERTIES OnlyIdleTasksGo CancelHolds
CHECK_DEADLOCK FALSE
