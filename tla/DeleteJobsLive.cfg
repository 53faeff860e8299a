SPECIFICATION FairSpec
CONSTANTS
  u1 = u1
  u2 = u2
  c1 = c1
  c2 = c2
  c3 = c3
  a = a
  b = b
  Ids = {1, 2, 3}
  Users = {u1, u2}
  Calls = {c1}
  Caller <- OneCaller
  Requests <- Longer
  Replicas <- Servers
  Chunk = 2
  MaxJobs = 2
  MaxFaults = 1
  MaxReopens = 0
PROPERTIES JobsEnd
CHECK_DEADLOCK FALSE
