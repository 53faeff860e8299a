SPECIFICATION FairSpec
CONSTANTS
  h1 = h1
  h2 = h2
  Hosts = {h1, h2}
  NBatches = 2
  BatchOf <- OneEach
  MaxCmd = 1
  Kind = "upgrade"
  Threshold = 100
  AutoPromote = TRUE
  AutoRollback = TRUE
  Speaks <- Current
  Quiet = {}
  Ops = {}
  MaxRetry = 0
  QueueExpires = FALSE
  Ties = FALSE
  MaxAborts = 1
  MaxReadErr = 0
PROPERTIES TaskEnds MaintenanceEnds
