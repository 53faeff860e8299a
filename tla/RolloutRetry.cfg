SPECIFICATION Spec
CONSTANTS
  h1 = h1
  h2 = h2
  Hosts = {h1}
  NBatches = 1
  BatchOf <- Together
  MaxCmd = 2
  Kind = "upgrade"
  Threshold = 0
  AutoPromote = TRUE
  AutoRollback = TRUE
  Speaks <- SignedPath
  Quiet = {h1}
  Ops = {"start", "promote", "pause", "cancel", "retry"}
  MaxRetry = 1
  QueueExpires = TRUE
  Ties = FALSE
  MaxAborts = 1
  MaxReadErr = 1
INVARIANTS NoOrphanHost CanceledIsStopped
PROPERTIES ResultIsCurrent CommandSettles HostsObeyCommands
