SPECIFICATION Spec
CONSTANTS
  h1 = h1
  h2 = h2
  Hosts = {h1, h2}
  NBatches = 2
  BatchOf <- OneEach
  MaxCmd = 2
  Kind = "upgrade"
  Threshold = 100
  AutoPromote = TRUE
  AutoRollback = FALSE
  Speaks <- Current
  Quiet = {}
  Ops = {"retry"}
  MaxRetry = 1
  QueueExpires = FALSE
  Ties = FALSE
  MaxAborts = 0
  MaxReadErr = 0
INVARIANT FinishedIsComplete
