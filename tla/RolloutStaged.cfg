SPECIFICATION Spec
CONSTANTS
  h1 = h1
  h2 = h2
  Hosts = {h1, h2}
  NBatches = 2
  BatchOf <- OneEach
  MaxCmd = 1
  Kind = "upgrade"
  Threshold = 0
  AutoPromote = FALSE
  AutoRollback = TRUE
  Speaks <- Current
  Quiet = {}
  Ops = {"start", "promote", "pause", "cancel"}
  MaxRetry = 0
  QueueExpires = TRUE
  Ties = FALSE
  MaxAborts = 1
  MaxReadErr = 0
INVARIANTS FinishedIsComplete VerdictIsHonest
PROPERTIES BatchesInOrder OperatorPromotes
