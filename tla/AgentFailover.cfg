SPECIFICATION FairSpec
CONSTANTS
  s1 = s1
  s2 = s2
  t1 = t1
  None = None
  Addrs = {s1, s2, t1}
  Installed <- Two
  DefaultServerURL = s1
  Overrides = {s2, t1}
  Cmds = {}
  MaxPending = 2
  MaxFlush = 1
  MaxRestarts = 1
  MaxOutages = 2
  MaxDbOutages = 1
  MaxSettings = 2
INVARIANT AppliedIsCurrent
PROPERTY HearsServer
