SPECIFICATION FairSpec
CONSTANTS
  s1 = s1
  s2 = s2
  t1 = t1
  None = None
  Addrs = {s1, s2}
  Installed <- Two
  DefaultServerURL = s1
  Overrides = {}
  Cmds = {m1, m2, m3}
  MaxPending = 2
  MaxFlush = 1
  MaxRestarts = 1
  MaxOutages = 1
  MaxDbOutages = 0
  MaxSettings = 1
INVARIANT ResultsSurvive
PROPERTY ResultsArrive
