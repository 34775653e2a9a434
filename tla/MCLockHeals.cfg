SPECIFICATION FairSpec
CONSTANTS
  p1 = p1
  p2 = p2
  p3 = p3
  p4 = p4
  a = a
  b = b
  None = None
  Procs = {p1, p2, p3}
  HostOf <- TwoHosts
  MaxMisses = 3
  StaleAge = 6
  Drain = 2
  Env = {"torn", "orphan", "force", "miss", "crash", "release"}
PROPERTY SplitBrainHeals
