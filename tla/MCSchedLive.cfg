SPECIFICATION FairSpec
CONSTANTS
  j1 = j1
  j2 = j2
  r1 = r1
  r2 = r2
  r3 = r3
  NoRun = NoRun
  Jobs = {j1, j2}
  RunIds = {r1, r2}
  Limit = 2
  Threshold = 1
  MaxChanges = 0
  MaxFaults = 0
  MaxWaiting = 2
  Env = {"maintenance", "stop"}
PROPERTIES DueJobIsServed StopCompletes
