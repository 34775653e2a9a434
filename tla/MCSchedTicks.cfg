SPECIFICATION Spec
CONSTANTS
  j1 = j1
  j2 = j2
  r1 = r1
  r2 = r2
  r3 = r3
  NoRun = NoRun
  Jobs = {j1, j2}
  RunIds = {r1, r2, r3}
  Limit = 1
  Threshold = 2
  MaxChanges = 1
  MaxFaults = 0
  MaxWaiting = 3
  Env = {"maintenance", "owner", "delete", "crash", "stop"}
SYMMETRY Interchangeable
INVARIANTS SourceErrorOncePerStreak NoOrphanRow StopDrainsRuns
