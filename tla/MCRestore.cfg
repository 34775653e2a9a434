SPECIFICATION Spec
CONSTANTS
  r1 = r1
  r2 = r2
  s1 = s1
  Absent = Absent
  Bad = Bad
  NoWal = NoWal
  None = None
  Rows = {r1, r2}
  Searches = {s1}
  Retain <- Retained
  Env = {"lost"}
  MaxBackups = 3
  MaxFaults = 2
INVARIANTS CommitsSurvive RollbackKept
PROPERTIES FailedRestoreIsHarmless ReplacedOnlyWhenDue
