SPECIFICATION MigSpec
CONSTANTS
  MaxVersion = 3
  LookupVersion = 2
  Absent = Absent
  MaxFailures = 1
  MaxRows = 1
INVARIANT FailedMigrationStopsBoot
