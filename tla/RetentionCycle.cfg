SPECIFICATION Spec
CONSTANTS
  None = None
  EventsDays = 1
  BackupDays = 1
  KeepMinimum = 1
  MaxRowsPerRun = 1
  LastDay = 3
  MaxRestores = 2
  MaxFaults = 1
INVARIANTS
  ReceiptWritten
PROPERTIES
  PrunedIsKept
  RestoreExact
