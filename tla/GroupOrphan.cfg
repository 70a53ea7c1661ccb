SPECIFICATION Spec
CONSTANTS
  MaxTiles = 2
  ReportStatuses = {}
  RestoredTiles = 0
  RestoredOverflow = 0
  MaxPanes = 3
  MaxOverflow = 1
  MaxTerminals = 3
  MaxExternal = 0
  MaxRestarts = 0
  MaxHeld = 0
  Nested = FALSE
INVARIANTS
  NoOrphanedWorker
CHECK_DEADLOCK FALSE
